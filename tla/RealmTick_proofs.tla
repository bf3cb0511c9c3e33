-------------------------- MODULE RealmTick_proofs --------------------------
(***************************************************************************)
(* What the tick scheduler guarantees for every number of profiles,        *)
(* concurrent rounds, windows, story moves and faults.                     *)
(*                                                                         *)
(* That a window is lived once rests on the synchronous turn: only one     *)
(* round is in it (OneTurn), so between the check of the last tick and the *)
(* mark nothing else changes the mark of the first profile.  A window that *)
(* has used up its chances (Spent) is either the marked one, or about to   *)
(* be marked, or past and not to be visited again.                         *)
(***************************************************************************)
EXTENDS RealmTick, TLAPS

OneTurn ==
  \A r, s \in Rounds :
    round[r].stage \in Turn /\ round[s].stage \in Turn => r = s

\* A round that is at a profile is at one that exists.
AtAProfile ==
  \A r \in Rounds :
    round[r].stage \in {"plot", "mark"} \cup Waiting
      => round[r].next \in Profiles

LivedBeforeMark ==
  \A r \in Rounds :
    round[r].stage = "mark" => plots[round[r].next][round[r].window] > 0

\* No window is lived, or looked at, before its time.
NotYet ==
  /\ \A w \in Windows : w > clock => plots[1][w] = 0
  /\ \A r \in Rounds : round[r].window <= clock

\* The turn that has begun with the first profile is the newest.
AtFirst(r) == round[r].stage \in Turn /\ round[r].next = 1
Newest ==
  \A r \in Rounds : AtFirst(r) =>
    \A w \in Windows : w > round[r].window => plots[1][w] = 0

ChanceLeft ==
  \A r \in Rounds : AtFirst(r) /\ round[r].stage = "plot"
    => plots[1][round[r].window] < Chances(1)

Spent(w) == plots[1][w] = Chances(1)
BeingMarked(w) ==
  \E r \in Rounds : AtFirst(r) /\ round[r].stage = "mark" /\ round[r].window = w
ToBeVisited(w) ==
  \E r \in Rounds : AtFirst(r) /\ round[r].stage = "visit" /\ round[r].window = w
SpentIsOver ==
  \A w \in Windows : Spent(w) =>
    \/ lastTick[1] = Slot(w)
    \/ BeingMarked(w)
    \/ w < clock /\ ~ToBeVisited(w)

IInv ==
  /\ TypeOK
  /\ OneTurn
  /\ AtAProfile
  /\ LivedBeforeMark
  /\ MarkedMeansLived
  /\ NotYet
  /\ Newest
  /\ ChanceLeft
  /\ OnceUnlessInterrupted
  /\ SpentIsOver
-----------------------------------------------------------------------------
(* Lemmas about the operators *)

LEMMA SlotIsSlot == \A w \in Windows : Slot(w) \in Slots
BY DEF Slots

LEMMA AfterIsStage ==
  \A stage, w : After(stage, w) \in {"reflection", "proactive", "visit"}
BY DEF After

LEMMA ConstantTypes == NoRound \in Round
BY TickAssumption DEF NoRound, Round, Windows

LEMMA FirstProfile == 1 \in Profiles /\ Profiles \subseteq Nat
BY TickAssumption DEF Profiles

\* The steps of a round that leave the other rounds alone.
LEMMA StepCases ==
  ASSUME [Next]_vars
  PROVE  \/ \E r \in Rounds : \/ Start(r) \/ Visit(r) \/ Plot(r) \/ Mark(r)
                              \/ Answered(r) \/ StorageFails(r)
         \/ \E p \in Profiles : StoryMoves(p)
         \/ CrashAndRestart
         \/ TimePasses \/ ModelConfigured
         \/ UNCHANGED vars
BY DEF Next, Boot, TimerFires, Step
-----------------------------------------------------------------------------
(* Types *)

LEMMA TypeInit == Init => TypeOK
<1> SUFFICES ASSUME Init PROVE TypeOK
  OBVIOUS
<1>1. clock \in Windows /\ faults \in 0 .. MaxFaults
  BY TickAssumption DEF Init, Windows
<1>2. NoTick \in Slots
  BY DEF Slots
<1>3. model \in BOOLEAN /\ cut \in [Profiles -> SUBSET Windows]
  BY DEF Init
<1>4. /\ generation \in [Profiles -> Nat] /\ rewinds \in [Profiles -> Nat]
      /\ saved \in [Profiles -> SUBSET Slots]
  BY DEF Init
<1> QED BY <1>1, <1>2, <1>3, <1>4, ConstantTypes DEF Init, TypeOK

\* A round changed in place, and a window lived, keep their types.
LEMMA GoesType ==
  ASSUME TypeOK, NEW r \in Rounds, NEW stage \in {"idle"} \cup Turn \cup Waiting,
         Goes(r, stage)
  PROVE  round' \in [Rounds -> Round]
<1>1. round[r] \in Round
  BY DEF TypeOK
<1>2. [round[r] EXCEPT !.stage = stage] \in Round
  BY <1>1 DEF Round
<1> QED BY <1>2 DEF Goes, TypeOK

LEMMA GoesKeeps ==
  ASSUME TypeOK, NEW r \in Rounds, NEW stage, Goes(r, stage)
  PROVE  /\ round'[r].stage = stage
         /\ round'[r].window = round[r].window
         /\ round'[r].next = round[r].next
         /\ round'[r].generation = round[r].generation
<1>1. round[r] \in Round
  BY DEF TypeOK
<1> QED BY <1>1 DEF TypeOK, Goes, Round

LEMMA OnwardType ==
  ASSUME TypeOK, NEW r \in Rounds, round[r].next \in Profiles, Onward(r)
  PROVE  /\ round' \in [Rounds -> Round]
         /\ round'[r].stage = "visit"
         /\ round'[r].window = round[r].window
         /\ round'[r].next = round[r].next + 1
<1>1. round[r] \in Round /\ round[r].next + 1 \in 1 .. NumProfiles + 1
  BY TickAssumption DEF TypeOK, Profiles
<1> DEFINE on == [round[r] EXCEPT !.stage = "visit", !.next = @ + 1, !.generation = 0]
<1>2. /\ on \in Round /\ on.stage = "visit" /\ on.window = round[r].window
      /\ on.next = round[r].next + 1
  BY <1>1 DEF Round, Turn
<1>3. round' = [round EXCEPT ![r] = on]
  BY DEF Onward
<1> QED BY <1>2, <1>3 DEF TypeOK

LEMMA BeginsType ==
  ASSUME TypeOK, NEW r \in Rounds, round[r].next \in Profiles, Begins(r)
  PROVE  /\ round' \in [Rounds -> Round]
         /\ round'[r].stage = "plot"
         /\ round'[r].window = round[r].window
         /\ round'[r].next = round[r].next
         /\ round'[r].generation = generation[round[r].next]
<1>1. round[r] \in Round /\ generation[round[r].next] \in Nat
  BY DEF TypeOK
<1> DEFINE on == [round[r] EXCEPT !.stage = "plot",
                                  !.generation = generation[round[r].next]]
<1>2. /\ on \in Round /\ on.stage = "plot" /\ on.window = round[r].window
      /\ on.next = round[r].next /\ on.generation = generation[round[r].next]
  BY <1>1 DEF Round, Turn
<1>3. round' = [round EXCEPT ![r] = on]
  BY DEF Begins
<1> QED BY <1>2, <1>3 DEF TypeOK

\* Where a mark leaves the round, and what it cuts short.
LEMMA TellsType ==
  ASSUME TypeOK, AtAProfile, NEW r \in Rounds, round[r].stage = "mark", Tells(r)
  PROVE  /\ round' \in [Rounds -> Round]
         /\ round'[r].window = round[r].window
         /\ \/ /\ cut' = cut
               /\ Goes(r, "narratives")
               /\ round'[r].stage = "narratives" /\ round'[r].next = round[r].next
            \/ /\ cut' = [cut EXCEPT ![round[r].next] = @ \cup {round[r].window}]
               /\ round'[r].stage = "visit" /\ round'[r].next = round[r].next + 1
<1>1. round[r].next \in Profiles /\ round[r] \in Round
  BY DEF AtAProfile, TypeOK
<1>2. CASE Goes(r, "narratives") /\ UNCHANGED cut
  <2>1. round' \in [Rounds -> Round]
    BY <1>2, GoesType DEF Waiting
  <2>2. /\ round'[r].stage = "narratives" /\ round'[r].window = round[r].window
        /\ round'[r].next = round[r].next
    BY <1>1, <1>2 DEF Goes, TypeOK, Round
  <2> QED BY <1>2, <2>1, <2>2
<1>3. CASE Onward(r) /\ cut' = [cut EXCEPT ![round[r].next] = @ \cup {round[r].window}]
  BY <1>1, <1>3, OnwardType
<1> QED BY <1>2, <1>3 DEF Tells

LEMMA PlottedType ==
  ASSUME TypeOK, AtAProfile, NEW r \in Rounds, round[r].stage = "plot", Plotted(r)
  PROVE  plots' \in [Profiles -> [Windows -> Nat]]
<1>1. round[r].next \in Profiles
  BY DEF AtAProfile
<1>2. round[r].window \in Windows
  BY DEF TypeOK, Round
<1>3. plots[round[r].next][round[r].window] + 1 \in Nat
  BY <1>1, <1>2 DEF TypeOK
<1>4. [plots[round[r].next] EXCEPT ![round[r].window] = @ + 1] \in [Windows -> Nat]
  BY <1>1, <1>2, <1>3 DEF TypeOK
<1> QED BY <1>1, <1>4 DEF Plotted, TypeOK

LEMMA TypeNext == TypeOK /\ AtAProfile /\ [Next]_vars => TypeOK'
<1> SUFFICES ASSUME TypeOK, AtAProfile, [Next]_vars PROVE TypeOK'
  OBVIOUS
<1>1. ASSUME NEW r \in Rounds, Start(r) PROVE TypeOK'
  <2>1. [NoRound EXCEPT !.stage = "visit", !.window = clock] \in Round
    BY ConstantTypes DEF TypeOK, Round, Turn
  <2>2. round' \in [Rounds -> Round]
    BY <1>1, <2>1 DEF TypeOK, Start
  <2> QED BY <1>1, <2>2 DEF TypeOK, Start, story
<1>2. ASSUME NEW r \in Rounds, Visit(r) PROVE TypeOK'
  <2>1. round[r].next > NumProfiles \/ round[r].next \in Profiles
    BY TickAssumption DEF TypeOK, Round, Profiles
  <2>2. round' \in [Rounds -> Round]
    <3>1. CASE round' = [round EXCEPT ![r] = NoRound]
      BY <3>1, ConstantTypes DEF TypeOK
    <3>2. CASE round[r].next \in Profiles /\ Begins(r)
      BY <3>2, BeginsType
    <3>3. CASE round[r].next \in Profiles /\ Onward(r)
      BY <3>3, OnwardType
    <3> QED BY <1>2, <2>1, <3>1, <3>2, <3>3 DEF Visit, Over
  <2> QED BY <1>2, <2>2 DEF TypeOK, Visit, Over, story
<1>3. ASSUME NEW r \in Rounds, Plot(r) PROVE TypeOK'
  <2>1. round' \in [Rounds -> Round]
    BY <1>3, GoesType DEF Plot, Turn
  <2>2. plots' \in [Profiles -> [Windows -> Nat]]
    BY <1>3, PlottedType DEF Plot
  <2> QED BY <1>3, <2>1, <2>2 DEF TypeOK, Plot, story
<1>4. ASSUME NEW r \in Rounds, Mark(r) PROVE TypeOK'
  <2>1. round' \in [Rounds -> Round]
    BY <1>4, TellsType DEF Mark
  <2>2. Slot(round[r].window) \in Slots /\ round[r].window \in Windows
    BY SlotIsSlot DEF TypeOK, Round
  <2>3. cut' \in [Profiles -> SUBSET Windows]
    BY <1>4, <2>2, TellsType DEF Mark, TypeOK
  <2> QED BY <1>4, <2>1, <2>2, <2>3 DEF TypeOK, Mark, story
<1>5. ASSUME NEW r \in Rounds, Answered(r) PROVE TypeOK'
  <2>1. round[r].next \in Profiles
    BY <1>5 DEF Answered, AtAProfile
  <2>2. After(round[r].stage, round[r].window) \in {"idle"} \cup Turn \cup Waiting
    BY AfterIsStage DEF Turn, Waiting
  <2>3. round' \in [Rounds -> Round]
    BY <1>5, <2>1, <2>2, GoesType, OnwardType DEF Answered
  <2>4. told' \in [Profiles -> [Windows -> SUBSET Waiting]]
    <3>1. round[r].stage \in Waiting
      BY <1>5 DEF Answered
    <3>2. told' = told \/ told' = [told EXCEPT ![round[r].next] =
            [told[round[r].next] EXCEPT ![round[r].window] = @ \cup {round[r].stage}]]
      BY <1>5 DEF Answered
    <3>3. round[r].window \in Windows
      BY DEF TypeOK, Round
    <3>4. [told[round[r].next] EXCEPT ![round[r].window] = @ \cup {round[r].stage}]
            \in [Windows -> SUBSET Waiting]
      BY <2>1, <3>1, <3>3 DEF TypeOK
    <3> HIDE DEF Waiting
    <3> QED BY <2>1, <3>2, <3>4 DEF TypeOK
  <2> QED BY <1>5, <2>3, <2>4 DEF TypeOK, Answered, story
<1>6. ASSUME NEW r \in Rounds, StorageFails(r) PROVE TypeOK'
  <2>1. faults' \in 0 .. MaxFaults
    BY <1>6, TickAssumption DEF TypeOK, StorageFails, Fault
  <2>2. plots' \in [Profiles -> [Windows -> Nat]]
    BY <1>6, PlottedType DEF TypeOK, StorageFails
  <2>3. lastTick' \in [Profiles -> Slots]
    <3>1. Slot(round[r].window) \in Slots
      BY SlotIsSlot DEF TypeOK, Round
    <3> QED BY <1>6, <3>1 DEF TypeOK, StorageFails
  <2>4. round' \in [Rounds -> Round]
    BY <1>6, ConstantTypes DEF TypeOK, StorageFails, Over
  <2> QED BY <1>6, <2>1, <2>2, <2>3, <2>4 DEF TypeOK, StorageFails, Over, story
<1>7. CASE CrashAndRestart
  <2>1. faults' \in 0 .. MaxFaults
    BY <1>7, TickAssumption DEF TypeOK, CrashAndRestart, Fault
  <2>2. round' \in [Rounds -> Round]
    BY <1>7, ConstantTypes DEF CrashAndRestart
  <2> QED BY <1>7, <2>1, <2>2 DEF TypeOK, CrashAndRestart, story
<1>8. CASE TimePasses \/ ModelConfigured
  BY <1>8 DEF TypeOK, TimePasses, ModelConfigured, story
<1>9. CASE UNCHANGED vars
  BY <1>9 DEF TypeOK, vars, story
<1>10. ASSUME NEW p \in Profiles, StoryMoves(p) PROVE TypeOK'
  <2>1. Interrupted(p) \subseteq Windows
    BY DEF Interrupted, TypeOK, Round
  <2>2. tickState' \in [Profiles -> Slots] /\ lastTick' \in [Profiles -> Slots]
    BY <1>10 DEF TypeOK, StoryMoves
  <2>3. /\ generation' \in [Profiles -> Nat] /\ rewinds' \in [Profiles -> Nat]
        /\ saved' \in [Profiles -> SUBSET Slots]
    BY <1>10 DEF TypeOK, StoryMoves
  <2>4. cut' \in [Profiles -> SUBSET Windows]
    BY <1>10, <2>1 DEF TypeOK, StoryMoves
  <2> QED BY <1>10, <2>2, <2>3, <2>4 DEF TypeOK, StoryMoves
<1> QED BY <1>1, <1>2, <1>3, <1>4, <1>5, <1>6, <1>7, <1>8, <1>9, <1>10, StepCases
-----------------------------------------------------------------------------
(* What a step does to the rounds, and to the plots *)

\* Every step that is a round's own leaves the other rounds as they are.
LEMMA OthersStay ==
  ASSUME TypeOK, NEW r \in Rounds,
         Start(r) \/ Visit(r) \/ Plot(r) \/ Mark(r) \/ Answered(r) \/ StorageFails(r)
  PROVE  \A s \in Rounds \ {r} : round'[s] = round[s]
BY DEF TypeOK, Start, Visit, Plot, Mark, Answered, StorageFails, Over, Goes, Onward,
       Begins, Tells

LEMMA StartEffect ==
  ASSUME TypeOK, NEW r \in Rounds, Start(r)
  PROVE  /\ round'[r].stage = "visit" /\ round'[r].window = clock /\ round'[r].next = 1
         /\ \A s \in Rounds : round[s].stage \notin Turn
BY DEF TypeOK, Start, Busy, NoRound

LEMMA VisitEffect ==
  ASSUME TypeOK, NEW r \in Rounds, Visit(r)
  PROVE  /\ round[r].stage = "visit"
         /\ \/ round'[r] = NoRound
            \/ /\ round'[r].stage = "visit"
               /\ round'[r].window = round[r].window
               /\ round'[r].next = round[r].next + 1
            \/ /\ round'[r].stage = "plot"
               /\ round'[r].window = round[r].window
               /\ round'[r].next = round[r].next
               /\ round[r].next \in Profiles
               /\ lastTick[round[r].next] # Slot(round[r].window)
<1>1. round[r].next \in Profiles \/ round[r].next > NumProfiles
  BY TickAssumption DEF TypeOK, Round, Profiles
<1>2. CASE round' = [round EXCEPT ![r] = NoRound]
  BY <1>2 DEF TypeOK, Visit
<1>3. CASE round[r].next \in Profiles /\ Onward(r)
  BY <1>3, OnwardType DEF Visit
<1>4. CASE /\ round[r].next \in Profiles /\ Begins(r)
           /\ lastTick[round[r].next] # Slot(round[r].window)
  BY <1>4, BeginsType DEF Visit
<1>5. /\ round[r].stage = "visit"
      /\ \/ round' = [round EXCEPT ![r] = NoRound]
         \/ /\ ~(round[r].next > NumProfiles)
            /\ \/ Onward(r)
               \/ Begins(r) /\ lastTick[round[r].next] # Slot(round[r].window)
  BY DEF Visit, Over
<1> QED BY <1>1, <1>2, <1>3, <1>4, <1>5

LEMMA MarkEffect ==
  ASSUME TypeOK, AtAProfile, NEW r \in Rounds, Mark(r)
  PROVE  /\ round[r].stage = "mark" /\ round[r].next \in Profiles
         /\ round'[r].window = round[r].window
         /\ \/ round'[r].stage = "narratives" /\ round'[r].next = round[r].next
            \/ round'[r].stage = "visit" /\ round'[r].next = round[r].next + 1
BY TellsType DEF Mark, AtAProfile

\* The answer counts and the next stage begins, or it is discarded.
LEMMA AnsweredTells ==
  ASSUME TypeOK, AtAProfile, NEW r \in Rounds, Answered(r)
  PROVE  \/ /\ round[r].generation = generation[round[r].next]
            /\ told' = [told EXCEPT ![round[r].next] = [told[round[r].next] EXCEPT
                          ![round[r].window] = @ \cup {round[r].stage}]]
            /\ round'[r].stage = After(round[r].stage, round[r].window)
            /\ \/ round'[r].stage # "visit" /\ Goes(r, round'[r].stage)
               \/ round'[r].stage = "visit" /\ Onward(r)
         \/ /\ round[r].generation # generation[round[r].next]
            /\ told' = told
            /\ Onward(r) /\ round'[r].stage = "visit"
<1> DEFINE stage == After(round[r].stage, round[r].window)
<1>1. round[r].next \in Profiles
  BY DEF Answered, AtAProfile
<1>2. CASE round[r].generation = generation[round[r].next]
  <2>1. told' = [told EXCEPT ![round[r].next] = [told[round[r].next] EXCEPT
                   ![round[r].window] = @ \cup {round[r].stage}]]
    BY <1>2 DEF Answered
  <2>2. IF stage = "visit" THEN Onward(r) ELSE Goes(r, stage)
    BY <1>2 DEF Answered
  <2>3. stage \in {"reflection", "proactive", "visit"}
    BY AfterIsStage
  <2> HIDE DEF stage
  <2>4. round'[r].stage = stage
    <3>1. Goes(r, stage) => round'[r].stage = stage
      BY DEF Goes, TypeOK, Round
    <3>2. Onward(r) => round'[r].stage = "visit"
      BY <1>1, OnwardType
    <3> QED BY <2>2, <3>1, <3>2
  <2>5. \/ round'[r].stage # "visit" /\ Goes(r, round'[r].stage)
        \/ round'[r].stage = "visit" /\ Onward(r)
    BY <2>2, <2>4
  <2> QED BY <1>2, <2>1, <2>4, <2>5 DEF stage
<1>3. CASE round[r].generation # generation[round[r].next]
  <2>1. Onward(r) /\ told' = told
    BY <1>3 DEF Answered
  <2> QED BY <1>1, <1>3, <2>1, OnwardType
<1> QED BY <1>2, <1>3

LEMMA AnsweredEffect ==
  ASSUME TypeOK, AtAProfile, NEW r \in Rounds, Answered(r)
  PROVE  /\ \A s \in Rounds : round[s].stage \notin Turn
         /\ round'[r].window = round[r].window
         /\ round[r].next \in Profiles
         /\ \/ round'[r].stage \in Waiting /\ round'[r].next = round[r].next
            \/ round'[r].stage = "visit" /\ round'[r].next = round[r].next + 1
<1>1. /\ \A s \in Rounds : round[s].stage \notin Turn
      /\ round[r].next \in Profiles
  BY DEF Answered, Busy, AtAProfile
<1>2. CASE Onward(r)
  BY <1>1, <1>2, OnwardType
<1>3. CASE ~Onward(r)
  <2>1. /\ Goes(r, round'[r].stage)
        /\ round'[r].stage = After(round[r].stage, round[r].window)
        /\ round'[r].stage # "visit"
    BY <1>3, AnsweredTells
  <2>2. round'[r].stage \in Waiting
    BY <2>1, AfterIsStage DEF Waiting
  <2>3. round'[r].window = round[r].window /\ round'[r].next = round[r].next
    BY <2>1, GoesKeeps
  <2> QED BY <1>1, <2>2, <2>3
<1> QED BY <1>2, <1>3

LEMMA PlottedEffect ==
  ASSUME TypeOK, AtAProfile, NEW r \in Rounds, round[r].stage = "plot", Plotted(r)
  PROVE  \A p \in Profiles, w \in Windows :
           plots'[p][w] = IF p = round[r].next /\ w = round[r].window
                          THEN plots[p][w] + 1 ELSE plots[p][w]
<1>1. round[r].next \in Profiles /\ round[r].window \in Windows
  BY DEF AtAProfile, TypeOK, Round
<1>2. plots' = [plots EXCEPT ![round[r].next] =
                  [plots[round[r].next] EXCEPT ![round[r].window] = @ + 1]]
  BY DEF Plotted
<1> QED BY <1>1, <1>2 DEF TypeOK

LEMMA FailsEffect ==
  ASSUME TypeOK, AtAProfile, NEW r \in Rounds, StorageFails(r)
  PROVE  /\ round'[r] = NoRound
         /\ faults' = faults + 1
         /\ tickState' = tickState
         /\ clock' = clock
         /\ \/ /\ round[r].stage = "plot"
               /\ Plotted(r)
               /\ lastTick' = lastTick
            \/ /\ plots' = plots
               /\ lastTick' = lastTick
            \/ /\ plots' = plots
               /\ round[r].stage = "mark"
               /\ round[r].next \in Profiles
               /\ lastTick' = [lastTick EXCEPT ![round[r].next] = Slot(round[r].window)]
<1>1. round[r].stage = "mark" => round[r].next \in Profiles
  BY DEF AtAProfile
<1>2. round'[r] = NoRound
  BY DEF TypeOK, StorageFails, Over
<1> QED BY <1>1, <1>2 DEF StorageFails, Fault
-----------------------------------------------------------------------------
(* The turn *)

LEMMA TurnNext ==
  ASSUME TypeOK, OneTurn, AtAProfile, [Next]_vars
  PROVE  OneTurn' /\ AtAProfile'
<1>1. ASSUME NEW r \in Rounds,
             Start(r) \/ Visit(r) \/ Plot(r) \/ Mark(r) \/ Answered(r) \/ StorageFails(r)
      PROVE  OneTurn' /\ AtAProfile'
  <2>1. \A s \in Rounds \ {r} : round'[s] = round[s]
    BY <1>1, OthersStay
  <2>2. round'[r].stage \in Turn =>
          round[r].stage \in Turn \/ \A s \in Rounds : round[s].stage \notin Turn
    <3>1. CASE Start(r)
      BY <3>1, StartEffect
    <3>2. CASE Visit(r)
      BY <3>2, VisitEffect DEF Turn
    <3>3. CASE Plot(r)
      BY <3>3 DEF Plot, Turn
    <3>4. CASE Mark(r)
      BY <3>4 DEF Mark, Turn
    <3>5. CASE Answered(r)
      BY <3>5, AnsweredEffect
    <3>6. CASE StorageFails(r)
      BY <3>6, FailsEffect DEF NoRound, Turn
    <3> QED BY <1>1, <3>1, <3>2, <3>3, <3>4, <3>5, <3>6
  <2>3. round'[r].stage \in {"plot", "mark"} \cup Waiting => round'[r].next \in Profiles
    <3>1. CASE Start(r)
      BY <3>1, StartEffect DEF Waiting
    <3>2. CASE Visit(r)
      BY <3>2, VisitEffect DEF NoRound, Waiting
    <3>3. CASE Plot(r)
      BY <3>3, GoesKeeps DEF Plot, AtAProfile
    <3>4. CASE Mark(r)
      BY <3>4, MarkEffect DEF Waiting
    <3>5. CASE Answered(r)
      BY <3>5, AnsweredEffect DEF Waiting
    <3>6. CASE StorageFails(r)
      BY <3>6, FailsEffect DEF NoRound, Waiting
    <3> QED BY <1>1, <3>1, <3>2, <3>3, <3>4, <3>5, <3>6
  <2>4. OneTurn'
    BY <2>1, <2>2 DEF OneTurn
  <2>5. AtAProfile'
    BY <2>1, <2>3 DEF AtAProfile
  <2> QED BY <2>4, <2>5
<1>2. CASE CrashAndRestart
  BY <1>2 DEF CrashAndRestart, NoRound, OneTurn, AtAProfile, Turn, Waiting
<1>3. CASE round' = round
  BY <1>3 DEF OneTurn, AtAProfile
<1> QED BY <1>1, <1>2, <1>3, StepCases DEF StoryMoves, TimePasses, ModelConfigured, vars
-----------------------------------------------------------------------------
(* Lived before marked *)

LEMMA LivedNext ==
  ASSUME TypeOK, AtAProfile, LivedBeforeMark, MarkedMeansLived, [Next]_vars
  PROVE  LivedBeforeMark' /\ MarkedMeansLived'
<1> DEFINE Grows == \A p \in Profiles, w \in Windows : plots[p][w] > 0 => plots'[p][w] > 0
<1>1. ASSUME NEW r \in Rounds,
             Start(r) \/ Visit(r) \/ Plot(r) \/ Mark(r) \/ Answered(r) \/ StorageFails(r)
      PROVE  LivedBeforeMark' /\ MarkedMeansLived'
  <2>1. \A s \in Rounds \ {r} : round'[s] = round[s]
    BY <1>1, OthersStay
  <2>2. \A s \in Rounds : round[s].window \in Windows /\ round[s].next \in 1 .. NumProfiles + 1
    BY DEF TypeOK, Round
  <2>3. plots' = plots \/ (round[r].stage = "plot" /\ Plotted(r))
    BY <1>1, FailsEffect DEF Start, Visit, Plot, Mark, Answered
  <2>4. Grows
    <3>1. \A p \in Profiles, w \in Windows : plots[p][w] \in Nat
      BY DEF TypeOK
    <3> QED BY <2>3, <3>1, PlottedEffect
  <2>5. round'[r].stage = "mark" => plots'[round'[r].next][round'[r].window] > 0
    <3>1. CASE Start(r)
      BY <3>1, StartEffect
    <3>2. CASE Visit(r)
      BY <3>2, VisitEffect DEF NoRound
    <3>3. CASE Plot(r)
      <4>1. round[r].next \in Profiles
        BY <3>3 DEF Plot, AtAProfile
      <4>2. plots[round[r].next][round[r].window] \in Nat
        BY <2>2, <4>1 DEF TypeOK
      <4> QED BY <2>2, <3>3, <4>1, <4>2, GoesKeeps, PlottedEffect DEF Plot
    <3>4. CASE Mark(r)
      BY <3>4, MarkEffect
    <3>5. CASE Answered(r)
      BY <3>5, AnsweredEffect DEF Waiting
    <3>6. CASE StorageFails(r)
      BY <3>6, FailsEffect DEF NoRound
    <3> QED BY <1>1, <3>1, <3>2, <3>3, <3>4, <3>5, <3>6
  <2>6. LivedBeforeMark'
    BY <2>1, <2>2, <2>4, <2>5 DEF LivedBeforeMark, AtAProfile
  <2>7. ASSUME NEW p \in Profiles,
               NEW s \in ({tickState'[p], lastTick'[p]} \cup saved'[p]) \ {NoTick}
        PROVE  \E w \in Windows : Slot(w) = s /\ plots'[p][w] > 0
    <3>1. \/ s \in {tickState[p], lastTick[p]} \cup saved[p]
          \/ /\ round[r].stage = "mark"
             /\ p = round[r].next
             /\ s = Slot(round[r].window)
      <4>1. CASE Mark(r)
        BY <2>7, <4>1 DEF Mark, TypeOK, story
      <4>2. CASE StorageFails(r)
        <5>1. saved' = saved
          BY <4>2 DEF StorageFails, story
        <5> QED BY <2>7, <4>2, <5>1, FailsEffect DEF TypeOK
      <4> QED BY <1>1, <2>7, <4>1, <4>2 DEF Start, Visit, Plot, Answered, story
    <3>2. CASE s \in {tickState[p], lastTick[p]} \cup saved[p]
      BY <2>4, <2>7, <3>2 DEF MarkedMeansLived
    <3>3. CASE round[r].stage = "mark" /\ p = round[r].next /\ s = Slot(round[r].window)
      BY <2>2, <2>4, <3>3 DEF LivedBeforeMark
    <3> QED BY <3>1, <3>2, <3>3
  <2> QED BY <2>6, <2>7 DEF MarkedMeansLived
<1>2. CASE CrashAndRestart
  BY <1>2 DEF CrashAndRestart, NoRound, LivedBeforeMark, MarkedMeansLived, story
<1>3. CASE TimePasses \/ ModelConfigured
  BY <1>3 DEF TimePasses, ModelConfigured, LivedBeforeMark, MarkedMeansLived, story
<1>4. CASE UNCHANGED vars
  BY <1>4 DEF vars, LivedBeforeMark, MarkedMeansLived, story
<1>5. ASSUME NEW q \in Profiles, StoryMoves(q)
      PROVE  LivedBeforeMark' /\ MarkedMeansLived'
  <2>1. plots' = plots /\ round' = round
    BY <1>5 DEF StoryMoves
  <2>2. \A p \in Profiles :
          {tickState'[p], lastTick'[p]} \cup saved'[p]
            \subseteq {tickState[p], lastTick[p]} \cup saved[p]
    BY <1>5 DEF StoryMoves, TypeOK
  <2>3. MarkedMeansLived'
    BY <2>1, <2>2 DEF MarkedMeansLived
  <2> QED BY <2>1, <2>3 DEF LivedBeforeMark
<1> QED BY <1>1, <1>2, <1>3, <1>4, <1>5, StepCases
-----------------------------------------------------------------------------
(* Time *)

\* What changes in the first profile's plots: one more of the window that the
\* round in the plot stage has captured, or nothing.
LEMMA FirstPlots ==
  ASSUME TypeOK, AtAProfile, NEW r \in Rounds,
         Start(r) \/ Visit(r) \/ Plot(r) \/ Mark(r) \/ Answered(r) \/ StorageFails(r)
  PROVE  \A w \in Windows :
           \/ plots'[1][w] = plots[1][w]
           \/ /\ AtFirst(r) /\ round[r].stage = "plot" /\ round[r].window = w
              /\ plots'[1][w] = plots[1][w] + 1
<1>1. plots' = plots \/ (round[r].stage = "plot" /\ Plotted(r))
  BY FailsEffect DEF Start, Visit, Plot, Mark, Answered
<1> QED BY <1>1, PlottedEffect, FirstProfile DEF AtFirst, Turn

LEMMA TimeNext ==
  ASSUME TypeOK, OneTurn, AtAProfile, NotYet, Newest, [Next]_vars
  PROVE  NotYet' /\ Newest'
<1> USE FirstProfile
<1>1. ASSUME NEW r \in Rounds,
             Start(r) \/ Visit(r) \/ Plot(r) \/ Mark(r) \/ Answered(r) \/ StorageFails(r)
      PROVE  NotYet' /\ Newest'
  <2>1. \A s \in Rounds \ {r} : round'[s] = round[s]
    BY <1>1, OthersStay
  <2>2. clock' = clock /\ clock \in Nat /\ clock \in Windows
    BY <1>1, FailsEffect DEF Start, Visit, Plot, Mark, Answered, TypeOK, Windows
  <2>3. \A s \in Rounds : round[s].window \in Windows /\ round[s].window \in Nat
    BY DEF TypeOK, Round, Windows
  <2>4. \A w \in Windows : w > clock => plots'[1][w] = 0
    BY <1>1, <2>2, <2>3, FirstPlots DEF NotYet, Windows
  <2>5. round'[r].window <= clock
    <3>1. CASE Start(r)
      BY <2>2, <3>1, StartEffect
    <3>2. CASE Visit(r)
      BY <2>2, <3>2, VisitEffect DEF NoRound, NotYet
    <3>3. CASE Plot(r)
      BY <3>3, GoesKeeps DEF Plot, NotYet
    <3>4. CASE Mark(r)
      BY <3>4, MarkEffect DEF NotYet
    <3>5. CASE Answered(r)
      BY <3>5, AnsweredEffect DEF NotYet
    <3>6. CASE StorageFails(r)
      BY <2>2, <3>6, FailsEffect DEF NoRound
    <3> QED BY <1>1, <3>1, <3>2, <3>3, <3>4, <3>5, <3>6
  <2>6. NotYet'
    BY <2>1, <2>2, <2>4, <2>5 DEF NotYet
  <2>7. AtFirst(r)' => \/ AtFirst(r) /\ round'[r].window = round[r].window
                       \/ Start(r)
    <3>2. CASE Visit(r)
      <4>1. round[r].next \in Nat /\ round[r].next > 0
        BY TickAssumption DEF TypeOK, Round
      <4> QED BY <3>2, <4>1, VisitEffect DEF AtFirst, NoRound, Turn
    <3>3. CASE Plot(r)
      BY <3>3, GoesKeeps DEF Plot, AtFirst, Turn
    <3>4. CASE Mark(r)
      <4>1. round[r].next \in Nat /\ round[r].next > 0
        BY TickAssumption DEF TypeOK, Round
      <4> QED BY <3>4, <4>1, MarkEffect DEF AtFirst, Turn
    <3>5. CASE Answered(r)
      <4>1. round[r].next \in Nat /\ round[r].next > 0
        BY TickAssumption DEF TypeOK, Round
      <4> QED BY <3>5, <4>1, AnsweredEffect DEF AtFirst, Waiting, Turn
    <3>6. CASE StorageFails(r)
      BY <3>6, FailsEffect DEF AtFirst, NoRound, Turn
    <3> QED BY <1>1, <3>2, <3>3, <3>4, <3>5, <3>6
  <2>8. ASSUME NEW s \in Rounds, AtFirst(s)', NEW w \in Windows, w > round'[s].window
        PROVE  plots'[1][w] = 0
    <3>1. CASE s = r /\ Start(r)
      BY <2>2, <2>4, <2>8, <3>1, StartEffect
    <3>2. CASE s = r /\ AtFirst(r) /\ round'[r].window = round[r].window
      <4>1. plots[1][w] = 0 /\ w # round[r].window
        BY <2>3, <2>8, <3>2 DEF Newest, Windows
      <4> QED BY <1>1, <4>1, FirstPlots
    <3>3. CASE s # r
      <4>1. AtFirst(s) /\ plots[1][w] = 0
        BY <2>1, <2>8, <3>3 DEF AtFirst, Newest
      <4>2. ~AtFirst(r)
        BY <3>3, <4>1 DEF OneTurn, AtFirst
      <4> QED BY <1>1, <4>1, <4>2, FirstPlots
    <3> QED BY <2>7, <2>8, <3>1, <3>2, <3>3
  <2> QED BY <2>6, <2>8 DEF Newest
<1>2. CASE CrashAndRestart
  BY <1>2, TickAssumption
     DEF CrashAndRestart, NoRound, NotYet, Newest, AtFirst, Turn, TypeOK, Windows
<1>3. CASE TimePasses
  <2>1. \A r \in Rounds : round[r].window \in Nat
    BY DEF TypeOK, Round, Windows
  <2> QED BY <1>3, <2>1 DEF TimePasses, NotYet, Newest, AtFirst, TypeOK, Windows
<1>4. CASE UNCHANGED <<clock, plots, round>>
  BY <1>4 DEF NotYet, Newest, AtFirst
<1> QED BY <1>1, <1>2, <1>3, <1>4, StepCases DEF StoryMoves, ModelConfigured, vars
-----------------------------------------------------------------------------
(* Chances *)

LEMMA Counts ==
  ASSUME TypeOK
  PROVE  Chances(1) \in Nat \ {0} /\ \A w \in Windows : plots[1][w] \in Nat
BY FirstProfile, TickAssumption DEF TypeOK, Chances

\* A fault, or a move back, gives every window its next chance.
LEMMA FaultNext ==
  ASSUME TypeOK, AtAProfile, OnceUnlessInterrupted, ChanceLeft,
         Chances(1)' = Chances(1) + 1,
         \/ plots' = plots
         \/ \E r \in Rounds : StorageFails(r),
         \A s \in Rounds : round'[s] = round[s] \/ round'[s] = NoRound
  PROVE  OnceUnlessInterrupted' /\ ChanceLeft' /\ SpentIsOver'
<1>1. \A w \in Windows : plots'[1][w] \in Nat /\ plots'[1][w] < Chances(1)'
  <2>1. CASE plots' = plots
    BY <2>1, Counts DEF OnceUnlessInterrupted
  <2>2. ASSUME NEW r \in Rounds, StorageFails(r)
        PROVE  \A w \in Windows : plots'[1][w] \in Nat /\ plots'[1][w] < Chances(1)'
    BY <2>2, FirstPlots, Counts DEF OnceUnlessInterrupted, ChanceLeft
  <2> QED BY <2>1, <2>2
<1>2. \A s \in Rounds : AtFirst(s)' => round'[s].window \in Windows
  BY DEF TypeOK, Round, AtFirst, NoRound, Turn
<1>3. \A w \in Windows : plots'[1][w] <= Chances(1)' /\ plots'[1][w] # Chances(1)'
  BY <1>1, Counts
<1>4. OnceUnlessInterrupted'
  BY <1>3 DEF OnceUnlessInterrupted
<1>5. ChanceLeft'
  BY <1>1, <1>2 DEF ChanceLeft
<1>6. SpentIsOver'
  BY <1>3 DEF SpentIsOver, Spent
<1> QED BY <1>4, <1>5, <1>6

LEMMA FaultCounts ==
  ASSUME TypeOK, Fault, rewinds' = rewinds, NEW p \in Profiles
  PROVE  Chances(p)' = Chances(p) + 1
BY TickAssumption DEF TypeOK, Fault, Chances

\* A step of a round without a fault.
Smooth(r) == Start(r) \/ Visit(r) \/ Plot(r) \/ Mark(r) \/ Answered(r)

LEMMA SmoothNext ==
  ASSUME TypeOK, OneTurn, AtAProfile, NotYet, Newest, OnceUnlessInterrupted,
         ChanceLeft, SpentIsOver, NEW r \in Rounds, Smooth(r)
  PROVE  OnceUnlessInterrupted' /\ ChanceLeft' /\ SpentIsOver'
<1> USE FirstProfile
<1>1. \A s \in Rounds \ {r} : round'[s] = round[s]
  BY OthersStay DEF Smooth
<1>2. Chances(1)' = Chances(1) /\ clock' = clock
  BY DEF Smooth, Start, Visit, Plot, Mark, Answered, story, Chances
<1>3. \A s \in Rounds : round[s].window \in Windows
  BY DEF TypeOK, Round
<1>4. OnceUnlessInterrupted'
  BY <1>2, FirstPlots, Counts DEF Smooth, OnceUnlessInterrupted, ChanceLeft
<1>5. ASSUME NEW s \in Rounds, AtFirst(s)', round'[s].stage = "plot"
      PROVE  plots'[1][round'[s].window] < Chances(1)'
  <2>1. CASE s = r
    <3>1. /\ Visit(r) /\ round[r].stage = "visit"
          /\ round'[r].window = round[r].window
          /\ round'[r].next = round[r].next
          /\ lastTick[1] # Slot(round[r].window)
          /\ plots' = plots
      <4>1. CASE Start(r)
        BY <1>5, <2>1, <4>1, StartEffect
      <4>2. CASE Visit(r)
        BY <1>5, <2>1, <4>2, VisitEffect DEF AtFirst, NoRound, Visit
      <4>3. CASE Plot(r)
        BY <1>5, <2>1, <4>3, GoesKeeps DEF Plot
      <4>4. CASE Mark(r)
        BY <1>5, <2>1, <4>4, MarkEffect
      <4>5. CASE Answered(r)
        BY <1>5, <2>1, <4>5, AnsweredEffect DEF Waiting
      <4> QED BY <4>1, <4>2, <4>3, <4>4, <4>5 DEF Smooth
    <3>2. AtFirst(r)
      BY <1>5, <2>1, <3>1 DEF AtFirst, Turn
    <3>3. ~BeingMarked(round[r].window)
      BY <3>1, <3>2 DEF BeingMarked, OneTurn, AtFirst
    <3>4. ToBeVisited(round[r].window)
      BY <3>1, <3>2 DEF ToBeVisited
    <3>5. ~Spent(round[r].window)
      BY <1>3, <3>1, <3>3, <3>4 DEF SpentIsOver
    <3> QED BY <1>2, <1>3, <2>1, <3>1, <3>5, Counts DEF Spent, OnceUnlessInterrupted
  <2>2. CASE s # r
    <3>1. AtFirst(s) /\ round[s].stage = "plot" /\ round'[s] = round[s]
      BY <1>1, <1>5, <2>2 DEF AtFirst
    <3>2. ~AtFirst(r)
      BY <2>2, <3>1 DEF OneTurn, AtFirst
    <3> QED BY <1>2, <1>3, <3>1, <3>2, FirstPlots DEF Smooth, ChanceLeft
  <2> QED BY <2>1, <2>2
<1>6. ASSUME NEW w \in Windows, Spent(w)'
      PROVE  lastTick'[1] = Slot(w) \/ BeingMarked(w)' \/ (w < clock' /\ ~ToBeVisited(w)')
  <2>1. CASE Start(r)
    <3>1. Spent(w) /\ lastTick' = lastTick /\ ~BeingMarked(w)
      BY <1>2, <1>6, <2>1, StartEffect DEF Start, Spent, BeingMarked, AtFirst
    <3>2. CASE w < clock
      BY <1>1, <1>2, <2>1, <3>1, <3>2, StartEffect
         DEF SpentIsOver, ToBeVisited, AtFirst, TypeOK, Windows
    <3> QED BY <3>1, <3>2 DEF SpentIsOver
  <2>2. CASE Visit(r)
    <3>1. Spent(w) /\ lastTick' = lastTick
      BY <1>2, <1>6, <2>2 DEF Visit, Spent
    <3>2. ~BeingMarked(w) \/ BeingMarked(w)'
      BY <1>1, <2>2, VisitEffect DEF BeingMarked, AtFirst
    <3>3. ToBeVisited(w)' => ToBeVisited(w)
      <4>1. round[r].next \in Nat /\ round[r].next > 0
        BY TickAssumption DEF TypeOK, Round
      <4>2. ~(AtFirst(r)' /\ round'[r].stage = "visit")
        BY <2>2, <4>1, VisitEffect DEF AtFirst, NoRound
      <4> QED BY <1>1, <4>2 DEF ToBeVisited, AtFirst
    <3> QED BY <1>2, <3>1, <3>2, <3>3 DEF SpentIsOver
  <2>3. CASE Plot(r)
    <3>1. /\ lastTick' = lastTick /\ round[r].stage = "plot" /\ round'[r].stage = "mark"
          /\ round'[r].window = round[r].window /\ round'[r].next = round[r].next
      BY <2>3, GoesKeeps DEF Plot
    <3>2. CASE AtFirst(r) /\ round[r].window = w
      BY <3>1, <3>2 DEF BeingMarked, AtFirst, Turn
    <3>3. CASE ~(AtFirst(r) /\ round[r].window = w)
      <4>1. Spent(w)
        BY <1>2, <1>6, <2>3, <3>3, FirstPlots DEF Spent
      <4>2. ~BeingMarked(w) \/ BeingMarked(w)'
        BY <1>1, <3>1 DEF BeingMarked, AtFirst
      <4>3. ToBeVisited(w)' => ToBeVisited(w)
        BY <1>1, <3>1 DEF ToBeVisited, AtFirst
      <4> QED BY <1>2, <3>1, <4>1, <4>2, <4>3 DEF SpentIsOver
    <3> QED BY <3>2, <3>3
  <2>4. CASE Mark(r)
    <3>1. /\ round[r].stage = "mark" /\ plots' = plots /\ Spent(w)
          /\ ~(AtFirst(r)' /\ round'[r].stage \in {"visit", "mark"})
      <4>1. round[r].next \in Nat /\ round[r].next > 0
        BY TickAssumption DEF TypeOK, Round
      <4>2. ~(AtFirst(r)' /\ round'[r].stage \in {"visit", "mark"})
        BY <2>4, <4>1, MarkEffect DEF AtFirst
      <4> QED BY <1>2, <1>6, <2>4, <4>2 DEF Mark, Spent
    <3>2. CASE round[r].next = 1
      <4>1. AtFirst(r) /\ lastTick'[1] = Slot(round[r].window)
        BY <2>4, <3>1, <3>2 DEF AtFirst, Turn, Mark, TypeOK
      <4>2. w = round[r].window \/ w < round[r].window
        BY <1>3, <3>1, <4>1, Counts DEF Newest, Spent, Windows
      <4>3. w < round[r].window => w < clock
        BY <1>3 DEF NotYet, Windows, TypeOK
      <4>4. ~ToBeVisited(w)'
        BY <1>1, <3>1, <4>1 DEF ToBeVisited, AtFirst, OneTurn
      <4> QED BY <1>2, <4>1, <4>2, <4>3, <4>4
    <3>3. CASE round[r].next # 1
      <4>1. lastTick'[1] = lastTick[1]
        BY <2>4, <3>3 DEF Mark, TypeOK
      <4>2. ~BeingMarked(w) \/ BeingMarked(w)'
        BY <1>1, <3>3 DEF BeingMarked, AtFirst
      <4>3. ToBeVisited(w)' => ToBeVisited(w)
        BY <1>1, <3>1 DEF ToBeVisited, AtFirst
      <4> QED BY <1>2, <3>1, <4>1, <4>2, <4>3 DEF SpentIsOver
    <3> QED BY <3>2, <3>3
  <2>5. CASE Answered(r)
    <3>1. Spent(w) /\ lastTick' = lastTick
      BY <1>2, <1>6, <2>5 DEF Answered, Spent
    <3>2. ~BeingMarked(w)
      BY <2>5, AnsweredEffect DEF BeingMarked, AtFirst
    <3>3. ToBeVisited(w)' => ToBeVisited(w)
      <4>1. round[r].next \in Nat /\ round[r].next > 0
        BY TickAssumption DEF TypeOK, Round
      <4>2. ~(AtFirst(r)' /\ round'[r].stage = "visit")
        BY <2>5, <4>1, AnsweredEffect DEF AtFirst, Waiting
      <4> QED BY <1>1, <4>2 DEF ToBeVisited, AtFirst
    <3> QED BY <1>2, <3>1, <3>2, <3>3 DEF SpentIsOver
  <2> QED BY <2>1, <2>2, <2>3, <2>4, <2>5 DEF Smooth
<1>7. SpentIsOver'
  BY <1>6 DEF SpentIsOver
<1> QED BY <1>4, <1>5, <1>7 DEF ChanceLeft

LEMMA ChanceNext ==
  ASSUME TypeOK, OneTurn, AtAProfile, NotYet, Newest, OnceUnlessInterrupted,
         ChanceLeft, SpentIsOver, [Next]_vars
  PROVE  OnceUnlessInterrupted' /\ ChanceLeft' /\ SpentIsOver'
<1>1. ASSUME NEW r \in Rounds, Smooth(r)
      PROVE  OnceUnlessInterrupted' /\ ChanceLeft' /\ SpentIsOver'
  BY <1>1, SmoothNext
<1>2. ASSUME NEW r \in Rounds, StorageFails(r)
      PROVE  OnceUnlessInterrupted' /\ ChanceLeft' /\ SpentIsOver'
  <2>1. \A s \in Rounds : round'[s] = round[s] \/ round'[s] = NoRound
    BY <1>2, OthersStay, FailsEffect
  <2>2. Chances(1)' = Chances(1) + 1
    BY <1>2, FirstProfile, FaultCounts DEF StorageFails, story
  <2> QED BY <1>2, <2>1, <2>2, FaultNext
<1>3. CASE CrashAndRestart
  <2>1. \A s \in Rounds : round'[s] = NoRound
    BY <1>3 DEF CrashAndRestart
  <2>2. Chances(1)' = Chances(1) + 1 /\ plots' = plots
    BY <1>3, FirstProfile, FaultCounts DEF CrashAndRestart, story
  <2> QED BY <2>1, <2>2, FaultNext
<1>4. CASE UNCHANGED <<lastTick, plots, round, faults, rewinds>>
           /\ (clock' = clock \/ TimePasses)
  <2>1. \A w \in Windows : w < clock => w < clock'
    BY <1>4 DEF TimePasses, Windows, TypeOK
  <2>2. Chances(1)' = Chances(1)
    BY <1>4 DEF Chances
  <2> QED BY <1>4, <2>1, <2>2 DEF OnceUnlessInterrupted, ChanceLeft,
             SpentIsOver, Spent, BeingMarked, ToBeVisited, AtFirst
<1>5. ASSUME NEW q \in Profiles, StoryMoves(q)
      PROVE  OnceUnlessInterrupted' /\ ChanceLeft' /\ SpentIsOver'
  <2>1. UNCHANGED <<clock, plots, round, faults>>
    BY <1>5 DEF StoryMoves
  <2>2. CASE rewinds' = [rewinds EXCEPT ![q] = @ + 1] /\ q = 1
    <3>1. Chances(1)' = Chances(1) + 1
      BY <2>1, <2>2 DEF Chances, TypeOK
    <3> QED BY <2>1, <3>1, FaultNext
  <2>3. CASE rewinds' = rewinds \/ q # 1
    <3>1. Chances(1)' = Chances(1) /\ lastTick'[1] = lastTick[1]
      BY <1>5, <2>1, <2>3, FirstProfile DEF Chances, StoryMoves, TypeOK
    <3> QED BY <2>1, <3>1 DEF OnceUnlessInterrupted, ChanceLeft, SpentIsOver, Spent,
               BeingMarked, ToBeVisited, AtFirst
  <2> QED BY <1>5, <2>2, <2>3 DEF StoryMoves
<1> QED BY <1>1, <1>2, <1>3, <1>4, <1>5, StepCases
        DEF Smooth, TimePasses, ModelConfigured, vars, story
-----------------------------------------------------------------------------
(* The theorems *)

LEMMA InvInit == Init => IInv
<1> SUFFICES ASSUME Init PROVE IInv
  OBVIOUS
<1>1. \A r \in Rounds : round[r] = NoRound
  BY DEF Init
<1>2. \A p \in Profiles, w \in Windows : plots[p][w] = 0
  BY DEF Init
<1>3. OneTurn /\ AtAProfile /\ LivedBeforeMark /\ Newest /\ ChanceLeft
  BY <1>1 DEF OneTurn, AtAProfile, LivedBeforeMark, Newest, ChanceLeft, AtFirst,
     NoRound, Turn, Waiting
<1>4. MarkedMeansLived
  BY DEF Init, MarkedMeansLived
<1>5. NotYet
  BY <1>1, <1>2, FirstProfile DEF Init, NotYet, NoRound
<1>6. OnceUnlessInterrupted /\ SpentIsOver
  <2>1. Chances(1) = 1
    BY FirstProfile DEF Init, Chances
  <2> QED BY <1>2, <2>1, FirstProfile DEF OnceUnlessInterrupted, SpentIsOver, Spent
<1> QED BY <1>3, <1>4, <1>5, <1>6, TypeInit DEF IInv

LEMMA InvNext == IInv /\ [Next]_vars => IInv'
<1> SUFFICES ASSUME IInv, [Next]_vars PROVE IInv'
  OBVIOUS
<1> USE DEF IInv
<1>1. TypeOK'
  BY TypeNext
<1>2. OneTurn' /\ AtAProfile'
  BY TurnNext
<1>3. LivedBeforeMark' /\ MarkedMeansLived'
  BY LivedNext
<1>4. NotYet' /\ Newest'
  BY TimeNext
<1>5. OnceUnlessInterrupted' /\ ChanceLeft' /\ SpentIsOver'
  BY ChanceNext
<1> QED BY <1>1, <1>2, <1>3, <1>4, <1>5

LEMMA Invariance == Spec => []IInv
BY InvInit, InvNext, PTL DEF Spec

\* The scheduler's variables keep their types.
THEOREM TickTypes == Spec => []TypeOK
<1>1. IInv => TypeOK
  BY DEF IInv
<1> QED BY <1>1, Invariance, PTL

\* For any number of profiles and rounds, and whatever fails: a (date, period)
\* in tick_state or in a story checkpoint has been lived, so neither a restart
\* nor a move back skips a tick.
THEOREM NothingMarkedUnlived == Spec => []MarkedMeansLived
<1>1. IInv => MarkedMeansLived
  BY DEF IInv
<1> QED BY <1>1, Invariance, PTL

\* For any number of overlapping rounds: without a fault the first profile lives
\* no window twice, and each crash, failed transaction or move of its story back
\* costs one repetition.
THEOREM FirstProfileOncePerWindow == Spec => []OnceUnlessInterrupted
<1>1. IInv => OnceUnlessInterrupted
  BY DEF IInv
<1> QED BY <1>1, Invariance, PTL
-----------------------------------------------------------------------------
(* The turn that checks is the turn that lives *)

PlotIsUnmarked ==
  \A r \in Rounds : round[r].stage = "plot" =>
    lastTick[round[r].next] # Slot(round[r].window)

\* Only the round in the turn can change a mark, so the one about to live a
\* window still sees what it saw when it checked.
LEMMA UnmarkedNext == IInv /\ PlotIsUnmarked /\ [Next]_vars => PlotIsUnmarked'
<1> SUFFICES ASSUME IInv, PlotIsUnmarked, [Next]_vars PROVE PlotIsUnmarked'
  OBVIOUS
<1> USE DEF IInv
<1>1. ASSUME NEW r \in Rounds,
             Start(r) \/ Visit(r) \/ Plot(r) \/ Mark(r) \/ Answered(r) \/ StorageFails(r)
      PROVE  PlotIsUnmarked'
  <2>1. \A s \in Rounds \ {r} : round'[s] = round[s]
    BY <1>1, OthersStay
  <2>2. round'[r].stage = "plot" =>
          lastTick'[round'[r].next] # Slot(round'[r].window)
    <3>1. CASE Start(r)
      BY <3>1, StartEffect
    <3>2. CASE Visit(r)
      BY <3>2, VisitEffect DEF Visit, NoRound
    <3>3. CASE Plot(r)
      BY <3>3, GoesKeeps DEF Plot
    <3>4. CASE Mark(r)
      BY <3>4, MarkEffect
    <3>5. CASE Answered(r)
      BY <3>5, AnsweredEffect DEF Waiting
    <3>6. CASE StorageFails(r)
      BY <3>6, FailsEffect DEF NoRound
    <3> QED BY <1>1, <3>1, <3>2, <3>3, <3>4, <3>5, <3>6
  <2>3. ASSUME NEW s \in Rounds \ {r}, round[s].stage = "plot"
        PROVE  lastTick'[round[s].next] # Slot(round[s].window)
    <3>1. round[r].stage # "mark"
      BY <2>3 DEF OneTurn, Turn
    <3>2. lastTick' = lastTick
      BY <1>1, <3>1, FailsEffect DEF Start, Visit, Plot, Mark, Answered
    <3> QED BY <2>3, <3>2 DEF PlotIsUnmarked
  <2> QED BY <2>1, <2>2, <2>3 DEF PlotIsUnmarked
<1>2. CASE CrashAndRestart
  BY <1>2 DEF CrashAndRestart, NoRound, PlotIsUnmarked
<1>3. CASE UNCHANGED <<lastTick, round>>
  BY <1>3 DEF PlotIsUnmarked
<1>4. ASSUME NEW p \in Profiles, StoryMoves(p) PROVE PlotIsUnmarked'
  BY <1>4 DEF StoryMoves, PlotIsUnmarked, Busy, Turn
<1> QED BY <1>1, <1>2, <1>3, <1>4, StepCases DEF TimePasses, ModelConfigured, vars

\* What a step does to the plots of any profile.
LEMMA EachPlots ==
  ASSUME TypeOK, AtAProfile, NEW r \in Rounds,
         Start(r) \/ Visit(r) \/ Plot(r) \/ Mark(r) \/ Answered(r) \/ StorageFails(r)
  PROVE  \A p \in Profiles, w \in Windows :
           \/ plots'[p][w] = plots[p][w]
           \/ /\ round[r].stage = "plot"
              /\ round[r].next = p
              /\ round[r].window = w
              /\ plots'[p][w] = plots[p][w] + 1
<1>1. plots' = plots \/ (round[r].stage = "plot" /\ Plotted(r))
  BY FailsEffect DEF Start, Visit, Plot, Mark, Answered
<1> QED BY <1>1, PlottedEffect

LEMMA UnmarkedStep ==
  ASSUME IInv, PlotIsUnmarked, [Next]_vars,
         NEW p \in Profiles, NEW w \in Windows, plots'[p][w] # plots[p][w]
  PROVE  lastTick[p] # Slot(w)
<1>1. ASSUME NEW r \in Rounds,
             Start(r) \/ Visit(r) \/ Plot(r) \/ Mark(r) \/ Answered(r) \/ StorageFails(r)
      PROVE  lastTick[p] # Slot(w)
  BY <1>1, EachPlots DEF IInv, PlotIsUnmarked
<1> QED BY <1>1, StepCases
        DEF CrashAndRestart, TimePasses, StoryMoves, ModelConfigured, vars

\* However many rounds wait: no window is lived that the process holds as
\* ticked for that profile.
THEOREM CheckedTurn == Spec => LivesOnlyUnmarked
<1>1. Init => PlotIsUnmarked
  BY DEF Init, NoRound, PlotIsUnmarked
<1>2. IInv /\ PlotIsUnmarked /\ [Next]_vars
      => [\A p \in Profiles, w \in Windows :
            plots'[p][w] # plots[p][w] => lastTick[p] # Slot(w)]_vars
  BY UnmarkedStep
<1> QED BY <1>1, <1>2, UnmarkedNext, Invariance, PTL DEF Spec, LivesOnlyUnmarked
LEMMA EachCounts ==
  ASSUME TypeOK
  PROVE  /\ faults \in Nat /\ clock \in Nat /\ clock \in Windows
         /\ \A p \in Profiles : Chances(p) \in Nat \ {0}
         /\ \A p \in Profiles, w \in Windows : plots[p][w] \in Nat
         /\ \A r \in Rounds : /\ round[r].window \in Windows
                              /\ round[r].window \in Nat
                              /\ round[r].next \in Nat
         /\ Profiles \subseteq Nat /\ Windows \subseteq Nat
<1>1. faults \in Nat /\ Profiles \subseteq Nat /\ Windows \subseteq Nat
  BY TickAssumption DEF TypeOK, Windows, Profiles
<1>2. \A p \in Profiles : Chances(p) \in Nat \ {0}
  BY <1>1 DEF TypeOK, Chances
<1>3. \A r \in Rounds : round[r].window \in Windows /\ round[r].next \in Nat
  BY TickAssumption DEF TypeOK, Round
<1>4. clock \in Windows /\ \A p \in Profiles, w \in Windows : plots[p][w] \in Nat
  BY DEF TypeOK
<1> HIDE DEF TypeOK
<1> QED BY <1>1, <1>2, <1>3, <1>4
-----------------------------------------------------------------------------
(* Nothing is passed over *)

LivedBeforeTold ==
  \A r \in Rounds :
    round[r].stage \in Waiting => plots[round[r].next][round[r].window] > 0

\* In the turn the story cannot have moved; a round that waits at a story that
\* has moved since finds its window cut.
AtItsStory ==
  \A r \in Rounds :
    /\ round[r].stage \in {"plot", "mark"} =>
         round[r].generation = generation[round[r].next]
    /\ round[r].stage \in Waiting =>
         \/ round[r].generation = generation[round[r].next]
         \/ round[r].window \in cut[round[r].next]

TellingInv == LivedBeforeTold /\ AtItsStory /\ NothingPassedOver

\* A plot never becomes less.
LEMMA PlotsGrow ==
  ASSUME IInv, [Next]_vars
  PROVE  \A p \in Profiles, w \in Windows : plots[p][w] > 0 => plots'[p][w] > 0
<1>1. \A p \in Profiles, w \in Windows : plots[p][w] \in Nat
  BY DEF IInv, TypeOK
<1>2. ASSUME NEW r \in Rounds,
             Start(r) \/ Visit(r) \/ Plot(r) \/ Mark(r) \/ Answered(r) \/ StorageFails(r)
      PROVE  \A p \in Profiles, w \in Windows : plots[p][w] > 0 => plots'[p][w] > 0
  BY <1>1, <1>2, EachPlots DEF IInv
<1> QED BY <1>2, StepCases
        DEF CrashAndRestart, TimePasses, StoryMoves, ModelConfigured, vars

LEMMA LivedBeforeToldNext ==
  ASSUME IInv, LivedBeforeTold, [Next]_vars
  PROVE  LivedBeforeTold'
<1> USE DEF IInv
<1>1. ASSUME NEW r \in Rounds,
             Start(r) \/ Visit(r) \/ Plot(r) \/ Mark(r) \/ Answered(r) \/ StorageFails(r)
      PROVE  LivedBeforeTold'
  <2>1. \A s \in Rounds \ {r} : round'[s] = round[s]
    BY <1>1, OthersStay
  <2>2. round'[r].stage \in Waiting =>
          /\ round'[r].next = round[r].next /\ round'[r].window = round[r].window
          /\ round[r].stage \in Waiting \cup {"mark"}
    <3>1. CASE Start(r)
      BY <3>1, StartEffect DEF Waiting
    <3>2. CASE Visit(r)
      BY <3>2, VisitEffect DEF Waiting, NoRound
    <3>3. CASE Plot(r)
      BY <3>3, GoesKeeps DEF Plot, Waiting
    <3>4. CASE Mark(r)
      BY <3>4, MarkEffect DEF Waiting
    <3>5. CASE Answered(r)
      BY <3>5, AnsweredEffect DEF Waiting, Answered
    <3>6. CASE StorageFails(r)
      BY <3>6, FailsEffect DEF NoRound, Waiting
    <3> QED BY <1>1, <3>1, <3>2, <3>3, <3>4, <3>5, <3>6
  <2>3. \A s \in Rounds : round[s].stage \in Waiting \cup {"mark"} =>
          plots'[round[s].next][round[s].window] > 0
    BY PlotsGrow DEF LivedBeforeTold, LivedBeforeMark, AtAProfile, TypeOK, Round
  <2> QED BY <2>1, <2>2, <2>3 DEF LivedBeforeTold
<1>2. CASE CrashAndRestart
  BY <1>2 DEF CrashAndRestart, NoRound, LivedBeforeTold, Waiting
<1>3. CASE UNCHANGED <<plots, round>>
  BY <1>3 DEF LivedBeforeTold
<1> QED BY <1>1, <1>2, <1>3, StepCases DEF StoryMoves, TimePasses, ModelConfigured, vars

\* What is cut stays cut.
LEMMA CutGrows ==
  ASSUME IInv, [Next]_vars, NEW p \in Profiles
  PROVE  cut[p] \subseteq cut'[p]
<1>1. ASSUME NEW r \in Rounds, Mark(r) PROVE cut[p] \subseteq cut'[p]
  <2>1. round[r].stage = "mark" /\ Tells(r)
    BY <1>1 DEF Mark
  <2>2. \/ cut' = cut
        \/ cut' = [cut EXCEPT ![round[r].next] = @ \cup {round[r].window}]
    BY <2>1, TellsType DEF IInv
  <2> QED BY <2>2 DEF IInv, TypeOK
<1>2. ASSUME NEW q \in Profiles, StoryMoves(q) PROVE cut[p] \subseteq cut'[p]
  BY <1>2 DEF IInv, TypeOK, StoryMoves
<1> QED BY <1>1, <1>2, StepCases
        DEF Start, Visit, Plot, Answered, StorageFails, CrashAndRestart, TimePasses,
            ModelConfigured, vars

LEMMA AtItsStoryNext ==
  ASSUME IInv, AtItsStory, [Next]_vars
  PROVE  AtItsStory'
<1> USE DEF IInv
<1>1. ASSUME NEW r \in Rounds,
             Start(r) \/ Visit(r) \/ Plot(r) \/ Mark(r) \/ Answered(r) \/ StorageFails(r)
      PROVE  AtItsStory'
  <2>1. \A s \in Rounds \ {r} : round'[s] = round[s]
    BY <1>1, OthersStay
  <2>2. generation' = generation
    BY <1>1 DEF Start, Visit, Plot, Mark, Answered, StorageFails, story
  <2>3. \/ round'[r].stage \in {"idle", "visit"}
        \/ /\ round'[r].stage = "plot"
           /\ round'[r].generation = generation[round'[r].next]
        \/ /\ round'[r].next = round[r].next
           /\ round'[r].window = round[r].window
           /\ round'[r].generation = round[r].generation
           /\ \/ round[r].stage \in {"plot", "mark"}
              \/ round[r].stage \in Waiting /\ round'[r].stage \in Waiting
    <3>1. CASE Start(r)
      BY <3>1, StartEffect
    <3>2. CASE Visit(r)
      <4>1. CASE round[r].next \in Profiles /\ Begins(r)
        BY <4>1, BeginsType
      <4>2. CASE round[r].next \in Profiles /\ Onward(r)
        BY <4>2, OnwardType
      <4>3. CASE round' = [round EXCEPT ![r] = NoRound]
        BY <4>3 DEF TypeOK, NoRound
      <4>4. round[r].next \in Profiles \/ round[r].next > NumProfiles
        BY TickAssumption DEF TypeOK, Round, Profiles
      <4> QED BY <3>2, <4>1, <4>2, <4>3, <4>4 DEF Visit, Over
    <3>3. CASE Plot(r)
      <4>1. Goes(r, "mark") /\ round[r].stage = "plot"
        BY <3>3 DEF Plot
      <4> QED BY <4>1, GoesKeeps
    <3>4. CASE Mark(r)
      <4>1. round[r].stage = "mark"
        BY <3>4 DEF Mark
      <4> QED BY <3>4, <4>1, TellsType, GoesKeeps DEF Mark
    <3>5. CASE Answered(r)
      <4>1. round[r].stage \in Waiting
        BY <3>5 DEF Answered
      <4> QED BY <3>5, <4>1, AnsweredTells, AnsweredEffect, GoesKeeps
    <3>6. CASE StorageFails(r)
      BY <3>6, FailsEffect DEF NoRound
    <3> QED BY <1>1, <3>1, <3>2, <3>3, <3>4, <3>5, <3>6
  <2>4. \A s \in Rounds : round[s].stage \in {"plot", "mark"} \cup Waiting =>
          cut[round[s].next] \subseteq cut'[round[s].next]
    BY CutGrows DEF AtAProfile
  <2>5. /\ round'[r].stage \in {"plot", "mark"} =>
             round'[r].generation = generation[round'[r].next]
        /\ round'[r].stage \in Waiting =>
             \/ round'[r].generation = generation[round'[r].next]
             \/ round'[r].window \in cut'[round'[r].next]
    <3>1. round'[r].stage \in {"plot", "mark"} => round[r].stage \notin Waiting
      <4>1. CASE Answered(r)
        BY <4>1, AnsweredEffect DEF Waiting
      <4>2. CASE StorageFails(r)
        BY <4>2, FailsEffect DEF NoRound
      <4> QED BY <1>1, <4>1, <4>2 DEF Start, Visit, Plot, Mark, Waiting
    <3> QED BY <2>3, <2>4, <3>1 DEF AtItsStory, Waiting
  <2>6. ASSUME NEW s \in Rounds, s # r
        PROVE  /\ round'[s].stage \in {"plot", "mark"} =>
                    round'[s].generation = generation[round'[s].next]
               /\ round'[s].stage \in Waiting =>
                    \/ round'[s].generation = generation[round'[s].next]
                    \/ round'[s].window \in cut'[round'[s].next]
    BY <2>1, <2>4, <2>6 DEF AtItsStory
  <2> QED BY <2>2, <2>5, <2>6 DEF AtItsStory
<1>2. CASE CrashAndRestart
  BY <1>2 DEF CrashAndRestart, NoRound, AtItsStory, Waiting
<1>3. CASE UNCHANGED <<round, generation, cut>>
  BY <1>3 DEF AtItsStory
<1>4. ASSUME NEW p \in Profiles, StoryMoves(p)
      PROVE  AtItsStory'
  <2>1. \A s \in Rounds : round[s].stage \notin {"plot", "mark"}
    BY <1>4 DEF StoryMoves, Busy, Turn
  <2>2. round' = round
    BY <1>4 DEF StoryMoves
  <2>3. ASSUME NEW s \in Rounds, round[s].stage \in Waiting
        PROVE  \/ round[s].generation = generation'[round[s].next]
               \/ round[s].window \in cut'[round[s].next]
    <3>1. round[s].next \in Profiles
      BY <2>3 DEF AtAProfile
    <3>2. CASE round[s].next = p
      <4>1. round[s].window \in Interrupted(p)
        BY <2>3, <3>2 DEF Interrupted
      <4> QED BY <1>4, <3>1, <3>2, <4>1 DEF StoryMoves, TypeOK
    <3>3. CASE round[s].next # p
      BY <1>4, <2>3, <3>1, <3>3 DEF StoryMoves, TypeOK, AtItsStory
    <3> QED BY <3>2, <3>3
  <2> QED BY <2>1, <2>2, <2>3 DEF AtItsStory
<1> QED BY <1>1, <1>2, <1>3, <1>4, StepCases DEF TimePasses, ModelConfigured, vars, story

\* What is still to come of a round stays to come, but for what an answer tells
\* and for what the want of a model or a moved story cuts.
LEMMA ToComeStays ==
  ASSUME IInv, AtItsStory, NEW r \in Rounds, Smooth(r),
         NEW part \in Told(round[r].window), part \in ToCome(r)
  PROVE  /\ round[r].next \in Profiles
         /\ \/ /\ round'[r].next = round[r].next
               /\ round'[r].window = round[r].window
               /\ part \in ToCome(r)'
            \/ part \in told'[round[r].next][round[r].window]
            \/ round[r].window \in cut'[round[r].next]
<1> USE DEF IInv
<1>1. round[r].stage \in {"mark"} \cup Waiting /\ round[r].next \in Profiles
  BY DEF ToCome, AtAProfile, Waiting
<1>2. round[r].window \in Windows
  BY DEF TypeOK, Round
<1>3. CASE Mark(r)
  <2>1. round[r].stage = "mark"
    BY <1>3 DEF Mark
  <2>2. CASE round'[r].stage = "narratives"
    BY <1>3, <2>1, <2>2, MarkEffect DEF ToCome
  <2>3. CASE cut' = [cut EXCEPT ![round[r].next] = @ \cup {round[r].window}]
    BY <1>1, <2>3 DEF TypeOK
  <2> QED BY <1>1, <1>3, <2>1, <2>2, <2>3, TellsType DEF Mark
<1>4. CASE Answered(r) /\ round[r].generation # generation[round[r].next]
  BY <1>1, <1>4 DEF Answered, AtItsStory
<1>5. CASE Answered(r) /\ round[r].generation = generation[round[r].next]
  <2> DEFINE w == round[r].window
             p == round[r].next
             stage == After(round[r].stage, w)
  <2>1. round[r].stage \in Waiting
    BY <1>5 DEF Answered
  <2>2. /\ told' = [told EXCEPT ![p] = [told[p] EXCEPT ![w] = @ \cup {round[r].stage}]]
        /\ round'[r].stage = stage
    BY <1>5, AnsweredTells
  <2>3. round[r].stage \in told'[p][w]
    BY <1>1, <1>2, <2>2 DEF TypeOK
  <2>4. /\ round'[r].window = w
        /\ round'[r].stage # "visit" => round'[r].next = p
    BY <1>5, AnsweredEffect
  <2>5. part = round[r].stage \/ part \in ToCome(r)'
    <3>1. CASE round[r].stage = "narratives"
      <4>1. CASE PeriodOf(w) = "night"
        BY <2>2, <2>4, <3>1, <4>1 DEF After, ToCome, Told, Waiting
      <4>2. CASE PeriodOf(w) # "night"
        BY <2>2, <2>4, <3>1, <4>2 DEF After, ToCome, Told, Waiting
      <4> QED BY <4>1, <4>2
    <3>2. CASE round[r].stage = "reflection"
      BY <2>2, <2>4, <3>2 DEF After, ToCome
    <3>3. CASE round[r].stage = "proactive"
      BY <3>3 DEF ToCome
    <3> QED BY <2>1, <3>1, <3>2, <3>3 DEF Waiting
  <2>6. part \in ToCome(r)' => round'[r].stage # "visit"
    BY DEF ToCome
  <2> HIDE DEF stage
  <2> QED BY <1>1, <2>3, <2>4, <2>5, <2>6
<1> QED BY <1>1, <1>3, <1>4, <1>5 DEF Smooth, Start, Visit, Plot, Waiting

LEMMA PassedOverNext ==
  ASSUME IInv, TellingInv, [Next]_vars
  PROVE  NothingPassedOver'
<1> USE DEF IInv, TellingInv
<1>1. ASSUME NEW r \in Rounds, Smooth(r), NEW p \in Profiles, NEW w \in Windows
      PROVE  /\ plots'[p][w] > 0 /\ faults' = 0 /\ w \notin cut'[p] =>
                  \A part \in Told(w) : part \in told'[p][w] \/ Awaited(p, w, part)'
             /\ told'[p][w] # {} => plots'[p][w] > 0
  <2>1. \A s \in Rounds \ {r} : round'[s] = round[s]
    BY <1>1, OthersStay DEF Smooth
  <2>2. faults' = faults
    BY <1>1 DEF Smooth, Start, Visit, Plot, Mark, Answered
  <2>3. \/ told' = told
        \/ /\ round[r].stage \in Waiting /\ round[r].next \in Profiles
           /\ told' = [told EXCEPT ![round[r].next] = [told[round[r].next] EXCEPT
                         ![round[r].window] = @ \cup {round[r].stage}]]
    <3>1. CASE Answered(r)
      BY <3>1, AnsweredTells DEF Answered, AtAProfile
    <3> QED BY <1>1, <3>1 DEF Smooth, Start, Visit, Plot, Mark
  <2>4. /\ told[p][w] \subseteq told'[p][w]
        /\ told'[p][w] = told[p][w] \/ (/\ round[r].stage \in Waiting
                                        /\ round[r].next = p /\ round[r].window = w)
    BY <2>3 DEF TypeOK
  <2>5. told'[p][w] # {} => plots'[p][w] > 0
    BY <2>4, PlotsGrow DEF NothingPassedOver, LivedBeforeTold
  <2>6. ASSUME faults = 0, w \notin cut'[p], plots'[p][w] > 0, NEW part \in Told(w)
        PROVE  part \in told'[p][w] \/ Awaited(p, w, part)'
    <3>1. CASE plots[p][w] > 0
      <4>1. part \in told[p][w] \/ Awaited(p, w, part)
        BY <2>6, <3>1, CutGrows DEF NothingPassedOver
      <4>2. ASSUME Awaited(p, w, part)
            PROVE  part \in told'[p][w] \/ Awaited(p, w, part)'
        <5>1. PICK s \in Rounds :
                round[s].next = p /\ round[s].window = w /\ part \in ToCome(s)
          BY <4>2 DEF Awaited
        <5>2. CASE s = r
          <6>1. part \in Told(round[r].window)
            BY <2>6, <5>1, <5>2
          <6>2. \/ /\ round'[r].next = round[r].next
                   /\ round'[r].window = round[r].window
                   /\ part \in ToCome(r)'
                \/ part \in told'[round[r].next][round[r].window]
            BY <1>1, <2>6, <5>1, <5>2, <6>1, ToComeStays
          <6> QED BY <5>1, <5>2, <6>2 DEF Awaited
        <5>3. CASE s # r
          BY <2>1, <5>1, <5>3 DEF Awaited, ToCome
        <5> QED BY <5>2, <5>3
      <4> QED BY <2>4, <4>1, <4>2
    <3>2. CASE ~(plots[p][w] > 0)
      <4>1. /\ round[r].stage = "plot" /\ round[r].next = p /\ round[r].window = w
            /\ Plot(r)
        BY <1>1, <2>6, <3>2, EachPlots DEF Smooth, Start, Visit, Mark, Answered
      <4>2. part \in ToCome(r)' /\ round'[r].next = p /\ round'[r].window = w
        BY <2>6, <4>1, GoesKeeps DEF Plot, ToCome
      <4> QED BY <4>2 DEF Awaited
    <3> QED BY <3>1, <3>2
  <2> QED BY <2>2, <2>5, <2>6
<1>2. ASSUME faults' # 0 , told' = told
      PROVE  NothingPassedOver'
  BY <1>2, PlotsGrow DEF NothingPassedOver
<1>3. ASSUME NEW r \in Rounds, StorageFails(r)
      PROVE  faults' # 0 /\ told' = told
  BY <1>3, EachCounts DEF StorageFails, Fault
<1>4. CASE CrashAndRestart
  BY <1>2, <1>4, EachCounts DEF CrashAndRestart, Fault
<1>5. CASE UNCHANGED <<plots, told, round, faults>>
  BY <1>5, CutGrows DEF NothingPassedOver, Awaited, ToCome
<1>6. ASSUME NEW r \in Rounds, Smooth(r) PROVE NothingPassedOver'
  BY <1>1, <1>6 DEF NothingPassedOver
<1> QED BY <1>2, <1>3, <1>4, <1>5, <1>6, StepCases
        DEF Smooth, TimePasses, StoryMoves, ModelConfigured, vars

\* The safety half of LivedIsTold, for any number of profiles, rounds and
\* windows: what a round still owes is never dropped, unless a transaction or
\* the process failed, the story moved under the round that owed it, or there
\* was no model when the period was marked.  The three exceptions are the code's:
\* a round that finds the story moved returns without asking for the rest.
THEOREM NothingPassedOverHolds == Spec => []NothingPassedOver
<1>1. Init => TellingInv
  <2> SUFFICES ASSUME Init PROVE TellingInv
    OBVIOUS
  <2>1. \A r \in Rounds : round[r].stage \notin Waiting
    BY DEF Init, NoRound, Waiting
  <2>2. \A p \in Profiles, w \in Windows : ~(plots[p][w] > 0) /\ told[p][w] = {}
    BY DEF Init
  <2>3. AtItsStory
    BY DEF Init, NoRound, AtItsStory, Waiting
  <2> QED BY <2>1, <2>2, <2>3 DEF TellingInv, LivedBeforeTold, NothingPassedOver
<1>2. IInv /\ TellingInv /\ [Next]_vars => TellingInv'
  BY LivedBeforeToldNext, AtItsStoryNext, PassedOverNext DEF TellingInv
<1>3. TellingInv => NothingPassedOver
  BY DEF TellingInv
<1> QED BY <1>1, <1>2, <1>3, Invariance, PTL DEF Spec
-----------------------------------------------------------------------------
(* One round at a time                                                      *)
(*                                                                          *)
(* When no round starts before the last one is over, every profile has what *)
(* the first one always has: nobody has lived a window past the one of the  *)
(* active round, and a window that has used up its chances is the marked    *)
(* one, about to be marked, or past and no longer on a round's way.         *)

Active(r) == round[r].stage # "idle"

NothingPast ==
  /\ \A p \in Profiles, w \in Windows : w > clock => plots[p][w] = 0
  /\ \A r \in Rounds : Active(r) =>
       \A p \in Profiles, w \in Windows : w > round[r].window => plots[p][w] = 0

EachChanceLeft ==
  \A r \in Rounds : round[r].stage = "plot" =>
    plots[round[r].next][round[r].window] < Chances(round[r].next)

UsedUp(p, w) == plots[p][w] = Chances(p)
Marking(p, w) ==
  \E r \in Rounds :
    round[r].stage = "mark" /\ round[r].next = p /\ round[r].window = w
OnItsWay(p, w) ==
  \E r \in Rounds :
    /\ Active(r)
    /\ round[r].window = w
    /\ round[r].next < p \/ (round[r].next = p /\ round[r].stage = "visit")
UsedUpIsOver ==
  \A p \in Profiles, w \in Windows : UsedUp(p, w) =>
    \/ lastTick[p] = Slot(w)
    \/ Marking(p, w)
    \/ w < clock /\ ~OnItsWay(p, w)

Orderly == NothingPast /\ EachOnce /\ EachChanceLeft /\ UsedUpIsOver

\* While a round is active, it is the only one that can be.
LEMMA OnlyActive ==
  ASSUME OneAtATime, NEW r \in Rounds, NEW s \in Rounds, Active(r), Active(s)
  PROVE  r = s
BY DEF OneAtATime, Active

\* A round that acts was active, or it starts and no other round is.
LEMMA ActingIsActive ==
  ASSUME TypeOK, OneAtATime, OneAtATime', NEW r \in Rounds,
         Start(r) \/ Visit(r) \/ Plot(r) \/ Mark(r) \/ Answered(r) \/ StorageFails(r)
  PROVE  /\ Active(r) \/ Start(r)
         /\ \A s \in Rounds \ {r} : ~Active(s) /\ round'[s] = round[s]
<1>1. \A s \in Rounds \ {r} : round'[s] = round[s]
  BY OthersStay
<1>2. CASE Start(r)
  <2>1. Active(r)'
    BY <1>2, StartEffect DEF Active
  <2>2. \A s \in Rounds \ {r} : ~Active(s)
    BY <1>1, <2>1 DEF OneAtATime, Active
  <2> QED BY <1>1, <1>2, <2>2
<1>3. CASE ~Start(r)
  <2>1. Active(r)
    BY <1>3 DEF Visit, Plot, Mark, Answered, StorageFails, Active, Waiting
  <2> QED BY <1>1, <2>1, OnlyActive
<1> QED BY <1>2, <1>3

\* An active round keeps its window and never goes back to a profile.
LEMMA OnwardOnly ==
  ASSUME TypeOK, AtAProfile, NEW r \in Rounds, Active(r)', ~Start(r),
         Visit(r) \/ Plot(r) \/ Mark(r) \/ Answered(r) \/ StorageFails(r)
  PROVE  /\ round'[r].window = round[r].window
         /\ \/ /\ round'[r].next = round[r].next
               /\ round'[r].stage = "visit" => round[r].stage = "visit"
            \/ round'[r].next = round[r].next + 1
<1>1. CASE Visit(r)
  BY <1>1, VisitEffect DEF Active, NoRound
<1>2. CASE Plot(r)
  BY <1>2, GoesKeeps DEF Plot
<1>3. CASE Mark(r)
  BY <1>3, MarkEffect
<1>4. CASE Answered(r)
  BY <1>4, AnsweredEffect DEF Waiting
<1>5. CASE StorageFails(r)
  BY <1>5, FailsEffect DEF Active, NoRound
<1> QED BY <1>1, <1>2, <1>3, <1>4, <1>5

LEMMA PastNext ==
  ASSUME IInv, NothingPast, OneAtATime, OneAtATime', [Next]_vars
  PROVE  NothingPast'
<1> USE DEF IInv
<1>1. ASSUME NEW r \in Rounds,
             Start(r) \/ Visit(r) \/ Plot(r) \/ Mark(r) \/ Answered(r) \/ StorageFails(r)
      PROVE  NothingPast'
  <2>1. clock' = clock
    BY <1>1, FailsEffect DEF Start, Visit, Plot, Mark, Answered
  <2>2. ASSUME NEW p \in Profiles, NEW w \in Windows, w > round[r].window,
               round[r].stage # "idle" \/ plots[p][w] = 0
        PROVE  plots'[p][w] = 0
    <3>1. plots[p][w] = 0
      BY <2>2 DEF NothingPast, Active
    <3>2. w # round[r].window
      BY <2>2, EachCounts
    <3> QED BY <1>1, <3>1, <3>2, EachPlots
  <2>3. ASSUME NEW p \in Profiles, NEW w \in Windows, w > clock
        PROVE  plots'[p][w] = 0
    <3>1. plots[p][w] = 0
      BY <2>3 DEF NothingPast
    <3>2. w # round[r].window
      BY <2>3, EachCounts DEF NotYet
    <3> QED BY <1>1, <3>1, <3>2, EachPlots
  <2>4. ASSUME NEW s \in Rounds, Active(s)',
               NEW p \in Profiles, NEW w \in Windows, w > round'[s].window
        PROVE  plots'[p][w] = 0
    <3>1. s = r
      BY <1>1, <2>4, ActingIsActive DEF Active
    <3>2. CASE Start(r)
      BY <2>3, <2>4, <3>1, <3>2, StartEffect
    <3>3. CASE ~Start(r)
      <4>1. Active(r) /\ round'[r].window = round[r].window
        BY <1>1, <2>4, <3>1, <3>3, ActingIsActive, OnwardOnly
      <4> QED BY <2>2, <2>4, <3>1, <4>1 DEF Active
    <3> QED BY <3>2, <3>3
  <2> QED BY <2>1, <2>3, <2>4 DEF NothingPast
<1>2. CASE CrashAndRestart
  BY <1>2 DEF CrashAndRestart, NoRound, NothingPast, Active
<1>3. CASE TimePasses
  <2>1. clock' > clock /\ clock' \in Nat
    BY <1>3 DEF TimePasses, Windows
  <2>2. \A w \in Windows : w > clock' => w > clock
    BY <2>1, EachCounts
  <2> QED BY <1>3, <2>2 DEF TimePasses, NothingPast, Active
<1>4. CASE UNCHANGED <<clock, plots, round>>
  BY <1>4 DEF NothingPast, Active
<1> QED BY <1>1, <1>2, <1>3, <1>4, StepCases DEF StoryMoves, ModelConfigured, vars

\* A fault gives every window of every profile its next chance.
LEMMA EachFaultNext ==
  ASSUME IInv, EachOnce, EachChanceLeft,
         \A p \in Profiles : Chances(p)' = Chances(p) + 1,
         \/ plots' = plots
         \/ \E r \in Rounds : StorageFails(r),
         \A s \in Rounds : round'[s] = round[s] \/ round'[s] = NoRound
  PROVE  EachOnce' /\ EachChanceLeft' /\ UsedUpIsOver'
<1> USE DEF IInv
<1>1. \A p \in Profiles, w \in Windows :
        plots'[p][w] \in Nat /\ plots'[p][w] < Chances(p)'
  <2>1. CASE plots' = plots
    BY <2>1, EachCounts DEF EachOnce
  <2>2. ASSUME NEW r \in Rounds, StorageFails(r)
        PROVE  \A p \in Profiles, w \in Windows :
                 plots'[p][w] \in Nat /\ plots'[p][w] < Chances(p)'
    BY <2>2, EachPlots, EachCounts DEF EachOnce, EachChanceLeft
  <2> QED BY <2>1, <2>2
<1>2. \A p \in Profiles, w \in Windows :
        plots'[p][w] <= Chances(p)' /\ plots'[p][w] # Chances(p)'
  BY <1>1, EachCounts
<1>3. EachOnce'
  BY <1>2 DEF EachOnce
<1>4. EachChanceLeft'
  <2>1. \A s \in Rounds : round'[s].stage = "plot" =>
          round'[s].next \in Profiles /\ round'[s].window \in Windows
    BY EachCounts DEF AtAProfile, NoRound
  <2> QED BY <1>1, <2>1 DEF EachChanceLeft
<1>5. UsedUpIsOver'
  BY <1>2 DEF UsedUpIsOver, UsedUp
<1> QED BY <1>3, <1>4, <1>5

\* The active round is on its way only where it was, and where it starts.
LEMMA OnItsWayShrinks ==
  ASSUME TypeOK, AtAProfile, OneAtATime, OneAtATime', NEW r \in Rounds,
         Visit(r) \/ Plot(r) \/ Mark(r) \/ Answered(r), ~Start(r),
         NEW p \in Profiles, NEW w \in Windows, OnItsWay(p, w)'
  PROVE  OnItsWay(p, w)
<1>1. PICK s \in Rounds :
        /\ Active(s)'
        /\ round'[s].window = w
        /\ round'[s].next < p \/ (round'[s].next = p /\ round'[s].stage = "visit")
  BY DEF OnItsWay, Active
<1>2. s = r /\ Active(r)
  BY <1>1, ActingIsActive DEF Active
<1>3. /\ round[r].window = w
      /\ round[r].next < p \/ (round[r].next = p /\ round[r].stage = "visit")
  <2>1. p \in Nat /\ round[r].next \in Nat
    BY EachCounts
  <2>2. /\ round'[r].window = round[r].window
        /\ \/ /\ round'[r].next = round[r].next
              /\ round'[r].stage = "visit" => round[r].stage = "visit"
           \/ round'[r].next = round[r].next + 1
    BY <1>1, <1>2, OnwardOnly
  <2>3. CASE round'[r].next = round[r].next
    BY <1>1, <1>2, <2>1, <2>2, <2>3
  <2>4. CASE round'[r].next = round[r].next + 1
    <3>1. round[r].next < p
      BY <1>1, <1>2, <2>1, <2>4
    <3> QED BY <1>1, <1>2, <2>2, <3>1
  <2> QED BY <2>2, <2>3, <2>4
<1> QED BY <1>2, <1>3 DEF OnItsWay

LEMMA EachSmoothNext ==
  ASSUME IInv, Orderly, OneAtATime, OneAtATime', NEW r \in Rounds, Smooth(r)
  PROVE  EachOnce' /\ EachChanceLeft' /\ UsedUpIsOver'
<1> USE DEF IInv, Orderly
<1>1. /\ Active(r) \/ Start(r)
      /\ \A s \in Rounds \ {r} : ~Active(s) /\ round'[s] = round[s]
  BY ActingIsActive DEF Smooth
<1>2. /\ \A p \in Profiles : Chances(p)' = Chances(p)
      /\ clock' = clock /\ faults' = faults /\ rewinds' = rewinds
  BY DEF Smooth, Start, Visit, Plot, Mark, Answered, story, Chances
<1>3. EachOnce'
  BY <1>2, EachPlots, EachCounts DEF Smooth, EachOnce, EachChanceLeft
<1>4. ASSUME NEW s \in Rounds, round'[s].stage = "plot"
      PROVE  plots'[round'[s].next][round'[s].window]
               < 1 + faults' + rewinds'[round'[s].next]
  <2>1. s = r
    BY <1>1, <1>4 DEF Active
  <2>2. /\ Visit(r) /\ round[r].stage = "visit"
        /\ round'[r].window = round[r].window
        /\ round'[r].next = round[r].next
        /\ round[r].next \in Profiles
        /\ lastTick[round[r].next] # Slot(round[r].window)
        /\ plots' = plots
    <3>1. CASE Start(r)
      BY <1>4, <2>1, <3>1, StartEffect
    <3>2. CASE Visit(r)
      BY <1>4, <2>1, <3>2, VisitEffect DEF NoRound, Visit
    <3>3. CASE Plot(r)
      BY <1>4, <2>1, <3>3, GoesKeeps DEF Plot
    <3>4. CASE Mark(r)
      BY <1>4, <2>1, <3>4, MarkEffect
    <3>5. CASE Answered(r)
      BY <1>4, <2>1, <3>5, AnsweredEffect DEF Waiting
    <3> QED BY <3>1, <3>2, <3>3, <3>4, <3>5 DEF Smooth
  <2>3. ~Marking(round[r].next, round[r].window)
    BY <1>1, <2>2 DEF Marking, Active
  <2>4. OnItsWay(round[r].next, round[r].window)
    BY <2>2 DEF OnItsWay, Active
  <2>5. ~UsedUp(round[r].next, round[r].window)
    BY <2>2, <2>3, <2>4, EachCounts DEF UsedUpIsOver
  <2>6. plots[round[r].next][round[r].window] < Chances(round[r].next)
    BY <2>2, <2>5, EachCounts DEF UsedUp, EachOnce
  <2> QED BY <1>2, <2>1, <2>2, <2>6 DEF Chances
<1>5. ASSUME NEW p \in Profiles, NEW w \in Windows, UsedUp(p, w)'
      PROVE  \/ lastTick'[p] = Slot(w)
             \/ Marking(p, w)'
             \/ w < clock' /\ ~OnItsWay(p, w)'
  <2>1. CASE Start(r)
    <3>1. UsedUp(p, w) /\ lastTick' = lastTick /\ ~Marking(p, w)
      BY <1>2, <1>5, <2>1, StartEffect DEF Start, UsedUp, Marking, Turn
    <3>2. CASE w < clock
      <4>1. ~OnItsWay(p, w)'
        BY <1>1, <2>1, <3>2, StartEffect, EachCounts DEF OnItsWay, Active
      <4> QED BY <1>2, <3>2, <4>1
    <3> QED BY <3>1, <3>2 DEF UsedUpIsOver
  <2>2. CASE (Visit(r) \/ Answered(r)) /\ ~Start(r)
    <3>1. UsedUp(p, w) /\ lastTick' = lastTick
      BY <1>2, <1>5, <2>2 DEF Visit, Answered, UsedUp
    <3>2. ~Marking(p, w)
      BY <1>1, <2>2 DEF Marking, Active, Visit, Answered, Waiting
    <3>3. OnItsWay(p, w)' => OnItsWay(p, w)
      BY <2>2, OnItsWayShrinks
    <3> QED BY <1>2, <3>1, <3>2, <3>3 DEF UsedUpIsOver
  <2>3. CASE Plot(r) /\ ~Start(r)
    <3>1. /\ lastTick' = lastTick /\ round[r].stage = "plot" /\ round'[r].stage = "mark"
          /\ round'[r].window = round[r].window /\ round'[r].next = round[r].next
      BY <2>3, GoesKeeps DEF Plot
    <3>2. CASE round[r].next = p /\ round[r].window = w
      BY <3>1, <3>2 DEF Marking
    <3>3. CASE ~(round[r].next = p /\ round[r].window = w)
      <4>1. UsedUp(p, w)
        BY <1>2, <1>5, <2>3, <3>3, EachPlots DEF UsedUp
      <4>2. ~Marking(p, w)
        BY <1>1, <3>1 DEF Marking, Active
      <4>3. OnItsWay(p, w)' => OnItsWay(p, w)
        BY <2>3, OnItsWayShrinks
      <4> QED BY <1>2, <3>1, <4>1, <4>2, <4>3 DEF UsedUpIsOver
    <3> QED BY <3>2, <3>3
  <2>4. CASE Mark(r) /\ ~Start(r)
    <3>1. /\ round[r].stage = "mark" /\ plots' = plots /\ UsedUp(p, w)
          /\ round[r].next \in Profiles
      BY <1>2, <1>5, <2>4 DEF Mark, UsedUp, AtAProfile
    <3>2. CASE round[r].next = p
      <4>1. lastTick'[p] = Slot(round[r].window)
        BY <2>4, <3>2 DEF Mark, TypeOK
      <4>2. w = round[r].window \/ w < round[r].window
        <5>1. plots[p][w] # 0
          BY <3>1, EachCounts DEF UsedUp
        <5>2. ~(w > round[r].window)
          BY <3>1, <5>1 DEF NothingPast, Active
        <5> QED BY <5>2, EachCounts
      <4>3. ASSUME w < round[r].window
            PROVE  w < clock /\ ~OnItsWay(p, w)'
        <5>1. w < clock
          <6>1. round[r].window <= clock
            BY DEF NotYet
          <6> QED BY <4>3, <6>1, EachCounts
        <5>2. round'[r].window = round[r].window
          BY <2>4, MarkEffect
        <5>3. ~OnItsWay(p, w)'
          BY <1>1, <4>3, <5>2, EachCounts DEF OnItsWay, Active
        <5> QED BY <5>1, <5>3
      <4> QED BY <1>2, <4>1, <4>2, <4>3
    <3>3. CASE round[r].next # p
      <4>1. lastTick'[p] = lastTick[p]
        BY <2>4, <3>3 DEF Mark, TypeOK
      <4>2. ~Marking(p, w)
        BY <1>1, <3>3 DEF Marking, Active
      <4>3. OnItsWay(p, w)' => OnItsWay(p, w)
        BY <2>4, OnItsWayShrinks
      <4> QED BY <1>2, <3>1, <4>1, <4>2, <4>3 DEF UsedUpIsOver
    <3> QED BY <3>2, <3>3
  <2> QED BY <2>1, <2>2, <2>3, <2>4 DEF Smooth
<1>6. EachChanceLeft' /\ UsedUpIsOver'
  BY <1>4, <1>5 DEF EachChanceLeft, UsedUpIsOver, Chances
<1> QED BY <1>3, <1>6

LEMMA OrderlyNext ==
  IInv /\ Orderly /\ OneAtATime /\ OneAtATime' /\ [Next]_vars => Orderly'
<1> SUFFICES ASSUME IInv, Orderly, OneAtATime, OneAtATime', [Next]_vars
             PROVE  Orderly'
  OBVIOUS
<1>1. NothingPast'
  BY PastNext DEF Orderly
<1>2. ASSUME NEW r \in Rounds, Smooth(r)
      PROVE  EachOnce' /\ EachChanceLeft' /\ UsedUpIsOver'
  BY <1>2, EachSmoothNext
<1>3. ASSUME NEW r \in Rounds, StorageFails(r)
      PROVE  EachOnce' /\ EachChanceLeft' /\ UsedUpIsOver'
  <2>1. \A s \in Rounds : round'[s] = round[s] \/ round'[s] = NoRound
    BY <1>3, OthersStay, FailsEffect DEF IInv
  <2>2. \A p \in Profiles : Chances(p)' = Chances(p) + 1
    BY <1>3, FaultCounts DEF IInv, StorageFails, story
  <2> QED BY <1>3, <2>1, <2>2, EachFaultNext DEF Orderly
<1>4. CASE CrashAndRestart
  <2>1. \A s \in Rounds : round'[s] = NoRound
    BY <1>4 DEF CrashAndRestart
  <2>2. plots' = plots /\ \A p \in Profiles : Chances(p)' = Chances(p) + 1
    BY <1>4, FaultCounts DEF IInv, CrashAndRestart, story
  <2> QED BY <1>1, <2>1, <2>2, EachFaultNext DEF Orderly
<1>5. CASE UNCHANGED <<lastTick, plots, round, faults, rewinds>>
           /\ (clock' = clock \/ TimePasses)
  <2>1. \A w \in Windows : w < clock => w < clock'
    BY <1>5, EachCounts DEF TimePasses, Windows, IInv
  <2>2. \A p \in Profiles : Chances(p)' = Chances(p)
    BY <1>5 DEF Chances
  <2>3. EachOnce' /\ EachChanceLeft'
    BY <1>5, <2>2 DEF Orderly, EachOnce, EachChanceLeft, IInv, AtAProfile
  <2>4. UsedUpIsOver'
    BY <1>5, <2>1, <2>2 DEF Orderly, UsedUpIsOver, UsedUp, Marking, OnItsWay, Active
  <2> QED BY <1>1, <2>3, <2>4 DEF Orderly
<1>6. ASSUME NEW q \in Profiles, StoryMoves(q)
      PROVE  EachOnce' /\ EachChanceLeft' /\ UsedUpIsOver'
  <2>1. UNCHANGED <<clock, plots, round, faults>>
    BY <1>6 DEF StoryMoves
  <2>2. \A p \in Profiles : \/ Chances(p)' = Chances(p) /\ lastTick'[p] = lastTick[p]
                            \/ Chances(p)' = Chances(p) + 1
    <3>1. TypeOK
      BY DEF IInv
    <3>2. CASE UNCHANGED <<lastTick, rewinds>>
      BY <2>1, <3>2 DEF Chances
    <3>3. ASSUME NEW s, lastTick' = [lastTick EXCEPT ![q] = s],
                 rewinds' = [rewinds EXCEPT ![q] = @ + 1], NEW p \in Profiles
          PROVE  \/ Chances(p)' = Chances(p) /\ lastTick'[p] = lastTick[p]
                 \/ Chances(p)' = Chances(p) + 1
      <4>1. CASE p = q
        BY <2>1, <3>1, <3>3, <4>1 DEF Chances, TypeOK
      <4>2. CASE p # q
        BY <2>1, <3>1, <3>3, <4>2 DEF Chances, TypeOK
      <4> QED BY <4>1, <4>2
    <3> QED BY <1>6, <3>2, <3>3 DEF StoryMoves
  <2>3. \A p \in Profiles : Chances(p)' >= Chances(p) /\ Chances(p) \in Nat
    BY <2>2, EachCounts DEF IInv
  <2>4. EachOnce'
    BY <2>1, <2>2, EachCounts DEF IInv, Orderly, EachOnce
  <2>5. EachChanceLeft'
    BY <2>1, <2>2, EachCounts DEF IInv, Orderly, EachChanceLeft, AtAProfile
  <2>6. ASSUME NEW p \in Profiles, NEW w \in Windows, UsedUp(p, w)'
        PROVE  \/ lastTick'[p] = Slot(w)
               \/ Marking(p, w)'
               \/ w < clock' /\ ~OnItsWay(p, w)'
    <3>1. Chances(p)' = Chances(p) /\ lastTick'[p] = lastTick[p]
      BY <2>1, <2>2, <2>6, EachCounts DEF IInv, Orderly, EachOnce, UsedUp
    <3>2. UsedUp(p, w)
      BY <2>1, <2>6, <3>1 DEF UsedUp
    <3> QED BY <2>1, <3>1, <3>2
            DEF Orderly, UsedUpIsOver, Marking, OnItsWay, Active
  <2> QED BY <2>4, <2>5, <2>6 DEF UsedUpIsOver
<1> QED BY <1>1, <1>2, <1>3, <1>4, <1>5, <1>6, StepCases
        DEF Smooth, Orderly, TimePasses, ModelConfigured, vars, story

LEMMA OrderlyInit == Init => Orderly
<1> SUFFICES ASSUME Init PROVE Orderly
  OBVIOUS
<1>1. \A r \in Rounds : round[r] = NoRound
  BY DEF Init
<1>2. \A p \in Profiles, w \in Windows : plots[p][w] = 0 /\ Chances(p) = 1
  BY DEF Init, Chances
<1>3. NothingPast /\ EachChanceLeft
  BY <1>1, <1>2 DEF NothingPast, EachChanceLeft, Active, NoRound
<1>4. EachOnce /\ UsedUpIsOver
  BY <1>2 DEF EachOnce, UsedUpIsOver, UsedUp
<1> QED BY <1>3, <1>4 DEF Orderly

\* For any number of profiles, and whatever fails: while no round is started
\* before the last one is over, no profile lives a window more than once, and
\* once more for each crash, each failed transaction and each move of its own
\* story back.  Nothing is asked of the scheduling: every behaviour of the steps
\* counts.
THEOREM EveryProfileOncePerWindow ==
  Init /\ [][Next]_vars => EachOnceWithoutOverlap
<1>1. Orderly => EachOnce
  BY DEF Orderly
<1> QED BY <1>1, InvInit, InvNext, OrderlyInit, OrderlyNext, PTL
        DEF EachOnceWithoutOverlap
=============================================================================
