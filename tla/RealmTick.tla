------------------------------ MODULE RealmTick ------------------------------
(***************************************************************************)
(* The tick scheduler of the host: a timer starts a round every minute,    *)
(* without waiting for the rounds already running; a round takes the       *)
(* profiles one after the other, applies to each the engine step and the   *)
(* scripted plot of the period, marks the period as ticked, and then waits *)
(* for a language model to write diaries, reflections and messages.  While *)
(* it waits the story of the profile may be moved: what it waits for is    *)
(* then discarded, and what comes after is not asked for.                  *)
(*                                                                         *)
(* A day has five windows, 00-06, 06-11, 11-17, 17-22 and 22-24, and four  *)
(* periods: the first and the last window are both "night".                *)
(*                                                                         *)
(* Node runs one JavaScript turn at a time: from a visit of a profile to   *)
(* its mark a round is alone, its transactions commit one by one, and the  *)
(* process may die between two of them.                                    *)
(***************************************************************************)
EXTENDS Naturals

CONSTANTS
  NumProfiles,  \* profiles 1..NumProfiles, in the order a round takes them
  Rounds,       \* the rounds that may be running at the same time
  LastWindow,   \* bound: the wall clock runs from window 0 to LastWindow
  StorageFaults, \* TRUE if transactions may fail; the process may always die
  MaxFaults,    \* bound on the crashes and failed transactions of a behaviour
  Movers,       \* bound: the profiles whose story is moved,
  MaxMoves      \* and how often at most

ASSUME TickAssumption ==
  /\ NumProfiles \in Nat \ {0}
  /\ LastWindow \in Nat
  /\ StorageFaults \in BOOLEAN
  /\ MaxFaults \in Nat
  /\ Movers \subseteq 1 .. NumProfiles
  /\ MaxMoves \in Nat

VARIABLES
  clock,      \* the window the local wall clock is in
  armed,      \* setInterval has been called: the startup round is over
  tickState,  \* tickState[p]: the row of tick_state in p's database
  lastTick,   \* lastTick[p]: the copy of it the process holds
  plots,      \* plots[p][w]: how often p has lived the script of window w
  told,       \* told[p][w]: the stages of telling it that have been gone through
  round,      \* the rounds
  model,      \* the hub has a language model to ask
  generation, \* generation[p]: the storyGeneration of p's store
  saved,      \* saved[p]: the tick states kept in p's story checkpoints
  faults,     \* crashes and failed transactions so far
  rewinds,    \* rewinds[p]: how often p's story has been moved back
  cut         \* cut[p]: windows a story move, or the want of a model, left untold

story == <<generation, saved, rewinds>>
vars == <<clock, armed, tickState, lastTick, plots, told, round, model, story,
          faults, cut>>

Profiles == 1 .. NumProfiles
Windows == 0 .. LastWindow
Periods == {"morning", "day", "evening", "night"}

PeriodOf(w) ==
  CASE w % 5 = 1 -> "morning"
    [] w % 5 = 2 -> "day"
    [] w % 5 = 3 -> "evening"
    [] OTHER -> "night"

\* The (date, period) a tick is recorded under.
Slot(w) == [date |-> w \div 5, period |-> PeriodOf(w)]
NoTick == [date |-> 0, period |-> "never"]
Slots == {Slot(w) : w \in Windows} \cup {NoTick}

\* visit, plot, mark: the stages of the synchronous turn a profile's tick is;
\* narratives, reflection, proactive: a reply of the model is awaited.
Turn == {"visit", "plot", "mark"}
Waiting == {"narratives", "reflection", "proactive"}
Round == [stage : {"idle"} \cup Turn \cup Waiting, window : Windows,
          next : 1 .. NumProfiles + 1, generation : Nat]
NoRound == [stage |-> "idle", window |-> 0, next |-> 1, generation |-> 0]

TypeOK ==
  /\ clock \in Windows
  /\ armed \in BOOLEAN
  /\ tickState \in [Profiles -> Slots]
  /\ lastTick \in [Profiles -> Slots]
  /\ plots \in [Profiles -> [Windows -> Nat]]
  /\ told \in [Profiles -> [Windows -> SUBSET Waiting]]
  /\ round \in [Rounds -> Round]
  /\ model \in BOOLEAN
  /\ generation \in [Profiles -> Nat]
  /\ saved \in [Profiles -> SUBSET Slots]
  /\ faults \in 0 .. MaxFaults
  /\ rewinds \in [Profiles -> Nat]
  /\ cut \in [Profiles -> SUBSET Windows]

Init ==
  /\ clock = 0
  /\ armed = FALSE
  /\ tickState = [p \in Profiles |-> NoTick]
  /\ lastTick = [p \in Profiles |-> NoTick]
  /\ plots = [p \in Profiles |-> [w \in Windows |-> 0]]
  /\ told = [p \in Profiles |-> [w \in Windows |-> {}]]
  /\ round = [r \in Rounds |-> NoRound]
  /\ model \in BOOLEAN
  /\ generation = [p \in Profiles |-> 0]
  /\ saved = [p \in Profiles |-> {}]
  /\ faults = 0
  /\ rewinds = [p \in Profiles |-> 0]
  /\ cut = [p \in Profiles |-> {}]
-----------------------------------------------------------------------------
\* Mutant: a turn ends with each await, the one between two profiles included.
Busy_BetweenProfiles == \E r \in Rounds : round[r].stage \in {"plot", "mark"}

Busy == \E r \in Rounds : round[r].stage \in Turn

Goes(r, stage) == round' = [round EXCEPT ![r].stage = stage]

\* The round resolves or rejects; main.ts logs it, and after the startup round
\* it arms the timer either way.
Over(r) ==
  /\ round' = [round EXCEPT ![r] = NoRound]
  /\ armed' = TRUE

\* tickIfPeriodChanged is called: the date is read once, for all profiles.
Start(r) ==
  /\ ~Busy
  /\ round[r].stage = "idle"
  /\ round' = [round EXCEPT ![r] = [NoRound EXCEPT !.stage = "visit", !.window = clock]]
  /\ UNCHANGED <<clock, armed, tickState, lastTick, plots, told, model, story, faults, cut>>

\* main.ts awaits a first round before it starts the timer.
Boot(r) ==
  /\ ~armed
  /\ \A s \in Rounds : round[s].stage = "idle"
  /\ Start(r)

TimerFires(r) == armed /\ Start(r)

\* The round has done with the profile and comes to the next one.
Onward(r) ==
  round' = [round EXCEPT ![r].stage = "visit", ![r].next = @ + 1, ![r].generation = 0]

\* The tick of a profile begins: the generation of its story is read.
Begins(r) ==
  round' = [round EXCEPT ![r].stage = "plot", ![r].generation = generation[round[r].next]]

\* Mutant: the whole round returns at a profile that has been ticked.
Visit_StopsAtTicked(r) ==
  /\ round[r].stage = "visit"
  /\ LET p == round[r].next
     IN  IF p > NumProfiles \/ lastTick[p] = Slot(round[r].window)
         THEN Over(r)
         ELSE Begins(r) /\ UNCHANGED armed
  /\ UNCHANGED <<clock, tickState, lastTick, plots, told, model, story, faults, cut>>

\* Mutant: the period is marked when it is checked, before it is lived.
Visit_MarksFirst(r) ==
  /\ round[r].stage = "visit"
  /\ LET p == round[r].next
         s == Slot(round[r].window)
     IN  IF p > NumProfiles
         THEN Over(r) /\ UNCHANGED <<lastTick, tickState>>
         ELSE /\ IF lastTick[p] = s THEN Onward(r) ELSE Begins(r)
              /\ lastTick' = [lastTick EXCEPT ![p] = s]
              /\ tickState' = [tickState EXCEPT ![p] = s]
              /\ UNCHANGED armed
  /\ UNCHANGED <<clock, plots, told, model, story, faults, cut>>

\* The next profile: nothing to do if its last tick is this (date, period).
Visit(r) ==
  /\ round[r].stage = "visit"
  /\ LET p == round[r].next
     IN  IF p > NumProfiles
         THEN Over(r)
         ELSE /\ IF lastTick[p] = Slot(round[r].window) THEN Onward(r) ELSE Begins(r)
              /\ UNCHANGED armed
  /\ UNCHANGED <<clock, tickState, lastTick, plots, told, model, story, faults, cut>>

Plotted(r) ==
  plots' = [plots EXCEPT ![round[r].next][round[r].window] = @ + 1]

\* ensureAffectInitialized, runTick, runScriptedPlot: affect, routine memories
\* and plot events are committed.
Plot(r) ==
  /\ round[r].stage = "plot"
  /\ Plotted(r)
  /\ Goes(r, "mark")
  /\ UNCHANGED <<clock, armed, tickState, lastTick, told, model, story, faults, cut>>

\* The first prompt goes out; without a model nothing is asked for, and the
\* round is done with the profile.
Tells(r) ==
  LET p == round[r].next
  IN  IF model
      THEN Goes(r, "narratives") /\ UNCHANGED cut
      ELSE Onward(r) /\ cut' = [cut EXCEPT ![p] = @ \cup {round[r].window}]

\* Mutant: the date of the mark is not the local one the check compares with.
Mark_OtherDate(r) ==
  /\ round[r].stage = "mark"
  /\ LET p == round[r].next
         s == [Slot(round[r].window) EXCEPT !.date = @ + 1]
     IN  /\ lastTick' = [lastTick EXCEPT ![p] = s]
         /\ tickState' = [tickState EXCEPT ![p] = s]
  /\ Tells(r)
  /\ UNCHANGED <<clock, armed, plots, told, model, story, faults>>

\* setTickState, memory and row; then what the model is to tell.
Mark(r) ==
  /\ round[r].stage = "mark"
  /\ LET p == round[r].next
         s == Slot(round[r].window)
     IN  /\ lastTick' = [lastTick EXCEPT ![p] = s]
         /\ tickState' = [tickState EXCEPT ![p] = s]
  /\ Tells(r)
  /\ UNCHANGED <<clock, armed, plots, told, model, story, faults>>

\* What a tick of window w has the model write.
Told(w) == IF PeriodOf(w) = "night" THEN Waiting ELSE Waiting \ {"reflection"}

\* Mutant: without a reflection the round has nothing more to ask.
After_ReflectionOnly(stage, w) ==
  CASE stage = "narratives" /\ PeriodOf(w) = "night" -> "reflection"
    [] stage = "reflection" -> "proactive"
    [] OTHER -> "visit"

\* What comes after a stage: a stage, or the visit of the next profile.
After(stage, w) ==
  CASE stage = "narratives" /\ PeriodOf(w) = "night" -> "reflection"
    [] stage = "proactive" -> "visit"
    [] OTHER -> "proactive"

\* The model has answered, or failed: diaries, then at night the reflection,
\* then the messages, then the next profile.  (Within a stage each agent is asked
\* in turn, unless she has no routine, no memory of the day, or is held back.)  If
\* the story has been moved since the tick began the answer is discarded, and every
\* later stage returns before it asks anything.
Answered(r) ==
  /\ ~Busy
  /\ round[r].stage \in Waiting
  /\ LET p == round[r].next
         w == round[r].window
         stage == After(round[r].stage, w)
     IN  IF round[r].generation = generation[p]
         THEN /\ told' = [told EXCEPT ![p][w] = @ \cup {round[r].stage}]
              /\ IF stage = "visit" THEN Onward(r) ELSE Goes(r, stage)
         ELSE Onward(r) /\ UNCHANGED told
  /\ UNCHANGED <<clock, armed, tickState, lastTick, plots, model, story, faults, cut>>
-----------------------------------------------------------------------------
(* What the host's handlers do between the turns of the rounds *)

\* A story move takes what the rounds waiting at the profile would still tell.
Interrupted(p) ==
  {round[r].window : r \in {x \in Rounds : round[x].stage \in Waiting /\ round[x].next = p}}

\* setStoryCursor: a checkpoint keeps the row of tick_state.  Forward the tick
\* state stays; back, the process and the table get that of a checkpoint (of
\* any one: which, and how a move fails on the way, is RealmStory's matter).
StoryMoves(p) ==
  /\ ~Busy
  /\ p \in Movers /\ generation[p] < MaxMoves
  /\ generation' = [generation EXCEPT ![p] = @ + 1]
  /\ saved' = [saved EXCEPT ![p] = @ \cup {tickState[p]}]
  /\ cut' = [cut EXCEPT ![p] = @ \cup Interrupted(p)]
  /\ \/ UNCHANGED <<tickState, lastTick, rewinds>>
     \/ /\ \E s \in saved[p] : /\ tickState' = [tickState EXCEPT ![p] = s]
                              /\ lastTick' = [lastTick EXCEPT ![p] = s]
        /\ rewinds' = [rewinds EXCEPT ![p] = @ + 1]
  /\ UNCHANGED <<clock, armed, plots, told, round, model, faults>>

\* A configuration saved in the admin page gives the hub its first model; from
\* then on one replaces the other.
ModelConfigured ==
  /\ ~Busy
  /\ ~model
  /\ model' = TRUE
  /\ UNCHANGED <<clock, armed, tickState, lastTick, plots, told, round, story, faults, cut>>
-----------------------------------------------------------------------------
(* Faults *)

Fault ==
  /\ faults < MaxFaults
  /\ faults' = faults + 1

\* A transaction of the round throws and the round rejects.  The plot may have
\* committed some of its transactions; setTickState has set the copy in memory.
StorageFails(r) ==
  /\ StorageFaults
  /\ Fault
  /\ \/ /\ round[r].stage = "plot"
        /\ Plotted(r) \/ UNCHANGED plots
        /\ UNCHANGED lastTick
     \/ /\ round[r].stage = "mark"
        /\ lastTick' = [lastTick EXCEPT ![round[r].next] = Slot(round[r].window)]
        /\ UNCHANGED plots
     \/ /\ round[r].stage \in Waiting
        /\ ~Busy
        /\ UNCHANGED <<lastTick, plots>>
  /\ Over(r)
  /\ UNCHANGED <<clock, tickState, told, model, story, cut>>

\* The process dies, in a turn or between two, and a new one reads the tables.
\* (Its generations start at 0 again: no round is left to compare them with.)
CrashAndRestart ==
  /\ Fault
  /\ armed' = FALSE
  /\ lastTick' = tickState
  /\ round' = [r \in Rounds |-> NoRound]
  /\ model' \in BOOLEAN
  /\ UNCHANGED <<clock, tickState, plots, told, story, cut>>

\* Time passes; the machine may sleep through any number of windows.
TimePasses ==
  /\ \E w \in Windows : w > clock /\ clock' = w
  /\ UNCHANGED <<armed, tickState, lastTick, plots, told, round, model, story, faults, cut>>
-----------------------------------------------------------------------------
Step(r) == Visit(r) \/ Plot(r) \/ Mark(r) \/ Answered(r)

Next ==
  \/ \E r \in Rounds : Boot(r) \/ TimerFires(r) \/ Step(r) \/ StorageFails(r)
  \/ \E p \in Profiles : StoryMoves(p)
  \/ ModelConfigured
  \/ CrashAndRestart
  \/ TimePasses

\* A turn that has begun ends and the timer keeps firing.  A model call ends,
\* with a reply or an error, and the event loop takes what is due in order: no
\* reply is passed over for ever by the rounds of the timer (hence SF).  Nothing
\* makes time pass, stories move, a model come or faults happen.
Fairness ==
  /\ WF_vars(\E r \in Rounds : Boot(r))
  /\ WF_vars(\E r \in Rounds : TimerFires(r))
  /\ \A r \in Rounds : WF_vars(Step(r)) /\ SF_vars(Answered(r))

Spec == Init /\ [][Next]_vars /\ Fairness
-----------------------------------------------------------------------------
(* Properties *)

\* A period is marked as ticked only when its script has been lived, in the
\* table, in memory and in every story checkpoint, whatever failed or crashed: no
\* restart and no move back takes a tick for done that was not (runScriptedPlot
\* before setTickState, snapshotState and restoreSnapshot).
MarkedMeansLived ==
  \A p \in Profiles :
    \A s \in ({tickState[p], lastTick[p]} \cup saved[p]) \ {NoTick} :
      \E w \in Windows : Slot(w) = s /\ plots[p][w] > 0

\* The first profile of a round, checked in the turn that read the clock, lives
\* each window once, and once more at most for each crash, each failed
\* transaction and each move of its story back, which takes the mark with it
\* (the check of tickStateIfPeriodChanged against tick_state).
Chances(p) == 1 + faults + rewinds[p]
OnceUnlessInterrupted ==
  \A w \in Windows : plots[1][w] <= Chances(1)

\* Nothing is lived that the process holds as ticked: the turn that checks the
\* last tick of a profile is the turn that lives the window and marks it, however
\* many rounds are waiting (tickStateIfPeriodChanged awaits nothing in between).
LivesOnlyUnmarked ==
  [][\A p \in Profiles, w \in Windows :
       plots'[p][w] # plots[p][w] => lastTick[p] # Slot(w)]_vars

\* As long as every round is over when the timer fires, which is what a round
\* shorter than the minute of the timer means, the promise made to the first
\* profile holds for all of them (the loop of tickIfPeriodChanged).
OneAtATime ==
  \A r, s \in Rounds :
    round[r].stage # "idle" /\ round[s].stage # "idle" => r = s
EachOnce == \A p \in Profiles, w \in Windows : plots[p][w] <= Chances(p)
EachOnceWithoutOverlap == []OneAtATime => []EachOnce

\* Every window a profile lives is told: in the end the model has been asked for
\* the diaries, at night the reflections, and the messages there are to ask for.
\* Three things may cut that short: a crash or a failed transaction; a story move
\* while a round waited there; and that there was no model when the period was
\* marked.  In the last two cases the window stays marked and is never told:
\* diaries are best-effort in the code (the awaits of tickStateIfPeriodChanged,
\* and the early returns behind them).
LivedIsTold ==
  \A p \in Profiles, w \in Windows :
    plots[p][w] > 0 ~>
      faults > 0 \/ w \in cut[p] \/ Told(w) \subseteq told[p][w]

\* Of a window that was lived nothing is passed over: each part of it has been
\* told, or a round has yet to come to it, as long as nothing fails, no story is
\* moved while a round waits there and there is a model to ask; and nothing is
\* told of a window that was not lived.
ToCome(r) ==
  CASE round[r].stage \in {"mark", "narratives"} -> Told(round[r].window)
    [] round[r].stage = "reflection" -> {"reflection", "proactive"}
    [] round[r].stage = "proactive" -> {"proactive"}
    [] OTHER -> {}
Awaited(p, w, part) ==
  \E r \in Rounds :
    round[r].next = p /\ round[r].window = w /\ part \in ToCome(r)
NothingPassedOver ==
  \A p \in Profiles, w \in Windows :
    /\ plots[p][w] > 0 /\ faults = 0 /\ w \notin cut[p] =>
         \A part \in Told(w) : part \in told[p][w] \/ Awaited(p, w, part)
    /\ told[p][w] # {} => plots[p][w] > 0

\* When time stands still every profile ends up, and stays, ticked for the
\* current period: failed rounds, crashes and rounds of an earlier period that
\* finish late are all made good by a later round.
CatchesUp == <>[](\A p \in Profiles : lastTick[p] = Slot(clock))

\* README, "runs a deterministic routine tick whenever the local wall-clock
\* period changes", and tickIfPeriodChanged, "run one tick round if the local
\* (date, period) differs from the persisted last tick": a profile already
\* ticked for the current period is not ticked.
TicksOnlyWhenPeriodDiffers ==
  [][\A p \in Profiles : plots'[p] # plots[p] => tickState[p] # Slot(clock)]_vars

\* tickIfPeriodChanged, "a restart within the same period never double-ticks":
\* with nothing but crashes going wrong, no window is lived twice.
RestartNeverDoubleTicks ==
  \A p \in Profiles, w \in Windows : plots[p][w] <= 1

\* README, "whenever the local wall-clock period changes (... night
\* otherwise)": a night is one period, and it is lived once.
OneTickPerNight ==
  \A p \in Profiles, w \in 1 .. LastWindow :
    PeriodOf(w - 1) = PeriodOf(w) => plots[p][w - 1] = 0 \/ plots[p][w] = 0
=============================================================================
