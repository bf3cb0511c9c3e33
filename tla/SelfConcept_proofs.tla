-------------------------- MODULE SelfConcept_proofs --------------------------
(***************************************************************************)
(* Proofs about SelfConcept, for any number of processes, attempts,        *)
(* revisions and story moves.                                              *)
(***************************************************************************)
EXTENDS SelfConcept, TLAPS

\* Inductive strengthening: a process that is deciding an attempt is in the turn
\* of that attempt and in no other.
TurnHeld ==
  \A a \in Attempts :
    attempt[a].stage \in {"started", "swap"} => turn[ProcessOf[a]] = a

TInv == TypeOK /\ TurnHeld

\* Between the prompt and the decision the row the author was shown is the row
\* that is there or a newer one is, as long as the story has not moved.
Current(a) ==
  /\ attempt[a].gen <= generation[ProcessOf[a]]
  /\ StoryUnchanged(a) => \/ stored = attempt[a].shown
                         \/ stored.revision > attempt[a].shown.revision

ShownIsCurrent ==
  \A a \in Attempts :
    /\ attempt[a].stage \in {"waiting", "started", "swap"}
    /\ Movers \subseteq {ProcessOf[a]}
    => Current(a)

\* No story move comes between the check of the generation and the swap.
DecidedInItsStory ==
  \A a \in Attempts : attempt[a].stage \in {"started", "swap"} => StoryUnchanged(a)
-----------------------------------------------------------------------------
(* The audit is a bag that only grows *)

LEMMA EmptyAudit == IsABag(EmptyBag) /\ BagToSet(EmptyBag) = {}
BY DEF IsABag, EmptyBag, BagToSet, SetToBag

LEMMA LogGrows ==
  ASSUME NEW B, IsABag(B), NEW e
  PROVE  /\ IsABag(B (+) SetToBag({e}))
         /\ BagToSet(B (+) SetToBag({e})) = BagToSet(B) \cup {e}
<1> DEFINE D == (DOMAIN B) \cup {e}
<1>1. DOMAIN (B (+) SetToBag({e})) = D
  BY DEF SetToBag, (+)
<1>2. \A x \in DOMAIN B : B[x] \in Nat /\ B[x] > 0
  BY DEF IsABag
<1>3. \A x \in D : (B (+) SetToBag({e}))[x] \in {n \in Nat : n > 0}
  BY <1>2, SMT DEF SetToBag, (+)
<1>4. IsABag(B (+) SetToBag({e}))
  BY <1>1, <1>3 DEF IsABag, (+)
<1>5. QED
  BY <1>1, <1>4 DEF BagToSet
-----------------------------------------------------------------------------
(* Types *)

LEMMA RowFacts ==
  ASSUME SelfConceptAssumption
  PROVE  /\ NoRow \in Row
         /\ NoAttempt \in [stage : Stages, gen : Nat, shown : Row, expected : Nat]
         /\ Ended \in [stage : Stages, gen : Nat, shown : Row, expected : Nat]
         /\ Ended.stage = "over" /\ NoAttempt.stage = "none"
BY DEF SelfConceptAssumption, NoRow, Row, NoAttempt, Ended, Stages

LEMMA LogTyped ==
  ASSUME TypeOK, NEW a \in Attempts, NEW revision \in Nat,
         NEW type \in {"attempt_started", "reconciled"} \cup Decisions,
         LogWith(a, type, revision)
  PROVE  /\ IsABag(audit')
         /\ BagToSet(audit') \subseteq Event
         /\ BagToSet(audit') = BagToSet(audit)
              \cup {[attempt |-> a, type |-> type, revision |-> revision]}
<1> DEFINE e == [attempt |-> a, type |-> type, revision |-> revision]
<1>1. e \in Event
  BY DEF Event
<1>2. IsABag(audit) /\ BagToSet(audit) \subseteq Event
  BY DEF TypeOK
<1>3. audit' = audit (+) SetToBag({e})
  BY DEF LogWith
<1> HIDE DEF e
<1>4. IsABag(audit') /\ BagToSet(audit') = BagToSet(audit) \cup {e}
  BY <1>2, <1>3, LogGrows
<1>5. QED
  BY <1>1, <1>2, <1>4 DEF e

LEMMA InitTyped == ASSUME SelfConceptAssumption, Init PROVE TInv
BY RowFacts, EmptyAudit DEF SelfConceptAssumption, Init, TInv, TypeOK, TurnHeld

\* An attempt of a process that is in no turn, or in its own, may end.
LEMMA OverTyped ==
  ASSUME SelfConceptAssumption, TInv, NEW a \in Attempts, Over(a),
         attempt[a].stage \in {"started", "swap"}, closing' = closing
  PROVE  /\ attempt' \in [Attempts -> [stage : Stages, gen : Nat, shown : Row, expected : Nat]]
         /\ turn' \in [Processes -> Attempts \cup {"reconcile", "idle"}]
         /\ \A p \in Processes : turn'[p] = "reconcile" <=> closing'[p] # {}
         /\ TurnHeld'
<1>1. turn[ProcessOf[a]] = a /\ a # "reconcile" /\ ProcessOf[a] \in Processes
  BY DEF SelfConceptAssumption, TInv, TurnHeld
<1>2. QED
  BY <1>1, RowFacts DEF Over, TInv, TypeOK, TurnHeld, SelfConceptAssumption

LEMMA StepTyped ==
  ASSUME SelfConceptAssumption, TInv, [Next]_vars
  PROVE  TInv'
<1> USE DEF SelfConceptAssumption
<1>1. ASSUME NEW a \in Attempts, Ask(a) PROVE TInv'
  BY <1>1 DEF Ask, Idle, TInv, TypeOK, TurnHeld, Stages
<1>2. ASSUME NEW a \in Attempts, NoProposal(a) PROVE TInv'
  BY <1>2, RowFacts DEF NoProposal, Answerable, Idle, TInv, TypeOK, TurnHeld
<1>3. ASSUME NEW a \in Attempts, ParseFails(a) PROVE TInv'
  <2>1. IsABag(audit') /\ BagToSet(audit') \subseteq Event
    BY <1>3, LogTyped DEF ParseFails, Log, TInv, Decisions
  <2>2. QED
    BY <1>3, <2>1, RowFacts DEF ParseFails, Answerable, Idle, TInv, TypeOK, TurnHeld
<1>4. ASSUME NEW a \in Attempts, Propose(a) PROVE TInv'
  <2>1. IsABag(audit') /\ BagToSet(audit') \subseteq Event
    BY <1>4, LogTyped DEF Propose, Log, TInv
  <2>2. PICK e \in 0 .. MaxRevision :
          attempt' = [attempt EXCEPT ![a].stage = "started", ![a].expected = e]
    BY <1>4 DEF Propose
  <2>3. attempt' \in [Attempts -> [stage : Stages, gen : Nat, shown : Row, expected : Nat]]
    <3> DEFINE Record == [stage : Stages, gen : Nat, shown : Row, expected : Nat]
    <3>1. e \in Nat /\ "started" \in Stages
      BY DEF Stages
    <3>2. attempt \in [Attempts -> Record]
      BY DEF TInv, TypeOK
    <3>3. attempt[a] \in Record
      BY <3>2
    <3>4. [attempt[a] EXCEPT !.stage = "started", !.expected = e] \in Record
      BY <3>1, <3>3
    <3>5. attempt' = [attempt EXCEPT
            ![a] = [attempt[a] EXCEPT !.stage = "started", !.expected = e]]
      BY <2>2, <3>2
    <3> HIDE DEF Record
    <3>6. attempt' \in [Attempts -> Record]
      BY <3>2, <3>4, <3>5
    <3>7. QED
      BY <3>6 DEF Record
  <2>4. turn' \in [Processes -> Attempts \cup {"reconcile", "idle"}]
    BY <1>4 DEF Propose, TInv, TypeOK
  <2>5. \A p \in Processes : turn'[p] = "reconcile" <=> closing'[p] # {}
    BY <1>4 DEF Propose, Answerable, Idle, TInv, TypeOK
  <2>6. TurnHeld'
    BY <1>4, <2>2 DEF Propose, Answerable, Idle, TInv, TypeOK, TurnHeld
  <2>7. QED
    BY <1>4, <2>1, <2>3, <2>4, <2>5, <2>6 DEF Propose, TInv, TypeOK
<1>5. ASSUME NEW a \in Attempts, Reject(a) PROVE TInv'
  <2>1. IsABag(audit') /\ BagToSet(audit') \subseteq Event
    BY <1>5, LogTyped DEF Reject, Log, TInv, Decisions
  <2>2. QED
    BY <1>5, <2>1, OverTyped DEF Reject, TInv, TypeOK
<1>6. ASSUME NEW a \in Attempts, CheckRevision(a) PROVE TInv'
  <2>1. CASE attempt[a].expected # stored.revision
    <3>1. IsABag(audit') /\ BagToSet(audit') \subseteq Event
      BY <1>6, <2>1, LogTyped DEF CheckRevision, Log, TInv, Decisions
    <3>2. QED
      BY <1>6, <2>1, <3>1, OverTyped DEF CheckRevision, TInv, TypeOK
  <2>2. CASE attempt[a].expected = stored.revision
    <3>1. /\ attempt' = [attempt EXCEPT ![a].stage = "swap"]
          /\ attempt[a].stage = "started"
          /\ UNCHANGED <<stored, audit, rows, generation, turn, closing>>
      BY <1>6, <2>2 DEF CheckRevision
    <3>2. attempt' \in [Attempts -> [stage : Stages, gen : Nat, shown : Row, expected : Nat]]
      <4> DEFINE Record == [stage : Stages, gen : Nat, shown : Row, expected : Nat]
      <4>1. attempt \in [Attempts -> Record] /\ "swap" \in Stages
        BY DEF TInv, TypeOK, Stages
      <4>2. [attempt[a] EXCEPT !.stage = "swap"] \in Record
        BY <4>1
      <4>3. attempt' = [attempt EXCEPT ![a] = [attempt[a] EXCEPT !.stage = "swap"]]
        BY <3>1, <4>1
      <4> HIDE DEF Record
      <4>4. attempt' \in [Attempts -> Record]
        BY <4>1, <4>2, <4>3
      <4>5. QED
        BY <4>4 DEF Record
    <3>3. TurnHeld'
      BY <3>1 DEF TInv, TypeOK, TurnHeld
    <3>4. QED
      BY <3>1, <3>2, <3>3 DEF TInv, TypeOK
  <2>3. QED
    BY <2>1, <2>2
<1>7. ASSUME NEW a \in Attempts, Swap(a) PROVE TInv'
  <2> DEFINE next == attempt[a].expected + 1
  <2>1. next \in Nat /\ next # 0
    BY DEF TInv, TypeOK
  <2>2. stored' \in Row
    BY <1>7, <2>1 DEF Swap, TInv, TypeOK, Row
  <2>3. IsABag(audit') /\ BagToSet(audit') \subseteq Event
    BY <1>7, <2>1, LogTyped DEF Swap, Log, TInv, Decisions
  <2>4. QED
    BY <1>7, <2>2, <2>3, OverTyped DEF Swap, TInv, TypeOK
<1>8. ASSUME NEW a \in Attempts, SwapFails(a) PROVE TInv'
  <2>1. IsABag(audit') /\ BagToSet(audit') \subseteq Event
    BY <1>8, LogTyped DEF SwapFails, Log, TInv, TypeOK, Decisions
  <2>2. QED
    BY <1>8, <2>1, OverTyped DEF SwapFails, TInv, TypeOK
<1>9. ASSUME NEW a \in Attempts, AuditFails(a) PROVE TInv'
  BY <1>9, OverTyped DEF AuditFails, TInv, TypeOK
<1>10. ASSUME NEW p \in Movers, MoveForward(p) PROVE TInv'
  BY <1>10 DEF MoveForward, TInv, TypeOK, TurnHeld
<1>11. ASSUME NEW p \in Movers, MoveBack(p) PROVE TInv'
  <2>1. PICK k \in 1 .. Len(rows), drop \in {0, 1} :
          stored' = rows[k] /\ rows' = SubSeq(rows, 1, k - drop)
    BY <1>11 DEF MoveBack
  <2>2. stored' \in Row /\ rows' \in Seq(Row)
    BY <2>1 DEF TInv, TypeOK
  <2>3. QED
    BY <1>11, <2>2 DEF MoveBack, TInv, TypeOK, TurnHeld
<1>12. ASSUME NEW p \in Reconcilers, Select(p) PROVE TInv'
  <2>1. Incomplete \in SUBSET Attempts
    BY DEF Incomplete, Logged, TInv, TypeOK, Event
  <2>2. QED
    BY <1>12, <2>1 DEF Select, Idle, TInv, TypeOK, TurnHeld
<1>13. ASSUME NEW p \in Reconcilers, Close(p) PROVE TInv'
  <2>1. PICK a \in closing[p] :
          /\ Log(a, "reconciled")
          /\ closing' = [closing EXCEPT ![p] = @ \ {a}]
          /\ turn' = IF closing[p] = {a} THEN [turn EXCEPT ![p] = "idle"] ELSE turn
    BY <1>13 DEF Close
  <2>2. a \in Attempts
    BY <2>1 DEF TInv, TypeOK
  <2>3. IsABag(audit') /\ BagToSet(audit') \subseteq Event
    BY <2>1, <2>2, LogTyped DEF Log, TInv
  <2>4. closing' \in [Processes -> SUBSET Attempts] /\ p \in Processes
    BY <2>1 DEF TInv, TypeOK
  <2>5. turn' \in [Processes -> Attempts \cup {"reconcile", "idle"}]
    BY <2>1 DEF TInv, TypeOK
  <2>6. \A q \in Processes : turn'[q] = "reconcile" <=> closing'[q] # {}
    <3>1. closing[p] \ {a} = {} <=> closing[p] = {a}
      BY <2>1
    <3>2. turn[p] = "reconcile"
      BY <1>13 DEF Close
    <3>3. closing'[p] = closing[p] \ {a}
      BY <2>1, <2>4 DEF TInv, TypeOK
    <3>4. turn'[p] = "reconcile" <=> closing[p] # {a}
      BY <2>1, <2>4, <3>2 DEF TInv, TypeOK
    <3>5. \A q \in Processes \ {p} : turn'[q] = turn[q] /\ closing'[q] = closing[q]
      BY <2>1 DEF TInv, TypeOK
    <3>6. QED
      BY <3>1, <3>3, <3>4, <3>5 DEF TInv, TypeOK
  <2>7. TurnHeld'
    BY <1>13, <2>1, <2>4 DEF Close, TInv, TypeOK, TurnHeld
  <2>8. QED
    BY <1>13, <2>3, <2>4, <2>5, <2>6, <2>7 DEF Close, TInv, TypeOK
<1>14. ASSUME NEW p \in Processes, CrashAndRestart(p) PROVE TInv'
  BY <1>14, RowFacts DEF CrashAndRestart, TInv, TypeOK, TurnHeld
<1>15. CASE UNCHANGED vars
  BY <1>15 DEF vars, TInv, TypeOK, TurnHeld
<1>16. QED
  BY <1>1, <1>2, <1>3, <1>4, <1>5, <1>6, <1>7, <1>8, <1>9, <1>10, <1>11, <1>12,
     <1>13, <1>14, <1>15 DEF Next, Decide
-----------------------------------------------------------------------------
(* Every row is accounted for *)

\* No action takes an event away.
LEMMA AuditGrows ==
  ASSUME SelfConceptAssumption, TypeOK, [Next]_vars
  PROVE  BagToSet(audit) \subseteq BagToSet(audit')
<1>1. ASSUME NEW a, NEW type, NEW n, LogWith(a, type, n)
      PROVE  BagToSet(audit) \subseteq BagToSet(audit')
  <2> DEFINE e == [attempt |-> a, type |-> type, revision |-> n]
  <2>1. IsABag(audit) /\ audit' = audit (+) SetToBag({e})
    BY <1>1 DEF LogWith, TypeOK
  <2> HIDE DEF e
  <2>2. BagToSet(audit (+) SetToBag({e})) = BagToSet(audit) \cup {e}
    BY <2>1, LogGrows, Zenon
  <2>3. QED
    BY <2>1, <2>2
<1>2. ASSUME NEW a \in Attempts, Decide(a)
      PROVE  BagToSet(audit) \subseteq BagToSet(audit')
  BY <1>1, <1>2 DEF Decide, Ask, NoProposal, ParseFails, Propose, Reject,
     CheckRevision, Swap, SwapFails, AuditFails, Log
<1>3. ASSUME NEW p, Close(p) PROVE BagToSet(audit) \subseteq BagToSet(audit')
  BY <1>1, <1>3 DEF Close, Log
<1>4. QED
  BY <1>2, <1>3 DEF Next, MoveForward, MoveBack, Select, CrashAndRestart, vars

\* The rows that are there or may come back.
KeptRows == {stored} \cup {rows[i] : i \in DOMAIN rows}

\* A step brings in no row but the one of an accepted proposal.
LEMMA RowsKept ==
  ASSUME SelfConceptAssumption, TypeOK, [Next]_vars,
         \A a \in Attempts : ~Swap(a)
  PROVE  KeptRows' \subseteq KeptRows
<1>1. rows \in Seq(Row)
  BY DEF TypeOK
<1>2. CASE UNCHANGED <<stored, rows>>
  BY <1>2 DEF KeptRows
<1>3. ASSUME NEW p \in Movers, MoveForward(p) PROVE KeptRows' \subseteq KeptRows
  <2>1. rows' = Append(rows, stored) /\ stored' = stored
    BY <1>3 DEF MoveForward
  <2>2. \A i \in DOMAIN rows' : rows'[i] = stored \/ (i \in DOMAIN rows /\ rows'[i] = rows[i])
    BY <1>1, <2>1
  <2>3. QED
    BY <2>1, <2>2 DEF KeptRows
<1>4. ASSUME NEW p \in Movers, MoveBack(p) PROVE KeptRows' \subseteq KeptRows
  <2>1. PICK k \in 1 .. Len(rows), drop \in {0, 1} :
          stored' = rows[k] /\ rows' = SubSeq(rows, 1, k - drop)
    BY <1>4 DEF MoveBack
  <2>2. \A i \in DOMAIN rows' : i \in DOMAIN rows /\ rows'[i] = rows[i]
    BY <1>1, <2>1
  <2>3. k \in DOMAIN rows
    BY <1>1
  <2>4. QED
    BY <2>1, <2>2, <2>3 DEF KeptRows
<1>5. QED
  BY <1>2, <1>3, <1>4 DEF Next, Decide, Ask, NoProposal, ParseFails, Propose, Reject,
     CheckRevision, SwapFails, AuditFails, Select, Close, CrashAndRestart, vars

LEMMA StepAccounted ==
  ASSUME SelfConceptAssumption, TypeOK, EveryRowIsAccountedFor, [Next]_vars
  PROVE  EveryRowIsAccountedFor'
<1>1. BagToSet(audit) \subseteq BagToSet(audit')
  BY AuditGrows
<1>2. \A row \in KeptRows : row # NoRow => Accepted(row)'
  BY <1>1 DEF EveryRowIsAccountedFor, KeptRows, Accepted, BagIn
<1>3. CASE \A a \in Attempts : ~Swap(a)
  BY <1>2, <1>3, RowsKept DEF EveryRowIsAccountedFor, KeptRows
<1>4. ASSUME NEW a \in Attempts, Swap(a) PROVE EveryRowIsAccountedFor'
  <2> DEFINE next == attempt[a].expected + 1
  <2>1. CASE stored.revision = attempt[a].expected
    <3>1. /\ stored' = [revision |-> next, by |-> a]
          /\ LogWith(a, "accepted", next)
          /\ rows' = rows
      BY <1>4, <2>1 DEF Swap
    <3>2. next \in Nat
      BY DEF TypeOK
    <3>3. [attempt |-> a, type |-> "accepted", revision |-> next] \in BagToSet(audit')
      BY <3>1, <3>2, LogTyped DEF Decisions
    <3>4. Accepted(stored)'
      BY <3>1, <3>3 DEF Accepted, BagIn
    <3>5. QED
      BY <1>2, <3>1, <3>4 DEF EveryRowIsAccountedFor, KeptRows
  <2>2. CASE stored.revision # attempt[a].expected
    BY <1>2, <1>4, <2>2 DEF Swap, EveryRowIsAccountedFor, KeptRows
  <2>3. QED
    BY <2>1, <2>2
<1>5. QED
  BY <1>3, <1>4

\* The state of every run: types, and each process in at most one decision.
THEOREM TypeCorrect == Spec => []TypeOK
<1>1. Init => TInv
  BY InitTyped, SelfConceptAssumption
<1>2. TInv /\ [Next]_vars => TInv'
  BY StepTyped, SelfConceptAssumption
<1>3. TInv => TypeOK
  BY DEF TInv
<1>4. QED
  BY <1>1, <1>2, <1>3, PTL DEF Spec

\* What an agent believes of herself, and every belief a rollback may give her
\* back, has its accepted event, whatever crashed and whoever else wrote.
THEOREM SelfIsAccountedFor == Spec => []EveryRowIsAccountedFor
<1>1. Init => EveryRowIsAccountedFor
  BY DEF Init, EveryRowIsAccountedFor
<1>2. TypeOK /\ EveryRowIsAccountedFor /\ [Next]_vars => EveryRowIsAccountedFor'
  BY StepAccounted, SelfConceptAssumption
<1>3. QED
  BY <1>1, <1>2, TypeCorrect, PTL DEF Spec
-----------------------------------------------------------------------------
(* No update is lost *)

\* Every step of an attempt leaves the others as they were.
LEMMA OthersKept ==
  ASSUME SelfConceptAssumption, TInv, NEW a \in Attempts, Decide(a)
  PROVE  \A b \in Attempts \ {a} : attempt'[b] = attempt[b]
BY DEF Decide, Ask, NoProposal, ParseFails, Propose, Reject, CheckRevision, Swap,
   SwapFails, AuditFails, Over, TInv, TypeOK

LEMMA StepInItsStory ==
  ASSUME SelfConceptAssumption, TInv, DecidedInItsStory, [Next]_vars
  PROVE  DecidedInItsStory'
<1> USE DEF SelfConceptAssumption
<1>1. ASSUME NEW a \in Attempts, Decide(a) PROVE DecidedInItsStory'
  <2>1. generation' = generation
    BY <1>1 DEF Decide, Ask, NoProposal, ParseFails, Propose, Reject, CheckRevision,
       Swap, SwapFails, AuditFails
  <2>2. attempt'[a].stage \in {"started", "swap"} =>
          attempt'[a].gen = generation[ProcessOf[a]]
    BY <1>1, RowFacts DEF Decide, Ask, NoProposal, ParseFails, Propose, Reject,
       CheckRevision, Swap, SwapFails, AuditFails, Over, TInv, TypeOK,
       DecidedInItsStory, StoryUnchanged
  <2>3. QED
    BY <1>1, <2>1, <2>2, OthersKept DEF DecidedInItsStory, StoryUnchanged
<1>2. ASSUME NEW p \in Movers, MoveForward(p) \/ MoveBack(p)
      PROVE  DecidedInItsStory'
  <2>1. /\ turn[p] = "idle"
        /\ attempt' = attempt
        /\ generation' = [generation EXCEPT ![p] = @ + 1]
    BY <1>2 DEF MoveForward, MoveBack, Idle
  <2>2. QED
    BY <2>1 DEF TInv, TypeOK, TurnHeld, DecidedInItsStory, StoryUnchanged
<1>3. ASSUME NEW p, Select(p) \/ Close(p) PROVE DecidedInItsStory'
  BY <1>3 DEF Select, Close, DecidedInItsStory, StoryUnchanged
<1>4. ASSUME NEW p \in Processes, CrashAndRestart(p) PROVE DecidedInItsStory'
  BY <1>4, RowFacts DEF CrashAndRestart, TInv, TypeOK, DecidedInItsStory, StoryUnchanged
<1>5. CASE UNCHANGED vars
  BY <1>5 DEF vars, DecidedInItsStory, StoryUnchanged
<1>6. QED
  BY <1>1, <1>2, <1>3, <1>4, <1>5 DEF Next

\* A decision leaves the row or puts the next revision in its place.
LEMMA RevisionGrows ==
  ASSUME TInv, NEW a \in Attempts, Decide(a)
  PROVE  stored' = stored \/ stored'.revision = stored.revision + 1
BY DEF Decide, Ask, NoProposal, ParseFails, Propose, Reject, CheckRevision, Swap,
   SwapFails, AuditFails

LEMMA StepCurrent ==
  ASSUME SelfConceptAssumption, TInv, ShownIsCurrent, [Next]_vars
  PROVE  ShownIsCurrent'
<1> USE DEF SelfConceptAssumption
<1> SUFFICES ASSUME NEW a \in Attempts,
                    attempt'[a].stage \in {"waiting", "started", "swap"},
                    Movers \subseteq {ProcessOf[a]}
             PROVE  Current(a)'
  BY DEF ShownIsCurrent
<1>1. ASSUME NEW b \in Attempts, Decide(b), b # a PROVE Current(a)'
  <2>1. generation' = generation /\ attempt'[a] = attempt[a]
    BY <1>1, OthersKept DEF Decide, Ask, NoProposal, ParseFails, Propose, Reject,
       CheckRevision, Swap, SwapFails, AuditFails
  <2>2. Current(a)
    BY <2>1 DEF ShownIsCurrent
  <2>3. stored.revision \in Nat /\ attempt[a].shown.revision \in Nat
    BY DEF TInv, TypeOK, Row
  <2>4. QED
    BY <1>1, <2>1, <2>2, <2>3, RevisionGrows DEF Current, StoryUnchanged
<1>2. CASE Ask(a)
  BY <1>2 DEF Ask, TInv, TypeOK, Current, StoryUnchanged
<1>3. CASE Decide(a) /\ ~Ask(a)
  <2>1. generation' = generation /\ stored' = stored
        /\ attempt'[a].gen = attempt[a].gen /\ attempt'[a].shown = attempt[a].shown
        /\ attempt[a].stage \in {"waiting", "started"}
    BY <1>3, RowFacts DEF Decide, NoProposal, ParseFails, Propose, Answerable, Reject,
       CheckRevision, Swap, SwapFails, AuditFails, Over, TInv, TypeOK
  <2>2. QED
    BY <2>1 DEF ShownIsCurrent, Current, StoryUnchanged
<1>4. ASSUME NEW p \in Movers, MoveForward(p) \/ MoveBack(p) PROVE Current(a)'
  <2>1. p = ProcessOf[a] /\ attempt' = attempt
        /\ generation' = [generation EXCEPT ![p] = @ + 1]
    BY <1>4 DEF MoveForward, MoveBack
  <2>2. attempt[a].gen <= generation[p]
    BY <2>1 DEF ShownIsCurrent, Current
  <2>3. generation[p] \in Nat /\ generation'[p] = generation[p] + 1
        /\ attempt[a].gen \in Nat
    BY <2>1 DEF TInv, TypeOK
  <2>4. QED
    BY <2>1, <2>2, <2>3 DEF Current, StoryUnchanged
<1>5. ASSUME NEW p, Select(p) \/ Close(p) PROVE Current(a)'
  BY <1>5 DEF Select, Close, ShownIsCurrent, Current, StoryUnchanged
<1>6. ASSUME NEW p \in Processes, CrashAndRestart(p) PROVE Current(a)'
  BY <1>6, RowFacts DEF CrashAndRestart, TInv, TypeOK, ShownIsCurrent, Current,
     StoryUnchanged
<1>7. CASE UNCHANGED vars
  BY <1>7 DEF vars, ShownIsCurrent, Current, StoryUnchanged
<1>8. QED
  BY <1>1, <1>2, <1>3, <1>4, <1>5, <1>6, <1>7 DEF Next

\* A proposal that names the revision it was shown replaces the very row it was
\* shown, although the row is read again only after the model has answered.
THEOREM NoLostUpdate == Spec => ReplacesOnlyWhatItRead
<1> DEFINE Inv == TInv /\ DecidedInItsStory /\ ShownIsCurrent
<1>1. Init => Inv
  BY InitTyped, SelfConceptAssumption DEF Init, NoAttempt, DecidedInItsStory, ShownIsCurrent
<1>2. Inv /\ [Next]_vars => Inv'
  BY StepTyped, StepInItsStory, StepCurrent, SelfConceptAssumption
<1>3. ASSUME Inv, [Next]_vars, NEW a \in Attempts,
             stored'.by = a, stored' # stored,
             attempt[a].stage = "swap",
             attempt[a].expected = attempt[a].shown.revision,
             Movers \subseteq {ProcessOf[a]}
      PROVE  stored = attempt[a].shown
  <2>1. Current(a) /\ StoryUnchanged(a)
    BY <1>3 DEF ShownIsCurrent, DecidedInItsStory
  <2>2. turn[ProcessOf[a]] = a /\ a \notin {"nobody", "reconcile", "idle"}
    BY <1>3, SelfConceptAssumption DEF TInv, TurnHeld, SelfConceptAssumption
  <2>3. \A b \in Attempts : Swap(b) /\ stored' # stored => b = a
    BY <1>3 DEF Swap
  <2>4. \A p \in Movers : ~MoveForward(p) /\ ~MoveBack(p)
    BY <1>3, <2>2 DEF MoveForward, MoveBack, Idle
  <2>5. Swap(a)
    BY <1>3, <2>3, <2>4 DEF Next, Decide, Ask, NoProposal, ParseFails, Propose, Reject,
       CheckRevision, SwapFails, AuditFails, Select, Close, CrashAndRestart, vars
  <2>6. stored.revision = attempt[a].shown.revision /\ stored.revision \in Nat
    BY <1>3, <2>5 DEF Swap, TInv, TypeOK, Row
  <2>7. QED
    BY <2>1, <2>6 DEF Current
<1>4. Inv /\ [Next]_vars =>
        [\A a \in Attempts :
           /\ stored'.by = a /\ stored' # stored
           /\ attempt[a].stage = "swap"
           /\ attempt[a].expected = attempt[a].shown.revision
           /\ Movers \subseteq {ProcessOf[a]}
           => stored = attempt[a].shown]_vars
  BY <1>3
<1> HIDE DEF Inv
<1>5. QED
  BY <1>1, <1>2, <1>4, PTL DEF Spec, ReplacesOnlyWhatItRead
-----------------------------------------------------------------------------
(* An attempt is decided once *)

Closers == Decisions \cup {"reconciled"}

\* No event of these types is on record for the attempt.
NoneOf(a, types) ==
  \A e \in BagToSet(audit) : e.attempt = a => e.type \notin types

\* Only a reconciler has attempts selected; its own process has decided them or
\* has died, and nothing has closed them.
SelectedAreOpen(a) ==
  \A p \in Processes :
    a \in closing[p] => attempt[a].stage = "over" /\ NoneOf(a, Closers)

\* Inductive strengthening: as long as an attempt is not over nothing is on
\* record that decides or closes it, and before its proposal nothing at all.
Deciding(a) ==
  /\ attempt[a].stage \in {"none", "waiting"} => NoneOf(a, {"attempt_started"})
  /\ attempt[a].stage # "over" => NoneOf(a, Decisions)
  /\ AtMostOne(a, Decisions)
  /\ Reconcilers \subseteq {ProcessOf[a]} =>
       /\ attempt[a].stage # "over" => NoneOf(a, Closers)
       /\ AtMostOne(a, Closers)
       /\ SelectedAreOpen(a)

DInv ==
  /\ \A a \in Attempts : Deciding(a)
  /\ \A p \in Processes \ Reconcilers : closing[p] = {}

\* A logged event is counted once more, the others as before.
LEMMA LogCounts ==
  ASSUME NEW B, IsABag(B), NEW e
  PROVE  /\ \A x \in BagToSet(B) \ {e} : (B (+) SetToBag({e}))[x] = B[x]
         /\ e \notin BagToSet(B) => (B (+) SetToBag({e}))[e] = 1
<1>1. \A x \in DOMAIN B : B[x] \in Nat
  BY DEF IsABag
<1>2. \A x \in DOMAIN B : x # e => (B (+) SetToBag({e}))[x] = B[x]
  BY <1>1, SMT DEF SetToBag, (+)
<1>3. e \notin DOMAIN B => (B (+) SetToBag({e}))[e] = 1
  BY SMT DEF SetToBag, (+)
<1>4. QED
  BY <1>2, <1>3 DEF BagToSet

\* An event of another attempt, or of another type, changes nothing.
LEMMA LogApart ==
  ASSUME TypeOK, NEW b \in Attempts, NEW n \in Nat,
         NEW type \in {"attempt_started", "reconciled"} \cup Decisions,
         LogWith(b, type, n), NEW a, NEW types, a # b \/ type \notin types
  PROVE  /\ NoneOf(a, types) => NoneOf(a, types)'
         /\ AtMostOne(a, types) => AtMostOne(a, types)'
<1> DEFINE e == [attempt |-> b, type |-> type, revision |-> n]
<1>1. audit' = audit (+) SetToBag({e}) /\ IsABag(audit)
  BY DEF LogWith, TypeOK
<1>2. ~(e.attempt = a /\ e.type \in types)
  OBVIOUS
<1>3. BagToSet(audit') = BagToSet(audit) \cup {e}
  BY LogTyped
<1> HIDE DEF e
<1>4. \A x \in BagToSet(audit) \ {e} : audit'[x] = audit[x]
  <2>1. \A x \in BagToSet(audit) \ {e} : (audit (+) SetToBag({e}))[x] = audit[x]
    BY <1>1, LogCounts, Zenon
  <2>2. QED
    BY <1>1, <2>1
<1>5. \A x \in BagToSet(audit') : x.attempt = a /\ x.type \in types =>
        x \in BagToSet(audit) /\ audit'[x] = audit[x]
  BY <1>2, <1>3, <1>4
<1>6. NoneOf(a, types) => NoneOf(a, types)'
  BY <1>5 DEF NoneOf
<1>7. ASSUME AtMostOne(a, types) PROVE AtMostOne(a, types)'
  <2>1. SUFFICES ASSUME NEW x \in BagToSet(audit'), NEW y \in BagToSet(audit'),
                        x.attempt = a /\ x.type \in types,
                        y.attempt = a /\ y.type \in types
                 PROVE  x = y /\ audit'[x] = 1
    BY DEF AtMostOne
  <2>2. x = y /\ audit[x] = 1
    BY <1>5, <1>7, <2>1 DEF AtMostOne
  <2>3. QED
    BY <1>5, <2>1, <2>2
<1>8. QED
  BY <1>6, <1>7

\* The first of its kind is the only one.
LEMMA LogFirst ==
  ASSUME TypeOK, NEW a \in Attempts, NEW n \in Nat,
         NEW type \in {"attempt_started", "reconciled"} \cup Decisions,
         LogWith(a, type, n), NEW types, type \in types, NoneOf(a, types)
  PROVE  AtMostOne(a, types)'
<1> DEFINE e == [attempt |-> a, type |-> type, revision |-> n]
<1>1. audit' = audit (+) SetToBag({e}) /\ IsABag(audit)
  BY DEF LogWith, TypeOK
<1>2. e.attempt = a /\ e.type \in types
  OBVIOUS
<1>3. BagToSet(audit') = BagToSet(audit) \cup {e}
  BY LogTyped
<1> HIDE DEF e
<1>4. e \notin BagToSet(audit)
  BY <1>2 DEF NoneOf
<1>5. audit'[e] = 1
  BY <1>1, <1>4, LogCounts
<1>6. QED
  BY <1>2, <1>3, <1>5 DEF NoneOf, AtMostOne

\* Nothing is logged for the attempt in this step.
Silent(a) ==
  \/ audit' = audit
  \/ \E b \in Attempts \ {a}, n \in Nat,
        type \in {"attempt_started", "reconciled"} \cup Decisions : LogWith(b, type, n)

\* It goes nowhere but on, and is not selected.
Onward(a) ==
  /\ attempt[a].stage = "over" => attempt'[a].stage = "over"
  /\ attempt'[a].stage \in {"none", "waiting"} => attempt[a].stage \in {"none", "waiting"}
  /\ \A p \in Processes : a \in closing'[p] => a \in closing[p]

LEMMA SilentStep ==
  ASSUME TypeOK, NEW a \in Attempts, Deciding(a), Silent(a), Onward(a)
  PROVE  Deciding(a)'
<1>1. ASSUME NEW types
      PROVE  /\ NoneOf(a, types) => NoneOf(a, types)'
             /\ AtMostOne(a, types) => AtMostOne(a, types)'
  <2>1. CASE audit' = audit
    BY <2>1 DEF NoneOf, AtMostOne
  <2>2. CASE audit' # audit
    <3>1. PICK b \in Attempts \ {a}, n \in Nat,
               type \in {"attempt_started", "reconciled"} \cup Decisions :
            LogWith(b, type, n)
      BY <2>2 DEF Silent
    <3>2. QED
      BY <3>1, LogApart
  <2>3. QED
    BY <2>1, <2>2
<1>2. QED
  BY <1>1 DEF Deciding, Onward, SelectedAreOpen

\* A decision is logged for an attempt that is not over, and it is over.
LEMMA DecisionStep ==
  ASSUME TypeOK, NEW a \in Attempts, Deciding(a), NEW n \in Nat, NEW type \in Decisions,
         LogWith(a, type, n), attempt[a].stage # "over", attempt'[a].stage = "over",
         closing' = closing
  PROVE  Deciding(a)'
<1>1. AtMostOne(a, Decisions)'
  BY LogFirst DEF Deciding
<1>2. Reconcilers \subseteq {ProcessOf[a]} =>
        AtMostOne(a, Closers)' /\ \A p \in Processes : a \notin closing[p]
  BY LogFirst DEF Deciding, Closers, SelectedAreOpen
<1>3. QED
  BY <1>1, <1>2 DEF Deciding, SelectedAreOpen

\* The other attempts do not notice a step of one.
LEMMA OthersUndisturbed ==
  ASSUME SelfConceptAssumption, TInv, NEW b \in Attempts, Decide(b)
  PROVE  /\ closing' = closing
         /\ \A a \in Attempts \ {b} : attempt'[a] = attempt[a] /\ Silent(a)
<1>1. closing' = closing
  BY DEF Decide, Ask, NoProposal, ParseFails, Propose, Reject, CheckRevision, Swap,
     SwapFails, AuditFails
<1>2. \A a \in Attempts \ {b} : attempt'[a] = attempt[a]
  BY DEF Decide, Ask, NoProposal, ParseFails, Propose, Reject, CheckRevision, Swap,
     SwapFails, AuditFails, Over, TInv, TypeOK
<1>3. \/ audit' = audit
      \/ \E n \in Nat, type \in {"attempt_started", "reconciled"} \cup Decisions :
           LogWith(b, type, n)
  <2>1. 0 \in Nat /\ attempt[b].expected + 1 \in Nat
    BY DEF TInv, TypeOK
  <2>2. QED
    BY <2>1 DEF Decide, Ask, NoProposal, ParseFails, Propose, Reject, CheckRevision,
       Swap, SwapFails, AuditFails, Log, Decisions
<1>4. QED
  BY <1>1, <1>2, <1>3 DEF Silent

LEMMA DecideDecides ==
  ASSUME SelfConceptAssumption, TInv, NEW a \in Attempts, Decide(a), Deciding(a)
  PROVE  Deciding(a)'
<1> DEFINE Decided == \E type \in Decisions, n \in Nat : LogWith(a, type, n)
<1>1. closing' = closing /\ TypeOK
  BY OthersUndisturbed DEF TInv
<1>2. attempt \in [Attempts -> [stage : Stages, gen : Nat, shown : Row, expected : Nat]]
  BY DEF TInv, TypeOK
<1>3. ASSUME attempt[a].stage # "over", attempt'[a].stage = "over",
             Decided \/ audit' = audit
      PROVE  Deciding(a)'
  <2>1. CASE Decided
    BY <1>1, <1>3, <2>1, DecisionStep
  <2>2. CASE audit' = audit
    BY <1>1, <1>3, <2>2, SilentStep DEF Silent, Onward
  <2>3. QED
    BY <1>3, <2>1, <2>2
<1>4. ASSUME NEW type \in Decisions, Log(a, type) PROVE Decided
  BY <1>4 DEF Log
<1>5. CASE Ask(a)
  BY <1>1, <1>2, <1>5, SilentStep DEF Ask, Silent, Onward
<1>6. CASE NoProposal(a)
  <2>1. attempt[a].stage = "waiting" /\ attempt'[a].stage = "over" /\ audit' = audit
    BY <1>2, <1>6, RowFacts DEF NoProposal, Answerable
  <2>2. QED
    BY <1>3, <2>1
<1>7. CASE ParseFails(a)
  <2>1. attempt[a].stage = "waiting" /\ attempt'[a].stage = "over"
    BY <1>2, <1>7, RowFacts DEF ParseFails, Answerable
  <2>2. Decided
    BY <1>4, <1>7 DEF ParseFails, Decisions
  <2>3. QED
    BY <1>3, <2>1, <2>2
<1>8. CASE Propose(a)
  <2>1. attempt[a].stage = "waiting" /\ attempt'[a].stage = "started"
    BY <1>2, <1>8 DEF Propose, Answerable
  <2>2. LogWith(a, "attempt_started", 0)
    BY <1>8 DEF Propose, Log
  <2>3. "attempt_started" \notin Decisions /\ "attempt_started" \notin Closers
    BY DEF Decisions, Closers
  <2>4. \A types \in {Decisions, Closers} :
          /\ NoneOf(a, types) => NoneOf(a, types)'
          /\ AtMostOne(a, types) => AtMostOne(a, types)'
    BY <1>1, <2>2, <2>3, LogApart
  <2>5. QED
    BY <1>1, <2>1, <2>4 DEF Deciding, SelectedAreOpen
<1>9. CASE Reject(a) \/ SwapFails(a) \/ AuditFails(a)
  <2>1. /\ attempt[a].stage \in {"started", "swap"}
        /\ attempt'[a].stage = "over"
    BY <1>2, <1>9, RowFacts DEF Reject, SwapFails, AuditFails, Over
  <2>2. Decided \/ audit' = audit
    BY <1>4, <1>9 DEF Reject, SwapFails, AuditFails, Decisions
  <2>3. QED
    BY <1>3, <2>1, <2>2
<1>10. CASE CheckRevision(a)
  <2>1. CASE attempt[a].expected # stored.revision
    <3>1. attempt[a].stage = "started" /\ attempt'[a].stage = "over"
      BY <1>2, <1>10, <2>1, RowFacts DEF CheckRevision, Over
    <3>2. Decided
      BY <1>4, <1>10, <2>1 DEF CheckRevision, Decisions
    <3>3. QED
      BY <1>3, <3>1, <3>2
  <2>2. CASE attempt[a].expected = stored.revision
    <3>1. /\ attempt[a].stage = "started" /\ attempt'[a].stage = "swap"
          /\ audit' = audit
      BY <1>2, <1>10, <2>2 DEF CheckRevision
    <3>2. QED
      BY <1>1, <3>1, SilentStep DEF Silent, Onward
  <2>3. QED
    BY <2>1, <2>2
<1>11. CASE Swap(a)
  <2>1. attempt[a].stage = "swap" /\ attempt'[a].stage = "over"
    BY <1>2, <1>11, RowFacts DEF Swap, Over
  <2>2. attempt[a].expected + 1 \in Nat /\ "accepted" \in Decisions
    BY <1>2 DEF Decisions
  <2>3. Decided
    BY <1>4, <1>11, <2>2 DEF Swap, Decisions
  <2>4. QED
    BY <1>3, <2>1, <2>3
<1>12. QED
  BY <1>5, <1>6, <1>7, <1>8, <1>9, <1>10, <1>11 DEF Decide

\* What is selected is open: the process is in no turn, so that its own attempts
\* are over or have not been proposed, and no event has closed them.
LEMMA SelectDecides ==
  ASSUME SelfConceptAssumption, TInv, DInv, NEW p \in Reconcilers, Select(p),
         NEW a \in Attempts
  PROVE  Deciding(a)'
<1>1. attempt' = attempt /\ audit' = audit
  BY DEF Select
<1>2. \A q \in Processes : a \in closing'[q] =>
        a \in closing[q] \/ (q = p /\ a \in Incomplete)
  BY DEF Select, TInv, TypeOK
<1>3. ASSUME a \in Incomplete
      PROVE  ~NoneOf(a, {"attempt_started"}) /\ NoneOf(a, Closers)
  BY <1>3 DEF Incomplete, Logged, NoneOf, Closers
<1>4. ASSUME a \in Incomplete, Reconcilers \subseteq {ProcessOf[a]}
      PROVE  attempt[a].stage = "over"
  <2>1. turn[ProcessOf[a]] = "idle" /\ a # "idle"
    BY <1>4 DEF Select, Idle, SelfConceptAssumption
  <2>2. attempt[a].stage \notin {"started", "swap"}
    BY <2>1 DEF TInv, TurnHeld
  <2>3. attempt[a].stage \notin {"none", "waiting"}
    BY <1>3, <1>4 DEF DInv, Deciding
  <2>4. QED
    BY <2>2, <2>3 DEF TInv, TypeOK, Stages
<1>5. Deciding(a)
  BY DEF DInv
<1>6. \A types : (NoneOf(a, types) <=> NoneOf(a, types)')
                 /\ (AtMostOne(a, types) <=> AtMostOne(a, types)')
  BY <1>1 DEF NoneOf, AtMostOne
<1>7. QED
  BY <1>1, <1>2, <1>3, <1>4, <1>5, <1>6 DEF Deciding, SelectedAreOpen

\* A reconciliation closes what it has selected, once.
LEMMA CloseDecides ==
  ASSUME SelfConceptAssumption, TInv, DInv, NEW p \in Reconcilers, Close(p),
         NEW a \in Attempts
  PROVE  Deciding(a)'
<1>1. PICK c \in closing[p] :
        /\ LogWith(c, "reconciled", 0)
        /\ closing' = [closing EXCEPT ![p] = @ \ {c}]
  BY DEF Close, Log
<1>2. attempt' = attempt /\ Deciding(a) /\ TypeOK
  BY DEF Close, DInv, TInv
<1>3. p \in Processes /\ c \in Attempts
  BY <1>1 DEF SelfConceptAssumption, TInv, TypeOK
<1>4. \A q \in Processes : a \in closing'[q] => a \in closing[q] /\ (q # p \/ a # c)
  BY <1>1 DEF TInv, TypeOK
<1>5. CASE a # c
  BY <1>1, <1>2, <1>3, <1>4, <1>5, SilentStep DEF Silent, Onward
<1>6. CASE a = c
  <2>1. "reconciled" \notin Decisions \cup {"attempt_started"} /\ "reconciled" \in Closers
    BY DEF Decisions, Closers
  <2>2. \A types \in {Decisions, {"attempt_started"}} :
          /\ NoneOf(a, types) => NoneOf(a, types)'
          /\ AtMostOne(a, types) => AtMostOne(a, types)'
    BY <1>1, <1>2, <1>3, <1>6, <2>1, LogApart
  <2>3. ASSUME Reconcilers \subseteq {ProcessOf[a]}
        PROVE  /\ attempt[a].stage = "over"
               /\ AtMostOne(a, Closers)'
               /\ \A q \in Processes : a \notin closing'[q]
    <3>1. attempt[a].stage = "over" /\ NoneOf(a, Closers)
      BY <1>1, <1>2, <1>3, <1>6, <2>3 DEF Deciding, SelectedAreOpen
    <3>2. \A q \in Processes \ {p} : closing[q] = {}
      BY <2>3 DEF DInv
    <3>3. QED
      BY <1>1, <1>2, <1>3, <1>4, <1>6, <2>1, <3>1, <3>2, LogFirst
  <2>4. QED
    BY <1>2, <2>2, <2>3 DEF Deciding, SelectedAreOpen
<1>7. QED
  BY <1>5, <1>6

LEMMA StepDecided ==
  ASSUME SelfConceptAssumption, TInv, DInv, [Next]_vars
  PROVE  DInv'
<1> USE DEF SelfConceptAssumption
<1>1. TypeOK /\ \A a \in Attempts : Deciding(a)
  BY DEF TInv, DInv
<1>2. ASSUME NEW b \in Attempts, Decide(b) PROVE DInv'
  <2>1. ASSUME NEW a \in Attempts \ {b} PROVE Deciding(a)'
    BY <1>1, <1>2, <2>1, OthersUndisturbed, SilentStep DEF Onward
  <2>2. Deciding(b)'
    BY <1>1, <1>2, DecideDecides
  <2>3. closing' = closing
    BY <1>2, OthersUndisturbed
  <2>4. QED
    BY <2>1, <2>2, <2>3 DEF DInv
<1>3. ASSUME NEW p \in Movers, MoveForward(p) \/ MoveBack(p) PROVE DInv'
  <2>1. UNCHANGED <<audit, attempt, closing>>
    BY <1>3 DEF MoveForward, MoveBack
  <2>2. QED
    BY <1>1, <2>1, SilentStep DEF Silent, Onward, DInv
<1>4. ASSUME NEW p \in Reconcilers, Select(p) PROVE DInv'
  <2>1. \A q \in Processes \ Reconcilers : closing'[q] = closing[q]
    BY <1>4 DEF Select, TInv, TypeOK
  <2>2. QED
    BY <1>4, <2>1, SelectDecides DEF DInv
<1>5. ASSUME NEW p \in Reconcilers, Close(p) PROVE DInv'
  <2>1. \A q \in Processes \ Reconcilers : closing'[q] = closing[q]
    BY <1>5 DEF Close, TInv, TypeOK
  <2>2. QED
    BY <1>5, <2>1, CloseDecides DEF DInv
<1>6. ASSUME NEW p \in Processes, CrashAndRestart(p) PROVE DInv'
  <2>1. audit' = audit /\ \A q \in Processes : closing'[q] = IF q = p THEN {} ELSE closing[q]
    BY <1>6 DEF CrashAndRestart, TInv, TypeOK
  <2>2. \A a \in Attempts :
          attempt'[a] = attempt[a] \/ (attempt[a].stage # "none" /\ attempt'[a].stage = "over")
    BY <1>6, RowFacts DEF CrashAndRestart
  <2>3. QED
    BY <1>1, <2>1, <2>2, SilentStep DEF Silent, Onward, DInv
<1>7. CASE UNCHANGED vars
  BY <1>1, <1>7, SilentStep DEF vars, Silent, Onward, DInv
<1>8. QED
  BY <1>2, <1>3, <1>4, <1>5, <1>6, <1>7 DEF Next

LEMMA InitDecided == ASSUME SelfConceptAssumption, Init PROVE DInv
<1>1. BagToSet(audit) = {} /\ \A p \in Processes : closing[p] = {}
  BY EmptyAudit DEF Init
<1>2. QED
  BY <1>1 DEF DInv, Deciding, NoneOf, AtMostOne, SelectedAreOpen

LEMMA SpecDecided == Spec => [](TInv /\ DInv)
<1>1. Init => TInv /\ DInv
  BY InitDecided, InitTyped, SelfConceptAssumption
<1>2. TInv /\ DInv /\ [Next]_vars => TInv' /\ DInv'
  BY StepTyped, StepDecided, SelfConceptAssumption
<1>3. QED
  BY <1>1, <1>2, PTL DEF Spec

\* A reflection is decided once, whatever crashed, failed or was reconciled, and
\* where its own process alone reconciles it is not decided and reconciled too.
THEOREM DecidedOnceHolds == Spec => []DecidedOnce
<1>1. TInv /\ DInv => DecidedOnce
  BY DEF DInv, Deciding, DecidedOnce, Closers
<1>2. QED
  BY <1>1, SpecDecided, PTL
-----------------------------------------------------------------------------
(* The row with its audit is one register *)

\* Only an acceptance adds an accepted row.
LEMMA LogAccepts ==
  ASSUME TypeOK, NEW a \in Attempts, NEW n \in Nat,
         NEW type \in {"attempt_started", "reconciled"} \cup Decisions,
         LogWith(a, type, n)
  PROVE  AcceptedRows' = IF type = "accepted"
                         THEN AcceptedRows \cup {[revision |-> n, by |-> a]}
                         ELSE AcceptedRows
<1> DEFINE e == [attempt |-> a, type |-> type, revision |-> n]
<1>1. BagToSet(audit') = BagToSet(audit) \cup {e}
  BY LogTyped
<1>2. e.type = type /\ e.attempt = a /\ e.revision = n
  OBVIOUS
<1> HIDE DEF e
<1>3. CASE type = "accepted"
  <2>1. {f \in BagToSet(audit') : f.type = "accepted"}
          = {f \in BagToSet(audit) : f.type = "accepted"} \cup {e}
    BY <1>1, <1>2, <1>3
  <2>2. QED
    BY <1>2, <1>3, <2>1 DEF AcceptedRows
<1>4. CASE type # "accepted"
  <2>1. {f \in BagToSet(audit') : f.type = "accepted"}
          = {f \in BagToSet(audit) : f.type = "accepted"}
    BY <1>1, <1>2, <1>4
  <2>2. QED
    BY <1>4, <2>1 DEF AcceptedRows
<1>5. QED
  BY <1>3, <1>4

\* A step of an attempt that does not swap leaves the register alone.
LEMMA DecideKeepsRegister ==
  ASSUME SelfConceptAssumption, TypeOK, NEW a \in Attempts, Decide(a), ~Swap(a)
  PROVE  UNCHANGED <<stored, rows, AcceptedRows>>
<1>1. UNCHANGED <<stored, rows>>
  BY DEF Decide, Ask, NoProposal, ParseFails, Propose, Reject, CheckRevision, SwapFails,
     AuditFails
<1>2. \/ audit' = audit
      \/ \E type \in {"attempt_started", "parse_failure", "rejected", "revision_conflict",
                      "storage_failure"} : LogWith(a, type, 0)
  BY DEF Decide, Ask, NoProposal, ParseFails, Propose, Reject, CheckRevision, SwapFails,
     AuditFails, Log
<1>3. CASE audit' = audit
  BY <1>1, <1>3 DEF AcceptedRows
<1>4. ASSUME NEW type \in {"attempt_started", "parse_failure", "rejected",
                           "revision_conflict", "storage_failure"},
             LogWith(a, type, 0)
      PROVE  AcceptedRows' = AcceptedRows
  <2>1. type \in {"attempt_started", "reconciled"} \cup Decisions /\ type # "accepted"
    BY DEF Decisions
  <2>2. QED
    BY <1>4, <2>1, LogAccepts
<1>5. QED
  BY <1>1, <1>2, <1>3, <1>4

\* The compare-and-swap that succeeds is one step of the register.
LEMMA SwapIsAccept ==
  ASSUME SelfConceptAssumption, TInv, DInv, NEW a \in Attempts, Swap(a)
  PROVE  Register!Accept \/ UNCHANGED <<stored, rows, AcceptedRows>>
<1> DEFINE next == attempt[a].expected + 1
<1>1. TypeOK /\ attempt[a].stage = "swap" /\ next \in Nat /\ rows' = rows
  BY DEF Swap, TInv, TypeOK
<1>2. CASE stored.revision = attempt[a].expected
  <2>1. stored' = [revision |-> next, by |-> a] /\ LogWith(a, "accepted", next)
    BY <1>2 DEF Swap
  <2>2. AcceptedRows' = AcceptedRows \cup {stored'}
    BY <1>1, <2>1, LogAccepts DEF Decisions
  <2>3. \A entry \in AcceptedRows : entry.by # a
    <3>1. NoneOf(a, Decisions)
      BY <1>1 DEF DInv, Deciding
    <3>2. \A e \in BagToSet(audit) : e.type = "accepted" => e.attempt # a
      BY <3>1 DEF NoneOf, Decisions
    <3>3. QED
      BY <3>2 DEF AcceptedRows
  <2>4. stored' = [revision |-> stored.revision + 1, by |-> a]
    BY <1>2, <2>1
  <2>5. QED
    BY <1>1, <2>2, <2>3, <2>4 DEF Register!Accept
<1>3. CASE stored.revision # attempt[a].expected
  <2>1. stored' = stored /\ LogWith(a, "revision_conflict", 0)
    BY <1>3 DEF Swap, Log
  <2>2. AcceptedRows' = AcceptedRows
    BY <1>1, <2>1, LogAccepts DEF Decisions
  <2>3. QED
    BY <1>1, <2>1, <2>2
<1>4. QED
  BY <1>2, <1>3

LEMMA StepOfRegister ==
  ASSUME SelfConceptAssumption, TInv, DInv, [Next]_vars
  PROVE  [Register!Next]_(Register!vars)
<1>1. TypeOK
  BY DEF TInv
<1>2. ASSUME UNCHANGED <<stored, rows, AcceptedRows>> PROVE [Register!Next]_(Register!vars)
  BY <1>2 DEF Register!vars
<1>3. ASSUME NEW a \in Attempts, Decide(a) PROVE [Register!Next]_(Register!vars)
  BY <1>1, <1>2, <1>3, SwapIsAccept, DecideKeepsRegister DEF Register!Next
<1>4. ASSUME audit' = audit PROVE AcceptedRows' = AcceptedRows
  BY <1>4 DEF AcceptedRows
<1>5. ASSUME NEW p \in Movers, MoveForward(p) PROVE Register!Save
  BY <1>4, <1>5 DEF MoveForward, Register!Save
<1>6. ASSUME NEW p \in Movers, MoveBack(p) PROVE Register!Rewind
  <2>1. PICK k \in 1 .. Len(rows), drop \in {0, 1} :
          stored' = rows[k] /\ rows' = SubSeq(rows, 1, k - drop)
    BY <1>6 DEF MoveBack
  <2>2. k \in DOMAIN rows /\ AcceptedRows' = AcceptedRows
    BY <1>1, <1>4, <1>6 DEF MoveBack, TypeOK
  <2>3. QED
    BY <2>1, <2>2 DEF Register!Rewind
<1>7. ASSUME NEW p \in Reconcilers, Close(p) PROVE [Register!Next]_(Register!vars)
  <2>1. PICK a \in closing[p] : LogWith(a, "reconciled", 0)
    BY <1>7 DEF Close, Log
  <2>2. a \in Attempts
    BY <1>1, <2>1 DEF TypeOK, SelfConceptAssumption
  <2>3. AcceptedRows' = AcceptedRows
    BY <1>1, <2>1, <2>2, LogAccepts
  <2>4. QED
    BY <1>2, <1>7, <2>3 DEF Close
<1>8. ASSUME NEW p, Select(p) \/ CrashAndRestart(p) PROVE [Register!Next]_(Register!vars)
  BY <1>2, <1>4, <1>8 DEF Select, CrashAndRestart
<1>9. CASE UNCHANGED vars
  BY <1>2, <1>4, <1>9 DEF vars
<1>10. QED
  BY <1>3, <1>5, <1>6, <1>7, <1>8, <1>9 DEF Next, Register!Next

\* applySelfConceptProposal: row and audit implement one register with a log, in
\* which each reflection is accepted at most once and on the row that is there.
THEOREM ImplementsRegister == Spec => RefinesRegister
<1>1. Init => Register!Init
  BY EmptyAudit DEF Init, NoRow, AcceptedRows, Register!Init, Register!NoRow
<1>2. TInv /\ DInv /\ [Next]_vars => [Register!Next]_(Register!vars)
  BY StepOfRegister, SelfConceptAssumption
<1>3. QED
  BY <1>1, <1>2, SpecDecided, PTL DEF RefinesRegister, Register!Spec, Spec
-----------------------------------------------------------------------------
(* The log is a tree *)

LEMMA RegisterStaysConnected ==
  ASSUME Register!Connected, [Register!Next]_(Register!vars),
         stored \in Row, rows \in Seq(Row)
  PROVE  Register!Connected'
<1>1. CASE Register!Accept
  <2>1. PICK a \in Attempts : stored' = [revision |-> stored.revision + 1, by |-> a]
    BY <1>1 DEF Register!Accept
  <2>2. AcceptedRows' = AcceptedRows \cup {stored'} /\ rows' = rows
    BY <1>1 DEF Register!Accept
  <2>3. stored'.revision = stored.revision + 1
    BY <2>1
  <2>4. stored'.revision = 1 \/ \E q \in AcceptedRows : q.revision + 1 = stored'.revision
    BY <2>3 DEF Register!Connected, Register!NoRow
  <2>5. QED
    BY <2>2, <2>4 DEF Register!Connected
<1>2. CASE Register!Save
  <2>1. rows' = Append(rows, stored) /\ UNCHANGED <<stored, AcceptedRows>>
    BY <1>2 DEF Register!Save
  <2>2. \A i \in DOMAIN rows' : rows'[i] = stored \/ (i \in DOMAIN rows /\ rows'[i] = rows[i])
    BY <2>1
  <2>3. QED
    BY <2>1, <2>2 DEF Register!Connected
<1>3. CASE Register!Rewind
  <2>1. PICK k \in DOMAIN rows, drop \in {0, 1} :
          stored' = rows[k] /\ rows' = SubSeq(rows, 1, k - drop)
    BY <1>3 DEF Register!Rewind
  <2>2. \A i \in DOMAIN rows' : i \in DOMAIN rows /\ rows'[i] = rows[i]
    BY <2>1
  <2>3. AcceptedRows' = AcceptedRows
    BY <1>3 DEF Register!Rewind
  <2>4. QED
    BY <2>1, <2>2, <2>3 DEF Register!Connected
<1>4. CASE UNCHANGED Register!vars
  BY <1>4 DEF Register!vars, Register!Connected
<1>5. QED
  BY <1>1, <1>2, <1>3, <1>4 DEF Register!Next

\* What she believes of herself, and every belief a rollback may give her back,
\* goes back to her first one through accepted proposals, one revision at a time,
\* although compare-and-swap looks at the revision only.
THEOREM HistoryIsConnected == Spec => []Register!Connected
<1>1. Init => Register!Connected
  BY EmptyAudit DEF Init, NoRow, AcceptedRows, Register!Connected, Register!NoRow
<1>2. TInv /\ DInv /\ Register!Connected /\ [Next]_vars => Register!Connected'
  <2>1. TInv => stored \in Row /\ rows \in Seq(Row)
    BY DEF TInv, TypeOK
  <2>2. QED
    BY <2>1, StepOfRegister, RegisterStaysConnected, SelfConceptAssumption
<1>3. QED
  BY <1>1, <1>2, SpecDecided, PTL DEF Spec
=============================================================================
