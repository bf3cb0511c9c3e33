----------------------------- MODULE SelfConcept -----------------------------
(***************************************************************************)
(* The self-concept of one agent: a row of self_concept_snapshots replaced *)
(* by compare-and-swap on its revision, and the append-only audit of the   *)
(* attempts to replace it.  An attempt is one nightly reflection: the row  *)
(* is shown to a language model, and the proposal in the model's answer is *)
(* decided much later.                                                     *)
(*                                                                         *)
(* Several processes may have the database open.  A process decides an     *)
(* attempt in one JavaScript turn, alone in its process; the others come   *)
(* between its SQL statements, and it may die there.                       *)
(*                                                                         *)
(* The row is a revision and its author.  A story rollback puts an earlier *)
(* row back; the audit is not rolled back.                                 *)
(***************************************************************************)
EXTENDS Naturals, Sequences, Bags

CONSTANTS
  Processes,     \* the processes that have the database open
  Movers,        \* those of them that move the story
  Reconcilers,   \* those that close incomplete attempts
  Attempts,      \* reflections that ask for a proposal
  ProcessOf,     \* the process of an attempt
  MaxRevision,   \* bound: the revisions a model may name
  MaxMoves       \* bound: story moves of one process, and checkpoints

ASSUME SelfConceptAssumption ==
  /\ Movers \subseteq Processes
  /\ Reconcilers \subseteq Processes
  /\ ProcessOf \in [Attempts -> Processes]
  /\ {"nobody", "reconcile", "idle"} \cap Attempts = {}
  /\ MaxRevision \in Nat
  /\ MaxMoves \in Nat

VARIABLES
  stored,     \* the row of the agent
  audit,      \* the bag of rows of self_concept_proposal_audit
  rows,       \* the row in each story checkpoint below the cursor, oldest first
  generation, \* storyGenerationValue of each process
  attempt,    \* the attempts
  turn,       \* turn[p]: the attempt whose turn p is in, "reconcile" or "idle"
  closing     \* closing[p]: the attempts p has selected to reconcile

vars == <<stored, audit, rows, generation, attempt, turn, closing>>

\* Revision 0 is the absence of a row.
Row == {row \in [revision : Nat, by : Attempts \cup {"nobody"}] :
          row.revision = 0 <=> row.by = "nobody"}
NoRow == [revision |-> 0, by |-> "nobody"]

Decisions == {"accepted", "rejected", "revision_conflict", "parse_failure",
              "storage_failure"}
Event == [attempt : Attempts, type : {"attempt_started", "reconciled"} \cup Decisions,
          revision : Nat]

Stages == {"none", "waiting", "started", "swap", "over"}
NoAttempt == [stage |-> "none", gen |-> 0, shown |-> NoRow, expected |-> 0]

TypeOK ==
  /\ stored \in Row
  /\ IsABag(audit)
  /\ BagToSet(audit) \subseteq Event
  /\ rows \in Seq(Row)
  /\ generation \in [Processes -> Nat]
  /\ attempt \in [Attempts -> [stage : Stages, gen : Nat, shown : Row, expected : Nat]]
  /\ turn \in [Processes -> Attempts \cup {"reconcile", "idle"}]
  /\ closing \in [Processes -> SUBSET Attempts]
  /\ \A p \in Processes : turn[p] = "reconcile" <=> closing[p] # {}

Init ==
  /\ stored = NoRow
  /\ audit = EmptyBag
  /\ rows = <<>>
  /\ generation = [p \in Processes |-> 0]
  /\ attempt = [a \in Attempts |-> NoAttempt]
  /\ turn = [p \in Processes |-> "idle"]
  /\ closing = [p \in Processes |-> {}]
-----------------------------------------------------------------------------
Idle(p) == turn[p] = "idle"

\* Rows of the audit table; acceptedRevision is 0 where the code leaves NULL.
LogWith(a, type, revision) ==
  audit' = audit (+) SetToBag({[attempt |-> a, type |-> type, revision |-> revision]})

Log(a, type) == LogWith(a, type, 0)

\* The attempt has ended, with or without a decision on record.
Ended == [NoAttempt EXCEPT !.stage = "over"]

\* It ends and its process is free again.
Over(a) ==
  /\ attempt' = [attempt EXCEPT ![a] = Ended]
  /\ turn' = [turn EXCEPT ![ProcessOf[a]] = "idle"]

\* runDailyReflection: the prompt shows the present row and says to name its
\* revision; the generation was captured by the tick round.
Ask(a) ==
  /\ Idle(ProcessOf[a])
  /\ attempt[a].stage = "none"
  /\ attempt' = [attempt EXCEPT ![a] =
       [stage |-> "waiting", gen |-> generation[ProcessOf[a]],
        shown |-> stored, expected |-> 0]]
  /\ UNCHANGED <<stored, audit, rows, generation, turn, closing>>

\* Mutant: the story may have moved while the model was writing.
StoryUnchanged_Unchecked(a) == a \in Attempts

StoryUnchanged(a) == attempt[a].gen = generation[ProcessOf[a]]

Answerable(a) == Idle(ProcessOf[a]) /\ attempt[a].stage = "waiting"

\* The reflection is discarded, or the model fails, or proposes nothing, or the
\* first event of the attempt cannot be written.
NoProposal(a) ==
  /\ Answerable(a)
  /\ attempt' = [attempt EXCEPT ![a] = Ended]
  /\ UNCHANGED <<stored, audit, rows, generation, turn, closing>>

\* The proposal does not parse.
ParseFails(a) ==
  /\ Answerable(a)
  /\ StoryUnchanged(a)
  /\ Log(a, "parse_failure")
  /\ attempt' = [attempt EXCEPT ![a] = Ended]
  /\ UNCHANGED <<stored, rows, generation, turn, closing>>

\* appendSelfConceptAttemptStarted: the proposal names some revision.
Propose(a) ==
  /\ Answerable(a)
  /\ StoryUnchanged(a)
  /\ Log(a, "attempt_started")
  /\ \E e \in 0 .. MaxRevision :
       attempt' = [attempt EXCEPT ![a].stage = "started", ![a].expected = e]
  /\ turn' = [turn EXCEPT ![ProcessOf[a]] = a]
  /\ UNCHANGED <<stored, rows, generation, closing>>

\* An out-of-character leak or evidence that is missing or not the character's
\* to know ("rejected" here stands for evidence_invalid too).
Reject(a) ==
  /\ attempt[a].stage = "started"
  /\ Log(a, "rejected")
  /\ Over(a)
  /\ UNCHANGED <<stored, rows, generation, closing>>

\* applySelfConceptProposal reads the revision outside its transaction.
CheckRevision(a) ==
  /\ attempt[a].stage = "started"
  /\ IF attempt[a].expected # stored.revision
     THEN Log(a, "revision_conflict") /\ Over(a)
     ELSE /\ attempt' = [attempt EXCEPT ![a].stage = "swap"]
          /\ UNCHANGED <<audit, turn>>
  /\ UNCHANGED <<stored, rows, generation, closing>>

\* Mutant: the audit event is left to a transaction of its own.
Swap_AuditLater(a) ==
  /\ attempt[a].stage = "swap"
  /\ IF stored.revision = attempt[a].expected
     THEN /\ stored' = [revision |-> attempt[a].expected + 1, by |-> a]
          /\ UNCHANGED audit
     ELSE Log(a, "revision_conflict") /\ UNCHANGED stored
  /\ Over(a)
  /\ UNCHANGED <<rows, generation, closing>>

\* Mutant: the new row keeps the revision the proposal was written against.
Swap_SameRevision(a) ==
  /\ attempt[a].stage = "swap"
  /\ IF stored.revision = attempt[a].expected
     THEN /\ stored' = [revision |-> attempt[a].expected, by |-> a]
          /\ LogWith(a, "accepted", attempt[a].expected)
     ELSE Log(a, "revision_conflict") /\ UNCHANGED stored
  /\ Over(a)
  /\ UNCHANGED <<rows, generation, closing>>

\* INSERT ... WHERE NOT EXISTS for the first row, UPDATE ... WHERE revision = ?
\* for the others, and the accepted event, in one transaction; a statement that
\* changes no row rolls it back, and the conflict is logged.
Swap(a) ==
  /\ attempt[a].stage = "swap"
  /\ LET next == attempt[a].expected + 1
     IN  IF stored.revision = attempt[a].expected
         THEN /\ stored' = [revision |-> next, by |-> a]
              /\ LogWith(a, "accepted", next)
         ELSE Log(a, "revision_conflict") /\ UNCHANGED stored
  /\ Over(a)
  /\ UNCHANGED <<rows, generation, closing>>

\* The transaction fails for another reason: a storage_failure is logged, if
\* that can be written.  Or it finds a conflict that cannot be written.
SwapFails(a) ==
  /\ attempt[a].stage = "swap"
  /\ Log(a, "storage_failure") \/ UNCHANGED audit
  /\ Over(a)
  /\ UNCHANGED <<stored, rows, generation, closing>>

\* The event of a rejection or conflict cannot be written: the error ends the
\* round.
AuditFails(a) ==
  /\ attempt[a].stage = "started"
  /\ Over(a)
  /\ UNCHANGED <<stored, audit, rows, generation, closing>>
-----------------------------------------------------------------------------
(* Story moves: setStoryCursor, in one step here (RealmStory has the steps) *)

\* The present row is saved with the checkpoint of the position left behind.
MoveForward(p) ==
  /\ Idle(p)
  /\ Len(rows) < MaxMoves
  /\ generation[p] < MaxMoves
  /\ rows' = Append(rows, stored)
  /\ generation' = [generation EXCEPT ![p] = @ + 1]
  /\ UNCHANGED <<stored, audit, attempt, turn, closing>>

\* The k-th checkpoint's row is restored and the later checkpoints are dropped;
\* the k-th itself too when the story is exactly there again, for it is saved
\* anew before it is needed.
MoveBack(p) ==
  /\ Idle(p)
  /\ generation[p] < MaxMoves
  /\ \E k \in 1 .. Len(rows), drop \in {0, 1} :
       /\ stored' = rows[k]
       /\ rows' = SubSeq(rows, 1, k - drop)
  /\ generation' = [generation EXCEPT ![p] = @ + 1]
  /\ UNCHANGED <<audit, attempt, turn, closing>>
-----------------------------------------------------------------------------
(* Recovery *)

Logged(types) == {e.attempt : e \in {f \in BagToSet(audit) : f.type \in types}}

\* Mutant: only a decision closes an attempt, not an earlier reconciliation.
Incomplete_Reconciled ==
  Logged({"attempt_started"}) \ Logged(Decisions)

\* GROUP BY attempt_id HAVING no event of a closing type; the event of a
\* reconciliation is a storage_failure itself.
Incomplete == Logged({"attempt_started"}) \ Logged(Decisions \cup {"reconciled"})

\* reconcileIncompleteSelfConceptAttempts: one select, then one insert each.
Select(p) ==
  /\ Idle(p)
  /\ Incomplete # {}
  /\ turn' = [turn EXCEPT ![p] = "reconcile"]
  /\ closing' = [closing EXCEPT ![p] = Incomplete]
  /\ UNCHANGED <<stored, audit, rows, generation, attempt>>

Close(p) ==
  /\ turn[p] = "reconcile"
  /\ \E a \in closing[p] :
       /\ Log(a, "reconciled")
       /\ closing' = [closing EXCEPT ![p] = @ \ {a}]
       /\ turn' = IF closing[p] = {a} THEN [turn EXCEPT ![p] = "idle"] ELSE turn
  /\ UNCHANGED <<stored, rows, generation, attempt>>

\* A process dies and is started again.
CrashAndRestart(p) ==
  /\ generation' = [generation EXCEPT ![p] = 0]
  /\ attempt' = [a \in Attempts |->
                   IF ProcessOf[a] = p /\ attempt[a].stage # "none"
                   THEN Ended ELSE attempt[a]]
  /\ turn' = [turn EXCEPT ![p] = "idle"]
  /\ closing' = [closing EXCEPT ![p] = {}]
  /\ UNCHANGED <<stored, audit, rows>>
-----------------------------------------------------------------------------
Decide(a) ==
  \/ Ask(a) \/ NoProposal(a) \/ ParseFails(a) \/ Propose(a) \/ Reject(a)
  \/ CheckRevision(a) \/ Swap(a) \/ SwapFails(a) \/ AuditFails(a)

Next ==
  \/ \E a \in Attempts : Decide(a)
  \/ \E p \in Movers : MoveForward(p) \/ MoveBack(p)
  \/ \E p \in Reconcilers : Select(p) \/ Close(p)
  \/ \E p \in Processes : CrashAndRestart(p)

Spec == Init /\ [][Next]_vars
-----------------------------------------------------------------------------
(* Properties *)

Accepted(row) ==
  BagIn([attempt |-> row.by, type |-> "accepted", revision |-> row.revision], audit)

\* What the agent believes of herself is accounted for: the row, and every row
\* a checkpoint may bring back, has the accepted event of that author and that
\* revision in the audit, whatever crashed (the transaction of
\* applySelfConceptProposal holds both).
EveryRowIsAccountedFor ==
  \A row \in {stored} \cup {rows[i] : i \in DOMAIN rows} :
    row # NoRow => Accepted(row)

\* No update is lost and no proposal lands on a self-concept its author has not
\* read: an accepted row whose author named the revision it was shown replaces
\* the very row it was shown.  Other processes may accept rows meanwhile; the
\* story may be moved by the author's own process.
ReplacesOnlyWhatItRead ==
  [][\A a \in Attempts :
       /\ stored'.by = a /\ stored' # stored
       /\ attempt[a].stage = "swap"
       /\ attempt[a].expected = attempt[a].shown.revision
       /\ Movers \subseteq {ProcessOf[a]}
       => stored = attempt[a].shown]_vars

\* The attempt has at most one event of these types on record.
AtMostOne(a, types) ==
  \A e, f \in BagToSet(audit) :
    /\ e.attempt = a /\ e.type \in types
    /\ f.attempt = a /\ f.type \in types
    => e = f /\ audit[e] = 1

\* An attempt is decided once: at most one decision is on record, and where one
\* process does all the reconciling of its own attempts an attempt is not both
\* decided and reconciled, nor reconciled twice.
DecidedOnce ==
  \A a \in Attempts :
    /\ AtMostOne(a, Decisions)
    /\ Reconcilers \subseteq {ProcessOf[a]} =>
         AtMostOne(a, Decisions \cup {"reconciled"})

\* The rows that an accepted event stands for.
AcceptedRows == {[revision |-> e.revision, by |-> e.attempt] :
                   e \in {f \in BagToSet(audit) : f.type = "accepted"}}

\* applySelfConceptProposal: with its audit the row is the register of
\* SelfRegister, for all the processes that race for it, decide late, reconcile
\* and die between two statements.
Register == INSTANCE SelfRegister WITH row <- stored, saved <- rows, log <- AcceptedRows
RefinesRegister == Register!Spec
=============================================================================
