-------------------------- MODULE RealmStory_proofs --------------------------
(***************************************************************************)
(* What RealmStory guarantees for every number of scenes, chats, rounds,   *)
(* writes and moves.                                                       *)
(*                                                                         *)
(* The checked properties are not inductive as they stand: that a rollback *)
(* truncates exactly rests on every position with writes having a          *)
(* checkpoint once it is left, on the row saved by the running move being  *)
(* the present state, and on no action in flight carrying a generation     *)
(* newer than the process's.  IInv collects those facts.                   *)
(***************************************************************************)
EXTENDS RealmStory, TLAPS

\* A write is stamped no later than the present position, and a past position
\* with writes has a checkpoint.
StampsCovered ==
  \A e \in live : /\ e.at <= cursor
                  /\ e.at \in DOMAIN checkpoints \/ e.at = cursor

\* What a write has read was written no later than itself, and is there.
ReadsBack ==
  \A e \in live : \A i \in e.seen :
    \E x \in live : x.id = i /\ x.at <= e.at

\* The steps of a move: the row just saved is the present state, and the
\* checkpoints are cleared after the cursor has arrived.
MoveConsistent ==
  /\ turn = "shift" => cursor \in DOMAIN checkpoints /\ checkpoints[cursor] = live
  /\ turn = "clear" => cursor = target

Current(b) == b.ctx = cursor /\ b.seen \subseteq Ids(live)

\* A turn writes from what is current, and so does the reply to an action whose
\* generation is current; no action is ahead of the process's generation.
AuthorsCurrent ==
  /\ turn = "write" => Current(basis)
  /\ \A a \in Actors :
       /\ action[a].gen <= generation
       /\ action[a].stage = "waiting" /\ StoryUnchanged(a)
            => Current(action[a].basis)

IInv ==
  /\ TypeOK
  /\ mirror = live
  /\ CheckpointsExact
  /\ RollbackReady
  /\ StampsCovered
  /\ ReadsBack
  /\ LandsWhereItWasAsked
  /\ MoveConsistent
  /\ AuthorsCurrent
-----------------------------------------------------------------------------
\* The variables have their types from the first state on and keep them under
\* every step of the code.
LEMMA TypeInit == Init => TypeOK
BY StoryAssumption DEF Init, TypeOK, Cursors, Basis, NoBasis, NoAction, Stages,
   Entry, Actors

LEMMA TypeNext == TypeOK /\ [Next]_vars => TypeOK'
<1> SUFFICES ASSUME TypeOK, [Next]_vars PROVE TypeOK'
  OBVIOUS
<1> USE StoryAssumption DEF TypeOK, Cursors
<1>h. Here \in Basis
  BY DEF Here, Ids, Basis, Entry
<1>n. NoBasis \in Basis /\ NoAction \in [stage : Stages, gen : Nat, basis : Basis]
  BY DEF NoBasis, NoAction, Basis, Stages
<1>1. ASSUME NEW c \in Cursors, BeginMove(c) PROVE TypeOK'
  BY <1>1 DEF BeginMove
<1>2. CASE SaveCheckpoint
  BY <1>2 DEF SaveCheckpoint
<1>3. CASE MoveForward
  BY <1>3 DEF MoveForward
<1>4. CASE Restore
  BY <1>4, <1>n DEF Restore, NearestRow, KeepRows, RowsUpto, TurnOver
<1>5. CASE ClearCheckpointsAfter
  BY <1>5, <1>n DEF ClearCheckpointsAfter, KeepRows, RowsUpto, TurnOver
<1>6. CASE MoveFails
  BY <1>6, <1>n DEF MoveFails, TurnOver
<1>7. CASE BeginDirectWrite
  BY <1>7, <1>h DEF BeginDirectWrite
<1>8. CASE Write
  BY <1>8 DEF Write, Entry, Basis
<1>9. CASE EndWrite
  BY <1>9, <1>n DEF EndWrite, TurnOver, Stages
<1>10. ASSUME NEW a \in Actors, ChatAsks(a) PROVE TypeOK'
  BY <1>10, <1>h DEF ChatAsks, Stages
<1>11. ASSUME NEW a \in Actors, RoundStarts(a) PROVE TypeOK'
  BY <1>11, <1>h DEF RoundStarts, Stages
<1>12. ASSUME NEW a \in Actors, RoundAsks(a) PROVE TypeOK'
  BY <1>12, <1>h, <1>n DEF RoundAsks, Stages
<1>13. ASSUME NEW a \in Actors, RoundEnds(a) PROVE TypeOK'
  BY <1>13, <1>n DEF RoundEnds
<1>14. ASSUME NEW a \in Actors, ReplyApplied(a) PROVE TypeOK'
  BY <1>14 DEF ReplyApplied, Stages
<1>15. ASSUME NEW a \in Actors, ReplyDiscarded(a) PROVE TypeOK'
  BY <1>15, <1>n DEF ReplyDiscarded
<1>16. ASSUME NEW a \in Actors, ReplyFails(a) PROVE TypeOK'
  BY <1>16, <1>n DEF ReplyFails, Stages
<1>17. CASE CrashAndRestart
  BY <1>17, <1>n DEF CrashAndRestart, TurnOver
<1>18. CASE UNCHANGED vars
  BY <1>18 DEF vars
<1> QED
  BY <1>1, <1>2, <1>3, <1>4, <1>5, <1>6, <1>7, <1>8, <1>9, <1>10, <1>11, <1>12,
     <1>13, <1>14, <1>15, <1>16, <1>17, <1>18 DEF Next, Move, Actors

\* Type correctness of the store, its checkpoints and its actions in flight.
THEOREM TypeCorrect == Spec => []TypeOK
BY TypeInit, TypeNext, PTL DEF Spec
-----------------------------------------------------------------------------
LEMMA InvInit == Init => IInv
<1> SUFFICES ASSUME Init PROVE IInv
  OBVIOUS
<1> USE StoryAssumption
<1>1. TypeOK
  BY TypeInit
<1>2. CheckpointsExact /\ RollbackReady
  BY DEF Init, CheckpointsExact, RollbackReady, Cursors
<1>3. StampsCovered /\ ReadsBack /\ LandsWhereItWasAsked /\ MoveConsistent
  BY DEF Init, StampsCovered, ReadsBack, LandsWhereItWasAsked, MoveConsistent
<1>4. AuthorsCurrent
  BY DEF Init, AuthorsCurrent, NoAction
<1> QED
  BY <1>1, <1>2, <1>3, <1>4 DEF IInv, Init

\* The durable facts depend on the store alone: a step that leaves the cursor,
\* the checkpoints and the tables alone keeps them.
LEMMA StoreUntouched ==
  ASSUME IInv, UNCHANGED <<cursor, checkpoints, live>>
  PROVE  /\ CheckpointsExact'
         /\ RollbackReady'
         /\ StampsCovered'
         /\ ReadsBack'
         /\ LandsWhereItWasAsked'
BY DEF IInv, CheckpointsExact, RollbackReady, RowsUpto, StampsCovered, ReadsBack,
   LandsWhereItWasAsked

\* An author who reads the state of now is current.
LEMMA HereIsCurrent == ASSUME mirror = live PROVE Current(Here)
BY DEF Current, Here

\* saveStoryCheckpoint keeps the invariant: the row written is the life so far.
LEMMA SaveKeeps == IInv /\ SaveCheckpoint => IInv'
<1> SUFFICES ASSUME IInv, SaveCheckpoint PROVE IInv'
  OBVIOUS
<1> USE DEF IInv, SaveCheckpoint
<1>1. TypeOK'
  BY TypeNext DEF Next, Move
<1>2. CheckpointsExact'
  BY DEF CheckpointsExact, TypeOK, Cursors
<1>3. RollbackReady'
  BY DEF RollbackReady, RowsUpto
<1>4. StampsCovered' /\ ReadsBack' /\ LandsWhereItWasAsked'
  BY DEF StampsCovered, ReadsBack, LandsWhereItWasAsked
<1>5. MoveConsistent' /\ AuthorsCurrent'
  BY DEF MoveConsistent, AuthorsCurrent, Current, StoryUnchanged
<1> QED
  BY <1>1, <1>2, <1>3, <1>4, <1>5

\* Moving forward keeps the invariant: the position left has its checkpoint, and
\* no action in flight carries the new generation.
LEMMA ForwardKeeps == IInv /\ MoveForward => IInv'
<1> SUFFICES ASSUME IInv, MoveForward PROVE IInv'
  OBVIOUS
<1> USE StoryAssumption DEF IInv, MoveForward
<1>1. TypeOK'
  BY TypeNext DEF Next, Move
<1>2. CheckpointsExact'
  <2> SUFFICES ASSUME NEW k \in DOMAIN checkpoints
               PROVE  k < target /\ checkpoints[k] = {e \in live : e.at <= k}
    BY DEF CheckpointsExact, TypeOK, Cursors
  <2>1. CASE k < cursor
    BY <2>1 DEF CheckpointsExact, TypeOK, Cursors
  <2>2. CASE k = cursor
    BY <2>2 DEF MoveConsistent, StampsCovered, TypeOK, Cursors
  <2> QED
    BY <2>1, <2>2 DEF CheckpointsExact, TypeOK, Cursors
<1>3. RollbackReady'
  <2> SUFFICES ASSUME NEW c \in Cursors, c < target
               PROVE  RowsUpto(c) # {}
    BY DEF RollbackReady, RowsUpto
  <2>1. CASE c < cursor
    BY <2>1 DEF RollbackReady
  <2>2. CASE cursor <= c
    BY <2>2 DEF MoveConsistent, RowsUpto
  <2> QED
    BY <2>1, <2>2 DEF TypeOK, Cursors
<1>4. StampsCovered'
  BY DEF StampsCovered, MoveConsistent, TypeOK, Cursors, Entry
<1>5. ReadsBack' /\ LandsWhereItWasAsked' /\ MoveConsistent'
  BY DEF ReadsBack, LandsWhereItWasAsked, MoveConsistent
<1>6. AuthorsCurrent'
  BY DEF AuthorsCurrent, StoryUnchanged, TypeOK
<1> QED
  BY <1>1, <1>2, <1>3, <1>4, <1>5, <1>6

\* What a successful restore puts in the tables: the life up to the target.
LEMMA RestoreTruncates ==
  ASSUME IInv, turn = "shift", target < cursor,
         NEW k \in DOMAIN checkpoints, NearestRow(k, target)
  PROVE  checkpoints[k] = {e \in live : e.at <= target}
<1> USE DEF IInv
<1>1. k \in Nat /\ target \in Nat /\ cursor \in Nat /\ k < cursor /\ k <= target
  BY StoryAssumption DEF TypeOK, Cursors, NearestRow
<1>2. checkpoints[k] = {e \in live : e.at <= k}
  BY <1>1 DEF CheckpointsExact
<1>3. ASSUME NEW e \in live PROVE e.at <= k <=> e.at <= target
  <2>1. e.at \in Nat
    BY StoryAssumption DEF TypeOK, Entry, Cursors
  <2>2. ASSUME e.at <= target PROVE e.at <= k
    BY <1>1, <2>1, <2>2 DEF StampsCovered, NearestRow
  <2> QED
    BY <1>1, <2>1, <2>2
<1> QED
  BY <1>2, <1>3

\* A rollback keeps the invariant: the restored row is the life up to the target,
\* which loses no entry that a remaining one has read.
LEMMA RestoreKeeps == IInv /\ Restore => IInv'
<1> SUFFICES ASSUME IInv, Restore PROVE IInv'
  OBVIOUS
<1> USE StoryAssumption
<1>1. TypeOK'
  BY TypeNext DEF Next, Move, IInv
<1>2. CASE RowsUpto(target) = {}
  <2>1. UNCHANGED <<cursor, checkpoints, live, mirror, generation, action>>
        /\ turn' = "idle"
    BY <1>2 DEF Restore, TurnOver
  <2>2. MoveConsistent' /\ AuthorsCurrent'
    BY <2>1 DEF IInv, MoveConsistent, AuthorsCurrent, Current, StoryUnchanged, Ids
  <2> QED
    BY <1>1, <2>1, <2>2, StoreUntouched DEF IInv
<1>3. CASE RowsUpto(target) # {}
  <2>1. PICK k \in DOMAIN checkpoints :
          NearestRow(k, target) /\ live' = checkpoints[k] /\ mirror' = checkpoints[k]
    BY <1>3 DEF Restore
  <2>2. /\ turn = "shift" /\ target < cursor
        /\ generation' = generation + 1 /\ cursor' = target
        /\ checkpoints' = KeepRows(target) /\ turn' = "clear"
        /\ UNCHANGED <<target, action>>
    BY <1>3 DEF Restore
  <2>3. live' = {e \in live : e.at <= target}
    BY <2>1, <2>2, RestoreTruncates
  <2>4. /\ \A j \in DOMAIN checkpoints' : j \in DOMAIN checkpoints /\ j <= target
        /\ \A j \in DOMAIN checkpoints' : checkpoints'[j] = checkpoints[j]
        /\ \A j \in DOMAIN checkpoints : j <= target => j \in DOMAIN checkpoints'
    BY <2>2 DEF KeepRows, RowsUpto
  <2>5. /\ cursor \in Nat /\ target \in Nat /\ target \in Cursors
        /\ \A j \in DOMAIN checkpoints : j \in Nat
        /\ \A e \in live : e.at \in Nat
    BY DEF IInv, TypeOK, Cursors, Entry
  <2>6. CheckpointsExact'
    <3> SUFFICES ASSUME NEW j \in DOMAIN checkpoints', j < target
                 PROVE  checkpoints'[j] = {e \in live' : e.at <= j}
      BY <2>2, <2>4 DEF CheckpointsExact
    <3>1. checkpoints'[j] = {e \in live : e.at <= j}
      BY <2>2, <2>4, <2>5 DEF IInv, CheckpointsExact
    <3> QED
      BY <3>1, <2>3, <2>5, <2>4
  <2>7. RollbackReady'
    <3> SUFFICES ASSUME NEW c \in Cursors, c < target
                 PROVE  \E j \in DOMAIN checkpoints' : j <= c
      BY <2>2 DEF RollbackReady, RowsUpto
    <3>1. PICK j \in DOMAIN checkpoints : j <= c
      BY <2>2, <2>5 DEF IInv, RollbackReady, RowsUpto, Cursors
    <3> QED
      BY <3>1, <2>4, <2>5 DEF Cursors
  <2>8. StampsCovered'
    BY <2>2, <2>3, <2>4, <2>5 DEF IInv, StampsCovered
  <2>9. ReadsBack'
    <3> SUFFICES ASSUME NEW e \in live', NEW i \in e.seen
                 PROVE  \E x \in live' : x.id = i /\ x.at <= e.at
      BY DEF ReadsBack
    <3>1. PICK x \in live : x.id = i /\ x.at <= e.at
      BY <2>3 DEF IInv, ReadsBack
    <3> QED
      BY <3>1, <2>3, <2>5
  <2>10. LandsWhereItWasAsked' /\ MoveConsistent'
    BY <2>2, <2>3 DEF IInv, LandsWhereItWasAsked, MoveConsistent
  <2>11. AuthorsCurrent'
    BY <2>2 DEF IInv, AuthorsCurrent, StoryUnchanged, TypeOK
  <2> QED
    BY <1>1, <2>1, <2>6, <2>7, <2>8, <2>9, <2>10, <2>11 DEF IInv
<1> QED
  BY <1>2, <1>3

\* clearStoryCheckpointsAfter has nothing to delete: no row lies after the cursor.
LEMMA ClearKeeps == IInv /\ ClearCheckpointsAfter => IInv'
<1> SUFFICES ASSUME IInv, ClearCheckpointsAfter PROVE IInv'
  OBVIOUS
<1> USE StoryAssumption DEF IInv, ClearCheckpointsAfter
<1>1. TypeOK'
  BY TypeNext DEF Next, Move
<1>2. checkpoints' = checkpoints
  BY DEF KeepRows, RowsUpto, MoveConsistent, CheckpointsExact, TypeOK
<1>3. MoveConsistent' /\ AuthorsCurrent'
  BY DEF MoveConsistent, AuthorsCurrent, Current, StoryUnchanged, TurnOver, Ids
<1> QED
  BY <1>1, <1>2, <1>3, StoreUntouched

\* A write keeps the invariant: its author is current, so what it has read is
\* part of the life it joins.
LEMMA WriteKeeps == IInv /\ Write => IInv'
<1> SUFFICES ASSUME IInv, Write PROVE IInv'
  OBVIOUS
<1> DEFINE new == [id |-> written + 1, at |-> cursor,
                   ctx |-> basis.ctx, seen |-> basis.seen]
<1> USE StoryAssumption
<1>1. TypeOK'
  BY TypeNext DEF Next, IInv
<1>2. /\ live' = live \cup {new} /\ mirror' = mirror \cup {new}
      /\ turn = "write" /\ Current(basis)
      /\ UNCHANGED <<cursor, checkpoints, generation, turn, target, basis, action>>
  BY DEF Write, IInv, AuthorsCurrent
<1>3. /\ cursor \in Nat
      /\ \A k \in DOMAIN checkpoints : k \in Nat
      /\ \A e \in live : e.at \in Nat
      /\ new.at = cursor /\ new.ctx = cursor /\ new.seen = basis.seen
  BY <1>2 DEF IInv, TypeOK, Cursors, Entry, Current
<1> HIDE DEF new
<1>4. CheckpointsExact'
  BY <1>2, <1>3 DEF IInv, CheckpointsExact
<1>5. RollbackReady' /\ MoveConsistent'
  BY <1>2 DEF IInv, RollbackReady, RowsUpto, MoveConsistent
<1>6. StampsCovered' /\ LandsWhereItWasAsked'
  BY <1>2, <1>3 DEF IInv, StampsCovered, LandsWhereItWasAsked
<1>7. ReadsBack'
  <2> SUFFICES ASSUME NEW e \in live', NEW i \in e.seen
               PROVE  \E x \in live' : x.id = i /\ x.at <= e.at
    BY DEF ReadsBack
  <2>1. CASE e \in live
    BY <2>1, <1>2 DEF IInv, ReadsBack
  <2>2. CASE e = new
    <3>1. PICK x \in live : x.id = i
      BY <2>2, <1>2, <1>3 DEF Current, Ids
    <3> QED
      BY <3>1, <2>2, <1>2, <1>3 DEF IInv, StampsCovered
  <2> QED
    BY <2>1, <2>2, <1>2
<1>8. AuthorsCurrent'
  BY <1>2 DEF IInv, AuthorsCurrent, StoryUnchanged, Current, Ids
<1> QED
  BY <1>1, <1>2, <1>4, <1>5, <1>6, <1>7, <1>8 DEF IInv

\* Steps that touch neither the store nor its mirror: what remains to show is
\* that authors stay current and the move's bookkeeping is right.
LEMMA ControlKeeps ==
  ASSUME IInv, Next, UNCHANGED <<cursor, checkpoints, live, mirror>>,
         MoveConsistent', AuthorsCurrent'
  PROVE  IInv'
BY TypeNext, StoreUntouched DEF IInv

LEMMA InvNext == IInv /\ [Next]_vars => IInv'
<1> SUFFICES ASSUME IInv, [Next]_vars PROVE IInv'
  OBVIOUS
<1> USE DEF MoveConsistent, AuthorsCurrent, StoryUnchanged
<1>h. Current(Here)
  BY HereIsCurrent DEF IInv
<1>u. ASSUME UNCHANGED <<cursor, live>>, NEW b, Current(b) PROVE Current(b)'
  BY <1>u DEF Current, Ids
<1>1. ASSUME NEW c \in Cursors, BeginMove(c) PROVE IInv'
  <2>1. MoveConsistent' /\ AuthorsCurrent'
    BY <1>1 DEF BeginMove, IInv, Current, Ids
  <2> QED
    BY <1>1, <2>1, ControlKeeps DEF BeginMove, Next, Move
<1>2. CASE SaveCheckpoint
  BY <1>2, SaveKeeps
<1>3. CASE MoveForward
  BY <1>3, ForwardKeeps
<1>4. CASE Restore
  BY <1>4, RestoreKeeps
<1>5. CASE ClearCheckpointsAfter
  BY <1>5, ClearKeeps
<1>6. CASE MoveFails
  <2>1. MoveConsistent' /\ AuthorsCurrent'
    BY <1>6 DEF MoveFails, TurnOver, IInv, TypeOK, Current, Ids
  <2> QED
    BY <1>6, <2>1, ControlKeeps DEF MoveFails, Next, Move
<1>7. CASE BeginDirectWrite
  <2>1. MoveConsistent' /\ AuthorsCurrent'
    BY <1>7, <1>h DEF BeginDirectWrite, IInv, Current, Ids
  <2> QED
    BY <1>7, <2>1, ControlKeeps DEF BeginDirectWrite, Next
<1>8. CASE Write
  BY <1>8, WriteKeeps
<1>9. CASE EndWrite
  <2>1. MoveConsistent' /\ AuthorsCurrent'
    BY <1>9 DEF EndWrite, TurnOver, IInv, TypeOK, NoAction, Current, Ids
  <2> QED
    BY <1>9, <2>1, ControlKeeps DEF EndWrite, Next
<1>10. ASSUME NEW a \in Chats, ChatAsks(a) PROVE IInv'
  <2>1. MoveConsistent' /\ AuthorsCurrent'
    BY <1>10, <1>h DEF ChatAsks, IInv, TypeOK, Actors, Current, Ids
  <2> QED
    BY <1>10, <2>1, ControlKeeps DEF ChatAsks, Next
<1>11. ASSUME NEW a \in Rounds, RoundStarts(a) PROVE IInv'
  <2>1. MoveConsistent' /\ AuthorsCurrent'
    BY <1>11, <1>h DEF RoundStarts, IInv, TypeOK, Actors, Current, Ids
  <2> QED
    BY <1>11, <2>1, ControlKeeps DEF RoundStarts, Next
<1>12. ASSUME NEW a \in Rounds, RoundAsks(a) PROVE IInv'
  <2>1. MoveConsistent' /\ AuthorsCurrent'
    BY <1>12, <1>h DEF RoundAsks, IInv, TypeOK, Actors, NoAction, Current, Ids
  <2> QED
    BY <1>12, <2>1, ControlKeeps DEF RoundAsks, Next
<1>13. ASSUME NEW a \in Rounds, RoundEnds(a) PROVE IInv'
  <2>1. MoveConsistent' /\ AuthorsCurrent'
    BY <1>13 DEF RoundEnds, IInv, TypeOK, Actors, NoAction, Current, Ids
  <2> QED
    BY <1>13, <2>1, ControlKeeps DEF RoundEnds, Next
<1>14. ASSUME NEW a \in Actors, ReplyApplied(a) PROVE IInv'
  <2>1. MoveConsistent' /\ AuthorsCurrent'
    BY <1>14 DEF ReplyApplied, IInv, TypeOK, Current, Ids
  <2> QED
    BY <1>14, <2>1, ControlKeeps DEF ReplyApplied, Next
<1>15. ASSUME NEW a \in Actors, ReplyDiscarded(a) PROVE IInv'
  <2>1. MoveConsistent' /\ AuthorsCurrent'
    BY <1>15 DEF ReplyDiscarded, IInv, TypeOK, NoAction, Current, Ids
  <2> QED
    BY <1>15, <2>1, ControlKeeps DEF ReplyDiscarded, Next
<1>16. ASSUME NEW a \in Actors, ReplyFails(a) PROVE IInv'
  <2>1. MoveConsistent' /\ AuthorsCurrent'
    BY <1>16 DEF ReplyFails, IInv, TypeOK, NoAction, Current, Ids
  <2> QED
    BY <1>16, <2>1, ControlKeeps DEF ReplyFails, Next
<1>17. CASE CrashAndRestart
  <2>1. MoveConsistent' /\ AuthorsCurrent'
    BY <1>17 DEF CrashAndRestart, TurnOver, NoAction
  <2>2. TypeOK'
    BY <1>17, TypeNext DEF Next, IInv
  <2> QED
    BY <1>17, <2>1, <2>2, StoreUntouched DEF CrashAndRestart, IInv
<1>18. CASE UNCHANGED vars
  BY <1>18, StoreUntouched, TypeNext DEF vars, IInv, Current, Ids
<1> QED
  BY <1>1, <1>2, <1>3, <1>4, <1>5, <1>6, <1>7, <1>8, <1>9, <1>10, <1>11, <1>12,
     <1>13, <1>14, <1>15, <1>16, <1>17, <1>18 DEF Next, Move

LEMMA Invariant == Spec => []IInv
BY InvInit, InvNext, PTL DEF Spec
-----------------------------------------------------------------------------
\* No rollback is ever refused for want of a checkpoint.
THEOREM RollbackAlwaysReady == Spec => []RollbackReady
BY Invariant, PTL DEF IInv

\* At every moment, between two transactions of a move included, a checkpoint of
\* a past position is the life up to it, and none lies in the future.
THEOREM SnapshotsAreThePast == Spec => []CheckpointsExact
BY Invariant, PTL DEF IInv

\* Nothing in a profile's state was computed from a state that was rolled back.
THEOREM NoForgottenAuthor == Spec => []CausallyClosed
<1>1. IInv => CausallyClosed
  BY DEF IInv, ReadsBack, CausallyClosed, Ids
<1> QED
  BY <1>1, Invariant, PTL

\* Nothing lands at another story position than the one it was written for.
THEOREM NoSpoilers == Spec => []LandsWhereItWasAsked
BY Invariant, PTL DEF IInv

\* A step other than a write or a restore leaves the tables alone.
LEMMA OnlyWriteAndRestore ==
  ASSUME [Next]_vars PROVE live' = live \/ Write \/ Restore
BY DEF Next, vars, Move, BeginMove, SaveCheckpoint, MoveForward,
   ClearCheckpointsAfter, MoveFails, BeginDirectWrite, EndWrite, ChatAsks,
   RoundStarts, RoundAsks, RoundEnds, ReplyApplied, ReplyDiscarded, ReplyFails,
   CrashAndRestart

\* No step revives a write that was rolled back.
THEOREM RolledBackStaysGone == Spec => NothingRevives
<1>1. ASSUME IInv, [Next]_vars, NEW e \in live' \ live PROVE e.id > written
  <2>1. CASE live' = live
    BY <2>1, <1>1
  <2>2. CASE Write
    BY <2>2, <1>1 DEF Write, IInv, TypeOK
  <2>3. CASE Restore
    <3>1. PICK k \in DOMAIN checkpoints : NearestRow(k, target) /\ live' = checkpoints[k]
      BY <2>3, <1>1 DEF Restore
    <3>2. checkpoints[k] = {x \in live : x.at <= target}
      BY <3>1, <2>3, <1>1, RestoreTruncates DEF Restore
    <3> QED
      BY <3>1, <3>2
  <2> QED
    BY <1>1, <2>1, <2>2, <2>3, OnlyWriteAndRestore
<1>2. IInv /\ [Next]_vars => [\A e \in live' \ live : e.id > written]_vars
  BY <1>1
<1> QED
  BY <1>2, Invariant, PTL DEF Spec, NothingRevives

\* Names are given out in order, so a new write is younger than all of its life.
InOrder == OneLine /\ \A e \in live : e.id <= written

LEMMA OrderNext == IInv /\ InOrder /\ [Next]_vars => InOrder'
<1> SUFFICES ASSUME IInv, InOrder, [Next]_vars PROVE InOrder'
  OBVIOUS
<1>1. CASE live' = live
  <2>1. written' = written \/ Write
    BY DEF Next, vars, Move, BeginMove, SaveCheckpoint, MoveForward, Restore,
       ClearCheckpointsAfter, MoveFails, BeginDirectWrite, EndWrite, ChatAsks,
       RoundStarts, RoundAsks, RoundEnds, ReplyApplied, ReplyDiscarded,
       ReplyFails, CrashAndRestart
  <2>2. Write => written' = written + 1
    BY DEF Write
  <2>3. written \in Nat /\ \A e \in live : e.id \in Nat
    BY StoryAssumption DEF IInv, TypeOK, Entry
  <2> QED BY <1>1, <2>1, <2>2, <2>3 DEF InOrder, OneLine
<1>2. CASE Write
  <2> DEFINE new == [id |-> written + 1, at |-> cursor,
                     ctx |-> basis.ctx, seen |-> basis.seen]
  <2>1. live' = live \cup {new} /\ written' = written + 1 /\ Current(basis)
    BY <1>2 DEF Write, IInv, AuthorsCurrent
  <2>2. new.id = written + 1 /\ new.at = cursor /\ new.seen \subseteq Ids(live)
    BY <2>1 DEF Current
  <2>3. /\ written \in Nat /\ cursor \in Nat
        /\ \A e \in live : /\ e.id \in Nat /\ e.at \in Nat
                           /\ e.id <= written /\ e.at <= cursor
                           /\ e.seen \subseteq Ids(live)
    BY StoryAssumption
       DEF IInv, TypeOK, Entry, Cursors, InOrder, StampsCovered, ReadsBack, Ids
  <2> HIDE DEF new
  <2>4. \A i \in Ids(live) : i \in Nat /\ i <= written
    BY <2>3 DEF Ids
  <2>5. \A e \in live : e.id < new.id /\ e.at <= new.at /\ new.id \notin e.seen
    BY <2>2, <2>3, <2>4
  <2>6. new.id \notin new.seen
    BY <2>2, <2>3, <2>4
  <2>7. OneLine'
    <3> SUFFICES ASSUME NEW e \in live', NEW f \in live'
                 PROVE  /\ e.id = f.id => e = f
                        /\ e.id < f.id => e.at <= f.at
                        /\ e.id \in f.seen => e.id < f.id
      BY DEF OneLine
    <3>1. CASE e \in live /\ f \in live
      BY <3>1 DEF InOrder, OneLine
    <3>2. CASE e \in live /\ f = new
      BY <2>2, <2>3, <2>5, <3>2
    <3>3. CASE e = new /\ f \in live
      BY <2>2, <2>3, <2>5, <3>3
    <3>4. CASE e = new /\ f = new
      BY <2>2, <2>3, <2>6, <3>4
    <3> QED BY <2>1, <3>1, <3>2, <3>3, <3>4
  <2> QED BY <2>1, <2>2, <2>3, <2>7 DEF InOrder
<1>3. CASE Restore
  <2>1. written' = written
    BY <1>3 DEF Restore
  <2>2. CASE RowsUpto(target) = {}
    BY <1>1, <1>3, <2>2 DEF Restore
  <2>3. CASE RowsUpto(target) # {}
    <3>1. PICK k \in DOMAIN checkpoints : NearestRow(k, target) /\ live' = checkpoints[k]
      BY <1>3, <2>3 DEF Restore
    <3>2. live' = {e \in live : e.at <= target}
      BY <1>3, <3>1, RestoreTruncates DEF Restore
    <3> QED BY <2>1, <3>2 DEF InOrder, OneLine
  <2> QED BY <2>2, <2>3
<1> QED BY <1>1, <1>2, <1>3, OnlyWriteAndRestore

\* For any number of moves and actions: the writes of a life are in the order of
\* the story, and each was computed from older ones only.
THEOREM LifeIsOneLine == Spec => []OneLine
<1>1. Init => InOrder
  BY DEF Init, InOrder, OneLine
<1>2. InOrder => OneLine
  BY DEF InOrder
<1> QED
  BY <1>1, <1>2, OrderNext, Invariant, PTL DEF Spec

\* A step other than a move leaves the cursor alone.
LEMMA OnlyMoves ==
  ASSUME [Next]_vars PROVE cursor' = cursor \/ MoveForward \/ Restore
BY DEF Next, vars, Move, BeginMove, SaveCheckpoint, ClearCheckpointsAfter,
   MoveFails, BeginDirectWrite, Write, EndWrite, ChatAsks, RoundStarts,
   RoundAsks, RoundEnds, ReplyApplied, ReplyDiscarded, ReplyFails,
   CrashAndRestart

\* The store implements the timeline: every step of the code, those of a move
\* that a crash cuts short included, is a step of the timeline or a stutter.
THEOREM ImplementsTimeline == Spec => RefinesTimeline
<1>1. Init => Timeline!Init
  BY DEF Init, Timeline!Init
<1>2. ASSUME IInv, [Next]_vars PROVE [Timeline!Next]_(Timeline!vars)
  <2>1. CASE Write
    <3>1. [id |-> written + 1, at |-> cursor,
           ctx |-> basis.ctx, seen |-> basis.seen] \in Entry
      BY <2>1, <1>2, StoryAssumption DEF Write, IInv, TypeOK, Entry, Basis
    <3>2. Timeline!Live
      BY <2>1, <3>1 DEF Write, Timeline!Live
    <3> QED
      BY <3>2 DEF Timeline!Next
  <2>2. CASE MoveForward
    BY <2>2, <1>2 DEF MoveForward, IInv, TypeOK, Timeline!Next, Timeline!Advance
  <2>3. CASE Restore
    <3>1. CASE RowsUpto(target) = {}
      BY <2>3, <3>1 DEF Restore, Timeline!vars
    <3>2. CASE RowsUpto(target) # {}
      <4>1. PICK k \in DOMAIN checkpoints :
              NearestRow(k, target) /\ live' = checkpoints[k]
        BY <2>3, <3>2 DEF Restore
      <4>2. turn = "shift" /\ target < cursor /\ cursor' = target /\ target \in Cursors
        BY <2>3, <3>2, <1>2 DEF Restore, IInv, TypeOK
      <4>3. live' = {e \in live : e.at <= target}
        BY <4>1, <4>2, <1>2, RestoreTruncates
      <4> QED
        BY <4>2, <4>3 DEF Timeline!Next, Timeline!Rewind, Timeline!Upto
    <3> QED
      BY <3>1, <3>2
  <2>4. CASE live' = live /\ cursor' = cursor
    BY <2>4 DEF Timeline!vars
  <2> QED
    BY <1>2, <2>1, <2>2, <2>3, <2>4, OnlyWriteAndRestore, OnlyMoves
       DEF Write, MoveForward
<1> QED
  BY <1>1, <1>2, Invariant, PTL DEF Spec, RefinesTimeline, Timeline!Spec
=============================================================================
