------------------------------ MODULE RealmStory ------------------------------
(***************************************************************************)
(* One profile's state store under story moves: the durable cursor, the    *)
(* checkpoint rows, the state they snapshot, its in-memory mirror, the     *)
(* in-memory story generation, and the asynchronous actions (chats, tick   *)
(* rounds) that wait for a language model while the story may move.        *)
(*                                                                         *)
(* Node runs one JavaScript turn at a time, so a synchronous handler is    *)
(* interleaved with nothing; but each of its SQLite transactions commits   *)
(* on its own, and the process may die between two of them.  The variable  *)
(* turn says what the running turn still has to do.                        *)
(*                                                                         *)
(* State is abstracted to the set of transactions that made it: an entry   *)
(* is one committed write (turns, memories, affinity, mood, tick state,    *)
(* a transcript deletion, a self-concept revision), tagged with the story  *)
(* position it was written at and with what its author had read.           *)
(***************************************************************************)
EXTENDS Naturals

CONSTANTS
  MaxCursor,      \* number of story scenes: cursors are 0..MaxCursor
  Chats,          \* chat requests, host.chat and host.chatStream
  Rounds,         \* tick rounds of this profile
  MaxEntries,     \* bound on the writes of a behaviour
  MaxGeneration   \* bound on the story moves of one process

ASSUME StoryAssumption ==
  /\ MaxCursor \in Nat
  /\ MaxEntries \in Nat
  /\ MaxGeneration \in Nat
  /\ Chats \cap Rounds = {}

VARIABLES
  cursor,         \* story_progress.cursor
  checkpoints,    \* story_checkpoints: cursor -> snapshot
  live,           \* the snapshotted tables, as the set of their writes
  mirror,         \* the same state as the process holds it in memory
  generation,     \* storyGenerationValue, in memory only
  turn,           \* the step the running JavaScript turn is at
  target,         \* the cursor a story move goes to
  basis,          \* what the author of the turn's writes has read
  action,         \* the asynchronous actions in flight
  written         \* number of writes so far, which names the next one

vars == <<cursor, checkpoints, live, mirror, generation, turn, target, basis,
          action, written>>

Cursors == 0 .. MaxCursor
Actors == Chats \cup Rounds

\* ctx is the story position the prompt was built at, seen the writes it shows.
Basis == [ctx : Cursors, seen : SUBSET (1 .. MaxEntries)]
Entry == [id : 1 .. MaxEntries, at : Cursors,
          ctx : Cursors, seen : SUBSET (1 .. MaxEntries)]

\* none: no such action; writing: its turn runs; ready: a round between two
\* model calls; waiting: the reply of a model is awaited.
Stages == {"none", "writing", "ready", "waiting"}
NoBasis == [ctx |-> 0, seen |-> {}]
NoAction == [stage |-> "none", gen |-> 0, basis |-> NoBasis]

Ids(entries) == {e.id : e \in entries}
Here == [ctx |-> cursor, seen |-> Ids(mirror)]

TypeOK ==
  /\ cursor \in Cursors
  /\ DOMAIN checkpoints \subseteq Cursors
  /\ checkpoints \in [DOMAIN checkpoints -> SUBSET Entry]
  /\ live \subseteq Entry
  /\ mirror \subseteq Entry
  /\ generation \in Nat
  /\ turn \in {"idle", "save", "shift", "clear", "write"}
  /\ target \in Cursors
  /\ basis \in Basis
  /\ action \in [Actors -> [stage : Stages, gen : Nat, basis : Basis]]
  /\ written \in 0 .. MaxEntries

Init ==
  /\ cursor = 0
  /\ checkpoints = [c \in {} |-> {}]
  /\ live = {}
  /\ mirror = {}
  /\ generation = 0
  /\ turn = "idle"
  /\ target = 0
  /\ basis = NoBasis
  /\ action = [a \in Actors |-> NoAction]
  /\ written = 0
\* The turn returns to the event loop; its locals are gone.
TurnOver == turn' = "idle" /\ target' = 0 /\ basis' = NoBasis
-----------------------------------------------------------------------------
(* Moving the story: RealmHost.setStoryCursor, three transactions in a turn *)

BeginMove(c) ==
  /\ turn = "idle"
  /\ c # cursor
  /\ generation < MaxGeneration
  /\ turn' = "save"
  /\ target' = c
  /\ UNCHANGED <<cursor, checkpoints, live, mirror, generation, basis, action,
                 written>>

\* Mutant: the row is keyed by where the move goes, not by where it leaves.
SaveCheckpoint_AtTarget ==
  /\ turn = "save"
  /\ checkpoints' = [c \in DOMAIN checkpoints \cup {target} |->
                       IF c = target THEN live ELSE checkpoints[c]]
  /\ turn' = "shift"
  /\ UNCHANGED <<cursor, live, mirror, generation, target, basis, action,
                 written>>

\* Mutant: an existing row is kept (INSERT OR IGNORE) instead of replaced.
SaveCheckpoint_KeepsOld ==
  /\ turn = "save"
  /\ checkpoints' = [c \in DOMAIN checkpoints \cup {cursor} |->
                       IF c \in DOMAIN checkpoints THEN checkpoints[c] ELSE live]
  /\ turn' = "shift"
  /\ UNCHANGED <<cursor, live, mirror, generation, target, basis, action,
                 written>>

SaveCheckpoint ==
  /\ turn = "save"
  /\ checkpoints' = [c \in DOMAIN checkpoints \cup {cursor} |->
                       IF c = cursor THEN live ELSE checkpoints[c]]
  /\ turn' = "shift"
  /\ UNCHANGED <<cursor, live, mirror, generation, target, basis, action,
                 written>>

\* Mutant: only a rollback invalidates what is in flight.
MoveForward_SameGeneration ==
  /\ turn = "shift"
  /\ target > cursor
  /\ cursor' = target
  /\ turn' = "clear"
  /\ UNCHANGED <<checkpoints, live, mirror, generation, target, basis, action,
                 written>>

\* Mutant: the cursor is written one past the scene asked for.
MoveForward_OffByOne ==
  /\ turn = "shift"
  /\ target > cursor
  /\ generation' = generation + 1
  /\ cursor' = target + 1
  /\ turn' = "clear"
  /\ UNCHANGED <<checkpoints, live, mirror, target, basis, action, written>>

MoveForward ==
  /\ turn = "shift"
  /\ target > cursor
  /\ generation' = generation + 1
  /\ cursor' = target
  /\ turn' = "clear"
  /\ UNCHANGED <<checkpoints, live, mirror, target, basis, action, written>>

\* Mutant: the rows are ordered the wrong way round.
NearestRow_Oldest(k, c) ==
  /\ k \in DOMAIN checkpoints
  /\ k <= c
  /\ \A j \in DOMAIN checkpoints : j <= c => k <= j

\* SELECT ... WHERE cursor <= ? ORDER BY cursor DESC LIMIT 1
NearestRow(k, c) ==
  /\ k \in DOMAIN checkpoints
  /\ k <= c
  /\ \A j \in DOMAIN checkpoints : j <= c => j <= k

RowsUpto(c) == {k \in DOMAIN checkpoints : k <= c}
\* Mutant: the rows of the abandoned future stay.
KeepRows_All(c) == checkpoints

KeepRows(c) == [k \in RowsUpto(c) |-> checkpoints[k]]

\* The rows, the cursor and the dropped checkpoints change in one transaction;
\* loadState then rebuilds the mirror.  With no row to restore it throws.
Restore ==
  /\ turn = "shift"
  /\ target < cursor
  /\ IF RowsUpto(target) = {}
     THEN /\ TurnOver
          /\ UNCHANGED <<cursor, checkpoints, live, mirror, generation>>
     ELSE /\ \E k \in DOMAIN checkpoints :
               /\ NearestRow(k, target)
               /\ live' = checkpoints[k]
               /\ mirror' = checkpoints[k]
          /\ generation' = generation + 1
          /\ cursor' = target
          /\ checkpoints' = KeepRows(target)
          /\ turn' = "clear"
          /\ UNCHANGED <<target, basis>>
  /\ UNCHANGED <<action, written>>

ClearCheckpointsAfter ==
  /\ turn = "clear"
  /\ checkpoints' = KeepRows(target)
  /\ TurnOver
  /\ UNCHANGED <<cursor, live, mirror, generation, action, written>>

\* A transaction of the move throws (a locked or full database): it is rolled
\* back and the error ends the turn.  The generation is bumped before the
\* transaction that moves the cursor, and stays bumped.
MoveFails ==
  /\ turn \in {"save", "shift", "clear"}
  /\ TurnOver
  /\ generation' = IF turn = "shift" THEN generation + 1 ELSE generation
  /\ UNCHANGED <<cursor, checkpoints, live, mirror, action, written>>
-----------------------------------------------------------------------------
(* Writes                                                                  *)

\* A handler that changes state without awaiting anything: newConversation,
\* markProactiveRead, govern, plotEvent.
BeginDirectWrite ==
  /\ turn = "idle"
  /\ turn' = "write"
  /\ basis' = Here
  /\ UNCHANGED <<cursor, checkpoints, live, mirror, generation, target, action,
                 written>>

\* One transaction of the turn.  How many a turn has depends on its data: an
\* exchange, then perhaps an emotion, then the read marks; a plot event's
\* affect, then its memory.
Write ==
  /\ turn = "write"
  /\ written < MaxEntries
  /\ LET e == [id |-> written + 1, at |-> cursor,
               ctx |-> basis.ctx, seen |-> basis.seen]
     IN  /\ live' = live \cup {e}
         /\ mirror' = mirror \cup {e}
  /\ written' = written + 1
  /\ UNCHANGED <<cursor, checkpoints, generation, turn, target, basis, action>>

\* The turn's last transaction is done: a chat is over, a round goes on.
EndWrite ==
  /\ turn = "write"
  /\ TurnOver
  /\ action' = [a \in Actors |->
                  IF action[a].stage # "writing" THEN action[a]
                  ELSE IF a \in Chats THEN NoAction
                  ELSE [action[a] EXCEPT !.stage = "ready"]]
  /\ UNCHANGED <<cursor, checkpoints, live, mirror, generation, written>>
-----------------------------------------------------------------------------
(* Asynchronous actions                                                    *)

\* chat, chatStream: the generation is captured with everything the prompt reads.
ChatAsks(a) ==
  /\ turn = "idle"
  /\ action[a].stage = "none"
  /\ action' = [action EXCEPT ![a] =
                  [stage |-> "waiting", gen |-> generation, basis |-> Here]]
  /\ UNCHANGED <<cursor, checkpoints, live, mirror, generation, turn, target,
                 basis, written>>

\* tickStateIfPeriodChanged: capture the generation, then affect, routine
\* memories, scripted plot and tick state are written in the same turn.
RoundStarts(a) ==
  /\ turn = "idle"
  /\ action[a].stage = "none"
  /\ turn' = "write"
  /\ basis' = Here
  /\ action' = [action EXCEPT ![a] =
                  [stage |-> "writing", gen |-> generation, basis |-> Here]]
  /\ UNCHANGED <<cursor, checkpoints, live, mirror, generation, target, written>>

\* Mutant: the cursor is compared instead of the generation.
StoryUnchanged_SameCursor(a) == action[a].basis.ctx = cursor

StoryUnchanged(a) == action[a].gen = generation

\* A narrative, reflection or proactive message: the generation is checked,
\* the prompt is built from the state of now, and the model is called.
RoundAsks(a) ==
  /\ turn = "idle"
  /\ action[a].stage = "ready"
  /\ action' = [action EXCEPT ![a] =
                  IF StoryUnchanged(a)
                  THEN [stage |-> "waiting", gen |-> action[a].gen, basis |-> Here]
                  ELSE NoAction]
  /\ UNCHANGED <<cursor, checkpoints, live, mirror, generation, turn, target,
                 basis, written>>

\* The reply is there: it is applied only if the story has not moved.
ReplyApplied(a) ==
  /\ turn = "idle"
  /\ action[a].stage = "waiting"
  /\ StoryUnchanged(a)
  /\ turn' = "write"
  /\ basis' = action[a].basis
  /\ action' = [action EXCEPT ![a].stage = "writing"]
  /\ UNCHANGED <<cursor, checkpoints, live, mirror, generation, target, written>>

\* The story moved: a chat throws, a round returns.
ReplyDiscarded(a) ==
  /\ turn = "idle"
  /\ action[a].stage = "waiting"
  /\ ~StoryUnchanged(a)
  /\ action' = [action EXCEPT ![a] = NoAction]
  /\ UNCHANGED <<cursor, checkpoints, live, mirror, generation, turn, target,
                 basis, written>>

\* The model fails, times out or declines: a chat rejects, a round notes it and
\* goes on with the next agent.
ReplyFails(a) ==
  /\ turn = "idle"
  /\ action[a].stage = "waiting"
  /\ action' = [action EXCEPT ![a] =
                  IF a \in Chats \/ ~StoryUnchanged(a) THEN NoAction
                  ELSE [action[a] EXCEPT !.stage = "ready"]]
  /\ UNCHANGED <<cursor, checkpoints, live, mirror, generation, turn, target,
                 basis, written>>

RoundEnds(a) ==
  /\ turn = "idle"
  /\ action[a].stage = "ready"
  /\ action' = [action EXCEPT ![a] = NoAction]
  /\ UNCHANGED <<cursor, checkpoints, live, mirror, generation, turn, target,
                 basis, written>>
-----------------------------------------------------------------------------
\* The process dies, between turns or between two transactions of one, and a
\* new one opens the store: memory is rebuilt from the tables.
CrashAndRestart ==
  /\ generation' = 0
  /\ TurnOver
  /\ mirror' = live
  /\ action' = [a \in Actors |-> NoAction]
  /\ UNCHANGED <<cursor, checkpoints, live, written>>

Move ==
  \/ \E c \in Cursors : BeginMove(c)
  \/ SaveCheckpoint \/ MoveForward \/ Restore \/ ClearCheckpointsAfter
  \/ MoveFails

Next ==
  \/ Move
  \/ BeginDirectWrite \/ Write \/ EndWrite
  \/ \E a \in Chats : ChatAsks(a)
  \/ \E a \in Rounds : RoundStarts(a) \/ RoundAsks(a) \/ RoundEnds(a)
  \/ \E a \in Actors : ReplyApplied(a) \/ ReplyDiscarded(a) \/ ReplyFails(a)
  \/ CrashAndRestart

Spec == Init /\ [][Next]_vars
-----------------------------------------------------------------------------
(* Properties *)

\* A rollback always finds a snapshot: for every earlier position there is a row
\* at or before it, so restoreStoryCheckpoint's "checkpoint not found" is never
\* thrown, whatever moves failed or were cut short by a crash before.
RollbackReady == \A c \in Cursors : c < cursor => RowsUpto(c) # {}

\* A snapshot is the past of the present life, no more and no less: the row of a
\* position left behind holds exactly the writes up to that position, and no
\* row of an abandoned future survives saveStoryCheckpoint,
\* restoreStoryCheckpoint and clearStoryCheckpointsAfter.
CheckpointsExact ==
  \A k \in DOMAIN checkpoints :
    /\ k <= cursor
    /\ k < cursor => checkpoints[k] = {e \in live : e.at <= k}

\* Everything that is part of the profile's state was written by someone who
\* had read only what is still part of it: no reply, diary, reflection or
\* proactive message computed from a state that a rollback undid is ever kept
\* (assertStoryGeneration and the generation checks of a tick round).
CausallyClosed == \A e \in live : e.seen \subseteq Ids(live)

\* A write lands at the story position its prompt was built at: a reply that
\* was written knowing a later scene never becomes part of an earlier life,
\* nor one written before a scene part of the life after it.
LandsWhereItWasAsked == \A e \in live : e.ctx = e.at

\* A life is one line, however often it was rolled back and taken up again:
\* writes follow one another as the story does, no two bear one name, and what a
\* write has read was written before it (CONTEXT.md, story rollback; the
\* generation checks of chat and of a tick round).
OneLine ==
  \A e, f \in live :
    /\ e.id = f.id => e = f
    /\ e.id < f.id => e.at <= f.at
    /\ e.id \in f.seen => e.id < f.id

\* What was rolled back stays gone: a step brings only new writes into the
\* profile's state, it never revives one (CONTEXT.md, story rollback keeps no
\* state produced after the node it goes back to).
NothingRevives == [][\A e \in live' \ live : e.id > written]_vars

\* The store implements the abstract timeline: every move back is an exact
\* truncation of the life, and nothing else removes or back-dates a write.
Timeline == INSTANCE RealmTimeline WITH position <- cursor, life <- live
RefinesTimeline == Timeline!Spec
=============================================================================
