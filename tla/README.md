# Elysian Realm Agent: formal verification

TLA+ models of the Elysian Realm host, the TLC runs that check them, and TLAPS proofs about
them. Paths are relative to the repository root; `host/` stands for `src/host/`.

## 1. The system

One Node process, the *realm host*, keeps the lives of a few characters ("agents") for one
or more users ("profiles"). It answers chats, lets time pass for the characters when the
period of the day changes, lets them write diaries, reflections and messages of their own
with a language model, and lets an operator move the story a profile has reached forward and
back. Everything is one JavaScript thread: handlers that do not `await` are atomic with
respect to each other, those that do are interleaved at the `await`. Each SQLite transaction
commits on its own, so the process may die between two transactions of one handler.

### 1.1 Components, their state and operations

| Component | State it keeps | Operations that change it |
|---|---|---|
| `RealmHost` (`host/realmHost.ts`) | none but counters; it orchestrates | `chat`, `chatStream`, `setStoryCursor`, `tickIfPeriodChanged`, `plotEvent`, `govern`, `newConversation`, `markProactiveRead` |
| `RealmStateStore` (`host/realmState.ts`) | SQLite tables of one profile, in-memory mirrors of memories, transcripts, affect and `tick_state`, and `storyGenerationValue` | one method per mutation, mostly one transaction each; memory is changed before the transaction |
| story progress (same files) | `story_progress`, `story_checkpoints`, the generation | `saveStoryCheckpoint`, `setStoryCursor`, `restoreStoryCheckpoint`, `clearStoryCheckpointsAfter` |
| tick scheduler (`host/main.ts`, `host/realmHost.ts`) | `tick_state` of each profile, the timer | startup round, `setInterval` round, `tickStateIfPeriodChanged` |
| self-concept (`host/realmState.ts`, `src/reflection`, `src/selfConcept`) | `self_concept_snapshots`, `self_concept_proposal_audit` | `applySelfConceptProposal` (compare-and-swap), the audit appends, `reconcileIncompleteSelfConceptAttempts` |
| conversation (`realmHost.ts`, `src/service/realmConversationExecutor.ts`, `src/conversation`) | transcript, memories, affinity, mood | `applyChatResponse`: exchange, emotion, read marks, as three transactions |
| chat page (`host/chatPage.ts`, in the browser) | active profile, agent, view number, lock, story cursor | picking a profile or an agent, a new conversation, sending, the five-second poll |
| proactive messages (`host/proactive.ts`) | `proactive_messages` | decide (pure), write with the model, transcript turn and unread entry as two transactions |
| memory (`src/memory`) | a list of records per agent | `remember`, `invalidate`, import |
| affect (`src/affect`, `src/personality`) | affinity, mood, affect snapshot | bounded deltas, decay, plot rules (pure) |
| cognitive loop, step executor, runtime (`src/loop`, `src/service/realmStepExecutor.ts`, `src/runtime`) | none | pure per request |
| profiles (`host/realmProfiles.ts`) | `profiles.json`, one store per profile | create, update |
| LLM hub and its configuration (`src/service/conversationBootstrap.ts`, `llmConfigStore.ts`) | running model, credentials file | save, swap, clear |
| service, client, HTTP and SSE (`src/service`, `host/hostApi.ts`, `host/testApi.ts`) | none | requests, a stream of `delta`, `done`, `applied`, `error` |
| lore (`src/lore`) | constant data | visibility up to a cursor (pure) |

### 1.2 How they interact

* `hostApi.ts` calls the host; the host calls one store per profile and the hub's model. A
  handler that calls the model captures its inputs, and the store's story generation, before
  the `await`, and checks the generation after it.
* A story move saves a checkpoint of the whole state under the cursor it leaves, then either
  sets the cursor or restores the newest checkpoint at or before the target, then drops later
  checkpoints: three transactions in one turn. Both ways bump the generation, in memory only.
* `main.ts` awaits a first tick round and then starts a timer that begins a round every
  minute *without waiting for the previous one*. A round takes the profiles in order; for each
  it reads the tick state, lives the period and marks it in one turn, then awaits up to three
  stages of model calls.
* The nightly reflection of a round may carry a proposal for a new self-concept, which is
  decided by compare-and-swap on the revision it names. Tests open two stores on one database.

### 1.3 What makes it hard

Model calls take seconds to minutes, and anything can happen before they return: a story
move there and back, another round, another process' write. Handlers are several
transactions. Two copies of state (memory and table) can come apart. Time, dates and periods
are compared as values. `PROJECT.json` lists the hazards line by line; the properties below
are aimed at them.

### 1.4 What makes each component correct

* *Story*: a life is one line; going back to a position keeps exactly its past
  (`CONTEXT.md`, story rollback); nothing computed from an undone state is kept.
* *Ticks*: a period counts as lived only if it was; every profile ends up ticked for the
  present period; what is lived is told; a period is not lived twice (which the code does not
  guarantee, see the findings).
* *Self-concept*: no lost update, every row has its accepted event, one decision per attempt.
* *Conversation*: an exchange is applied as a whole, in a transcript it belongs to.
* *Proactive*: the backoff counts what was really said; no two messages at once.
* *Store*: memory and tables agree, or the difference never reaches a prompt or a restart.
* *Memory and lore*: a prompt shows nothing ahead of the story and nothing retired; what is
  retired is old and unimportant.
* *Chat page*: it shows what is selected, whatever answer arrives late, is locked exactly while
  it is busy, and follows the story.
* *Profiles and hub*: every copy of a name or of the configuration agrees, nothing that was
  reported is lost, and a broken file does not keep the host down.

## 2. Modules

| Module | Models | Lines of thought |
|---|---|---|
| `RealmTimeline` | the promise of story progress: a life and a position | abstract specification, three actions |
| `RealmStory` | one profile's store under story moves | refines `RealmTimeline` |
| `RealmTick` | timer, rounds, tick marks of several profiles | safety, liveness, three findings |
| `SelfRegister` | the promise of the self-concept: one row, its checkpoints, a log | abstract specification, three actions |
| `SelfConcept` | the row, its audit, several processes | compare-and-swap against rollback; refines `SelfRegister` |
| `RealmDialogue` | the promise of the transcript: a list that grows at its end | abstract specification, five actions |
| `RealmConversation` | transcript and messages of one agent | mirror and rows, overlapping chats and rounds; refines `RealmDialogue` |
| `LoreVisibility` | what a story position lets a character know | pure operators |
| `RealmPrompt` | what a request shows of story and memory | extends `LoreVisibility`; governance |
| `ChatPage` | the page in the browser | stale answers, the lock, liveness |
| `LlmConfigHub`, `RealmProfiles` | model configuration; profile registry | no `Next` of their own |
| `HostProcess` | start, stop and crash of the process | composes the two, in the order of `main.ts` |
| `MC*` | instances for TLC | small constants |
| `RealmStory_proofs`, `RealmTick_proofs`, `SelfConcept_proofs`, `RealmConversation_proofs`, `RealmDialogue_proofs`, `RealmPrompt_proofs`, `ChatPage_proofs`, `HostProcess_proofs` | theorems | TLAPS |

Definitions whose comment begins with "Mutant:" are plausible mistakes in the code. They are
used by no specification; each shows that one property would notice it.

### 2.1 RealmStory

State is abstracted to the set of committed writes that made it (`live`), each an entry with
the position it was written at, the position its prompt was built at and the writes its author
had read. `mirror` is the copy in memory. `turn` is the step the running handler is at, so
that a crash, and nothing else, can come between the transactions of a handler; `action` holds
the chats and rounds that wait for a model, with the generation they captured.

`BeginMove`, `SaveCheckpoint`, `MoveForward`/`Restore` and `ClearCheckpointsAfter` are
`RealmHost.setStoryCursor`, `MoveFails` a transaction of it that throws. `BeginDirectWrite`
stands for the handlers that await nothing (`newConversation`, `markProactiveRead`, `govern`,
`plotEvent`), `ChatAsks` and `ReplyApplied` for `chat` and `chatStream`, `RoundStarts`,
`RoundAsks`, `ReplyApplied` and `RoundEnds` for a tick round of the profile. `Write` is one
transaction; how many a handler has is left open.

Not modelled here: write transactions that fail (a story move's do); other profiles, whose
stores share nothing with this one; the self-concept audit, which a rollback leaves alone.

### 2.2 RealmTick

A day has five windows (00–06, 06–11, 11–17, 17–22, 22–24) and four periods; `Slot(w)` is
the `(date, period)` a tick of window `w` is marked with. `Visit`, `Plot`, `Mark` are the
synchronous part of `tickStateIfPeriodChanged`, one transaction or decision each, so a crash
can come between; `Busy` keeps other rounds out meanwhile, as the event loop does. `Answered`
is the return of one awaited stage for all agents. `lastTick` is the copy of `tick_state` in
memory, which `setTickState` changes before its transaction.

`model` says whether the hub has a model to ask; `ModelConfigured` gives it its first. Without
one, `Mark` goes straight on to the next profile. `generation` is the story generation a tick
captures when it begins (`Begins`). `StoryMoves` is `setStoryCursor`: forward it leaves the tick
state, back it puts the one of some checkpoint (`saved`) in memory and table, and either way what a
waiting round comes back with is discarded and its later stages ask nothing (`Answered`). The move
is one step here; which checkpoint is taken, and how a move fails on the way, is in RealmStory.

History: `plots` and `told` say how often a window was lived and which stages of telling it were
gone through, `rewinds` how often a story was moved back, `cut` which windows a move or the want of
a model left untold. Left out: what is written.

### 2.3 SelfConcept

The row is a revision and its author. An attempt goes from `Ask` (the prompt shows the row)
through `Propose` (the answer names some revision, any up to `MaxRevision`) to `CheckRevision`
(the first read) and `Swap` (the transaction that updates the row and logs the accepted
event); between the last three other processes may act, and the process may die. A story move
saves or puts back the row (in one step: RealmStory has the three). The audit is a bag of rows
that only grows and that no rollback touches. `Select` and `Close` are the reconciliation,
which nothing in `src/` calls but the tests do; `Reconcilers` says which processes run it.

`RefinesRegister` maps the row and the rows of the checkpoints to themselves and the log to the
accepted events: a `Swap` that finds its revision is `Accept`, a story move is `Save` or `Rewind`,
everything else (prompts, conflicts, failures, reconciliations, crashes) is a stutter.

### 2.4 RealmConversation

`memory.turns` is the array of the process, `table.turns` a function from `seq` to rows, as the
primary key is. `Store` is `applyConversation`: array and memories first, then one transaction
that upserts at the former length of the array. `Finish` is the rest of `applyChatResponse`, in
the same turn (`Busy` keeps others out, a crash may come). A chat that leaks stores its question
alone. `Decide`, `Send` and `Enter` are the decision, the transcript turn and the unread entry of
a message of her own; the round's stamp is the time it started. Failed transactions leave the difference
between memory and table that the code leaves; properties that speak of both say `failures = 0`,
`StoredIsRemembered`, `GapKept` and `FreshContext` hold through failures as well.

A prompt holds `CharacterVisibleHistory`: the last `HistoryWindow` turns of the array (20 in the
code) but for the questions `OutOfCharacter`. A clear whose DELETE fails leaves the array empty and
the rows in the table, and reports an error; `NewConversation` has the retry too, which finds the
array empty, deletes nothing and reports success. History: `epoch` counts the clears reported as
done, `landedIn` says in which conversation a chat was stored, `kept` whose rows such a retry left.
An exchange asked before a clear and answered after it does land in the fresh transcript; that
is what the code does, and no document says otherwise.

`RefinesDialogue` maps `said` to the array, `closed` to the chats that have landed, failed or died,
`past` to the times of ticks whose message was sent or will not be, and `intact` to
`failures = 0`. `Store` is `Exchange`, `Send` is `Speak`, `NewConversation` is `Clear`; every other
step is a `Lapse` or a stutter, and a restart after a failed transaction a `Recover`, the one step
at which the abstract transcript may change otherwise than at its end.

Left out: affect, mood and relationship; moves back (RealmStory); whether there is material.

### 2.5 LoreVisibility and RealmPrompt

`LoreVisibility` gives the set of all results `retrieveLoreDialogue` may return: candidates
before the cursor with a line of hers, the latest of them and the best others, a window of each,
and as much as the budget allows. Scores and lengths are choices, so the properties hold for any
ranking. `RealmPrompt` adds the memory stream with its two copies, the writes that grow it
and `govern`, two transactions that a failure may separate. The writers are `Reply`, `PlotEvent`
and `Tick`, whose template plan the boundary keeps out. A request is a message of the participant
(`Chats`) or a diary or nightly reflection (`Notes`): all three read the stream, ask the model and
leave a record that later requests may show. A message recalls its records by score; a diary shows
the last narratives and a reflection other records of its day, for which `MayShow` allows any
records that may be shown, up to `NoteK`. A note bears the date its round began on (`Dates`). A
message of her own shows part of the same stream and stores no memory: it is a request that ends in
`RequestFails`. `Legacy` is a template stored before the boundary existed, which only governance
retires. A day is a number, `StaleDays` is `MEMORY_STALE_DAYS`. `MCRealmPrompt` has three catalogs:
none (the older canon is used), one in which she enters late and thinks, and one whose second page
is missing.

### 2.6 ChatPage

Everything a handler of the page does up to its next `await` is one action; the answer of a
request arrives as another, in any order, or fails. A view is the task that opened it
(`loadProfile`, `loadAgent` or a new conversation) and the answer it awaits; `generation` is
`viewGeneration`. `Submit`, `DoneArrives`, `SendEnds` are a message with its stream, `PollFires`
and `PollArrives` the story poll, of which several may be under way. The host is its story
cursor. Left out: the JSON answer of a host without streaming, the plot form, badges and panels.

### 2.7 LlmConfigHub, RealmProfiles and HostProcess

The hub is the credentials file, the configuration in use and whether the environment pins it.
A save writes a temporary file, renames it and sets its mode: it may fail before or after the
rename, and the process may die there. The profiles are the records (the admin list), the stores'
`config.user` (the prompts), `profiles.json` and `realm.json`, which are written in place and may
be torn. A start needs every constructor to succeed. `MCHostProcess` has a model that is no
longer in the catalog, so that a stored configuration may be unusable.

The code does not keep these, and the properties except them: after a save that failed between
rename and swap the file is ahead of the running model; a key in a file that was ignored at the
start is dropped by a form without one; a profile whose creation failed at the registry is there
until the next start and reported as an error.

## 3. What the runs check

| Run | Instance | States | Shows |
|---|---|---|---|
| `story` | cursors 0..2, a chat, a round, 3 writes, 3 moves per process | 1.0 million | all `RealmStory` properties |
| `tick` | 2 profiles, 2 rounds, 2 windows, 1 fault, 2 moves of one profile | 342 thousand | safety and liveness of ticks |
| `tick_overlap` | 2 profiles, 2 rounds, no faults or moves | | finding 1 |
| `tick_restart` | 1 profile, 2 windows, 1 crash | | finding 2 |
| `tick_midnight` | 1 profile, 6 windows | | finding 3 |
| `self_concept` | 2 processes, 3 attempts, revisions to 3, 3 moves and checkpoints | 259 thousand | all `SelfConcept` properties, and that it refines `SelfRegister` |
| `conversation` | 2 chats (one out of character), 2 rounds, 2 times, a window of 3 turns, 2 clears, a move and a failure | 2.4 million | all `RealmConversation` properties, and that it refines `RealmDialogue` |
| `page` | 2 profiles, 2 agents, 2 messages, 2 polls, 4 views, 1 move and failure | 1.0 million | safety and liveness of the page |
| `page_unlock` | the same | | finding 4 |
| `config` | 3 profiles, 2 names, 2 models, 2 keys, 2 failures, 3 crashes | 291 thousand | all `HostProcess` properties |
| `prompt` | 3 catalogs, a chat, a note, a plot event, a tick, a template, 3 days, 1 failure | 5.3 million | all `RealmPrompt` properties but one |
| `prompt_unused` | no note, 2 plot events | | finding 5 |

Properties of `RealmStory`: `RollbackReady` (a rollback always finds a checkpoint),
`CheckpointsExact` (a checkpoint is exactly the past), `CausallyClosed` (nothing is kept whose
author had read something that is gone), `LandsWhereItWasAsked` (a reply belongs to the
position it was asked for at), `NothingRevives` (rolled back means gone), `RefinesTimeline`.

Properties of `RealmTick`: `MarkedMeansLived` (in the table, in memory and in every checkpoint),
`OnceUnlessInterrupted` (the first profile of a round lives a window once, plus once per fault and
per move of its story back, which takes the mark with it), `CatchesUp` and `LivedIsTold` (liveness).
`OnceUnlessInterrupted` speaks of the first profile only, because for the others it is false:
that is finding 1. `LivedIsTold` excepts what the code does not tell: after a crash or a failed
transaction, when the story is moved while a round waits at the profile, and when there is no
model at the mark, the window counts as ticked and what was not asked for by then never is. The
code calls diaries and reflections best-effort, so this is no finding; the property says that
nothing else is skipped.

Properties of `SelfConcept`: `DecidedOnce`, `ReplacesOnlyWhatItRead`, `RefinesRegister` (a new row
is the next revision of the row that is there and enters the log in the same step, once per
author, and the log forgets nothing).
`ReplacesOnlyWhatItRead` is limited to authors whose own process alone moves the story, `DecidedOnce` (its
second half) to processes that reconcile only their own attempts. Without the limits both are
false in the model, because the story generation is in memory of one process and because an
open attempt may be one still being decided; the code is meant to run one host per directory.

Properties of `RealmConversation`: `MirrorIsTable` (array and rows are one transcript while
nothing failed), `ReportedIsStored` (a reported exchange is in the table, unmixed),
`PromptHoldsReported` (and in every prompt whose window reaches back to it, its question only if
that was in character), `StoredIsRemembered` (no row without its memory,
whatever failed), `EntryWasSaid` (an unread entry was really said), `GapKept` (the gap between
her messages, doubled while unanswered, for messages decided one at a time), `FreshContext` (after
a clear that was reported as done no prompt shows an exchange from before it), `RefinesDialogue`
(what is said is said whole, once and at the end, and nothing but a clear or a restart after a
failure takes it away). `FreshContext` has one exception, the rows in `kept`: after a failed DELETE and a retried
clear, which reports success, a restart does show the old exchanges again
(`clearConversation`, `host/realmState.ts:1203`). The behaviour of the retry is in the model, so
that the exception is exactly this case.

Properties of `RealmPrompt`: `NoSpoiler`, `LatestShown` (the latest scene she was in, for
continuity), `RetiredStaysRetired` (what governance reported as retired is
never recalled, through failures and restarts). `RetiresOnlyUnused` is finding 5.

Properties of `ChatPage`: `ShowsWhatIsSelected`, `LockedWhileBusy` (locked if and only if the
present view is opening or has a message under way), `Unlocks` and `StoryCatchesUp` (liveness).
The latter two end where a request fails: `loadProfile` called by a poll or by `init` has no
handler that unlocks. `StoryCatchesUp` also ends in `Stuck`: a new conversation confirmed while
a poll was loading the profile leaves the page without a story, and a page without a story polls
no more.

Properties of `HostProcess`: `ServedIsStored`, `KeyKept`, `CreatedIsListed`, `OneNameEach` and
`StartsAgain` (a credentials file never keeps the host down).

### 3.1 Bounds and why they are enough

* `story`: two scenes give an exact rollback, one to an older checkpoint, and a there-and-back;
  three writes give an entry before, after and depending on a rolled back one; three moves give
  back, forward and back again. Crashes reset the generation and are unbounded. The bounds stop
  behaviours, so the run does check deadlock: `CrashAndRestart` is always enabled.
* `tick`: two profiles and two rounds are the least for an overtaking; two windows give a night,
  which has a reflection, and a morning, which has none; one fault per behaviour. Two moves of one
  profile's story are the least for a move back: the first leaves the checkpoint it goes to. The
  other profile stands for a story that is not moved. The three findings turn off what they do not
  need.
* `self_concept`: a third attempt is what an ABA of revisions needs (two rows of revision 1
  by different authors, and one reader). Crashes are unbounded.
* `conversation`: two chats are the least that overlap, two rounds the least that decide
  together. Two times and a gap of one let the second message be exactly at the gap, and only if
  the first was answered; a quiet time would leave room for one message only, so the instance has
  none (the theorems hold for any). A window of three turns holds one exchange and half of another,
  so that it cuts through an exchange and her own message can push one out. One failure and two
  clears suffice for rows past a gap, for rows that survive a clear, for its retry and for a clear
  that works after that; crashes are unbounded.
* `page`: the fourth view is opened while the answers of the first three are still out. The page
  may stop once its views are used up, so deadlock is not checked (`CHECK_DEADLOCK FALSE`).
* `config`: a default profile and two others, a key that is kept and one that is not; two
  failures let one save fail on top of another. The host stays down when `profiles.json` or
  `realm.json` is torn, so deadlock is not checked.
* `prompt`: two scenes and the positions 0 to 2 give a scene seen, one at the position and one
  ahead; one chat, one note and one plot event let each kind of record be shown by another kind
  of request; three days with `StaleDays = 1` the last fresh and the first stale day.

### 3.2 Fairness

`RealmTick`, `ChatPage` and `HostProcess` assume some. `RealmTick`: weak fairness of the startup
round, the timer and the steps of a turn: Node runs due callbacks and does not stop inside a turn.
Strong fairness of `Answered`: a model call ends, with a reply or an error, and the event loop takes
what is due in order, so an answer is not passed over for ever by new rounds. Nothing makes time
pass, stories move, a model come or faults happen.
`CatchesUp` is stated for a clock that stops, which it must in a bounded model.

`ChatPage`: weak fairness of every answer (a browser's request is answered or fails) and of the
poll (`setInterval`). Nothing makes the participant act. `HostProcess`: weak fairness of a start
without variables of the environment: somebody starts the host again.

### 3.3 Findings

1. **A slow round ticks the past** (`tick_overlap`, `host/realmHost.ts:953`). The date is read
   once per round, but every profile's model calls are awaited in turn. If a period begins
   meanwhile, the new round ticks the remaining profiles for it; the old one then lives the
   past period after the present one, sets the tick state back, and the present period is
   lived again.
2. **A restart can double-tick** (`tick_restart`, `host/realmHost.ts:984`). The script of a
   period is committed before the mark, in other transactions.
3. **A night is ticked twice** (`tick_midnight`, `host/realmHost.ts:977`): the date of the
   mark changes at midnight.
4. **Done does not unlock** (`page_unlock`, `host/chatPage.ts:740`). README, the page's own
   comment and the host's say that the `done` frame unlocks the input; the page stays locked until
   the stream ends, after the analysis and the writes. That the lock outlasts `done` is what makes
   `LockedWhileBusy` hold: the page never has two messages under way.
5. **Governance does not know what is used** (`prompt_unused`, `host/realmHost.ts:626`). Recall
   touches `lastAccessedAt` of throw-away copies only, so "long-unused" means "written long ago".

## 4. What is proved

For every value of the constants allowed by the named assumptions (`StoryAssumption`,
`TickAssumption`, `SelfConceptAssumption`, `ConversationAssumption`, `CatalogAssumption`,
`PromptAssumption`, `ChatPageAssumption`, `ConfigAssumption`, `ProfilesAssumption`, `HostAssumption`, `LoreAssumption`: bounds are naturals,
profile count positive, actor sets disjoint, a catalog is scenes of lines, an absent or unreadable
file is no configuration). The provers take TLA+'s data types and TLAPS's library of facts as given.

* `RealmStory_proofs`: type correctness, each safety invariant, `NothingRevives`, and that
  `RealmStory` implements `RealmTimeline`. The inductive invariant strengthens
  the properties with the shape of a turn (what a step of a move may assume about the
  checkpoints the earlier steps made), with `mirror = live` at every point where either is
  read, with checkpoints whose rows are themselves pasts of later ones, and with what an actor
  in flight knows: as long as its generation is the present one, its position is the cursor and
  all it has read is still there. Without the last, `CausallyClosed` is not inductive: a reply
  would be allowed to arrive with any past in its prompt. On top of it, `LifeIsOneLine`: however
  often a life was rolled back and taken up again, its writes follow one another as the story
  does, and each has read only what was written before it.
* `RealmTick_proofs`: type correctness, `MarkedMeansLived`, `OnceUnlessInterrupted`. Besides
  the shape of a turn (one round at a time is in a turn, at a profile that exists, and after
  the plot step the window has been lived), the second needs that windows are visited in order
  for the first profile, that a lived window is either marked or accounted for by a fault or a
  move back, and that a window not yet begun has not been lived. `CheckedTurn` (`LivesOnlyUnmarked`): the turn
  that lives a window found it unmarked in memory, however many rounds are waiting.
  `EveryProfileOncePerWindow` is the other side of finding 1: its premise `OneAtATime` (no round
  starts while another is waiting) is what the timer does not ensure; with it, what the first
  profile is promised holds for every profile, by an invariant (`Orderly`) that uses the premise
  before and after each step. `NothingPassedOverHolds` is the safety half of `LivedIsTold`: unless
  something failed, or a move or the want of a model cut the window short, each part of a lived
  window is told or still to come in the round that lived it, and nothing is told that was not
  lived. It needs that a waiting round whose generation is no longer the present one has its window
  in `cut`, which is why the discarded answer and the skipped stages pass over nothing else.
* `SelfConcept_proofs`: type correctness with the turn discipline, `EveryRowIsAccountedFor`
  (rows only come from accepted proposals or from kept rows, and the audit only grows),
  `ReplacesOnlyWhatItRead` (between the prompt and the swap the stored row is the one shown or
  a newer one, as long as the story has not moved, and no move comes between the generation
  check and the swap), and `DecidedOnce`: nothing on record closes an attempt before it is over,
  and what a reconciliation has selected is over and open, since its process is in no turn.
  `ImplementsRegister` is the refinement of `SelfRegister`, step by step; an attempt that is still
  in its swap has no accepted event, which is why a swap is an `Accept`. `HistoryIsConnected`
  follows on the abstract side: from every row that is there or may come back, accepted rows
  lead to the first.
* `RealmConversation_proofs`: type correctness, the other five invariants of `RealmConversation`
  that `conversation` checks, and its two action properties.
  At most one chat or round is between its two transactions. Every turn, in memory or in a row, is
  hers, or of a chat that has landed in this conversation and is over, or `kept`; hence
  `StoredIsRemembered` and `FreshContext`. While no transaction has failed the rows, read back in the order of their
  keys, are the array; this takes a lemma on ranks in finite sets of naturals, and gives
  `MirrorIsTable`, `ReportedIsStored` and `PromptHoldsReported`, for which the rows after an
  answer are counted against the length of the window. `GapKept` needs that the messages
  decided alone are the later for being decided later, each pair apart unless a chat landed
  between, which, unlike what is unread, cannot be undone. That keys stay in the type's bound
  is a count: two for each finished chat and one for each tick.
* `RealmDialogue_proofs`: that `RealmConversation` implements `RealmDialogue`. One invariant more is
  needed, `Uttered`: whoever has a turn in the array or in the rows is done, and neither holds a
  turn twice, even after failures, partial clears and restarts. `SpokenOnceHolds` is its second
  half.
* `RealmPrompt_proofs`: type correctness, `NoSpoiler`, `LatestShown`, `OnlyStaleRetired`,
  `RetiredStaysRetired`. The first two follow from facts about `LoreVisibility` for every catalog
  (each window that `Context` may return lies before the cursor and holds the latest scene that
  may be told) and from the step that builds a request. The third needs that the rows are as sound
  as the records, and the same but for their mark, since a restart reads them. `RetiredStaysRetired`
  needs that what was reported is marked wherever it is, in the array and in the table, and that no
  request or plot event writes a record twice. `ShowsNoPlanHolds`: no request shows a routine plan of
  the engine, refused now or stored by an older version, and what it shows of another request is
  the record of one that is over.
  About retrieval, for every catalog and position: `UnlockedStaysUnlocked` (what may be told stays
  so as the story goes on), `RetrievalAlwaysAnswers` (there is always a result, so that `Ask`
  never waits for one) and `ContextBounded` (at most `TopK` scenes).
* `ChatPage_proofs`: type correctness, `ShowsWhatIsSelected`, `LockedWhileBusy`. A view that is
  loading and is still the present one awaits an answer for what is selected; the number of a view
  never comes back, so an older answer fails its check. The bound on the numbers needs a count: each
  load begun by a poll is owed to one move of the story, which the page had not seen before.
* `HostProcess_proofs`: type correctness, `ServedIsStored`, `KeyKept`, `CreatedIsListed`,
  `OneNameEach`. The strengthening says what a save leaves at each of its steps (the file is the
  configuration in use unless a step failed after the rename), and that whatever was told as created is in
  `profiles.json` whenever that file is whole.

Only model-checked: `CatchesUp`, `LivedIsTold`, `Unlocks`, `StoryCatchesUp` and `StartsAgain`
(liveness under fairness is out of the prover's reach). Every other property of a passing run
has its theorem. `EveryRowIsAccountedFor`, `OnlyStaleRetired`, `OneLine`, `LivesOnlyUnmarked`,
`EachOnceWithoutOverlap`, `NothingPassedOver` and `ShowsNoPlan` have theorems but no run of
their own, as the runs check broader properties of the same actions; each was model-checked on
the instance of its module in section 3 before it was proved.

## 5. Plan

Written: the modules above. Next, in this order:

1. The affect tables beside the transcript: affinity and mood with their histories, as integers
   on a coarse scale, to say what an overlap of chats may leave in the trajectory.
2. The one-time import of the JSON files into SQLite, with a crash between import and rename.
3. The parts of the chat page left out: the plot form, the JSON answer without streaming.
4. An abstract registry of profiles and an abstract memory stream (recalled, retired), with
   `HostProcess` and `RealmPrompt` proved to implement them, as the story, the transcript and
   the self-concept already are.
5. The safety halves of `StoryCatchesUp` and `CatchesUp`: what stands between a state that has
   fallen behind and the request or round that will notice.

## 6. Not modelled

* `src/src/lore/elysianRealmDialogue.ts`: 169167 of the 186486 lines of the implementation are
  one generated data file. It is the constant `Catalogs` of `RealmPrompt`; a definition stands
  for its shape, not for its lines, so most of the line count of the repository is out of reach of any model.
* Affect, personality and plot rules: bounded real-valued arithmetic in one synchronous step.
  The one hazard of order, the affinity history sorted by the time of the question, is listed.
* The cognitive loop and the step executor: a pure function of one request, whose outcome in the
  host is a template that the memory boundary refuses (`Tick` of `RealmPrompt`).
* The stateless conversation and step service, its client (nothing in `src/` calls it, and it
  does not retry), request validation, and the adapters of the model libraries.
* Prompt text, persona rendering, BM25 scoring and tokenizing, the admin and test pages.
* Several hosts on one data directory, but for the self-concept, whose tests do so.
