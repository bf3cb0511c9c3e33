------------------------------ MODULE RealmPrompt ------------------------------
(***************************************************************************)
(* What a request shows the language model of one agent's life: the story  *)
(* she has seen at the position of the profile, and what is taken of her   *)
(* memory stream, which grows by exchanges, plot events, diaries and       *)
(* reflections and from which governance retires records.                  *)
(*                                                                         *)
(* The stream is kept in memory and in the table memories; each change is  *)
(* made in memory first, then in a transaction that may fail.  RealmStory  *)
(* has the moves back, which restore both.                                 *)
(***************************************************************************)
EXTENDS LoreVisibility, Sequences

CONSTANTS
  Catalogs,   \* the dialogue catalogs the host may be given
  Summaries,  \* the entries of the older canon
  KnownToHer, \* those without knownTo, or with her in it
  LoreTopK,   \* DEFAULT_LORE_RETRIEVAL_TOP_K
  RecallK,    \* DEFAULT_CONVERSATION_MEMORY_TOP_K
  Chats,      \* the messages of the participant
  Notes,      \* the diaries and the nightly reflections the rounds ask for
  NoteK,      \* the greater of NARRATIVE_CONTINUITY_WINDOW, REFLECTION_EVIDENCE_LIMIT
  PlotEvents, \* the plot events
  Steps,      \* the routine ticks
  Legacy,     \* engine plans stored before the stream refused them
  StaleDays,  \* MEMORY_STALE_DAYS
  LastDay,    \* bound: the days run from 1 to LastDay
  LastCursor, \* the end of the story
  MaxFailures \* bound on transactions that fail

\* A request leaves at most one record, which has its name.
Requests == Chats \cup Notes
Ids == Requests \cup PlotEvents \cup Steps \cup Legacy

ASSUME PromptAssumption ==
  /\ KnownToHer \subseteq Summaries
  /\ IsFiniteSet(Summaries) /\ IsFiniteSet(Ids)
  /\ Chats \cap Notes = {}
  /\ Requests \cap (PlotEvents \cup Steps \cup Legacy) = {}
  /\ PlotEvents \cap (Steps \cup Legacy) = {} /\ Steps \cap Legacy = {}
  /\ {LoreTopK, RecallK, NoteK, StaleDays, LastDay} \subseteq Nat \ {0}
  /\ {LastCursor, MaxFailures} \subseteq Nat

ASSUME CatalogAssumption ==
  Catalogs \subseteq Seq([order : Nat, available : BOOLEAN,
                         lines : Seq([own : BOOLEAN, private : BOOLEAN])])

VARIABLES
  catalog,    \* loreDialogue
  day,        \* the present time
  cursor,     \* storyProgress().cursor
  generation, \* storyGenerationValue
  memory,     \* the memory stream in the process
  table,      \* the table memories
  request,    \* the requests, with what they show
  governing,  \* a governance call is between its two transactions
  withheld,   \* withheldDiagnostics
  failures,   \* failed transactions so far
  recalled,   \* history: when a record was last shown in a request
  retired     \* history: what governance has reported as retired

vars == <<catalog, day, cursor, generation, memory, table, request, governing,
          withheld, failures, recalled, retired>>

Days == 1 .. LastDay
Record == [important : BOOLEAN, template : BOOLEAN, createdAt : Days,
           lastAccessedAt : Days, invalidAt : {0} \cup Days]
NoRequest == [stage |-> "none", at |-> 1, gen |-> 0, memories |-> {},
           story |-> <<>>, summaries |-> {}]

\* The most records one request may show.
Limit(r) == IF r \in Chats THEN RecallK ELSE NoteK

TypeOK ==
  /\ memory \in [DOMAIN memory -> Record] /\ table \in [DOMAIN table -> Record]
  /\ DOMAIN memory \subseteq Ids
  /\ DOMAIN table \subseteq DOMAIN memory
  /\ \A id \in DOMAIN memory : memory[id].template <=> id \in Legacy
  /\ day \in Days /\ cursor \in 0 .. LastCursor /\ generation \in 0 .. LastCursor
  /\ \A r \in Requests :
       /\ request[r].stage \in {"none", "asked", "over"}
       /\ request[r].at \in 1 .. day
       /\ request[r].memories \subseteq Ids /\ Cardinality(request[r].memories) <= Limit(r)
       /\ request[r].summaries \subseteq Summaries
  /\ governing \in BOOLEAN
  /\ withheld \in 0 .. Cardinality(Steps)
  /\ failures \in 0 .. MaxFailures
  /\ recalled \in [Ids -> {0} \cup Days]
  /\ retired \subseteq Ids /\ (failures = 0 => retired \subseteq DOMAIN memory)

NewRecord(important, template, at) ==
  [important |-> important, template |-> template, createdAt |-> at,
   lastAccessedAt |-> at, invalidAt |-> 0]

Init ==
  /\ catalog \in Catalogs
  /\ day = 1
  /\ cursor = 0
  /\ generation = 0
  /\ memory = [id \in Legacy |-> NewRecord(TRUE, TRUE, 1)]
  /\ table = memory
  /\ request = [r \in Requests |-> NoRequest]
  /\ governing = FALSE
  /\ withheld = 0
  /\ failures = 0
  /\ recalled = [id \in Ids |-> 0]
  /\ retired = {}

Fails == failures < MaxFailures /\ failures' = failures + 1
-----------------------------------------------------------------------------
(* Requests *)

\* isCharacterVisibleMemory; retrieveMemoryRecords leaves out the retired too.
Recallable == {id \in DOMAIN memory : memory[id].invalidAt = 0 /\ ~memory[id].template}

AtMost(n, s) == {x \in SUBSET s : Cardinality(x) = n \/ (Cardinality(x) < n /\ x = s)}

\* availableSummaryLore, and the filter of retrieveLoreEntries.
SummaryLore == IF DOMAIN catalog = {} THEN KnownToHer ELSE {}

\* What a message shows of the stream is recalled from a copy of it.  A diary shows
\* the last narratives and a reflection other records of its day (memoriesFor): which
\* they are is left open.
MayShow(r) == IF r \in Chats THEN AtMost(RecallK, Recallable)
            ELSE {m \in SUBSET Recallable : Cardinality(m) <= NoteK}

\* A round keeps the date of its beginning.
Dates(r) == IF r \in Chats THEN {day} ELSE 1 .. day

\* chat and buildReplyInput, runNarratives, runDailyReflection; a round that began
\* before the story moved asks nothing.
Ask(r) ==
  /\ ~governing
  /\ request[r].stage = "none"
  /\ \E memories \in MayShow(r), at \in Dates(r), story \in StoryContexts(catalog, cursor),
        summaries \in SUBSET SummaryLore :
       /\ Cardinality(summaries) <= LoreTopK
       /\ request' = [request EXCEPT ![r] =
                        [stage |-> "asked", at |-> at, gen |-> generation,
                         memories |-> memories, story |-> story, summaries |-> summaries]]
       /\ recalled' = [id \in Ids |-> IF id \in memories THEN day ELSE recalled[id]]
  /\ UNCHANGED <<catalog, day, cursor, generation, memory, table, governing, withheld,
                 failures, retired>>

RequestOver(r) == request' = [request EXCEPT ![r] = [NoRequest EXCEPT !.stage = "over"]]

\* The model fails, the story has moved (assertStoryGeneration throws, the round
\* ends), or what came back leaks.
RequestFails(r) ==
  /\ ~governing
  /\ request[r].stage = "asked"
  /\ RequestOver(r)
  /\ UNCHANGED <<catalog, day, cursor, generation, memory, table, governing, withheld,
                 failures, recalled, retired>>

With(stream, id, record) == [i \in DOMAIN stream \cup {id} |->
                               IF i = id THEN record ELSE stream[i]]

\* store.remember, then upsertMemories in a transaction.
Remember(id, record) ==
  /\ memory' = With(memory, id, record)
  /\ recalled' = [recalled EXCEPT ![id] = record.createdAt]
  /\ \/ table' = With(table, id, record) /\ UNCHANGED failures
     \/ Fails /\ UNCHANGED table

\* applyConversation, applyMemoryWrites: how much it matters is for the model to say,
\* but for a diary (LIFE_NARRATIVE_IMPORTANCE).
Reply(r) ==
  /\ ~governing
  /\ request[r].stage = "asked"
  /\ request[r].gen = generation
  /\ \E important \in BOOLEAN : Remember(r, NewRecord(important, FALSE, request[r].at))
  /\ RequestOver(r)
  /\ UNCHANGED <<catalog, day, cursor, generation, governing, withheld, retired>>
-----------------------------------------------------------------------------
(* Other writes *)

\* plotEvent: PLOT_EVENT_MEMORY_IMPORTANCE is below MEMORY_RETIRE_MIN_IMPORTANCE.
\* The id holds the instant, so it is never given twice.
PlotEvent(p) ==
  /\ ~governing
  /\ recalled[p] = 0
  /\ Remember(p, NewRecord(FALSE, FALSE, day))
  /\ UNCHANGED <<catalog, day, cursor, generation, request, governing, withheld, retired>>

\* Mutant: the stream takes what the tick returns.
Accepted_All(records) == records

\* applyTickMemories: isEngineDiagnosticRecord keeps templates out.
Accepted(records) == {r \in records : ~r.template}

\* runTick: the deterministic step returns her records and a template plan.
Tick(t) ==
  /\ ~governing
  /\ withheld < Cardinality(Steps)
  /\ recalled[t] = 0
  /\ LET plan == NewRecord(TRUE, TRUE, day)
     IN  IF plan \in Accepted({plan})
         THEN Remember(t, plan) /\ UNCHANGED withheld
         ELSE withheld' = withheld + 1 /\ UNCHANGED <<memory, table, recalled, failures>>
  /\ UNCHANGED <<catalog, day, cursor, generation, request, governing, retired>>

\* setStoryCursor, forward.
StoryForward ==
  /\ ~governing
  /\ \E to \in cursor + 1 .. LastCursor : cursor' = to
  /\ generation' = generation + 1
  /\ UNCHANGED <<catalog, day, memory, table, request, governing, withheld, failures,
                 recalled, retired>>
-----------------------------------------------------------------------------
(* govern: two calls of invalidateMemories *)

Stale == {id \in Recallable : /\ ~memory[id].important
                              /\ memory[id].lastAccessedAt + StaleDays < day}

Templates == {id \in DOMAIN memory : memory[id].invalidAt = 0 /\ memory[id].template}

Invalid(stream, ids) ==
  [id \in DOMAIN stream |-> IF id \in ids THEN [stream[id] EXCEPT !.invalidAt = day]
                            ELSE stream[id]]

\* Mutant: the rows stay as they are.
Retire_MemoryOnly(ids) ==
  /\ memory' = Invalid(memory, ids)
  /\ retired' = retired \cup ids
  /\ UNCHANGED <<table, failures>>

\* The records in memory, then their rows.
Retire(ids) ==
  /\ memory' = Invalid(memory, ids)
  /\ \/ /\ table' = Invalid(table, ids)
        /\ retired' = retired \cup ids
        /\ UNCHANGED failures
     \/ Fails /\ ids # {} /\ UNCHANGED <<table, retired>>

\* The long-unused first; when that fails the call is over.
GovernStale ==
  /\ ~governing
  /\ Stale \cup Templates # {}
  /\ Retire(Stale)
  /\ governing' = (failures' = failures)
  /\ UNCHANGED <<catalog, day, cursor, generation, request, withheld, recalled>>

\* Then the templates.
GovernTemplates ==
  /\ governing
  /\ Retire(Templates)
  /\ governing' = FALSE
  /\ UNCHANGED <<catalog, day, cursor, generation, request, withheld, recalled>>
-----------------------------------------------------------------------------
DayPasses ==
  /\ ~governing
  /\ day < LastDay
  /\ day' = day + 1
  /\ UNCHANGED <<catalog, cursor, generation, memory, table, request, governing, withheld,
                 failures, recalled, retired>>

\* loadState; what was waiting for an answer is gone.
CrashAndRestart ==
  /\ memory' = table
  /\ request' = [r \in Requests |-> IF request[r].stage = "asked"
                                THEN [NoRequest EXCEPT !.stage = "over"] ELSE request[r]]
  /\ generation' = 0
  /\ governing' = FALSE
  /\ withheld' = 0
  /\ UNCHANGED <<catalog, day, cursor, table, failures, recalled, retired>>

Next ==
  \/ \E r \in Requests : Ask(r) \/ RequestFails(r) \/ Reply(r)
  \/ \E p \in PlotEvents : PlotEvent(p)
  \/ \E t \in Steps : Tick(t)
  \/ StoryForward \/ GovernStale \/ GovernTemplates \/ DayPasses \/ CrashAndRestart

Spec == Init /\ [][Next]_vars
-----------------------------------------------------------------------------
(* Properties *)

\* "Retrieve only unlocked transcript lines that begin at the character's
\* entry" (retrieveLoreDialogue), "The older summaries stay out" once there is
\* staged dialogue (availableSummaryLore): nothing pending shows a scene at or
\* beyond the position, a line spoken before she came in, or what another only
\* thinks.
NoSpoiler ==
  \A r \in Requests :
    /\ \A s \in DOMAIN request[r].story : \A i \in request[r].story[s] :
         /\ catalog[s].available
         /\ catalog[s].order < cursor
         /\ \E j \in 1 .. i : catalog[s].lines[j].own
         /\ catalog[s].lines[i].private => catalog[s].lines[i].own
    /\ request[r].summaries # {} => DOMAIN catalog = {}

\* "Keep the latest visible scene as continuity": of all the unlocked scenes
\* with a line of hers, a request shows one that none comes after, unless the
\* story has moved on since it was built.
LatestShown ==
  \A r \in Requests :
    request[r].stage = "asked" /\ request[r].gen = generation =>
      \A s \in DOMAIN catalog :
        /\ catalog[s].available
        /\ catalog[s].order < cursor
        /\ \E i \in DOMAIN catalog[s].lines : catalog[s].lines[i].own
        => \E t \in DOMAIN request[r].story :
             request[r].story[t] # {} /\ catalog[t].order >= catalog[s].order

\* "Retrieval and every character-facing projection skip them": no later request
\* recalls what governance has reported as retired, whatever failed or restarted
\* in between (invalidateMemories).
RetiredStaysRetired ==
  [][\A r \in Requests :
       request[r].stage = "none" /\ request'[r].stage = "asked"
         => request'[r].memories \cap retired = {}]_vars

\* isCharacterVisibleMemory: no request shows a routine plan of the engine, whether
\* the stream kept it out or an older version let it in; and what it shows of another
\* request is a record of one that is over.
ShowsNoPlan ==
  \A r \in Requests : \A id \in request[r].memories :
    /\ id \notin Steps \cup Legacy
    /\ id \in Requests => request[id].stage = "over"

\* "important memories are never retired" (memoryInvalidation.test.ts), nor is
\* anything but a template before StaleDays have passed since it was written.
OnlyStaleRetired ==
  \A id \in DOMAIN memory :
    memory[id].invalidAt # 0 /\ ~memory[id].template =>
      ~memory[id].important /\ memory[id].createdAt + StaleDays < memory[id].invalidAt

\* govern, "retire long-unused low-importance memories": what is retired as
\* stale was not recalled in the StaleDays before.
RetiresOnlyUnused ==
  \A id \in DOMAIN memory :
    memory[id].invalidAt # 0 /\ ~memory[id].template =>
      recalled[id] + StaleDays < memory[id].invalidAt
=============================================================================
