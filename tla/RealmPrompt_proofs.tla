-------------------------- MODULE RealmPrompt_proofs --------------------------
(***************************************************************************)
(* Proofs about RealmPrompt and LoreVisibility, for any catalogs, numbers  *)
(* of hits, lines and records, and any number of requests and failures.    *)
(***************************************************************************)
EXTENDS RealmPrompt, TLAPS, FiniteSetTheorems, WellFoundedInduction

\* The shape of a dialogue catalog.
SceneType == [order : Nat, available : BOOLEAN, lines : Seq([own : BOOLEAN, private : BOOLEAN])]
-----------------------------------------------------------------------------
(* The latest scene *)

LEMMA LeastNat ==
  ASSUME NEW T, T \subseteq Nat, T # {}
  PROVE  \E x \in T : \A y \in T : x <= y
<1> DEFINE R == {ss \in Nat \X Nat : ss[1] < ss[2]}
<1>1. IsWellFoundedOn(R, Nat)
  BY NatLessThanWellFounded, Zenon DEF OpToRel
<1> HIDE DEF R
<1>2. PICK x \in T : \A y \in T : ~ (<<y, x>> \in R)
  BY <1>1, WFMin
<1>3. \A y \in T : ~(y < x)
  BY <1>2 DEF R
<1>4. QED
  BY <1>3

LEMMA CandidateFacts ==
  ASSUME NEW scenes \in Seq(SceneType), NEW position \in Nat,
         NEW s \in Candidates(scenes, position)
  PROVE  /\ s \in DOMAIN scenes /\ s \in Nat
         /\ scenes[s] \in SceneType
         /\ scenes[s].order \in Nat /\ scenes[s].order < position
<1>1. s \in DOMAIN scenes /\ scenes[s].order < position
  BY DEF Candidates
<1>2. s \in 1 .. Len(scenes) /\ Len(scenes) \in Nat
  BY <1>1
<1>3. scenes[s] \in SceneType
  BY <1>2
<1>4. QED
  BY <1>1, <1>2, <1>3 DEF SceneType

\* Among the candidates there is a latest one: the orders are below the position.
LEMMA LatestExists ==
  ASSUME NEW scenes \in Seq(SceneType), NEW position \in Nat,
         Candidates(scenes, position) # {}
  PROVE  LET latest == LatestOf(scenes, Candidates(scenes, position))
         IN  /\ latest \in Candidates(scenes, position)
             /\ \A t \in Candidates(scenes, position) :
                  scenes[latest].order >= scenes[t].order
<1> DEFINE C == Candidates(scenes, position)
           Distance == {position - scenes[s].order : s \in C}
<1>1. \A s \in C : s \in Nat /\ scenes[s].order \in Nat /\ scenes[s].order < position
  BY CandidateFacts
<1> HIDE DEF C
<1>2. Distance \subseteq Nat /\ Distance # {}
  BY <1>1 DEF C
<1>3. PICK d \in Distance : \A e \in Distance : d <= e
  BY <1>2, LeastNat
<1>4. PICK m \in C : d = position - scenes[m].order
  BY <1>3
<1>5. \A t \in C : scenes[m].order >= scenes[t].order
  <2>1. SUFFICES ASSUME NEW t \in C PROVE scenes[m].order >= scenes[t].order
    OBVIOUS
  <2>2. d <= position - scenes[t].order
    BY <1>3
  <2>3. QED
    BY <1>1, <1>4, <2>2
<1> DEFINE Ties == {s \in C : scenes[s].order = scenes[m].order}
<1>6. Ties \subseteq Nat /\ Ties # {}
  BY <1>1, <1>4
<1>7. PICK x \in Ties : \A y \in Ties : x <= y
  BY <1>6, LeastNat
<1>8. \A t \in C \ {x} : Later(scenes, x, t)
  <2>1. SUFFICES ASSUME NEW t \in C, t # x PROVE Later(scenes, x, t)
    OBVIOUS
  <2>2. scenes[x].order = scenes[m].order /\ scenes[m].order >= scenes[t].order
    BY <1>5, <1>7
  <2>3. CASE scenes[t].order = scenes[m].order
    <3>1. x <= t /\ x \in Nat /\ t \in Nat
      BY <1>1, <1>7, <2>3
    <3>2. QED
      BY <2>1, <2>2, <2>3, <3>1 DEF Later
  <2>4. CASE scenes[t].order # scenes[m].order
    BY <1>1, <1>4, <2>2, <2>4 DEF Later
  <2>5. QED
    BY <2>3, <2>4
<1> DEFINE latest == LatestOf(scenes, C)
<1>9. latest \in C /\ \A t \in C \ {latest} : Later(scenes, latest, t)
  BY <1>7, <1>8 DEF LatestOf
<1>10. \A t \in C : scenes[latest].order >= scenes[t].order
  <2>1. SUFFICES ASSUME NEW t \in C PROVE scenes[latest].order >= scenes[t].order
    OBVIOUS
  <2>2. scenes[latest].order \in Nat /\ scenes[t].order \in Nat
    BY <1>1, <1>9
  <2>3. t = latest \/ Later(scenes, latest, t)
    BY <1>9
  <2> HIDE DEF latest
  <2>4. QED
    BY <2>2, <2>3 DEF Later
<1>11. QED
  BY <1>9, <1>10 DEF C
-----------------------------------------------------------------------------
(* What is shown of a scene *)

LEMMA SelectedIsVisible ==
  ASSUME NEW lines, NEW matching \in SUBSET lines
  PROVE  SelectLines(lines, matching) \subseteq lines
BY DEF SelectLines, LastOf, Around

LEMMA ExcerptIsVisible ==
  ASSUME NEW scene, NEW excerpt \in Excerpts(scene)
  PROVE  excerpt \subseteq VisibleLines(scene)
<1>1. PICK matching \in SUBSET VisibleLines(scene) :
        excerpt \in Prefixes(SelectLines(VisibleLines(scene), matching))
  BY DEF Excerpts
<1>2. excerpt \subseteq SelectLines(VisibleLines(scene), matching)
  BY <1>1 DEF Prefixes
<1>3. QED
  BY <1>2, SelectedIsVisible

\* What retrieveLoreDialogue returns: excerpts of candidates, and one of the
\* latest candidate.
LEMMA ContextFacts ==
  ASSUME NEW scenes \in Seq(SceneType), NEW position \in Nat,
         NEW story \in StoryContexts(scenes, position)
  PROVE  /\ \A s \in DOMAIN story : /\ s \in Candidates(scenes, position)
                                    /\ story[s] \subseteq VisibleLines(scenes[s])
         /\ \A t \in Candidates(scenes, position) :
              \E s \in DOMAIN story : /\ story[s] # {}
                                      /\ scenes[s].order >= scenes[t].order
<1> DEFINE C == Candidates(scenes, position)
           latest == LatestOf(scenes, C)
<1>1. PICK hits \in Choices(scenes, C) :
        story \in {shown \in [hits -> UNION {Excerpts(scenes[s]) : s \in hits}] :
                     \A s \in hits : /\ shown[s] \in Excerpts(scenes[s])
                                     /\ s = latest => shown[s] # {}}
  BY Zenon DEF StoryContexts
<1>2. /\ DOMAIN story = hits
      /\ \A s \in hits : story[s] \in Excerpts(scenes[s]) /\ (s = latest => story[s] # {})
  BY <1>1
<1>3. C # {} => latest \in C /\ \A t \in C : scenes[latest].order >= scenes[t].order
  BY LatestExists, Zenon
<1> HIDE DEF latest, C
<1>4. hits \subseteq C /\ (C # {} => latest \in hits)
  <2>1. CASE C = {}
    BY <2>1 DEF Choices
  <2>2. CASE C # {}
    <3>1. PICK best \in SUBSET (C \ {latest}) : hits = {latest} \cup best
      BY <1>1, <2>2, Zenon DEF Choices, latest
    <3>2. QED
      BY <1>3, <2>2, <3>1
  <2>3. QED
    BY <2>1, <2>2
<1>5. \A s \in hits : story[s] \subseteq VisibleLines(scenes[s])
  BY <1>2, ExcerptIsVisible
<1>6. \A t \in C : \E s \in hits : story[s] # {} /\ scenes[s].order >= scenes[t].order
  BY <1>2, <1>3, <1>4
<1>7. QED
  BY <1>2, <1>4, <1>5, <1>6 DEF C
-----------------------------------------------------------------------------
(* The inductive invariant *)

Control ==
  /\ catalog \in Catalogs
  /\ day \in Days /\ cursor \in 0 .. LastCursor /\ generation \in 0 .. cursor
  /\ governing \in BOOLEAN
  /\ withheld \in 0 .. Cardinality(Steps)
  /\ failures \in 0 .. MaxFailures
  /\ recalled \in [Ids -> {0} \cup Days]

\* Retrieval copies the stream, so a record is never accessed after it is written;
\* only what is unimportant and old is retired, but for the templates.
Sound(record) ==
  /\ record.createdAt = record.lastAccessedAt
  /\ record.invalidAt # 0 /\ ~record.template =>
       ~record.important /\ record.createdAt + StaleDays < record.invalidAt

\* A row is that of the record in memory, but for its retirement.
Streams ==
  /\ memory \in [DOMAIN memory -> Record] /\ table \in [DOMAIN table -> Record]
  /\ DOMAIN memory \subseteq Ids /\ DOMAIN table \subseteq DOMAIN memory
  /\ failures = 0 => DOMAIN memory \subseteq DOMAIN table
  /\ \A id \in DOMAIN memory : Sound(memory[id]) /\ (memory[id].template <=> id \in Legacy)
  /\ \A id \in DOMAIN table :
       /\ Sound(table[id])
       /\ table[id].template <=> id \in Legacy
       /\ table[id].important = memory[id].important
       /\ table[id].createdAt = memory[id].createdAt

\* What was reported as retired is retired in memory and in its row.
Retired ==
  /\ retired \subseteq Ids
  /\ failures = 0 => retired \subseteq DOMAIN memory
  /\ \A id \in retired : /\ id \in DOMAIN memory => memory[id].invalidAt # 0
                         /\ id \in DOMAIN table => table[id].invalidAt # 0

\* A request or a plot event that left a record is over, and will not write again.
UsedOnce ==
  \A id \in DOMAIN memory \cup retired :
    /\ id \in Requests => request[id].stage = "over"
    /\ id \in PlotEvents => recalled[id] # 0

RequestTyped(r) ==
  /\ request[r].stage \in {"none", "asked", "over"}
  /\ request[r].at \in 1 .. day
  /\ request[r].memories \subseteq Ids /\ Cardinality(request[r].memories) <= Limit(r)
  /\ request[r].summaries \subseteq Summaries
  /\ DOMAIN request[r].story \subseteq DOMAIN catalog
  /\ request[r].stage = "asked" => request[r].gen \in 0 .. generation

RequestsTyped == DOMAIN request = Requests /\ \A r \in Requests : RequestTyped(r)

PromptInv ==
  Control /\ Streams /\ Retired /\ UsedOnce /\ RequestsTyped /\ NoSpoiler /\ LatestShown
-----------------------------------------------------------------------------
(* Facts *)

LEMMA ConstantFacts ==
  /\ RecallK \in Nat /\ NoteK \in Nat /\ StaleDays \in Nat /\ LastDay \in Nat \ {0}
  /\ LastCursor \in Nat /\ MaxFailures \in Nat
  /\ IsFiniteSet(Ids) /\ Cardinality(Steps) \in Nat
  /\ Requests \subseteq Ids /\ PlotEvents \subseteq Ids /\ Legacy \subseteq Ids
  /\ \A r \in Requests : r \notin PlotEvents /\ r \notin Legacy
  /\ \A p \in PlotEvents : p \notin Legacy
<1>1. Steps \subseteq Ids /\ IsFiniteSet(Ids)
  BY PromptAssumption DEF Ids
<1>2. IsFiniteSet(Steps)
  BY <1>1, FS_Subset
<1>3. Cardinality(Steps) \in Nat
  BY <1>2, FS_CardinalityType
<1>4. QED
  BY <1>1, <1>3, PromptAssumption DEF Ids

LEMMA ShownFacts ==
  ASSUME NEW r \in Requests, Recallable \subseteq Ids, NEW x \in MayShow(r)
  PROVE  x \subseteq Recallable /\ Cardinality(x) <= Limit(r)
<1>1. CASE r \in Chats
  <2>1. /\ x \subseteq Recallable
        /\ Cardinality(x) = RecallK \/ Cardinality(x) < RecallK
    BY <1>1 DEF MayShow, AtMost
  <2>2. IsFiniteSet(x)
    BY <2>1, ConstantFacts, FS_Subset
  <2>3. Cardinality(x) \in Nat
    BY <2>2, FS_CardinalityType
  <2>4. QED
    BY <1>1, <2>1, <2>3, ConstantFacts DEF Limit
<1>2. CASE r \notin Chats
  BY <1>2 DEF MayShow, Limit
<1>3. QED
  BY <1>1, <1>2

\* The least number of records is none.
LEMMA LimitFacts ==
  ASSUME NEW r \in Requests
  PROVE  Cardinality({}) <= Limit(r)
BY FS_EmptySet, ConstantFacts DEF Limit

\* What a request shows is neither ahead of the story nor behind it.
LEMMA StoryShown ==
  ASSUME Control, NEW story \in StoryContexts(catalog, cursor)
  PROVE  /\ DOMAIN story \subseteq DOMAIN catalog
         /\ \A s \in DOMAIN story : \A i \in story[s] :
              /\ catalog[s].available
              /\ catalog[s].order < cursor
              /\ \E j \in 1 .. i : catalog[s].lines[j].own
              /\ catalog[s].lines[i].private => catalog[s].lines[i].own
         /\ \A s \in DOMAIN catalog :
              /\ catalog[s].available
              /\ catalog[s].order < cursor
              /\ \E i \in DOMAIN catalog[s].lines : catalog[s].lines[i].own
              => \E t \in DOMAIN story :
                   story[t] # {} /\ catalog[t].order >= catalog[s].order
<1>1. catalog \in Seq(SceneType) /\ cursor \in Nat
  BY CatalogAssumption, ConstantFacts DEF Control, SceneType
<1>2. /\ \A s \in DOMAIN story : /\ s \in Candidates(catalog, cursor)
                                 /\ story[s] \subseteq VisibleLines(catalog[s])
      /\ \A t \in Candidates(catalog, cursor) :
           \E s \in DOMAIN story : story[s] # {} /\ catalog[s].order >= catalog[t].order
  BY <1>1, ContextFacts
<1>3. ASSUME NEW s \in DOMAIN story, NEW i \in story[s]
      PROVE  /\ catalog[s].available
             /\ catalog[s].order < cursor
             /\ \E j \in 1 .. i : catalog[s].lines[j].own
             /\ catalog[s].lines[i].private => catalog[s].lines[i].own
  <2>1. s \in Candidates(catalog, cursor) /\ i \in VisibleLines(catalog[s])
    BY <1>2
  <2>2. catalog[s] \in SceneType
    BY <1>1, <2>1, CandidateFacts
  <2>3. DOMAIN catalog[s].lines = 1 .. Len(catalog[s].lines) /\ Len(catalog[s].lines) \in Nat
    BY <2>2 DEF SceneType
  <2>4. PICK j \in DOMAIN catalog[s].lines : j <= i /\ catalog[s].lines[j].own
    BY <2>1 DEF VisibleLines, Entered
  <2>5. i \in DOMAIN catalog[s].lines /\ (catalog[s].lines[i].private => catalog[s].lines[i].own)
    BY <2>1 DEF VisibleLines
  <2>6. j \in 1 .. i
    BY <2>3, <2>4, <2>5
  <2>7. catalog[s].available /\ catalog[s].order < cursor
    BY <2>1 DEF Candidates
  <2>8. QED
    BY <2>4, <2>5, <2>6, <2>7
<1>4. ASSUME NEW s \in DOMAIN catalog, catalog[s].available, catalog[s].order < cursor,
             NEW i \in DOMAIN catalog[s].lines, catalog[s].lines[i].own
      PROVE  s \in Candidates(catalog, cursor)
  <2>1. catalog[s] \in SceneType
    BY <1>1
  <2>2. i \in Nat
    BY <2>1 DEF SceneType
  <2>3. i \in VisibleLines(catalog[s])
    BY <1>4, <2>2 DEF VisibleLines, Entered
  <2>4. QED
    BY <1>4, <2>3 DEF Candidates
<1>5. DOMAIN story \subseteq DOMAIN catalog
  BY <1>2 DEF Candidates
<1>6. QED
  BY <1>2, <1>3, <1>4, <1>5
-----------------------------------------------------------------------------
(* The streams *)

\* A new record is added to both streams, or to the one in memory only.
LEMMA RememberKeeps ==
  ASSUME Control, Streams, Retired,
         NEW id \in Ids, id \notin Legacy, id \notin retired, id \notin DOMAIN memory,
         NEW important \in BOOLEAN, NEW at \in Days,
         Remember(id, NewRecord(important, FALSE, at)), UNCHANGED retired
  PROVE  /\ Streams' /\ Retired'
         /\ DOMAIN memory' = DOMAIN memory \cup {id}
         /\ failures' \in 0 .. MaxFailures
         /\ recalled' = [recalled EXCEPT ![id] = at]
<1> DEFINE record == NewRecord(important, FALSE, at)
<1>1. /\ record \in Record
      /\ record.important = important /\ record.template = FALSE
      /\ record.createdAt = at /\ record.lastAccessedAt = at /\ record.invalidAt = 0
  BY DEF NewRecord, Record
<1>2. /\ memory' = With(memory, id, record)
      /\ recalled' = [recalled EXCEPT ![id] = at]
      /\ \/ table' = With(table, id, record) /\ UNCHANGED failures
         \/ Fails /\ UNCHANGED table
  BY <1>1 DEF Remember
<1>3. failures' \in 0 .. MaxFailures
  <2>1. UNCHANGED failures \/ Fails
    BY <1>2
  <2>2. QED
    BY <2>1, ConstantFacts DEF Fails, Control
<1> HIDE DEF record
<1>4. ASSUME NEW stream, stream \in [DOMAIN stream -> Record]
      PROVE  /\ With(stream, id, record) \in [DOMAIN stream \cup {id} -> Record]
             /\ With(stream, id, record)[id] = record
             /\ \A i \in DOMAIN stream \ {id} : With(stream, id, record)[i] = stream[i]
  BY <1>1, <1>4 DEF With
<1>5. /\ memory' \in [DOMAIN memory \cup {id} -> Record]
      /\ memory'[id] = record
      /\ \A i \in DOMAIN memory \ {id} : memory'[i] = memory[i]
  BY <1>2, <1>4 DEF Streams
<1>6. CASE table' = With(table, id, record) /\ UNCHANGED failures
  <2>1. /\ table' \in [DOMAIN table \cup {id} -> Record]
        /\ table'[id] = record
        /\ \A i \in DOMAIN table \ {id} : table'[i] = table[i]
    BY <1>4, <1>6 DEF Streams
  <2>2. Streams'
    <3>1. ASSUME NEW i \in DOMAIN memory'
          PROVE  Sound(memory'[i]) /\ (memory'[i].template <=> i \in Legacy)
      BY <1>1, <1>5, <3>1 DEF Streams, Sound
    <3>2. ASSUME NEW i \in DOMAIN table'
          PROVE  /\ Sound(table'[i]) /\ (table'[i].template <=> i \in Legacy)
                 /\ table'[i].important = memory'[i].important
                 /\ table'[i].createdAt = memory'[i].createdAt
      BY <1>1, <1>5, <2>1, <3>2 DEF Streams, Sound
    <3>3. /\ DOMAIN memory' \subseteq Ids /\ DOMAIN table' \subseteq DOMAIN memory'
          /\ failures' = 0 => DOMAIN memory' \subseteq DOMAIN table'
      BY <1>5, <1>6, <2>1 DEF Streams
    <3>4. QED
      BY <1>5, <2>1, <3>1, <3>2, <3>3 DEF Streams
  <2>3. Retired'
    BY <1>5, <1>6, <2>1 DEF Retired
  <2>4. QED
    BY <1>2, <1>3, <1>5, <2>2, <2>3
<1>7. CASE Fails /\ UNCHANGED table
  <2>0. failures' # 0
    BY <1>7, ConstantFacts DEF Fails, Control
  <2>1. Streams'
    <3>1. ASSUME NEW i \in DOMAIN memory'
          PROVE  Sound(memory'[i]) /\ (memory'[i].template <=> i \in Legacy)
      BY <1>1, <1>5, <3>1 DEF Streams, Sound
    <3>2. id \notin DOMAIN table
      BY DEF Streams
    <3>3. ASSUME NEW i \in DOMAIN table'
          PROVE  /\ Sound(table'[i]) /\ (table'[i].template <=> i \in Legacy)
                 /\ table'[i].important = memory'[i].important
                 /\ table'[i].createdAt = memory'[i].createdAt
      BY <1>5, <1>7, <3>2, <3>3 DEF Streams
    <3>4. QED
      BY <1>5, <1>7, <2>0, <3>1, <3>3 DEF Streams
  <2>2. Retired'
    BY <1>5, <1>7, <2>0 DEF Retired
  <2>3. QED
    BY <1>2, <1>3, <1>5, <2>1, <2>2
<1>8. QED
  BY <1>2, <1>6, <1>7

\* Governance marks records in memory, and their rows unless the transaction fails.
LEMMA RetireKeeps ==
  ASSUME Control, Streams, Retired, NEW ids \in {Stale, Templates}, Retire(ids)
  PROVE  /\ Streams' /\ Retired'
         /\ DOMAIN memory' = DOMAIN memory
         /\ retired' \subseteq retired \cup DOMAIN memory
         /\ failures' \in 0 .. MaxFailures
<1>1. day \in Days /\ day # 0
  BY ConstantFacts DEF Control, Days
<1>2. ids \subseteq DOMAIN memory
  BY DEF Stale, Templates, Recallable
<1>3. ASSUME NEW id \in ids
      PROVE  \/ id \in Legacy
             \/ ~memory[id].important /\ memory[id].createdAt + StaleDays < day
  <2>1. CASE ids = Stale
    BY <1>2, <2>1 DEF Stale, Streams, Sound
  <2>2. CASE ids = Templates
    BY <2>2 DEF Templates, Streams
  <2>3. QED
    BY <2>1, <2>2
<1>4. ASSUME NEW stream, stream \in [DOMAIN stream -> Record]
      PROVE  /\ Invalid(stream, ids) \in [DOMAIN stream -> Record]
             /\ \A id \in DOMAIN stream :
                  /\ Invalid(stream, ids)[id].important = stream[id].important
                  /\ Invalid(stream, ids)[id].template = stream[id].template
                  /\ Invalid(stream, ids)[id].createdAt = stream[id].createdAt
                  /\ Invalid(stream, ids)[id].lastAccessedAt = stream[id].lastAccessedAt
                  /\ Invalid(stream, ids)[id].invalidAt =
                       IF id \in ids THEN day ELSE stream[id].invalidAt
  BY <1>1, <1>4 DEF Invalid, Record
<1>5. memory' = Invalid(memory, ids)
  BY DEF Retire
<1>6. /\ memory' \in [DOMAIN memory -> Record]
      /\ \A id \in DOMAIN memory :
           /\ memory'[id].important = memory[id].important
           /\ memory'[id].template = memory[id].template
           /\ memory'[id].createdAt = memory[id].createdAt
           /\ memory'[id].lastAccessedAt = memory[id].lastAccessedAt
           /\ memory'[id].invalidAt = IF id \in ids THEN day ELSE memory[id].invalidAt
  BY <1>4, <1>5 DEF Streams
<1>7. \A id \in DOMAIN memory : Sound(memory'[id]) /\ (memory'[id].template <=> id \in Legacy)
  BY <1>3, <1>6 DEF Streams, Sound
<1>8. CASE table' = Invalid(table, ids) /\ retired' = retired \cup ids /\ UNCHANGED failures
  <2>1. /\ table' \in [DOMAIN table -> Record]
        /\ \A id \in DOMAIN table :
             /\ table'[id].important = table[id].important
             /\ table'[id].template = table[id].template
             /\ table'[id].createdAt = table[id].createdAt
             /\ table'[id].lastAccessedAt = table[id].lastAccessedAt
             /\ table'[id].invalidAt = IF id \in ids THEN day ELSE table[id].invalidAt
    BY <1>4, <1>8 DEF Streams
  <2>2. ASSUME NEW id \in DOMAIN table
        PROVE  /\ Sound(table'[id]) /\ (table'[id].template <=> id \in Legacy)
               /\ table'[id].important = memory'[id].important
               /\ table'[id].createdAt = memory'[id].createdAt
    <3>1. id \in DOMAIN memory
      BY DEF Streams
    <3>2. QED
      BY <1>3, <1>6, <2>1, <3>1 DEF Streams, Sound
  <2>3. Streams'
    BY <1>6, <1>7, <1>8, <2>1, <2>2 DEF Streams
  <2>4. Retired'
    BY <1>1, <1>2, <1>6, <1>8, <2>1 DEF Retired, Streams
  <2>5. QED
    BY <1>2, <1>6, <1>8, <2>3, <2>4 DEF Control
<1>9. CASE Fails /\ ids # {} /\ UNCHANGED <<table, retired>>
  <2>1. failures' \in 0 .. MaxFailures /\ failures' # 0
    BY <1>9, ConstantFacts DEF Fails, Control
  <2>2. Streams'
    BY <1>6, <1>7, <1>9, <2>1 DEF Streams
  <2>3. Retired'
    BY <1>1, <1>6, <1>9, <2>1 DEF Retired
  <2>4. QED
    BY <1>6, <1>9, <2>1, <2>2, <2>3
<1>10. QED
  BY <1>8, <1>9 DEF Retire

LEMMA SameStreams ==
  ASSUME Streams, Retired, UNCHANGED <<memory, table, retired, failures>>
  PROVE  Streams' /\ Retired'
BY DEF Streams, Retired

\* The rows are read again: each is a record as memory had it.
LEMMA RestartStreams ==
  ASSUME Streams, Retired, memory' = table, UNCHANGED <<table, retired, failures>>
  PROVE  Streams' /\ Retired' /\ DOMAIN memory' \subseteq DOMAIN memory
<1>1. Streams'
  BY DEF Streams
<1>2. Retired'
  BY DEF Streams, Retired
<1>3. QED
  BY <1>1, <1>2 DEF Streams
-----------------------------------------------------------------------------
(* The steps *)

LEMMA InitPromptInv == Init => PromptInv
<1> SUFFICES ASSUME Init PROVE PromptInv
  OBVIOUS
<1>1. Control
  <2>1. catalog \in Catalogs /\ governing \in BOOLEAN
    BY Zenon DEF Init
  <2>2. /\ day \in Days /\ cursor \in 0 .. LastCursor /\ generation \in 0 .. cursor
        /\ withheld \in 0 .. Cardinality(Steps) /\ failures \in 0 .. MaxFailures
    BY ConstantFacts DEF Init, Days
  <2>3. recalled \in [Ids -> {0} \cup Days]
    BY DEF Init
  <2>4. QED
    BY <2>1, <2>2, <2>3 DEF Control
<1>2. Streams
  <2>1. 1 \in Days
    BY ConstantFacts DEF Days
  <2>2. /\ memory \in [Legacy -> Record] /\ table = memory
        /\ \A id \in Legacy : /\ memory[id].template = TRUE /\ memory[id].invalidAt = 0
                              /\ memory[id].createdAt = 1 /\ memory[id].lastAccessedAt = 1
    BY <2>1 DEF Init, NewRecord, Record
  <2>3. QED
    BY <2>2, ConstantFacts DEF Streams, Sound
<1>3. Retired
  BY DEF Init, Retired
<1>4. UsedOnce
  BY ConstantFacts DEF Init, UsedOnce
<1>5. \A r \in Requests : request[r] = NoRequest
  BY DEF Init
<1>6. RequestsTyped
  <2>1. day = 1 /\ DOMAIN request = Requests
    BY DEF Init
  <2>2. QED
    <3>1. /\ NoRequest.stage = "none" /\ NoRequest.at = 1 /\ NoRequest.memories = {}
          /\ NoRequest.summaries = {} /\ DOMAIN NoRequest.story = {}
      BY DEF NoRequest
    <3>2. \A r \in Requests : Cardinality(NoRequest.memories) <= Limit(r)
      BY <3>1, LimitFacts
    <3>3. QED
      BY <1>5, <2>1, <3>1, <3>2 DEF RequestsTyped, RequestTyped
<1>7. NoSpoiler /\ LatestShown
  BY <1>5 DEF NoSpoiler, LatestShown, NoRequest
<1>8. QED
  BY <1>1, <1>2, <1>3, <1>4, <1>6, <1>7 DEF PromptInv

\* The requests keep what they show when the story goes on, or another request begins.
LEMMA SameRequests ==
  ASSUME Control, RequestsTyped, NoSpoiler, LatestShown,
         UNCHANGED <<request, catalog>>,
         day' \in Nat, day' >= day,
         cursor' \in Nat, cursor' >= cursor,
         \/ UNCHANGED <<cursor, generation>>
         \/ generation' = generation + 1
  PROVE  RequestsTyped' /\ NoSpoiler' /\ LatestShown'
<1>1. /\ day \in Nat /\ cursor \in Nat /\ generation \in Nat
      /\ generation' \in Nat /\ generation' >= generation
  BY ConstantFacts DEF Control, Days
<1>2. RequestsTyped'
  BY <1>1 DEF RequestsTyped, RequestTyped
<1>3. catalog \in Seq(SceneType)
  BY CatalogAssumption DEF Control, SceneType
<1>4. \A s \in DOMAIN catalog : catalog[s].order \in Nat
  <2>1. ASSUME NEW s \in DOMAIN catalog PROVE catalog[s] \in SceneType
    BY <1>3
  <2>2. QED
    BY <2>1 DEF SceneType
<1>5. NoSpoiler'
  <2>1. \A r \in Requests : \A s \in DOMAIN request[r].story : \A i \in request[r].story[s] :
          catalog[s].order < cursor'
    BY <1>1, <1>4 DEF NoSpoiler, RequestsTyped, RequestTyped
  <2>2. QED
    BY <2>1 DEF NoSpoiler
<1>6. LatestShown'
  <2>1. CASE UNCHANGED <<cursor, generation>>
    BY <2>1 DEF LatestShown
  <2>2. CASE generation' = generation + 1
    BY <1>1, <2>2 DEF LatestShown, RequestsTyped, RequestTyped
  <2>3. QED
    BY <2>1, <2>2
<1>7. QED
  BY <1>2, <1>5, <1>6

\* A request is over, and shows nothing any more.
LEMMA OverKeeps ==
  ASSUME Control, RequestsTyped, NoSpoiler, LatestShown, NEW r \in Requests, RequestOver(r),
         UNCHANGED <<catalog, day, cursor, generation>>
  PROVE  /\ RequestsTyped' /\ NoSpoiler' /\ LatestShown'
         /\ request'[r].stage = "over"
         /\ \A d \in Requests : d # r => request'[d] = request[d]
<1> DEFINE idle == [NoRequest EXCEPT !.stage = "over"]
<1>1. /\ idle.stage = "over" /\ idle.at = 1 /\ idle.memories = {} /\ idle.summaries = {}
      /\ DOMAIN idle.story = {}
  BY DEF NoRequest
<1>2. \A q \in Requests : Cardinality(idle.memories) <= Limit(q)
  BY <1>1, LimitFacts
<1>3. 1 \in 1 .. day
  BY ConstantFacts DEF Control, Days
<1>4. request' = [request EXCEPT ![r] = idle]
  BY DEF RequestOver
<1> HIDE DEF idle
<1>5. DOMAIN request' = Requests /\ request'[r] = idle /\ \A d \in Requests : d # r => request'[d] = request[d]
  BY <1>4 DEF RequestsTyped
<1>6. RequestsTyped'
  BY <1>1, <1>2, <1>3, <1>5 DEF RequestsTyped, RequestTyped
<1>7. NoSpoiler'
  <2>1. ASSUME NEW d \in Requests
        PROVE  /\ \A s \in DOMAIN request'[d].story : \A i \in request'[d].story[s] :
                    /\ catalog[s].available
                    /\ catalog[s].order < cursor
                    /\ \E j \in 1 .. i : catalog[s].lines[j].own
                    /\ catalog[s].lines[i].private => catalog[s].lines[i].own
               /\ request'[d].summaries # {} => DOMAIN catalog = {}
    <3>1. CASE d = r
      BY <1>1, <1>5, <3>1
    <3>2. CASE d # r
      BY <1>5, <3>2 DEF NoSpoiler
    <3>3. QED
      BY <3>1, <3>2
  <2>2. QED
    BY <2>1 DEF NoSpoiler
<1>8. LatestShown'
  <2>1. ASSUME NEW d \in Requests, request'[d].stage = "asked"
        PROVE  request'[d] = request[d]
    BY <1>1, <1>5, <2>1
  <2>2. QED
    BY <2>1 DEF LatestShown
<1>9. QED
  BY <1>1, <1>5, <1>6, <1>7, <1>8

LEMMA AskKeeps ==
  ASSUME PromptInv, NEW r \in Requests, Ask(r)
  PROVE  PromptInv'
<1>0. Control /\ Streams /\ Retired /\ UsedOnce /\ RequestsTyped /\ NoSpoiler /\ LatestShown
  BY DEF PromptInv
<1>1. PICK memories \in MayShow(r), at \in Dates(r), story \in StoryContexts(catalog, cursor),
           summaries \in SUBSET SummaryLore :
        /\ request' = [request EXCEPT ![r] = [stage |-> "asked", at |-> at, gen |-> generation,
                      memories |-> memories, story |-> story, summaries |-> summaries]]
        /\ recalled' = [id \in Ids |-> IF id \in memories THEN day ELSE recalled[id]]
  BY Zenon DEF Ask
<1>2. /\ request[r].stage = "none"
      /\ UNCHANGED <<catalog, day, cursor, generation, memory, table, governing, withheld,
                     failures, retired>>
  BY DEF Ask
<1>3. memories \subseteq Ids /\ Cardinality(memories) <= Limit(r)
  <2>1. Recallable \subseteq Ids
    BY <1>0 DEF Recallable, Streams
  <2>2. QED
    BY <2>1, ShownFacts
<1>4. summaries \subseteq Summaries /\ (summaries # {} => DOMAIN catalog = {})
  BY PromptAssumption DEF SummaryLore
<1>5. day \in Days /\ at \in 1 .. day /\ day # 0 /\ generation \in 0 .. generation
  BY <1>0, ConstantFacts DEF Control, Days, Dates
<1> DEFINE asked == [stage |-> "asked", at |-> at, gen |-> generation,
                     memories |-> memories, story |-> story, summaries |-> summaries]
<1>6. /\ asked.stage = "asked" /\ asked.at = at /\ asked.gen = generation
      /\ asked.memories = memories /\ asked.story = story /\ asked.summaries = summaries
  OBVIOUS
<1>7. request' = [request EXCEPT ![r] = asked]
  BY <1>1
<1> HIDE DEF asked
<1>8. DOMAIN request' = Requests /\ request'[r] = asked /\ \A d \in Requests : d # r => request'[d] = request[d]
  BY <1>0, <1>7 DEF RequestsTyped
<1>9. Control'
  <2>1. recalled' \in [Ids -> {0} \cup Days]
    BY <1>0, <1>1, <1>5 DEF Control
  <2>2. QED
    BY <1>0, <1>2, <2>1 DEF Control, Days
<1>10. Streams' /\ Retired'
  BY <1>0, <1>2, SameStreams
<1>11. UsedOnce'
  <2>1. ASSUME NEW id \in DOMAIN memory \cup retired, id \in PlotEvents
        PROVE  recalled'[id] # 0
    BY <1>0, <1>1, <1>5, <2>1, ConstantFacts DEF UsedOnce
  <2>2. ASSUME NEW id \in DOMAIN memory \cup retired, id \in Requests
        PROVE  request'[id].stage = "over"
    BY <1>0, <1>2, <1>8, <2>2 DEF UsedOnce
  <2>3. QED
    BY <1>2, <2>1, <2>2 DEF UsedOnce
<1>12. RequestsTyped'
  <2>1. DOMAIN story \subseteq DOMAIN catalog
    BY <1>0, StoryShown
  <2>2. QED
    BY <1>0, <1>2, <1>3, <1>4, <1>5, <1>6, <1>8, <2>1 DEF RequestsTyped, RequestTyped
<1>13. NoSpoiler'
  <2>1. ASSUME NEW d \in Requests
        PROVE  /\ \A s \in DOMAIN request'[d].story : \A i \in request'[d].story[s] :
                    /\ catalog[s].available
                    /\ catalog[s].order < cursor
                    /\ \E j \in 1 .. i : catalog[s].lines[j].own
                    /\ catalog[s].lines[i].private => catalog[s].lines[i].own
               /\ request'[d].summaries # {} => DOMAIN catalog = {}
    <3>1. CASE d = r
      BY <1>0, <1>4, <1>6, <1>8, <3>1, StoryShown
    <3>2. CASE d # r
      BY <1>0, <1>8, <3>2 DEF NoSpoiler
    <3>3. QED
      BY <3>1, <3>2
  <2>2. QED
    BY <1>2, <2>1 DEF NoSpoiler
<1>14. LatestShown'
  <2>1. ASSUME NEW d \in Requests, request'[d].stage = "asked", request'[d].gen = generation
        PROVE  \A s \in DOMAIN catalog :
                 /\ catalog[s].available
                 /\ catalog[s].order < cursor
                 /\ \E i \in DOMAIN catalog[s].lines : catalog[s].lines[i].own
                 => \E t \in DOMAIN request'[d].story :
                      request'[d].story[t] # {} /\ catalog[t].order >= catalog[s].order
    <3>1. CASE d = r
      BY <1>0, <1>6, <1>8, <3>1, StoryShown
    <3>2. CASE d # r
      BY <1>0, <1>8, <2>1, <3>2 DEF LatestShown
    <3>3. QED
      BY <3>1, <3>2
  <2>2. QED
    BY <1>2, <2>1 DEF LatestShown
<1>15. QED
  BY <1>9, <1>10, <1>11, <1>12, <1>13, <1>14 DEF PromptInv

LEMMA RequestFailsKeeps ==
  ASSUME PromptInv, NEW r \in Requests, RequestFails(r)
  PROVE  PromptInv'
<1>0. Control /\ Streams /\ Retired /\ UsedOnce /\ RequestsTyped /\ NoSpoiler /\ LatestShown
  BY DEF PromptInv
<1>1. /\ RequestOver(r)
      /\ UNCHANGED <<catalog, day, cursor, generation, memory, table, governing, withheld,
                     failures, recalled, retired>>
  BY DEF RequestFails
<1>2. /\ RequestsTyped' /\ NoSpoiler' /\ LatestShown' /\ request'[r].stage = "over"
      /\ \A d \in Requests : d # r => request'[d] = request[d]
  BY <1>0, <1>1, OverKeeps
<1>3. Control' /\ Streams' /\ Retired'
  BY <1>0, <1>1, SameStreams DEF Control
<1>4. UsedOnce'
  BY <1>0, <1>1, <1>2 DEF UsedOnce
<1>5. QED
  BY <1>2, <1>3, <1>4 DEF PromptInv

LEMMA ReplyKeeps ==
  ASSUME PromptInv, NEW r \in Requests, Reply(r)
  PROVE  PromptInv'
<1>0. Control /\ Streams /\ Retired /\ UsedOnce /\ RequestsTyped /\ NoSpoiler /\ LatestShown
  BY DEF PromptInv
<1>1. PICK important \in BOOLEAN : Remember(r, NewRecord(important, FALSE, request[r].at))
  BY DEF Reply
<1>2. /\ request[r].stage = "asked" /\ RequestOver(r)
      /\ UNCHANGED <<catalog, day, cursor, generation, governing, withheld, retired>>
  BY DEF Reply
<1>3. r \notin DOMAIN memory /\ r \notin retired
  BY <1>0, <1>2 DEF UsedOnce
<1>4. request[r].at \in Days /\ request[r].at # 0
  BY <1>0, ConstantFacts DEF RequestsTyped, RequestTyped, Control, Days
<1>5. r \in Ids /\ r \notin Legacy
  BY ConstantFacts
<1>6. /\ Streams' /\ Retired' /\ DOMAIN memory' = DOMAIN memory \cup {r}
      /\ failures' \in 0 .. MaxFailures
      /\ recalled' = [recalled EXCEPT ![r] = request[r].at]
  BY <1>0, <1>1, <1>2, <1>3, <1>4, <1>5, RememberKeeps
<1>7. /\ RequestsTyped' /\ NoSpoiler' /\ LatestShown' /\ request'[r].stage = "over"
      /\ \A d \in Requests : d # r => request'[d] = request[d]
  BY <1>0, <1>2, OverKeeps
<1>8. Control'
  <2>1. recalled' \in [Ids -> {0} \cup Days]
    BY <1>0, <1>4, <1>6 DEF Control
  <2>2. QED
    BY <1>0, <1>2, <1>6, <2>1 DEF Control, Days
<1>9. UsedOnce'
  <2>1. ASSUME NEW id \in DOMAIN memory' \cup retired', id \in PlotEvents
        PROVE  recalled'[id] # 0
    <3>1. id # r /\ id \in Ids
      BY <2>1, ConstantFacts
    <3>2. id \in DOMAIN memory \cup retired
      BY <1>2, <1>6, <2>1, <3>1
    <3>3. QED
      BY <1>0, <1>6, <2>1, <3>1, <3>2 DEF UsedOnce, Control
  <2>2. ASSUME NEW id \in DOMAIN memory' \cup retired', id \in Requests
        PROVE  request'[id].stage = "over"
    BY <1>0, <1>2, <1>6, <1>7, <2>2 DEF UsedOnce
  <2>3. QED
    BY <2>1, <2>2 DEF UsedOnce
<1>10. QED
  BY <1>6, <1>7, <1>8, <1>9 DEF PromptInv

LEMMA PlotEventKeeps ==
  ASSUME PromptInv, NEW p \in PlotEvents, PlotEvent(p)
  PROVE  PromptInv'
<1>0. Control /\ Streams /\ Retired /\ UsedOnce /\ RequestsTyped /\ NoSpoiler /\ LatestShown
  BY DEF PromptInv
<1>1. /\ recalled[p] = 0 /\ Remember(p, NewRecord(FALSE, FALSE, day))
      /\ UNCHANGED <<catalog, day, cursor, generation, request, governing, withheld, retired>>
  BY DEF PlotEvent
<1>2. p \notin DOMAIN memory /\ p \notin retired /\ p \in Ids /\ p \notin Legacy
  BY <1>0, <1>1, ConstantFacts DEF UsedOnce
<1>3. day \in Days /\ day # 0 /\ day \in Nat /\ cursor \in Nat
  BY <1>0, ConstantFacts DEF Control, Days
<1>4. /\ Streams' /\ Retired' /\ DOMAIN memory' = DOMAIN memory \cup {p}
      /\ failures' \in 0 .. MaxFailures
      /\ recalled' = [recalled EXCEPT ![p] = day]
  BY <1>0, <1>1, <1>2, <1>3, RememberKeeps
<1>5. Control'
  <2>1. recalled' \in [Ids -> {0} \cup Days]
    BY <1>0, <1>3, <1>4 DEF Control
  <2>2. QED
    BY <1>0, <1>1, <1>4, <2>1 DEF Control, Days
<1>6. RequestsTyped' /\ NoSpoiler' /\ LatestShown'
  BY <1>0, <1>1, <1>3, SameRequests
<1>7. UsedOnce'
  <2>1. ASSUME NEW id \in DOMAIN memory' \cup retired', id \in PlotEvents
        PROVE  recalled'[id] # 0
    <3>1. CASE id = p
      BY <1>0, <1>2, <1>3, <1>4, <3>1 DEF Control
    <3>2. CASE id # p
      <4>1. id \in DOMAIN memory \cup retired
        BY <1>1, <1>4, <2>1, <3>2
      <4>2. QED
        BY <1>0, <1>4, <2>1, <3>2, <4>1, ConstantFacts DEF UsedOnce, Control
    <3>3. QED
      BY <3>1, <3>2
  <2>2. ASSUME NEW id \in DOMAIN memory' \cup retired', id \in Requests
        PROVE  request'[id].stage = "over"
    BY <1>0, <1>1, <1>4, <2>2, ConstantFacts DEF UsedOnce
  <2>3. QED
    BY <2>1, <2>2 DEF UsedOnce
<1>8. QED
  BY <1>4, <1>5, <1>6, <1>7 DEF PromptInv

\* A template the tick returns never comes into the stream.
LEMMA TickKeeps ==
  ASSUME PromptInv, NEW t \in Steps, Tick(t)
  PROVE  PromptInv'
<1>0. Control /\ Streams /\ Retired /\ UsedOnce /\ RequestsTyped /\ NoSpoiler /\ LatestShown
  BY DEF PromptInv
<1> DEFINE plan == NewRecord(TRUE, TRUE, day)
<1>1. plan.template = TRUE
  BY DEF NewRecord
<1>2. plan \notin Accepted({plan})
  BY <1>1 DEF Accepted
<1>3. /\ withheld < Cardinality(Steps) /\ withheld' = withheld + 1
      /\ UNCHANGED <<catalog, day, cursor, generation, request, governing, retired,
                     memory, table, recalled, failures>>
  BY <1>2 DEF Tick
<1>4. Control'
  BY <1>0, <1>3, ConstantFacts DEF Control
<1>5. Streams' /\ Retired' /\ UsedOnce'
  BY <1>0, <1>3, SameStreams DEF UsedOnce
<1>6. RequestsTyped' /\ NoSpoiler' /\ LatestShown'
  BY <1>0, <1>3 DEF RequestsTyped, RequestTyped, NoSpoiler, LatestShown
<1>7. QED
  BY <1>4, <1>5, <1>6 DEF PromptInv

LEMMA TimeKeeps ==
  ASSUME PromptInv, StoryForward \/ DayPasses
  PROVE  PromptInv'
<1>0. Control /\ Streams /\ Retired /\ UsedOnce /\ RequestsTyped /\ NoSpoiler /\ LatestShown
  BY DEF PromptInv
<1>1. /\ UNCHANGED <<catalog, memory, table, request, governing, withheld, failures, recalled,
                     retired>>
      /\ \/ /\ cursor' \in cursor + 1 .. LastCursor /\ generation' = generation + 1
            /\ day' = day
         \/ day < LastDay /\ day' = day + 1 /\ UNCHANGED <<cursor, generation>>
  BY DEF StoryForward, DayPasses
<1>2. /\ day \in Nat /\ cursor \in Nat /\ day' \in Nat /\ day' >= day
      /\ cursor' \in Nat /\ cursor' >= cursor
      /\ UNCHANGED <<cursor, generation>> \/ generation' = generation + 1
      /\ day' \in Days /\ cursor' \in 0 .. LastCursor /\ generation' \in 0 .. cursor'
  BY <1>0, <1>1, ConstantFacts DEF Control, Days
<1>3. Control'
  BY <1>0, <1>1, <1>2 DEF Control
<1>4. Streams' /\ Retired' /\ UsedOnce'
  BY <1>0, <1>1, SameStreams DEF UsedOnce
<1>5. RequestsTyped' /\ NoSpoiler' /\ LatestShown'
  BY <1>0, <1>1, <1>2, SameRequests
<1>6. QED
  BY <1>3, <1>4, <1>5 DEF PromptInv

LEMMA GovernKeeps ==
  ASSUME PromptInv, GovernStale \/ GovernTemplates
  PROVE  PromptInv'
<1>0. Control /\ Streams /\ Retired /\ UsedOnce /\ RequestsTyped /\ NoSpoiler /\ LatestShown
  BY DEF PromptInv
<1>1. /\ Retire(Stale) \/ Retire(Templates)
      /\ UNCHANGED <<catalog, day, cursor, generation, request, withheld, recalled>>
  BY DEF GovernStale, GovernTemplates
<1>2. governing' \in BOOLEAN
  <2>1. (failures' = failures) \in BOOLEAN
    OBVIOUS
  <2>2. QED
    BY <2>1, Zenon DEF GovernStale, GovernTemplates
<1>3. /\ Streams' /\ Retired' /\ DOMAIN memory' = DOMAIN memory
      /\ retired' \subseteq retired \cup DOMAIN memory
      /\ failures' \in 0 .. MaxFailures
  BY <1>0, <1>1, RetireKeeps
<1>4. Control'
  BY <1>0, <1>1, <1>2, <1>3 DEF Control, Days
<1>5. UsedOnce'
  BY <1>0, <1>1, <1>3 DEF UsedOnce
<1>6. RequestsTyped' /\ NoSpoiler' /\ LatestShown'
  BY <1>0, <1>1 DEF RequestsTyped, RequestTyped, NoSpoiler, LatestShown
<1>7. QED
  BY <1>3, <1>4, <1>5, <1>6 DEF PromptInv

LEMMA RestartKeeps ==
  ASSUME PromptInv, CrashAndRestart
  PROVE  PromptInv'
<1>0. Control /\ Streams /\ Retired /\ UsedOnce /\ RequestsTyped /\ NoSpoiler /\ LatestShown
  BY DEF PromptInv
<1> DEFINE idle == [NoRequest EXCEPT !.stage = "over"]
<1>1. /\ idle.stage = "over" /\ idle.at = 1 /\ idle.memories = {} /\ idle.summaries = {}
      /\ DOMAIN idle.story = {}
  BY DEF NoRequest
<1>2. \A q \in Requests : Cardinality(idle.memories) <= Limit(q)
  BY <1>1, LimitFacts
<1>3. /\ memory' = table /\ generation' = 0 /\ governing' = FALSE /\ withheld' = 0
      /\ UNCHANGED <<catalog, day, cursor, table, failures, recalled, retired>>
      /\ request' = [r \in Requests |-> IF request[r].stage = "asked" THEN idle ELSE request[r]]
  BY DEF CrashAndRestart
<1> HIDE DEF idle
<1>4. /\ DOMAIN request' = Requests
      /\ \A r \in Requests : request'[r] = IF request[r].stage = "asked" THEN idle ELSE request[r]
  BY <1>3
<1>5. 1 \in 1 .. day
  BY <1>0, ConstantFacts DEF Control, Days
<1>6. Control'
  <2>1. governing' \in BOOLEAN
    BY <1>3, Zenon
  <2>2. generation' \in 0 .. cursor' /\ withheld' \in 0 .. Cardinality(Steps)
    BY <1>0, <1>3, ConstantFacts DEF Control
  <2>3. QED
    BY <1>0, <1>3, <2>1, <2>2 DEF Control, Days
<1>7. Streams' /\ Retired' /\ DOMAIN memory' \subseteq DOMAIN memory
  BY <1>0, <1>3, RestartStreams
<1>8. UsedOnce'
  BY <1>0, <1>1, <1>3, <1>4, <1>7 DEF UsedOnce
<1>9. \A r \in Requests : request'[r].stage # "asked"
  BY <1>1, <1>4
<1>10. RequestsTyped'
  BY <1>0, <1>1, <1>2, <1>3, <1>4, <1>5, <1>9 DEF RequestsTyped, RequestTyped
<1>11. NoSpoiler'
  <2>1. ASSUME NEW d \in Requests
        PROVE  /\ \A s \in DOMAIN request'[d].story : \A i \in request'[d].story[s] :
                    /\ catalog[s].available
                    /\ catalog[s].order < cursor
                    /\ \E j \in 1 .. i : catalog[s].lines[j].own
                    /\ catalog[s].lines[i].private => catalog[s].lines[i].own
               /\ request'[d].summaries # {} => DOMAIN catalog = {}
    <3>1. CASE request[d].stage = "asked"
      BY <1>1, <1>4, <3>1
    <3>2. CASE request[d].stage # "asked"
      BY <1>0, <1>4, <3>2 DEF NoSpoiler
    <3>3. QED
      BY <3>1, <3>2
  <2>2. QED
    BY <1>3, <2>1 DEF NoSpoiler
<1>12. LatestShown'
  BY <1>9 DEF LatestShown
<1>13. QED
  BY <1>6, <1>7, <1>8, <1>10, <1>11, <1>12 DEF PromptInv

LEMMA NextPromptInv == PromptInv /\ [Next]_vars => PromptInv'
<1> SUFFICES ASSUME PromptInv, [Next]_vars PROVE PromptInv'
  OBVIOUS
<1>1. ASSUME NEW r \in Requests, Ask(r) \/ RequestFails(r) \/ Reply(r) PROVE PromptInv'
  BY <1>1, AskKeeps, RequestFailsKeeps, ReplyKeeps
<1>2. ASSUME NEW p \in PlotEvents, PlotEvent(p) PROVE PromptInv'
  BY <1>2, PlotEventKeeps
<1>3. ASSUME NEW t \in Steps, Tick(t) PROVE PromptInv'
  BY <1>3, TickKeeps
<1>4. CASE StoryForward \/ DayPasses
  BY <1>4, TimeKeeps
<1>5. CASE GovernStale \/ GovernTemplates
  BY <1>5, GovernKeeps
<1>6. CASE CrashAndRestart
  BY <1>6, RestartKeeps
<1>7. CASE UNCHANGED vars
  <2>1. Streams' /\ Retired'
    BY <1>7, SameStreams DEF PromptInv, vars
  <2>2. QED
    BY <1>7, <2>1
    DEF vars, PromptInv, Control, UsedOnce, RequestsTyped, RequestTyped, NoSpoiler, LatestShown
<1>8. QED
  BY <1>1, <1>2, <1>3, <1>4, <1>5, <1>6, <1>7 DEF Next

LEMMA SpecPromptInv == Spec => []PromptInv
BY InitPromptInv, NextPromptInv, PTL DEF Spec
-----------------------------------------------------------------------------
(* Theorems *)

\* The streams, the requests and the counters keep their shape; every row has its
\* record in memory, and only engine plans stored long ago are templates.
THEOREM TypeCorrect == Spec => []TypeOK
<1>1. PromptInv => TypeOK
  <2>1. SUFFICES ASSUME PromptInv PROVE TypeOK
    OBVIOUS
  <2>2. Control /\ Streams /\ Retired /\ RequestsTyped
    BY <2>1 DEF PromptInv
  <2>3. generation \in 0 .. LastCursor
    BY <2>2, ConstantFacts DEF Control
  <2>4. /\ day \in Days /\ cursor \in 0 .. LastCursor /\ governing \in BOOLEAN
        /\ withheld \in 0 .. Cardinality(Steps) /\ failures \in 0 .. MaxFailures
        /\ recalled \in [Ids -> {0} \cup Days]
    BY <2>2, Zenon DEF Control
  <2>5. /\ memory \in [DOMAIN memory -> Record] /\ table \in [DOMAIN table -> Record]
        /\ DOMAIN memory \subseteq Ids /\ DOMAIN table \subseteq DOMAIN memory
        /\ \A id \in DOMAIN memory : memory[id].template <=> id \in Legacy
    BY <2>2, Zenon DEF Streams
  <2>6. retired \subseteq Ids /\ (failures = 0 => retired \subseteq DOMAIN memory)
    BY <2>2 DEF Retired
  <2>7. \A r \in Requests : RequestTyped(r)
    BY <2>2 DEF RequestsTyped
  <2>8. QED
    BY <2>3, <2>4, <2>5, <2>6, <2>7, Zenon DEF RequestTyped, TypeOK
<1>2. QED
  BY <1>1, SpecPromptInv, PTL

\* "Retrieve only unlocked transcript lines that begin at the character's
\* entry" (retrieveLoreDialogue): whatever matches and fits, nothing pending
\* shows a scene at or beyond the position, or a line she cannot know.
THEOREM NoSpoilerHolds == Spec => []NoSpoiler
<1>1. PromptInv => NoSpoiler
  BY DEF PromptInv
<1>2. QED
  BY <1>1, SpecPromptInv, PTL

\* "Keep the latest visible scene as continuity": for every catalog and number
\* of hits, the story is shown up to the last unlocked scene with her.
THEOREM LatestShownHolds == Spec => []LatestShown
<1>1. PromptInv => LatestShown
  BY DEF PromptInv
<1>2. QED
  BY <1>1, SpecPromptInv, PTL

\* "important memories are never retired", and nothing but a template is before
\* StaleDays have passed since it was written, through failures and restarts.
THEOREM OnlyStaleRetiredHolds == Spec => []OnlyStaleRetired
<1>1. PromptInv => OnlyStaleRetired
  BY DEF PromptInv, Streams, Sound, OnlyStaleRetired
<1>2. QED
  BY <1>1, SpecPromptInv, PTL

\* What governance reports as retired is in no later request, whatever failed or
\* was restarted between the two transactions (invalidateMemories).
THEOREM RetiredStaysRetiredHolds == Spec => RetiredStaysRetired
<1> DEFINE A == \A r \in Requests :
                  request[r].stage = "none" /\ request'[r].stage = "asked"
                    => request'[r].memories \cap retired = {}
<1>1. PromptInv /\ [Next]_vars => [A]_vars
  <2>1. SUFFICES ASSUME PromptInv, Next,
                        NEW r \in Requests, request[r].stage = "none", request'[r].stage = "asked"
                 PROVE  request'[r].memories \cap retired = {}
    BY Zenon
  <2>2. DOMAIN request = Requests
    BY <2>1 DEF PromptInv, RequestsTyped
  <2>3. ASSUME NEW d \in Requests, RequestOver(d) PROVE FALSE
    <3>1. request' = [request EXCEPT ![d] = [NoRequest EXCEPT !.stage = "over"]]
      BY <2>3 DEF RequestOver
    <3>2. [NoRequest EXCEPT !.stage = "over"].stage = "over"
      BY DEF NoRequest
    <3>3. QED
      BY <2>1, <2>2, <3>1, <3>2
  <2>4. ~UNCHANGED request
    BY <2>1
  <2>5. ~CrashAndRestart
    BY <2>1 DEF CrashAndRestart
  <2>6. PICK d \in Requests : Ask(d)
    BY <2>1, <2>3, <2>4, <2>5
    DEF Next, RequestFails, Reply, PlotEvent, Tick, StoryForward, GovernStale, GovernTemplates,
        DayPasses
  <2>7. PICK memories \in MayShow(d), at \in Dates(d), story \in StoryContexts(catalog, cursor),
             summaries \in SUBSET SummaryLore :
          request' = [request EXCEPT ![d] = [stage |-> "asked", at |-> at, gen |-> generation,
                     memories |-> memories, story |-> story, summaries |-> summaries]]
    BY <2>6, Zenon DEF Ask
  <2>8. r = d /\ request'[r].memories = memories
    BY <2>1, <2>2, <2>7
  <2>9. memories \subseteq Recallable
    BY <2>1, ShownFacts DEF PromptInv, Streams, Recallable
  <2>10. QED
    BY <2>1, <2>8, <2>9 DEF Recallable, PromptInv, Retired
<1>2. QED
  BY <1>1, SpecPromptInv, PTL DEF Spec, RetiredStaysRetired

\* What comes into the stream now, beside the plans an older version stored.
LivedIds == Requests \cup PlotEvents
PlanInv == DOMAIN memory \subseteq LivedIds \cup Legacy /\ ShowsNoPlan

\* A step shows records in one request only, and only what can be recalled.
LEMMA ShownIsRecallable ==
  ASSUME PromptInv, Next, NEW r \in Requests, NEW id \in request'[r].memories,
         id \notin request[r].memories
  PROVE  id \in Recallable /\ UNCHANGED memory
<1>1. DOMAIN request = Requests
  BY DEF PromptInv, RequestsTyped
<1>2. [NoRequest EXCEPT !.stage = "over"].memories = {}
  BY DEF NoRequest
<1>3. ASSUME NEW d \in Requests, RequestOver(d) PROVE FALSE
  BY <1>1, <1>2, <1>3 DEF RequestOver
<1>4. ~CrashAndRestart
  BY <1>2 DEF CrashAndRestart
<1>5. PICK d \in Requests : Ask(d)
  BY <1>3, <1>4
  DEF Next, RequestFails, Reply, PlotEvent, Tick, StoryForward, GovernStale, GovernTemplates,
      DayPasses
<1>6. PICK memories \in MayShow(d), at \in Dates(d), story \in StoryContexts(catalog, cursor),
           summaries \in SUBSET SummaryLore :
        request' = [request EXCEPT ![d] = [stage |-> "asked", at |-> at, gen |-> generation,
                   memories |-> memories, story |-> story, summaries |-> summaries]]
  BY <1>5, Zenon DEF Ask
<1>7. r = d /\ request'[r].memories = memories
  BY <1>1, <1>6
<1>8. memories \subseteq Recallable
  BY ShownFacts DEF PromptInv, Streams, Recallable
<1>9. QED
  BY <1>5, <1>7, <1>8 DEF Ask

\* A request that is over stays over.
LEMMA OverStays ==
  ASSUME PromptInv, Next, NEW r \in Requests, request[r].stage = "over"
  PROVE  request'[r].stage = "over"
<1>1. DOMAIN request = Requests
  BY DEF PromptInv, RequestsTyped
<1>2. [NoRequest EXCEPT !.stage = "over"].stage = "over"
  BY DEF NoRequest
<1>3. ASSUME NEW d \in Requests, RequestOver(d) PROVE request'[r].stage = "over"
  BY <1>1, <1>2, <1>3 DEF RequestOver
<1>4. ASSUME NEW d \in Requests, Ask(d) PROVE request'[r].stage = "over"
  <2>1. request[d].stage = "none"
    BY <1>4 DEF Ask
  <2>2. PICK new : request' = [request EXCEPT ![d] = new]
    BY <1>4, Zenon DEF Ask
  <2>3. QED
    BY <1>1, <2>1, <2>2
<1>5. CASE CrashAndRestart
  BY <1>5 DEF CrashAndRestart
<1>6. QED
  BY <1>3, <1>4, <1>5
  DEF Next, RequestFails, Reply, PlotEvent, Tick, StoryForward, GovernStale, GovernTemplates,
      DayPasses

\* Only requests and plot events bring something into the stream.
LEMMA StreamGrowsByLife ==
  ASSUME PromptInv, Next
  PROVE  DOMAIN memory' \subseteq DOMAIN memory \cup LivedIds
<1>1. ASSUME NEW id, NEW record, Remember(id, record)
      PROVE  DOMAIN memory' = DOMAIN memory \cup {id}
  BY <1>1 DEF Remember, With
<1>2. ASSUME NEW r \in Requests, Reply(r) PROVE DOMAIN memory' \subseteq DOMAIN memory \cup LivedIds
  <2>1. PICK important \in BOOLEAN : Remember(r, NewRecord(important, FALSE, request[r].at))
    BY <1>2, Zenon DEF Reply
  <2>2. DOMAIN memory' = DOMAIN memory \cup {r}
    BY <1>1, <2>1, Zenon
  <2>3. QED
    BY <2>2 DEF LivedIds
<1>3. ASSUME NEW p \in PlotEvents, PlotEvent(p)
      PROVE  DOMAIN memory' \subseteq DOMAIN memory \cup LivedIds
  <2>1. Remember(p, NewRecord(FALSE, FALSE, day))
    BY <1>3 DEF PlotEvent
  <2>2. DOMAIN memory' = DOMAIN memory \cup {p}
    BY <1>1, <2>1, Zenon
  <2>3. QED
    BY <2>2 DEF LivedIds
<1>4. ASSUME NEW t \in Steps, Tick(t) PROVE memory' = memory
  <2> DEFINE plan == NewRecord(TRUE, TRUE, day)
  <2>1. plan.template = TRUE
    BY DEF NewRecord
  <2>2. plan \notin Accepted({plan})
    BY <2>1 DEF Accepted
  <2>3. QED
    BY <1>4, <2>2 DEF Tick
<1>5. ASSUME NEW ids, Retire(ids) PROVE DOMAIN memory' = DOMAIN memory
  BY <1>5 DEF Retire, Invalid
<1>6. CASE CrashAndRestart
  BY <1>6 DEF CrashAndRestart, PromptInv, Streams
<1>7. QED
  BY <1>2, <1>3, <1>4, <1>5, <1>6
  DEF Next, Ask, RequestFails, StoryForward, GovernStale, GovernTemplates, DayPasses

\* isCharacterVisibleMemory: whatever an older version stored and whatever the
\* engine returns, no exchange, diary or reflection is asked for with a routine plan
\* in it; and the records of other requests it shows are of such as are over.
THEOREM ShowsNoPlanHolds == Spec => []ShowsNoPlan
<1>1. Init => PlanInv
  BY DEF Init, PlanInv, ShowsNoPlan, NoRequest
<1>2. PromptInv /\ PlanInv /\ [Next]_vars => PlanInv'
  <2>1. SUFFICES ASSUME PromptInv, PlanInv, Next PROVE PlanInv'
    BY DEF vars, PlanInv, ShowsNoPlan
  <2>2. DOMAIN memory' \subseteq LivedIds \cup Legacy
    BY <2>1, StreamGrowsByLife DEF PlanInv
  <2>3. ASSUME NEW r \in Requests, NEW id \in request'[r].memories
        PROVE  id \notin Steps \cup Legacy /\ (id \in Requests => request'[id].stage = "over")
    <3>1. CASE id \in request[r].memories
      BY <2>1, <3>1, OverStays DEF PlanInv, ShowsNoPlan
    <3>2. CASE id \notin request[r].memories
      <4>1. id \in Recallable /\ id \in DOMAIN memory
        BY <2>1, <2>3, <3>2, ShownIsRecallable DEF Recallable
      <4>2. id \notin Legacy
        BY <2>1, <4>1 DEF Recallable, PromptInv, Streams
      <4>3. id \in LivedIds
        BY <2>1, <4>1, <4>2 DEF PlanInv
      <4>4. id \notin Steps
        BY <4>3, PromptAssumption DEF LivedIds
      <4>5. id \in Requests => request[id].stage = "over"
        BY <2>1, <4>1 DEF PromptInv, UsedOnce
      <4>6. QED
        BY <2>1, <4>2, <4>4, <4>5, OverStays
    <3>3. QED
      BY <3>1, <3>2
  <2>4. QED
    BY <2>2, <2>3 DEF PlanInv, ShowsNoPlan
<1>3. PlanInv => ShowsNoPlan
  BY DEF PlanInv
<1>4. QED
  BY <1>1, <1>2, <1>3, SpecPromptInv, PTL DEF Spec
-----------------------------------------------------------------------------
(* The retrieval of the story, as a function of catalog and position *)

\* A story that goes on never takes back what it has shown her: what may be told
\* at a position may be told at every later one.
THEOREM UnlockedStaysUnlocked ==
  ASSUME NEW scenes \in Seq(SceneType), NEW position \in Nat, NEW later \in Nat,
         position <= later
  PROVE  Candidates(scenes, position) \subseteq Candidates(scenes, later)
<1>1. SUFFICES ASSUME NEW s \in Candidates(scenes, position)
               PROVE  s \in Candidates(scenes, later)
  OBVIOUS
<1>2. scenes[s].order \in Nat /\ scenes[s].order < later
  BY CandidateFacts
<1>3. QED
  BY <1>2 DEF Candidates

LEMMA CandidatesFinite ==
  ASSUME NEW scenes \in Seq(SceneType), NEW position \in Nat
  PROVE  IsFiniteSet(Candidates(scenes, position))
<1>1. IsFiniteSet(1 .. Len(scenes))
  BY FS_Interval
<1>2. Candidates(scenes, position) \subseteq 1 .. Len(scenes)
  BY DEF Candidates
<1>3. QED
  BY <1>1, <1>2, FS_Subset

\* A finite set has a subset of every size up to its own.
LEMMA SubsetOfSize ==
  ASSUME NEW S, IsFiniteSet(S), NEW k \in Nat, k <= Cardinality(S)
  PROVE  \E b \in SUBSET S : Cardinality(b) = k
<1>1. Cardinality(S) \in Nat /\ ExistsBijection(1 .. Cardinality(S), S)
  BY FS_CardinalityType
<1>2. PICK f \in Bijection(1 .. Cardinality(S), S) : TRUE
  BY <1>1 DEF ExistsBijection
<1> DEFINE b == {f[i] : i \in 1 .. k}
           g == [i \in 1 .. k |-> f[i]]
<1>3. 1 .. k \subseteq 1 .. Cardinality(S)
  BY <1>1
<1>4. g \in Bijection(1 .. k, b)
  BY <1>2, <1>3 DEF Bijection, Injection, Surjection, IsInjective
<1>5. IsFiniteSet(1 .. k) /\ Cardinality(1 .. k) = k
  BY FS_Interval
<1>6. Cardinality(b) = k
  <2>1. ExistsBijection(1 .. k, b)
    BY <1>4 DEF ExistsBijection
  <2>2. QED
    BY <1>5, <2>1, FS_Bijection
<1>7. b \subseteq S
  BY <1>2, <1>3 DEF Bijection, Injection
<1>8. QED
  BY <1>6, <1>7

LEMMA VisibleFacts ==
  ASSUME NEW scene \in SceneType
  PROVE  /\ VisibleLines(scene) \subseteq 1 .. Len(scene.lines)
         /\ Len(scene.lines) \in Nat
BY DEF VisibleLines, SceneType

\* The last lines of a scene are an excerpt of it, and not an empty one when she
\* can see any.
LEMMA LastLinesShown ==
  ASSUME NEW scene \in SceneType
  PROVE  \E excerpt \in Excerpts(scene) : VisibleLines(scene) # {} => excerpt # {}
<1> DEFINE V == VisibleLines(scene)
           n == Len(scene.lines)
           last == LastOf(V, LineWindow)
<1>1. last \in Excerpts(scene)
  <2>1. SelectLines(V, {}) = last
    BY DEF SelectLines
  <2>2. last \in Prefixes(last)
    BY DEF Prefixes
  <2>3. {} \in SUBSET V
    OBVIOUS
  <2>4. QED
    BY <2>1, <2>2, <2>3, Zenon DEF Excerpts
<1>2. ASSUME V # {} PROVE last # {}
  <2>1. n \in Nat /\ \A v \in V : v \in Nat /\ n - v \in Nat
    BY VisibleFacts
  <2> DEFINE Gap == {n - v : v \in V}
  <2>2. PICK d \in Gap : \A e \in Gap : d <= e
    <3>1. Gap \subseteq Nat /\ Gap # {}
      BY <1>2, <2>1
    <3> HIDE DEF Gap
    <3>2. QED
      BY <3>1, LeastNat
  <2>3. PICK m \in V : d = n - m
    BY <2>2
  <2>4. {v \in V : v > m} = {}
    <3>1. SUFFICES ASSUME NEW v \in V, v > m PROVE FALSE
      OBVIOUS
    <3>2. n - m <= n - v
      BY <2>2, <2>3
    <3>3. QED
      BY <2>1, <3>1, <3>2
  <2>5. Cardinality({v \in V : v > m}) = 0
    BY <2>4, FS_EmptySet
  <2>6. m \in last
    BY <2>5, LoreAssumption DEF LastOf
  <2>7. QED
    BY <2>6
<1>3. QED
  BY <1>1, <1>2, Zenon

\* There is a story to show at every position of every catalog: retrieval has an
\* answer, so no request waits for one.
THEOREM RetrievalAlwaysAnswers ==
  ASSUME NEW scenes \in Seq(SceneType), NEW position \in Nat
  PROVE  StoryContexts(scenes, position) # {}
<1> DEFINE C == Candidates(scenes, position)
           latest == LatestOf(scenes, C)
           others == C \ {latest}
<1>1. PICK hits \in Choices(scenes, C) : hits \subseteq C
  <2>1. CASE C = {}
    BY <2>1 DEF Choices
  <2>2. CASE C # {}
    <3>1. latest \in C
      BY <2>2, LatestExists, Zenon
    <3>2. IsFiniteSet(others) /\ Cardinality(others) \in Nat /\ TopK - 1 \in Nat
      BY CandidatesFinite, FS_Subset, FS_CardinalityType, LoreAssumption
    <3> HIDE DEF latest
    <3>3. PICK best \in SUBSET others : \/ Cardinality(best) = TopK - 1
                                        \/ Cardinality(best) < TopK - 1 /\ best = others
      <4>1. CASE Cardinality(others) < TopK - 1
        BY <4>1
      <4>2. CASE TopK - 1 <= Cardinality(others)
        <5> DEFINE k == TopK - 1
        <5>1. k \in Nat /\ k <= Cardinality(others)
          BY <3>2, <4>2
        <5>2. IsFiniteSet(others)
          BY <3>2
        <5> HIDE DEF others, k
        <5>3. \E b \in SUBSET others : Cardinality(b) = k
          BY <5>1, <5>2, SubsetOfSize
        <5>4. QED
          BY <5>3 DEF k
      <4>3. QED
        BY <3>2, <4>1, <4>2
    <3>4. {latest} \cup best \in Choices(scenes, C)
      BY <2>2, <3>3, Zenon DEF Choices, latest
    <3>5. QED
      BY <3>1, <3>3, <3>4
  <2>3. QED
    BY <2>1, <2>2
<1> DEFINE good(s, excerpt) == VisibleLines(scenes[s]) # {} => excerpt # {}
           shown == [s \in hits |-> CHOOSE excerpt \in Excerpts(scenes[s]) : good(s, excerpt)]
<1>2. \A s \in hits : shown[s] \in Excerpts(scenes[s]) /\ shown[s] # {}
  <2>1. SUFFICES ASSUME NEW s \in hits
                 PROVE  shown[s] \in Excerpts(scenes[s]) /\ shown[s] # {}
    OBVIOUS
  <2>2. scenes[s] \in SceneType /\ VisibleLines(scenes[s]) # {}
    BY <1>1, CandidateFacts DEF Candidates
  <2>3. \E excerpt \in Excerpts(scenes[s]) : good(s, excerpt)
    BY <2>2, LastLinesShown, Zenon
  <2>4. shown[s] \in Excerpts(scenes[s]) /\ good(s, shown[s])
    BY <2>3, Zenon
  <2>5. QED
    BY <2>2, <2>4
<1>3. shown \in [hits -> UNION {Excerpts(scenes[s]) : s \in hits}]
  <2>1. \A s \in hits : shown[s] \in UNION {Excerpts(scenes[r]) : r \in hits}
    BY <1>2, Zenon
  <2> DEFINE all == UNION {Excerpts(scenes[s]) : s \in hits}
             pick(s) == CHOOSE excerpt \in Excerpts(scenes[s]) : good(s, excerpt)
  <2>2. \A s \in hits : pick(s) \in all
    BY <2>1
  <2> HIDE DEF all, pick
  <2>3. [s \in hits |-> pick(s)] \in [hits -> all]
    BY <2>2
  <2>4. QED
    BY <2>3 DEF all, pick
<1> HIDE DEF shown
<1>4. shown \in StoryContexts(scenes, position)
  <2> DEFINE Shown(h) ==
               {sh \in [h -> UNION {Excerpts(scenes[s]) : s \in h}] :
                  \A s \in h : sh[s] \in Excerpts(scenes[s]) /\ (s = latest => sh[s] # {})}
  <2>1. shown \in Shown(hits)
    BY <1>2, <1>3, Zenon
  <2>2. StoryContexts(scenes, position) = UNION {Shown(h) : h \in Choices(scenes, C)}
    BY Zenon DEF StoryContexts
  <2> HIDE DEF Shown
  <2>3. QED
    BY <1>1, <2>1, <2>2, Zenon
<1>5. QED
  BY <1>4

\* The budget of scenes holds for every catalog, with the scene just seen in it.
THEOREM ContextBounded ==
  ASSUME NEW scenes \in Seq(SceneType), NEW position \in Nat,
         NEW story \in StoryContexts(scenes, position)
  PROVE  Cardinality(DOMAIN story) <= TopK
<1> DEFINE C == Candidates(scenes, position)
           latest == LatestOf(scenes, C)
           others == C \ {latest}
<1>1. PICK hits \in Choices(scenes, C) : DOMAIN story = hits
  BY DEF StoryContexts
<1>2. CASE C = {}
  <2>1. hits = {}
    BY <1>1, <1>2 DEF Choices
  <2>2. QED
    BY <1>1, <2>1, FS_EmptySet, LoreAssumption
<1>3. CASE C # {}
  <2>1. PICK best \in SUBSET others :
          /\ hits = {latest} \cup best
          /\ \/ Cardinality(best) = TopK - 1
             \/ Cardinality(best) < TopK - 1 /\ best = others
    BY <1>1, <1>3, Zenon DEF Choices
  <2>2. IsFiniteSet(best) /\ latest \notin best
    <3>1. best \subseteq C /\ IsFiniteSet(C) /\ latest \notin best
      BY <2>1, CandidatesFinite
    <3> HIDE DEF C
    <3>2. QED
      BY <3>1, FS_Subset
  <2>3. Cardinality(best) \in Nat /\ Cardinality(best \cup {latest}) = Cardinality(best) + 1
    BY <2>2, FS_CardinalityType, FS_AddElement
  <2>4. hits = best \cup {latest}
    BY <2>1
  <2> HIDE DEF latest, others, C
  <2>5. Cardinality(best) <= TopK - 1 /\ TopK \in Nat
    BY <2>1, <2>3, LoreAssumption
  <2>6. Cardinality(DOMAIN story) = Cardinality(best) + 1
    BY <1>1, <2>3, <2>4, Zenon
  <2>7. QED
    BY <2>3, <2>5, <2>6
<1>4. QED
  BY <1>2, <1>3
=============================================================================
