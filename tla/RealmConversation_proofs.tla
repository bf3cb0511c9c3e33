------------------------ MODULE RealmConversation_proofs ------------------------
(***************************************************************************)
(* Proofs about RealmConversation, for any number of chats, rounds, clears *)
(* and failures, any quiet hours and any gap.                              *)
(*                                                                         *)
(* Conversation, the types and the exclusion of a turn that is between its *)
(* two transactions, is invariant of itself; each of the other invariants  *)
(* is shown from it and from those before.                                 *)
(***************************************************************************)
EXTENDS RealmConversation, TLAPS, FiniteSetTheorems, FunctionTheorems

-----------------------------------------------------------------------------
(* Rows and the transcript that is read from them *)

Rows == UNION {[S -> Turn] : S \in SUBSET Nat}

\* Of the naturals below x there are x.
LEMMA Below ==
  ASSUME NEW n \in Nat
  PROVE  IsFiniteSet(0 .. n - 1) /\ Cardinality(0 .. n - 1) = n
BY FS_Interval

\* In a finite set of naturals each place is taken: the i-th has i - 1 before it.
LEMMA Ranks ==
  ASSUME NEW S \in SUBSET Nat, IsFiniteSet(S), NEW i \in 1 .. Cardinality(S)
  PROVE  \E s \in S : Cardinality({z \in S : z < s}) = i - 1
<1> DEFINE before(s) == {z \in S : z < s}
           n == Cardinality(S)
           rank == [s \in S |-> Cardinality(before(s))]
           T == 0 .. n - 1
<1>1. n \in Nat
  BY FS_CardinalityType
<1>2. \A s \in S : IsFiniteSet(before(s)) /\ Cardinality(before(s)) \in Nat
  <2>1. SUFFICES ASSUME NEW s \in S
                 PROVE  IsFiniteSet(before(s)) /\ Cardinality(before(s)) \in Nat
    OBVIOUS
  <2>2. before(s) \in SUBSET S
    OBVIOUS
  <2>3. IsFiniteSet(before(s))
    BY <2>2, FS_Subset
  <2>4. QED
    BY <2>3, FS_CardinalityType
<1>3. ASSUME NEW s \in S PROVE Cardinality(before(s)) < n
  <2>1. before(s) \in SUBSET S /\ s \notin before(s)
    OBVIOUS
  <2>2. Cardinality(before(s)) <= n /\ (n = Cardinality(before(s)) => S = before(s))
    BY <2>1, FS_Subset
  <2>3. QED
    BY <1>1, <1>2, <2>1, <2>2
<1>4. ASSUME NEW s \in S, NEW t \in S, s < t
      PROVE  Cardinality(before(s)) < Cardinality(before(t))
  <2>1. before(s) \in SUBSET before(t) /\ s \in before(t) /\ s \notin before(s)
    <3>1. s \in Nat /\ t \in Nat /\ \A z \in S : z \in Nat
      OBVIOUS
    <3>2. \A z \in S : z < s => z < t
      BY <1>4, <3>1
    <3>3. before(s) \in SUBSET before(t)
      BY <3>2
    <3>4. s \in before(t) /\ s \notin before(s)
      BY <1>4, <3>1
    <3>5. QED
      BY <3>3, <3>4
  <2>2. /\ Cardinality(before(s)) <= Cardinality(before(t))
        /\ Cardinality(before(t)) = Cardinality(before(s)) => before(t) = before(s)
    BY <1>2, <2>1, FS_Subset
  <2>3. QED
    BY <1>2, <2>1, <2>2
<1>5. rank \in [S -> T]
  BY <1>1, <1>2, <1>3
<1>6. \A s, t \in S : rank[s] = rank[t] => s = t
  <2>1. SUFFICES ASSUME NEW s \in S, NEW t \in S, s # t PROVE rank[s] # rank[t]
    OBVIOUS
  <2>2. rank[s] = Cardinality(before(s)) /\ rank[t] = Cardinality(before(t))
    OBVIOUS
  <2>3. s < t \/ t < s
    BY <2>1
  <2>4. rank[s] \in Nat /\ rank[t] \in Nat
    BY <1>2, <2>2
  <2> HIDE DEF before, rank
  <2>5. QED
    BY <1>4, <2>2, <2>3, <2>4
<1>7. rank \in Injection(S, T)
  BY <1>5, <1>6 DEF Injection, IsInjective
<1>8. IsFiniteSet(T) /\ Cardinality(T) = n
  BY <1>1, Below
<1>9. rank \in Surjection(S, T)
  BY <1>7, <1>8, FS_Injection
<1>10. i - 1 \in T
  BY <1>1
<1>11. PICK s \in S : rank[s] = i - 1
  BY <1>9, <1>10 DEF Surjection
<1>12. QED
  BY <1>11

LEMMA RowsFacts ==
  ASSUME NEW rows \in Rows
  PROVE  DOMAIN rows \in SUBSET Nat /\ \A s \in DOMAIN rows : rows[s] \in Turn
BY DEF Rows

\* loadState reads every turn from a row.
LEMMA LoadedFacts ==
  ASSUME NEW rows \in Rows, IsFiniteSet(DOMAIN rows)
  PROVE  /\ Cardinality(DOMAIN rows) \in Nat
         /\ Loaded(rows) \in Seq(Turn)
         /\ Len(Loaded(rows)) = Cardinality(DOMAIN rows)
         /\ \A i \in 1 .. Cardinality(DOMAIN rows) :
              \E s \in DOMAIN rows : Loaded(rows)[i] = rows[s]
<1> DEFINE n == Cardinality(DOMAIN rows)
           place(i) == CHOOSE s \in DOMAIN rows : Cardinality({z \in DOMAIN rows : z < s}) = i - 1
<1>1. n \in Nat
  BY FS_CardinalityType
<1>2. \A i \in 1 .. n : place(i) \in DOMAIN rows
  BY RowsFacts, Ranks
<1>3. Loaded(rows) = [i \in 1 .. n |-> rows[place(i)]]
  BY DEF Loaded
<1> HIDE DEF place
<1>4. \A i \in 1 .. n : rows[place(i)] \in Turn
  BY <1>2, RowsFacts
<1>5. Loaded(rows) \in [1 .. n -> Turn]
  BY <1>3, <1>4
<1>6. Loaded(rows) \in Seq(Turn) /\ Len(Loaded(rows)) = n
  BY <1>1, <1>5
<1>7. QED
  BY <1>1, <1>2, <1>3, <1>6

\* Rows without a gap are read in their order.
LEMMA LoadedInOrder ==
  ASSUME NEW rows \in Rows, NEW n \in Nat, DOMAIN rows = 0 .. n - 1
  PROVE  Len(Loaded(rows)) = n /\ \A i \in 1 .. n : Loaded(rows)[i] = rows[i - 1]
<1>1. IsFiniteSet(DOMAIN rows) /\ Cardinality(DOMAIN rows) = n
  BY Below
<1>2. Len(Loaded(rows)) = n
  BY <1>1, LoadedFacts
<1>3. ASSUME NEW s \in 0 .. n - 1
      PROVE  Cardinality({z \in DOMAIN rows : z < s}) = s
  <2> DEFINE earlier == {z \in DOMAIN rows : z < s}
  <2>1. earlier = 0 .. s - 1
    OBVIOUS
  <2>2. s \in Nat
    OBVIOUS
  <2> HIDE DEF earlier
  <2>3. Cardinality(earlier) = s
    BY <2>1, <2>2, Below
  <2>4. QED
    BY <2>3 DEF earlier
<1>4. ASSUME NEW i \in 1 .. n
      PROVE  (CHOOSE s \in DOMAIN rows : Cardinality({z \in DOMAIN rows : z < s}) = i - 1) = i - 1
  <2>1. i - 1 \in DOMAIN rows /\ Cardinality({z \in DOMAIN rows : z < i - 1}) = i - 1
    BY <1>3
  <2>2. \A s \in DOMAIN rows : Cardinality({z \in DOMAIN rows : z < s}) = i - 1 => s = i - 1
    BY <1>3
  <2>3. QED
    BY <2>1, <2>2
<1>5. ASSUME NEW i \in 1 .. n PROVE Loaded(rows)[i] = rows[i - 1]
  BY <1>1, <1>4 DEF Loaded
<1>6. QED
  BY <1>2, <1>5

\* upsertTurns writes the new turns after the array in memory, and nothing else.
LEMMA UpsertedFacts ==
  ASSUME memory.turns \in Seq(Turn), NEW rows \in Rows, IsFiniteSet(DOMAIN rows),
         NEW turns \in Seq(Turn)
  PROVE  LET base == Len(memory.turns)
             new == base .. base + Len(turns) - 1
             up == Upserted(rows, turns)
         IN  /\ up \in Rows /\ IsFiniteSet(DOMAIN up)
             /\ DOMAIN up = DOMAIN rows \cup new
             /\ \A s \in new : up[s] = turns[s - base + 1]
             /\ \A s \in DOMAIN rows \ new : up[s] = rows[s]
<1> DEFINE base == Len(memory.turns)
           new == base .. base + Len(turns) - 1
           up == Upserted(rows, turns)
<1>1. base \in Nat /\ Len(turns) \in Nat
  OBVIOUS
<1>2. up = [s \in DOMAIN rows \cup new |-> IF s \in new THEN turns[s - base + 1] ELSE rows[s]]
  BY DEF Upserted, BaseSeq
<1>3. \A s \in new : turns[s - base + 1] \in Turn
  <2>1. \A s \in new : s - base + 1 \in 1 .. Len(turns)
    BY <1>1
  <2>2. \A i \in 1 .. Len(turns) : turns[i] \in Turn
    BY <1>1
  <2>3. QED
    BY <2>1, <2>2
<1> HIDE DEF up
<1>4. up \in [DOMAIN rows \cup new -> Turn]
  BY <1>2, <1>3, RowsFacts
<1>5. DOMAIN rows \cup new \in SUBSET Nat
  BY <1>1, RowsFacts
<1>6. up \in Rows
  BY <1>4, <1>5 DEF Rows
<1>7. IsFiniteSet(new)
  BY <1>1, FS_Interval
<1>8. IsFiniteSet(DOMAIN rows \cup new)
  BY <1>7, FS_Union
<1>9. DOMAIN up = DOMAIN rows \cup new
  BY <1>4
<1>10. IsFiniteSet(DOMAIN up)
  BY <1>8, <1>9
<1>11. QED
  BY <1>2, <1>6, <1>9, <1>10 DEF up
-----------------------------------------------------------------------------
(* Types, and what each action does *)

ChatType == [stage : ChatStages, at : Times, gen : Nat, prompt : SUBSET Turn, landedIn : Nat]
RoundType == [stage : RoundStages, at : Times, gen : Nat, alone : BOOLEAN]
EntryType == [read : BOOLEAN, alone : BOOLEAN, epoch : Nat]
Entries == UNION {[S -> EntryType] : S \in SUBSET Times}

MemoryType == [turns : Seq(Turn), remembered : SUBSET Chats]
TableType == [turns : Rows, remembered : SUBSET Chats, messages : Entries]

Typed ==
  /\ clock \in Times
  /\ memory \in MemoryType
  /\ table \in TableType /\ IsFiniteSet(DOMAIN table.turns)
  /\ generation \in Nat
  /\ chat \in [Chats -> ChatType]
  /\ round \in [Rounds -> RoundType]
  /\ ticked \in 0 .. LastTime
  /\ epoch \in Nat
  /\ kept \in SUBSET Chats
  /\ failures \in 0 .. MaxFailures

LEMMA ConstantFacts ==
  /\ LastTime \in Nat \ {0} /\ 1 \in Times /\ Times \subseteq Nat
  /\ "herself" \notin Chats /\ IsFiniteSet(Chats)
  /\ Gap \in Nat \ {0} /\ MaxFailures \in Nat
BY ConversationAssumption DEF Times

LEMMA EntriesFacts ==
  ASSUME NEW messages \in Entries
  PROVE  DOMAIN messages \in SUBSET Times /\ \A t \in DOMAIN messages : messages[t] \in EntryType
BY DEF Entries

LEMMA FailsFacts ==
  ASSUME Typed, Fails
  PROVE  failures' \in 0 .. MaxFailures /\ failures' # 0
BY ConstantFacts DEF Typed, Fails

\* What is left of a chat whose request failed.
LEMMA ForgottenFacts ==
  /\ Forgotten \in ChatType
  /\ Forgotten.stage = "failed" /\ Forgotten.at = 1 /\ Forgotten.landedIn = 0
BY ConstantFacts DEF Forgotten, NoChat, ChatType, ChatStages

LEMMA LandsFacts ==
  ASSUME Typed, NEW c \in Chats, NEW stage \in ChatStages, Lands(c, stage)
  PROVE  /\ chat' \in [Chats -> ChatType]
         /\ chat'[c].stage = stage /\ chat'[c].at = chat[c].at /\ chat'[c].landedIn = epoch
         /\ \A d \in Chats : d # c => chat'[d] = chat[d]
<1>1. chat \in [Chats -> ChatType] /\ chat[c] \in ChatType /\ epoch \in Nat
  BY DEF Typed
<1> DEFINE mine == [NoChat EXCEPT !.stage = stage, !.at = chat[c].at, !.landedIn = epoch]
<1>2. chat' = [chat EXCEPT ![c] = mine]
  BY DEF Lands
<1>3. mine \in ChatType /\ mine.stage = stage /\ mine.at = chat[c].at /\ mine.landedIn = epoch
  BY <1>1 DEF ChatType, NoChat
<1> HIDE DEF mine
<1>4. QED
  BY <1>1, <1>2, <1>3

LEMMA AskFacts ==
  ASSUME Typed, NEW c \in Chats, Ask(c)
  PROVE  /\ chat' \in [Chats -> ChatType]
         /\ chat[c].stage = "none" /\ chat'[c].stage = "asked"
         /\ chat'[c].prompt = CharacterVisibleHistory /\ chat'[c].landedIn = 0
         /\ \A d \in Chats : d # c => chat'[d] = chat[d]
         /\ UNCHANGED <<clock, memory, table, generation, round, ticked, epoch, kept, failures>>
<1> DEFINE mine == [NoChat EXCEPT !.stage = "asked", !.at = clock, !.gen = generation,
                                  !.prompt = CharacterVisibleHistory]
<1>1. CharacterVisibleHistory \subseteq Turn
  <2>1. memory.turns \in Seq(Turn)
    BY DEF Typed, MemoryType
  <2>2. \A i \in DOMAIN memory.turns : memory.turns[i] \in Turn
    BY <2>1
  <2>3. QED
    BY <2>2 DEF CharacterVisibleHistory
<1> HIDE DEF CharacterVisibleHistory
<1>2. /\ mine \in ChatType
      /\ mine.stage = "asked" /\ mine.prompt = CharacterVisibleHistory /\ mine.landedIn = 0
  BY <1>1 DEF Typed, ChatType, ChatStages, NoChat
<1>3. chat' = [chat EXCEPT ![c] = mine]
  BY DEF Ask
<1> HIDE DEF mine
<1>4. QED
  BY <1>2, <1>3 DEF Typed, Ask, history

\* The reply is there, or the request failed.
LEMMA AnswerFacts ==
  ASSUME Typed, NEW c \in Chats, Reply(c) \/ ChatFails(c)
  PROVE  /\ chat' \in [Chats -> ChatType]
         /\ chat[c].stage \in {"asked", "replied"} /\ chat'[c].stage \in {"replied", "failed"}
         /\ chat'[c].landedIn \in {0, chat[c].landedIn}
         /\ \A d \in Chats : d # c => chat'[d] = chat[d]
         /\ UNCHANGED <<clock, memory, table, generation, round, ticked, epoch, kept, failures>>
<1>1. CASE Reply(c)
  <2> DEFINE mine == [chat[c] EXCEPT !.stage = "replied", !.prompt = {}]
  <2>1. /\ chat' = [chat EXCEPT ![c].stage = "replied", ![c].prompt = {}]
        /\ chat[c].stage = "asked"
        /\ UNCHANGED <<clock, memory, table, generation, round, ticked, epoch, kept, failures>>
    BY <1>1 DEF Reply, history
  <2>2. chat \in [Chats -> ChatType] /\ chat[c] \in ChatType
    BY DEF Typed
  <2>3. chat' = [chat EXCEPT ![c] = mine]
    BY <2>1, <2>2 DEF ChatType
  <2>4. mine \in ChatType /\ mine.stage = "replied" /\ mine.landedIn = chat[c].landedIn
    BY <2>2 DEF ChatType, ChatStages
  <2> HIDE DEF mine
  <2>5. QED
    BY <2>1, <2>2, <2>3, <2>4
<1>2. CASE ChatFails(c)
  <2>1. /\ chat' = [chat EXCEPT ![c] = Forgotten] /\ chat[c].stage \in {"asked", "replied"}
        /\ UNCHANGED <<clock, memory, table, generation, round, ticked, epoch, kept, failures>>
    BY <1>2 DEF ChatFails, history
  <2>2. QED
    BY <2>1, ForgottenFacts DEF Typed
<1>3. QED
  BY <1>1, <1>2

\* The turns that an exchange adds.
LEMMA ExchangeFacts ==
  ASSUME Typed, NEW c \in Chats
  PROVE  /\ Question(c) \in Turn /\ Answer(c) \in Turn
         /\ <<Question(c)>> \in Seq(Turn) /\ Len(<<Question(c)>>) = 1
         /\ <<Question(c), Answer(c)>> \in Seq(Turn) /\ Len(<<Question(c), Answer(c)>>) = 2
         /\ Question(c).by = c /\ Question(c).at = chat[c].at
         /\ Answer(c).by = c /\ Answer(c).at = chat[c].at
<1>1. chat[c].at \in Times
  BY DEF Typed, ChatType
<1>2. Question(c) \in Turn /\ Answer(c) \in Turn
  BY <1>1 DEF Question, Answer, Turn
<1>3. /\ Question(c).by = c /\ Question(c).at = chat[c].at
      /\ Answer(c).by = c /\ Answer(c).at = chat[c].at
  BY DEF Question, Answer
<1>4. QED
  BY <1>2, <1>3

\* Turns are added to the array, and to the table unless the transaction fails.
Appends(turns) ==
  /\ memory'.turns = memory.turns \o turns
  /\ \/ table'.turns = Upserted(table.turns, turns) /\ UNCHANGED failures
     \/ UNCHANGED table /\ failures' # 0

Exchange(c, leak) == IF leak THEN <<Question(c)>> ELSE <<Question(c), Answer(c)>>

LEMMA StoreFacts ==
  ASSUME Typed, NEW c \in Chats, Store(c)
  PROVE  /\ ~Busy /\ chat[c].stage = "replied"
         /\ memory' \in MemoryType /\ table' \in TableType /\ IsFiniteSet(DOMAIN table'.turns)
         /\ failures' \in 0 .. MaxFailures
         /\ \E leak \in BOOLEAN :
              /\ Appends(Exchange(c, leak))
              /\ chat'[c].stage = "stored" => ~leak /\ UNCHANGED failures
         /\ memory'.remembered = memory.remembered \cup {c}
         /\ table'.messages = table.messages
         /\ \/ table'.remembered = table.remembered \cup {c}
            \/ UNCHANGED table /\ failures' # 0
         /\ chat' \in [Chats -> ChatType] /\ chat'[c].stage \in {"stored", "leaked", "failed"}
         /\ chat'[c].at = chat[c].at /\ chat'[c].landedIn = epoch
         /\ \A d \in Chats : d # c => chat'[d] = chat[d]
         /\ UNCHANGED <<clock, generation, round, ticked, epoch, kept>>
<1>1. PICK leak \in BOOLEAN :
        /\ memory' = [Pushed(Exchange(c, leak)) EXCEPT !.remembered = @ \cup {c}]
        /\ \/ /\ table' = [table EXCEPT !.turns = Upserted(@, Exchange(c, leak)),
                                        !.remembered = @ \cup {c}]
              /\ Lands(c, IF leak THEN "leaked" ELSE "stored")
              /\ UNCHANGED failures
           \/ /\ Fails
              /\ Lands(c, "failed")
              /\ UNCHANGED table
  BY DEF Store, Exchange
<1>2. /\ ~Busy /\ chat[c].stage = "replied"
      /\ UNCHANGED <<clock, generation, round, ticked, epoch, kept>>
  BY DEF Store
<1> DEFINE turns == Exchange(c, leak)
<1>3. turns \in Seq(Turn)
  BY ExchangeFacts DEF Exchange
<1>4. memory \in MemoryType /\ table \in TableType /\ IsFiniteSet(DOMAIN table.turns)
  BY DEF Typed
<1>5. /\ memory' = [memory EXCEPT !.turns = memory.turns \o turns,
                                  !.remembered = memory.remembered \cup {c}]
  BY <1>1, <1>4 DEF Pushed, MemoryType
<1> HIDE DEF turns
<1>6. memory.turns \o turns \in Seq(Turn)
  BY <1>3, <1>4 DEF MemoryType
<1>7. /\ memory' \in MemoryType /\ memory'.turns = memory.turns \o turns
      /\ memory'.remembered = memory.remembered \cup {c}
  BY <1>4, <1>5, <1>6 DEF MemoryType
<1>8. CASE /\ table' = [table EXCEPT !.turns = Upserted(table.turns, turns),
                                     !.remembered = table.remembered \cup {c}]
           /\ Lands(c, IF leak THEN "leaked" ELSE "stored")
           /\ UNCHANGED failures
  <2>1. Upserted(table.turns, turns) \in Rows /\ IsFiniteSet(DOMAIN Upserted(table.turns, turns))
    BY <1>3, <1>4, UpsertedFacts DEF MemoryType, TableType
  <2>2. /\ table' \in TableType /\ table'.turns = Upserted(table.turns, turns)
        /\ table'.remembered = table.remembered \cup {c} /\ table'.messages = table.messages
    BY <1>4, <1>8, <2>1 DEF TableType
  <2>3. (IF leak THEN "leaked" ELSE "stored") \in ChatStages
    BY DEF ChatStages
  <2>4. /\ chat' \in [Chats -> ChatType]
        /\ chat'[c].stage = IF leak THEN "leaked" ELSE "stored"
        /\ chat'[c].at = chat[c].at /\ chat'[c].landedIn = epoch
        /\ \A d \in Chats : d # c => chat'[d] = chat[d]
    BY <1>8, <2>3, LandsFacts
  <2>5. failures' \in 0 .. MaxFailures
    BY <1>8 DEF Typed
  <2>6. QED
    BY <1>2, <1>7, <1>8, <2>1, <2>2, <2>4, <2>5 DEF Appends, turns
<1>9. CASE Fails /\ Lands(c, "failed") /\ UNCHANGED table
  <2>1. "failed" \in ChatStages
    BY DEF ChatStages
  <2>2. /\ chat' \in [Chats -> ChatType] /\ chat'[c].stage = "failed"
        /\ chat'[c].at = chat[c].at /\ chat'[c].landedIn = epoch
        /\ \A d \in Chats : d # c => chat'[d] = chat[d]
    BY <1>9, <2>1, LandsFacts
  <2>3. QED
    BY <1>2, <1>4, <1>7, <1>9, <2>2, FailsFacts DEF Appends, turns
<1>10. QED
  BY <1>1, <1>8, <1>9 DEF turns

\* markProactiveRead marks, and changes nothing else.
LEMMA MarkedReadFacts ==
  ASSUME NEW messages \in Entries
  PROVE  /\ MarkedRead(messages) \in Entries
         /\ DOMAIN MarkedRead(messages) = DOMAIN messages
         /\ \A t \in DOMAIN messages : /\ MarkedRead(messages)[t].alone = messages[t].alone
                                       /\ MarkedRead(messages)[t].epoch = messages[t].epoch
<1> DEFINE marked(t) == [messages[t] EXCEPT !.read = TRUE]
<1>1. \A t \in DOMAIN messages : /\ marked(t) \in EntryType
                                 /\ marked(t).alone = messages[t].alone
                                 /\ marked(t).epoch = messages[t].epoch
  <2>1. SUFFICES ASSUME NEW t \in DOMAIN messages
                 PROVE  /\ marked(t) \in EntryType
                        /\ marked(t).alone = messages[t].alone
                        /\ marked(t).epoch = messages[t].epoch
    OBVIOUS
  <2>2. messages[t] \in EntryType
    BY EntriesFacts
  <2>3. QED
    BY <2>2 DEF EntryType
<1>2. MarkedRead(messages) = [t \in DOMAIN messages |-> marked(t)]
  BY DEF MarkedRead
<1> HIDE DEF marked
<1>3. MarkedRead(messages) \in [DOMAIN messages -> EntryType]
  BY <1>1, <1>2
<1>4. QED
  BY <1>1, <1>2, <1>3, EntriesFacts DEF Entries

\* Nothing that a chat, a turn or an entry was said of changes.
Still ==
  /\ UNCHANGED <<memory, chat, epoch, kept, failures>>
  /\ table'.turns = table.turns /\ table'.remembered = table.remembered
  /\ DOMAIN table'.messages = DOMAIN table.messages
  /\ \A t \in DOMAIN table.messages : /\ table'.messages[t].alone = table.messages[t].alone
                                      /\ table'.messages[t].epoch = table.messages[t].epoch

LEMMA FinishFacts ==
  ASSUME Typed, NEW c \in Chats, Finish(c)
  PROVE  /\ chat[c].stage = "stored"
         /\ table' \in TableType
         /\ table'.turns = table.turns /\ table'.remembered = table.remembered
         /\ DOMAIN table'.messages = DOMAIN table.messages
         /\ \A t \in DOMAIN table.messages :
              /\ table'.messages[t].alone = table.messages[t].alone
              /\ table'.messages[t].epoch = table.messages[t].epoch
         /\ failures' \in 0 .. MaxFailures /\ (failures' = failures \/ failures' # 0)
         /\ chat' \in [Chats -> ChatType] /\ chat'[c].stage \in {"applied", "failed"}
         /\ chat'[c].at = chat[c].at /\ chat'[c].landedIn = chat[c].landedIn
         /\ \A d \in Chats : d # c => chat'[d] = chat[d]
         /\ UNCHANGED <<clock, memory, generation, round, ticked, epoch, kept>>
<1>1. /\ chat[c].stage = "stored"
      /\ UNCHANGED <<clock, memory, generation, round, ticked, epoch, kept>>
  BY DEF Finish, history
<1>2. table \in TableType /\ table.messages \in Entries /\ failures \in 0 .. MaxFailures
  BY DEF Typed, TableType
<1>3. ASSUME NEW stage \in {"applied", "failed"}, chat' = [chat EXCEPT ![c].stage = stage]
      PROVE  /\ chat' \in [Chats -> ChatType] /\ chat'[c].stage = stage
             /\ chat'[c].at = chat[c].at /\ chat'[c].landedIn = chat[c].landedIn
             /\ \A d \in Chats : d # c => chat'[d] = chat[d]
  <2> DEFINE mine == [chat[c] EXCEPT !.stage = stage]
  <2>1. chat \in [Chats -> ChatType] /\ chat[c] \in ChatType
    BY DEF Typed
  <2>2. /\ mine \in ChatType /\ mine.stage = stage
        /\ mine.at = chat[c].at /\ mine.landedIn = chat[c].landedIn
    BY <2>1 DEF ChatType, ChatStages
  <2>3. chat' = [chat EXCEPT ![c] = mine]
    BY <1>3
  <2> HIDE DEF mine
  <2>4. QED
    BY <2>1, <2>2, <2>3
<1>4. CASE /\ table' = [table EXCEPT !.messages = MarkedRead(table.messages)]
           /\ chat' = [chat EXCEPT ![c].stage = "applied"]
           /\ UNCHANGED failures
  <2> DEFINE marked == MarkedRead(table.messages)
  <2>1. marked \in Entries
    BY <1>2, MarkedReadFacts
  <2>2. /\ table' \in TableType /\ table'.turns = table.turns
        /\ table'.remembered = table.remembered /\ table'.messages = marked
    <3> HIDE DEF marked
    <3>1. table' = [table EXCEPT !.messages = marked]
      BY <1>4 DEF marked
    <3>2. QED
      BY <1>2, <2>1, <3>1 DEF TableType
  <2>3. QED
    BY <1>1, <1>2, <1>3, <1>4, <2>2, MarkedReadFacts
<1>5. CASE Fails /\ chat' = [chat EXCEPT ![c].stage = "failed"] /\ UNCHANGED table
  BY <1>1, <1>2, <1>3, <1>5, FailsFacts
<1>6. QED
  BY <1>4, <1>5 DEF Finish

\* The table is cleared, or the DELETE fails, or what an earlier one left is kept.
LEMMA ClearFacts ==
  ASSUME Typed, NewConversation
  PROVE  /\ ~Busy
         /\ memory' \in MemoryType /\ memory'.turns = <<>>
         /\ memory'.remembered = memory.remembered
         /\ table' \in TableType /\ IsFiniteSet(DOMAIN table'.turns)
         /\ table'.remembered = table.remembered /\ table'.messages = table.messages
         /\ \/ /\ table'.turns = <<>> /\ epoch' = epoch + 1
               /\ UNCHANGED failures
            \/ /\ UNCHANGED <<table, epoch, kept>>
               /\ failures' # 0
            \/ /\ memory.turns = <<>> /\ DOMAIN table.turns # {}
               /\ epoch' = epoch + 1 /\ kept' = Speakers(table.turns)
               /\ UNCHANGED <<table, failures>>
         /\ failures' \in 0 .. MaxFailures /\ epoch' \in Nat /\ kept' \in SUBSET Chats
         /\ UNCHANGED <<clock, generation, chat, round, ticked>>
<1>1. ~Busy /\ UNCHANGED <<clock, generation, chat, round, ticked>>
  BY DEF NewConversation
<1>2. /\ memory \in MemoryType /\ table \in TableType /\ IsFiniteSet(DOMAIN table.turns)
      /\ epoch \in Nat /\ kept \in SUBSET Chats /\ failures \in 0 .. MaxFailures
  BY DEF Typed
<1>3. ASSUME memory' = [memory EXCEPT !.turns = <<>>]
      PROVE  /\ memory' \in MemoryType /\ memory'.turns = <<>>
             /\ memory'.remembered = memory.remembered
  <2>1. <<>> \in Seq(Turn)
    OBVIOUS
  <2>2. QED
    BY <1>2, <1>3, <2>1 DEF MemoryType
<1>4. CASE /\ memory' = [memory EXCEPT !.turns = <<>>]
           /\ table' = [table EXCEPT !.turns = <<>>]
           /\ epoch' = epoch + 1
           /\ kept' = {}
           /\ UNCHANGED failures
  <2>1. DOMAIN <<>> = {} /\ <<>> \in [{} -> Turn]
    OBVIOUS
  <2>2. <<>> \in Rows
    BY <2>1 DEF Rows
  <2>3. IsFiniteSet(DOMAIN <<>>)
    BY <2>1, FS_EmptySet
  <2>4. /\ table' \in TableType /\ table'.turns = <<>>
        /\ table'.remembered = table.remembered /\ table'.messages = table.messages
    BY <1>2, <1>4, <2>2 DEF TableType
  <2>5. QED
    BY <1>1, <1>2, <1>3, <1>4, <2>3, <2>4
<1>5. CASE /\ memory' = [memory EXCEPT !.turns = <<>>]
           /\ Fails /\ UNCHANGED <<table, history>>
  BY <1>1, <1>2, <1>3, <1>5, FailsFacts DEF history
<1>6. CASE /\ memory.turns = <<>> /\ DOMAIN table.turns # {}
           /\ epoch' = epoch + 1 /\ kept' = Speakers(table.turns)
           /\ UNCHANGED <<memory, table, failures>>
  <2>1. \A s \in DOMAIN table.turns : table.turns[s].by \in Chats \cup {"herself"}
    BY <1>2, RowsFacts DEF TableType, Turn
  <2>2. Speakers(table.turns) \in SUBSET Chats
    BY <2>1 DEF Speakers
  <2>3. QED
    BY <1>1, <1>2, <1>6, <2>2
<1>7. QED
  BY <1>4, <1>5, <1>6 DEF NewConversation

\* Time, the story and read marks.
LEMMA QuietFacts ==
  ASSUME Typed, ReadMessages \/ StoryMoves \/ TimePasses
  PROVE  Typed' /\ Still /\ UNCHANGED <<round, ticked>> /\ clock' >= clock
<1>1. CASE ReadMessages
  <2>1. /\ table' = [table EXCEPT !.messages = MarkedRead(table.messages)]
        /\ UNCHANGED <<clock, memory, generation, chat, round, ticked, epoch, kept, failures>>
    BY <1>1 DEF ReadMessages, history
  <2>2. table \in TableType /\ table.messages \in Entries /\ clock \in Nat
    BY ConstantFacts DEF Typed, TableType
  <2> DEFINE marked == MarkedRead(table.messages)
  <2>3. marked \in Entries
    BY <2>2, MarkedReadFacts
  <2>4. /\ table' \in TableType /\ table'.turns = table.turns
        /\ table'.remembered = table.remembered /\ table'.messages = marked
    <3> HIDE DEF marked
    <3>1. table' = [table EXCEPT !.messages = marked]
      BY <2>1 DEF marked
    <3>2. QED
      BY <2>2, <2>3, <3>1 DEF TableType
  <2>5. QED
    BY <2>1, <2>2, <2>4, MarkedReadFacts DEF Still, Typed
<1>2. CASE StoryMoves
  BY <1>2, ConstantFacts DEF StoryMoves, Still, Typed, history
<1>3. CASE TimePasses
  <2>1. clock' = clock + 1 /\ clock < LastTime /\ clock \in 1 .. LastTime
        /\ UNCHANGED <<memory, table, generation, chat, round, ticked, epoch, kept, failures>>
    BY <1>3 DEF TimePasses, Typed, Times, history
  <2>2. clock' \in Times /\ clock' >= clock
    BY <2>1, ConstantFacts DEF Times
  <2>3. QED
    BY <2>1, <2>2 DEF Still, Typed
<1>4. QED
  BY <1>1, <1>2, <1>3

LEMMA NoRoundFacts ==
  NoRound \in RoundType /\ NoRound.stage = "idle"
BY ConstantFacts DEF NoRound, RoundType, RoundStages

LEMMA RoundStartsFacts ==
  ASSUME Typed, NEW r \in Rounds, RoundStarts(r)
  PROVE  /\ ~Busy /\ Typed' /\ Still
         /\ round[r].stage = "idle" /\ round'[r].stage = "living" /\ round'[r].at = clock
         /\ clock > ticked /\ ticked' = clock
         /\ \A s \in Rounds : s # r => round'[s] = round[s]
         /\ UNCHANGED <<clock, table>>
<1> DEFINE mine == [stage |-> "living", at |-> clock, gen |-> generation, alone |-> TRUE]
<1>1. /\ ~Busy /\ round[r].stage = "idle" /\ clock > ticked /\ ticked' = clock
      /\ round' = [round EXCEPT ![r] = mine]
      /\ UNCHANGED <<clock, memory, table, generation, chat, epoch, kept, failures>>
  BY DEF RoundStarts, history
<1>2. mine \in RoundType /\ mine.stage = "living" /\ mine.at = clock
  BY DEF Typed, RoundType, RoundStages
<1> HIDE DEF mine
<1>3. round \in [Rounds -> RoundType] /\ clock \in 1 .. LastTime
  BY DEF Typed, Times
<1>4. round' \in [Rounds -> RoundType] /\ ticked' \in 0 .. LastTime
      /\ round'[r] = mine /\ \A s \in Rounds : s # r => round'[s] = round[s]
  BY <1>1, <1>2, <1>3
<1>5. QED
  BY <1>1, <1>2, <1>4 DEF Typed, Still

\* The round ends, or goes on to write a message.
LEMMA DecideFacts ==
  ASSUME Typed, NEW r \in Rounds, Decide(r) \/ NotSent(r)
  PROVE  /\ ~Busy /\ Typed' /\ Still
         /\ round[r].stage \in {"living", "writing"}
         /\ \/ /\ round[r].stage = "living" /\ MaySend(round[r].at)
               /\ round'[r].stage = "writing" /\ round'[r].at = round[r].at
               /\ round'[r].alone = \A s \in Rounds : round[s].stage # "writing"
            \/ round'[r].stage = "idle"
         /\ \A s \in Rounds : s # r => round'[s] = round[s]
         /\ UNCHANGED <<clock, table, ticked>>
<1>1. /\ ~Busy /\ round[r].stage \in {"living", "writing"}
      /\ UNCHANGED <<clock, memory, table, generation, chat, ticked, epoch, kept, failures>>
  BY DEF Decide, NotSent, history
<1>2. Still
  BY <1>1 DEF Still
<1>3. round \in [Rounds -> RoundType] /\ round[r] \in RoundType
  BY DEF Typed
<1>4. CASE round' = [round EXCEPT ![r] = NoRound]
  <2>1. /\ round' \in [Rounds -> RoundType] /\ round'[r].stage = "idle"
        /\ \A s \in Rounds : s # r => round'[s] = round[s]
    BY <1>3, <1>4, NoRoundFacts
  <2>2. QED
    BY <1>1, <1>2, <2>1 DEF Typed
<1>5. CASE /\ round[r].stage = "living" /\ MaySend(round[r].at)
           /\ round' = [round EXCEPT ![r].stage = "writing",
                          ![r].alone = \A s \in Rounds : round[s].stage # "writing"]
  <2> DEFINE single == \A s \in Rounds : round[s].stage # "writing"
             mine == [round[r] EXCEPT !.stage = "writing", !.alone = single]
  <2>1. single \in BOOLEAN
    BY Zenon
  <2>2. round' = [round EXCEPT ![r] = mine]
    <3> HIDE DEF single
    <3>1. round' = [round EXCEPT ![r].stage = "writing", ![r].alone = single]
      BY <1>5 DEF single
    <3>2. QED
      BY <1>3, <3>1 DEF RoundType
  <2>3. /\ mine \in RoundType /\ mine.stage = "writing" /\ mine.at = round[r].at
        /\ mine.alone = single
    <3> HIDE DEF single
    <3>1. QED
      BY <1>3, <2>1 DEF RoundType, RoundStages
  <2> HIDE DEF mine
  <2>4. /\ round' \in [Rounds -> RoundType] /\ round'[r] = mine
        /\ \A s \in Rounds : s # r => round'[s] = round[s]
    BY <1>3, <2>2, <2>3
  <2>5. Typed'
    BY <1>1, <2>4 DEF Typed
  <2>6. QED
    BY <1>1, <1>2, <1>5, <2>3, <2>4, <2>5
<1>6. QED
  BY <1>4, <1>5 DEF Decide, NotSent, RoundOver

\* The turn that a message of hers adds.
Message(r) == [by |-> "herself", role |-> "agent", at |-> round[r].at]

LEMMA SendFacts ==
  ASSUME Typed, NEW r \in Rounds, Send(r)
  PROVE  /\ ~Busy /\ round[r].stage = "writing"
         /\ Message(r) \in Turn
         /\ Appends(<<Message(r)>>)
         /\ memory' \in MemoryType /\ memory'.remembered = memory.remembered
         /\ table' \in TableType /\ IsFiniteSet(DOMAIN table'.turns)
         /\ table'.remembered = table.remembered /\ table'.messages = table.messages
         /\ round' \in [Rounds -> RoundType]
         /\ \/ /\ round'[r].stage = "sent"
               /\ round'[r].at = round[r].at /\ round'[r].alone = round[r].alone
               /\ table'.turns = Upserted(table.turns, <<Message(r)>>)
               /\ UNCHANGED failures
            \/ /\ round'[r].stage = "idle"
               /\ UNCHANGED table /\ failures' # 0
         /\ \A s \in Rounds : s # r => round'[s] = round[s]
         /\ failures' \in 0 .. MaxFailures
         /\ UNCHANGED <<clock, generation, chat, ticked, epoch, kept>>
<1> DEFINE turns == <<Message(r)>>
<1>1. /\ ~Busy /\ round[r].stage = "writing"
      /\ UNCHANGED <<clock, generation, chat, ticked, epoch, kept>>
      /\ memory' = [memory EXCEPT !.turns = memory.turns \o turns]
      /\ \/ /\ table' = [table EXCEPT !.turns = Upserted(table.turns, turns)]
            /\ round' = [round EXCEPT ![r].stage = "sent"]
            /\ UNCHANGED failures
         \/ Fails /\ round' = [round EXCEPT ![r] = NoRound] /\ UNCHANGED table
  BY DEF Send, Message, RoundOver, Pushed
<1>2. /\ memory \in MemoryType /\ memory.turns \in Seq(Turn)
      /\ table \in TableType /\ table.turns \in Rows /\ IsFiniteSet(DOMAIN table.turns)
      /\ round \in [Rounds -> RoundType] /\ round[r] \in RoundType
      /\ failures \in 0 .. MaxFailures
  BY DEF Typed, MemoryType, TableType
<1>3. Message(r) \in Turn
  BY <1>2 DEF Message, Turn, RoundType
<1>4. turns \in Seq(Turn)
  BY <1>3
<1> HIDE DEF turns
<1>5. memory.turns \o turns \in Seq(Turn)
  BY <1>2, <1>4
<1>6. /\ memory' \in MemoryType /\ memory'.turns = memory.turns \o turns
      /\ memory'.remembered = memory.remembered
  BY <1>1, <1>2, <1>5 DEF MemoryType
<1>7. CASE /\ table' = [table EXCEPT !.turns = Upserted(table.turns, turns)]
           /\ round' = [round EXCEPT ![r].stage = "sent"]
           /\ UNCHANGED failures
  <2>1. Upserted(table.turns, turns) \in Rows /\ IsFiniteSet(DOMAIN Upserted(table.turns, turns))
    BY <1>2, <1>4, UpsertedFacts
  <2>2. /\ table' \in TableType /\ table'.turns = Upserted(table.turns, turns)
        /\ table'.remembered = table.remembered /\ table'.messages = table.messages
    BY <1>2, <1>7, <2>1 DEF TableType
  <2> DEFINE mine == [round[r] EXCEPT !.stage = "sent"]
  <2>3. mine \in RoundType /\ mine.stage = "sent" /\ mine.at = round[r].at
        /\ mine.alone = round[r].alone
    BY <1>2 DEF RoundType, RoundStages
  <2>4. round' = [round EXCEPT ![r] = mine]
    BY <1>7
  <2> HIDE DEF mine
  <2>5. /\ round' \in [Rounds -> RoundType] /\ round'[r] = mine
        /\ \A s \in Rounds : s # r => round'[s] = round[s]
    BY <1>2, <2>3, <2>4
  <2>6. QED
    BY <1>1, <1>2, <1>3, <1>6, <1>7, <2>1, <2>2, <2>3, <2>5 DEF Appends, turns
<1>8. CASE Fails /\ round' = [round EXCEPT ![r] = NoRound] /\ UNCHANGED table
  <2>1. /\ round' \in [Rounds -> RoundType] /\ round'[r].stage = "idle"
        /\ \A s \in Rounds : s # r => round'[s] = round[s]
    BY <1>2, <1>8, NoRoundFacts
  <2>2. QED
    BY <1>1, <1>2, <1>3, <1>6, <1>8, <2>1, FailsFacts DEF Appends, turns
<1>9. QED
  BY <1>1, <1>7, <1>8

LEMMA EnterFacts ==
  ASSUME Typed, NEW r \in Rounds, Enter(r)
  PROVE  LET now == round[r].at
         IN  /\ round[r].stage = "sent" /\ now \in Times
             /\ table' \in TableType
             /\ table'.turns = table.turns /\ table'.remembered = table.remembered
             /\ \/ /\ DOMAIN table'.messages = DOMAIN table.messages \cup {now}
                   /\ table'.messages[now].alone = round[r].alone
                   /\ table'.messages[now].epoch = epoch
                   /\ \A t \in DOMAIN table.messages \ {now} :
                        table'.messages[t] = table.messages[t]
                   /\ UNCHANGED failures
                \/ UNCHANGED table /\ failures' # 0
             /\ round' \in [Rounds -> RoundType] /\ round'[r].stage = "idle"
             /\ \A s \in Rounds : s # r => round'[s] = round[s]
             /\ failures' \in 0 .. MaxFailures
             /\ UNCHANGED <<clock, memory, generation, chat, ticked, epoch, kept>>
<1> DEFINE now == round[r].at
           mine == [read |-> FALSE, alone |-> round[r].alone, epoch |-> epoch]
           entered == [t \in DOMAIN table.messages \cup {now} |->
                         IF t = now THEN mine ELSE table.messages[t]]
<1>1. /\ round[r].stage = "sent"
      /\ round' = [round EXCEPT ![r] = NoRound]
      /\ UNCHANGED <<clock, memory, generation, chat, ticked, epoch, kept>>
      /\ \/ table' = [table EXCEPT !.messages = entered] /\ UNCHANGED failures
         \/ Fails /\ UNCHANGED table
  BY DEF Enter, RoundOver, history
<1>2. /\ table \in TableType /\ table.messages \in Entries
      /\ round \in [Rounds -> RoundType] /\ round[r] \in RoundType
      /\ failures \in 0 .. MaxFailures /\ epoch \in Nat
  BY DEF Typed, TableType
<1>3. /\ round' \in [Rounds -> RoundType] /\ round'[r].stage = "idle"
      /\ \A s \in Rounds : s # r => round'[s] = round[s]
  BY <1>1, <1>2, NoRoundFacts
<1>4. now \in Times /\ mine \in EntryType /\ mine.alone = round[r].alone /\ mine.epoch = epoch
  BY <1>2 DEF RoundType, EntryType
<1> HIDE DEF now, mine
<1>5. entered \in [DOMAIN table.messages \cup {now} -> EntryType]
  BY <1>2, <1>4, EntriesFacts
<1>6. entered \in Entries
  BY <1>2, <1>4, <1>5, EntriesFacts DEF Entries
<1>7. /\ DOMAIN entered = DOMAIN table.messages \cup {now} /\ entered[now] = mine
      /\ \A t \in DOMAIN table.messages \ {now} : entered[t] = table.messages[t]
  OBVIOUS
<1> HIDE DEF entered
<1>8. CASE table' = [table EXCEPT !.messages = entered] /\ UNCHANGED failures
  <2>1. /\ table' \in TableType /\ table'.turns = table.turns
        /\ table'.remembered = table.remembered /\ table'.messages = entered
    BY <1>2, <1>6, <1>8 DEF TableType
  <2>2. QED
    BY <1>1, <1>2, <1>3, <1>4, <1>7, <1>8, <2>1 DEF now
<1>9. CASE Fails /\ UNCHANGED table
  BY <1>1, <1>2, <1>3, <1>4, <1>9, FailsFacts DEF now
<1>10. QED
  BY <1>1, <1>8, <1>9

LEMMA CrashFacts ==
  ASSUME Typed, CrashAndRestart
  PROVE  /\ memory' \in MemoryType
         /\ memory'.turns = Loaded(table.turns) /\ memory'.remembered = table.remembered
         /\ chat' \in [Chats -> ChatType]
         /\ \A c \in Chats :
              \/ chat[c].stage \in {"asked", "replied"} /\ chat'[c] = Forgotten
              \/ /\ chat[c].stage = "stored" /\ chat'[c].stage = "failed"
                 /\ chat'[c].at = chat[c].at /\ chat'[c].landedIn = chat[c].landedIn
              \/ /\ chat[c].stage \notin {"asked", "replied", "stored"}
                 /\ chat'[c] = chat[c]
         /\ round' \in [Rounds -> RoundType]
         /\ \A r \in Rounds : round'[r].stage = "idle"
         /\ generation' = 0
         /\ UNCHANGED <<clock, table, ticked, epoch, kept, failures>>
<1> DEFINE cut(c) == [chat[c] EXCEPT !.stage = "failed"]
           left(c) == CASE chat[c].stage \in {"asked", "replied"} -> Forgotten
                        [] chat[c].stage = "stored" -> cut(c)
                        [] OTHER -> chat[c]
<1>1. /\ memory' = [turns |-> Loaded(table.turns), remembered |-> table.remembered]
      /\ chat' = [c \in Chats |-> left(c)]
      /\ round' = [r \in Rounds |-> NoRound]
      /\ generation' = 0
      /\ UNCHANGED <<clock, table, ticked, epoch, kept, failures>>
  BY DEF CrashAndRestart, Dropped, history
<1>2. table \in TableType /\ table.turns \in Rows /\ IsFiniteSet(DOMAIN table.turns)
      /\ chat \in [Chats -> ChatType]
  BY DEF Typed, TableType
<1>3. memory' \in MemoryType
      /\ memory'.turns = Loaded(table.turns) /\ memory'.remembered = table.remembered
  BY <1>1, <1>2, LoadedFacts DEF MemoryType, TableType
<1>4. ASSUME NEW c \in Chats
      PROVE  /\ cut(c) \in ChatType /\ cut(c).stage = "failed"
             /\ cut(c).at = chat[c].at /\ cut(c).landedIn = chat[c].landedIn
  <2>1. chat[c] \in ChatType
    BY <1>2
  <2>2. QED
    BY <2>1 DEF ChatType, ChatStages
<1> HIDE DEF cut
<1>5. ASSUME NEW c \in Chats
      PROVE  /\ left(c) \in ChatType
             /\ \/ chat[c].stage \in {"asked", "replied"} /\ left(c) = Forgotten
                \/ chat[c].stage = "stored" /\ left(c) = cut(c)
                \/ chat[c].stage \notin {"asked", "replied", "stored"} /\ left(c) = chat[c]
  BY <1>2, <1>4, ForgottenFacts
<1> HIDE DEF left
<1>6. chat' \in [Chats -> ChatType] /\ \A c \in Chats : chat'[c] = left(c)
  BY <1>1, <1>5
<1>7. round' \in [Rounds -> RoundType] /\ \A r \in Rounds : round'[r].stage = "idle"
  BY <1>1, NoRoundFacts
<1>8. ASSUME NEW c \in Chats
      PROVE  \/ chat[c].stage \in {"asked", "replied"} /\ chat'[c] = Forgotten
             \/ /\ chat[c].stage = "stored" /\ chat'[c].stage = "failed"
                /\ chat'[c].at = chat[c].at /\ chat'[c].landedIn = chat[c].landedIn
             \/ /\ chat[c].stage \notin {"asked", "replied", "stored"}
                /\ chat'[c] = chat[c]
  BY <1>4, <1>5, <1>6
<1>9. QED
  BY <1>1, <1>3, <1>6, <1>7, <1>8
-----------------------------------------------------------------------------
(* The turns of the process exclude each other *)

Stores == {c \in Chats : chat[c].stage = "stored"}
Sends == {r \in Rounds : round[r].stage = "sent"}

Exclusive ==
  /\ \A c, d \in Stores : c = d
  /\ \A r, s \in Sends : r = s
  /\ Stores = {} \/ Sends = {}

\* What has landed, landed in this conversation or in one before.
Epochs ==
  /\ \A c \in Chats : /\ chat[c].landedIn <= epoch
                      /\ chat[c].stage = "stored" => chat[c].landedIn = epoch
  /\ \A t \in DOMAIN table.messages : table.messages[t].epoch <= epoch

Conversation == Typed /\ Exclusive /\ Epochs

LEMMA BusyFacts == ~Busy <=> Stores = {} /\ Sends = {}
BY DEF Busy, Stores, Sends

LEMMA InitConversation == Init => Conversation
<1> SUFFICES ASSUME Init PROVE Conversation
  OBVIOUS
<1>1. DOMAIN <<>> = {} /\ <<>> \in [{} -> Turn] /\ <<>> \in [{} -> EntryType] /\ <<>> \in Seq(Turn)
  OBVIOUS
<1>2. <<>> \in Rows /\ <<>> \in Entries /\ IsFiniteSet(DOMAIN <<>>)
  BY <1>1, FS_EmptySet DEF Rows, Entries
<1>3. table = [turns |-> <<>>, remembered |-> {}, messages |-> <<>>]
      /\ memory = [turns |-> <<>>, remembered |-> {}]
  BY DEF Init
<1>4. memory \in MemoryType
  BY <1>1, <1>3 DEF MemoryType
<1>5. table \in TableType /\ IsFiniteSet(DOMAIN table.turns)
  BY <1>2, <1>3 DEF TableType
<1>6. NoChat \in ChatType /\ NoChat.stage = "none" /\ NoChat.landedIn = 0
  BY ConstantFacts DEF NoChat, ChatType, ChatStages
<1>7. Typed
  BY <1>4, <1>5, <1>6, NoRoundFacts, ConstantFacts DEF Init, Typed
<1>8. Stores = {} /\ Sends = {}
  BY <1>6, NoRoundFacts DEF Init, Stores, Sends
<1>9. Epochs
  BY <1>1, <1>3, <1>6 DEF Init, Epochs
<1>10. QED
  BY <1>7, <1>8, <1>9 DEF Conversation, Exclusive

LEMMA ChatKeepsConversation ==
  ASSUME Conversation, NEW c \in Chats,
         Ask(c) \/ Reply(c) \/ ChatFails(c) \/ Store(c) \/ Finish(c)
  PROVE  Conversation'
<1>0. Typed /\ Exclusive /\ Epochs /\ epoch \in Nat /\ chat \in [Chats -> ChatType]
  BY DEF Conversation, Typed
<1>1. CASE Ask(c)
  <2>1. Typed'
    BY <1>0, <1>1, AskFacts DEF Typed
  <2>2. Stores' \subseteq Stores /\ Sends' = Sends
    BY <1>0, <1>1, AskFacts DEF Stores, Sends
  <2>3. Epochs'
    BY <1>0, <1>1, AskFacts DEF Epochs
  <2>4. QED
    BY <1>0, <2>1, <2>2, <2>3 DEF Conversation, Exclusive
<1>2. CASE Reply(c) \/ ChatFails(c)
  <2>1. Typed'
    BY <1>0, <1>2, AnswerFacts DEF Typed
  <2>2. Stores' \subseteq Stores /\ Sends' = Sends
    BY <1>0, <1>2, AnswerFacts DEF Stores, Sends
  <2>3. Epochs'
    BY <1>0, <1>2, AnswerFacts DEF Epochs
  <2>4. QED
    BY <1>0, <2>1, <2>2, <2>3 DEF Conversation, Exclusive
<1>3. CASE Store(c)
  <2>1. Typed'
    BY <1>0, <1>3, StoreFacts DEF Typed
  <2>2. Stores' \subseteq {c} /\ Sends' = {}
    BY <1>0, <1>3, StoreFacts, BusyFacts DEF Stores, Sends
  <2>3. Epochs'
    BY <1>0, <1>3, StoreFacts DEF Epochs
  <2>4. QED
    BY <1>0, <2>1, <2>2, <2>3 DEF Conversation, Exclusive
<1>4. CASE Finish(c)
  <2>1. Typed'
    BY <1>0, <1>4, FinishFacts DEF Typed
  <2>2. Stores' \subseteq Stores /\ Sends' = Sends
    BY <1>0, <1>4, FinishFacts DEF Stores, Sends
  <2>3. Epochs'
    BY <1>0, <1>4, FinishFacts DEF Epochs
  <2>4. QED
    BY <1>0, <2>1, <2>2, <2>3 DEF Conversation, Exclusive
<1>5. QED
  BY <1>1, <1>2, <1>3, <1>4

LEMMA RoundKeepsConversation ==
  ASSUME Conversation, NEW r \in Rounds,
         RoundStarts(r) \/ Decide(r) \/ Send(r) \/ Enter(r) \/ NotSent(r)
  PROVE  Conversation'
<1>0. Typed /\ Exclusive /\ Epochs /\ epoch \in Nat /\ chat \in [Chats -> ChatType]
  BY DEF Conversation, Typed
<1>1. CASE RoundStarts(r)
  <2>1. Typed' /\ Still
    BY <1>0, <1>1, RoundStartsFacts
  <2>2. Stores' = Stores /\ Sends' \subseteq Sends
    BY <1>0, <1>1, <2>1, RoundStartsFacts DEF Stores, Sends, Still
  <2>3. Epochs'
    BY <1>0, <2>1 DEF Epochs, Still
  <2>4. QED
    BY <1>0, <2>1, <2>2, <2>3 DEF Conversation, Exclusive
<1>2. CASE Decide(r) \/ NotSent(r)
  <2>1. Typed' /\ Still
    BY <1>0, <1>2, DecideFacts
  <2>2. Stores' = Stores /\ Sends' \subseteq Sends
    BY <1>0, <1>2, <2>1, DecideFacts DEF Stores, Sends, Still
  <2>3. Epochs'
    BY <1>0, <2>1 DEF Epochs, Still
  <2>4. QED
    BY <1>0, <2>1, <2>2, <2>3 DEF Conversation, Exclusive
<1>3. CASE Send(r)
  <2>1. Typed'
    BY <1>0, <1>3, SendFacts DEF Typed
  <2>2. Stores' = {} /\ Sends' \subseteq {r}
    <3>1. Stores = {} /\ Sends = {} /\ UNCHANGED chat
      BY <1>0, <1>3, SendFacts, BusyFacts
    <3>2. \A s \in Rounds : s # r => round'[s] = round[s]
      BY <1>0, <1>3, SendFacts
    <3>3. Stores' = {}
      BY <3>1 DEF Stores
    <3>4. QED
      BY <3>1, <3>2, <3>3 DEF Sends
  <2>3. Epochs'
    BY <1>0, <1>3, SendFacts DEF Epochs
  <2>4. QED
    BY <1>0, <2>1, <2>2, <2>3 DEF Conversation, Exclusive
<1>4. CASE Enter(r)
  <2>1. Typed'
    BY <1>0, <1>4, EnterFacts DEF Typed
  <2>2. Stores' = Stores /\ Sends' \subseteq Sends
    BY <1>0, <1>4, EnterFacts DEF Stores, Sends
  <2>3. Epochs'
    BY <1>0, <1>4, EnterFacts DEF Epochs
  <2>4. QED
    BY <1>0, <2>1, <2>2, <2>3 DEF Conversation, Exclusive
<1>5. QED
  BY <1>1, <1>2, <1>3, <1>4

LEMMA NextConversation == Conversation /\ [Next]_vars => Conversation'
<1> SUFFICES ASSUME Conversation, [Next]_vars PROVE Conversation'
  OBVIOUS
<1>0. Typed /\ Exclusive /\ Epochs /\ epoch \in Nat /\ chat \in [Chats -> ChatType]
  BY DEF Conversation, Typed
<1>1. CASE NewConversation
  <2>1. Typed'
    BY <1>0, <1>1, ClearFacts DEF Typed
  <2>2. Stores' = Stores /\ Sends' = Sends /\ Stores = {}
    BY <1>0, <1>1, ClearFacts, BusyFacts DEF Stores, Sends
  <2>3. UNCHANGED chat /\ epoch' >= epoch /\ table'.messages = table.messages
    BY <1>0, <1>1, ClearFacts
  <2>4. \A x \in Nat : x <= epoch => x <= epoch'
    BY <1>0, <2>1, <2>3 DEF Typed
  <2>5. \A d \in Chats : chat[d].landedIn \in Nat
    BY <1>0 DEF ChatType
  <2>6. \A t \in DOMAIN table.messages : table.messages[t].epoch \in Nat
    BY <1>0, EntriesFacts DEF Typed, TableType, EntryType
  <2>7. Epochs'
    BY <1>0, <2>2, <2>3, <2>4, <2>5, <2>6 DEF Epochs, Stores
  <2>8. QED
    BY <1>0, <2>1, <2>2, <2>7 DEF Conversation, Exclusive
<1>2. CASE ReadMessages \/ StoryMoves \/ TimePasses
  <2>1. Typed' /\ Still /\ UNCHANGED <<round, chat, epoch>>
    BY <1>0, <1>2, QuietFacts DEF Still
  <2>2. Stores' = Stores /\ Sends' = Sends
    BY <2>1 DEF Stores, Sends
  <2>3. Epochs'
    BY <1>0, <2>1 DEF Epochs, Still
  <2>4. QED
    BY <1>0, <2>1, <2>2, <2>3 DEF Conversation, Exclusive
<1>3. CASE CrashAndRestart
  <2>1. Typed'
    BY <1>0, <1>3, CrashFacts DEF Typed
  <2>2. Stores' = {} /\ Sends' = {}
    BY <1>0, <1>3, CrashFacts, ForgottenFacts DEF Stores, Sends
  <2>3. \A c \in Chats : chat'[c].landedIn = 0 \/ chat'[c].landedIn = chat[c].landedIn
    BY <1>0, <1>3, CrashFacts, ForgottenFacts
  <2>4. Epochs'
    BY <1>0, <1>3, <2>2, <2>3, CrashFacts DEF Epochs, Stores
  <2>5. QED
    BY <2>1, <2>2, <2>4 DEF Conversation, Exclusive
<1>4. CASE UNCHANGED vars
  BY <1>0, <1>4 DEF vars, history, Conversation, Typed, Exclusive, Epochs, Stores, Sends
<1>5. QED
  BY <1>1, <1>2, <1>3, <1>4, ChatKeepsConversation, RoundKeepsConversation DEF Next

LEMMA SpecConversation == Spec => []Conversation
BY InitConversation, NextConversation, PTL DEF Spec
-----------------------------------------------------------------------------
(* What the transcript holds *)

\* A chat that is over keeps its time and the conversation it landed in.
LEMMA OverStays ==
  ASSUME Conversation, [Next]_vars, NEW c \in Chats, Over(chat[c])
  PROVE  /\ Over(chat'[c]) /\ chat'[c].at = chat[c].at
         /\ chat'[c].landedIn = chat[c].landedIn
<1>0. Typed /\ Exclusive /\ Epochs
  BY DEF Conversation
<1>1. ASSUME NEW d \in Chats, Ask(d) \/ Reply(d) \/ ChatFails(d) \/ Store(d)
      PROVE  chat'[c] = chat[c]
  BY <1>0, <1>1, AskFacts, AnswerFacts, StoreFacts DEF Over
<1>2. ASSUME NEW d \in Chats, Finish(d)
      PROVE  Over(chat'[c]) /\ chat'[c].at = chat[c].at /\ chat'[c].landedIn = chat[c].landedIn
  BY <1>0, <1>2, FinishFacts DEF Over, Epochs
<1>3. ASSUME NEW r \in Rounds,
             RoundStarts(r) \/ Decide(r) \/ Send(r) \/ Enter(r) \/ NotSent(r)
      PROVE  UNCHANGED chat
  BY <1>3 DEF RoundStarts, Decide, Send, Enter, NotSent
<1>4. CASE NewConversation \/ ReadMessages \/ StoryMoves \/ TimePasses \/ UNCHANGED vars
  BY <1>4 DEF NewConversation, ReadMessages, StoryMoves, TimePasses, vars, Over
<1>5. CASE CrashAndRestart
  BY <1>0, <1>5, CrashFacts DEF Over
<1>6. QED
  BY <1>1, <1>2, <1>3, <1>4, <1>5 DEF Next, Over

\* A turn of the participant's, and the answer to it, are of a chat that landed in
\* this conversation, or that a clear left; what she says of her own accord is no
\* question.
KnownTurn(turn, chats, now, left) ==
  \/ turn.by = "herself" /\ turn.role = "agent"
  \/ /\ turn.by \in Chats /\ Over(chats[turn.by]) /\ chats[turn.by].at = turn.at
     /\ chats[turn.by].landedIn = now \/ turn.by \in left

Known ==
  /\ \A i \in 1 .. Len(memory.turns) : KnownTurn(memory.turns[i], chat, epoch, kept)
  /\ \A s \in DOMAIN table.turns : KnownTurn(table.turns[s], chat, epoch, kept)

LEMMA KnownStays ==
  ASSUME Conversation, [Next]_vars, NEW turn, KnownTurn(turn, chat, epoch, kept)
  PROVE  KnownTurn(turn, chat', epoch, kept)
BY OverStays DEF KnownTurn, Over

\* A transcript to which known turns are added.
LEMMA AppendsKnown ==
  ASSUME Conversation, [Next]_vars, Known, UNCHANGED <<epoch, kept>>, NEW turns \in Seq(Turn),
         Appends(turns), \A i \in 1 .. Len(turns) : KnownTurn(turns[i], chat', epoch, kept)
  PROVE  Known'
<1>1. /\ memory.turns \in Seq(Turn) /\ table.turns \in Rows /\ IsFiniteSet(DOMAIN table.turns)
  BY DEF Conversation, Typed, MemoryType, TableType
<1> DEFINE base == Len(memory.turns)
<1>2. base \in Nat /\ Len(turns) \in Nat
  BY <1>1
<1>3. \A i \in 1 .. base : KnownTurn(memory.turns[i], chat', epoch, kept)
  BY KnownStays DEF Known
<1>4. \A s \in DOMAIN table.turns : KnownTurn(table.turns[s], chat', epoch, kept)
  BY KnownStays DEF Known
<1>5. ASSUME NEW i \in 1 .. Len(memory'.turns)
      PROVE  \/ i \in 1 .. base /\ memory'.turns[i] = memory.turns[i]
             \/ i - base \in 1 .. Len(turns) /\ memory'.turns[i] = turns[i - base]
  BY <1>1, <1>2, <1>5 DEF Appends
<1>6. \A i \in 1 .. Len(memory'.turns) : KnownTurn(memory'.turns[i], chat', epoch, kept)
  BY <1>3, <1>5
<1>7. CASE table'.turns = Upserted(table.turns, turns)
  <2> DEFINE new == base .. base + Len(turns) - 1
  <2>1. /\ DOMAIN table'.turns = DOMAIN table.turns \cup new
        /\ \A s \in new : table'.turns[s] = turns[s - base + 1]
        /\ \A s \in DOMAIN table.turns \ new : table'.turns[s] = table.turns[s]
    <3> DEFINE up == Upserted(table.turns, turns)
    <3>1. /\ DOMAIN up = DOMAIN table.turns \cup new
          /\ \A s \in new : up[s] = turns[s - base + 1]
          /\ \A s \in DOMAIN table.turns \ new : up[s] = table.turns[s]
      BY <1>1, UpsertedFacts
    <3> HIDE DEF up, new
    <3>2. table'.turns = up
      BY <1>7 DEF up
    <3>3. QED
      BY <3>1, <3>2
  <2>2. \A s \in new : s - base + 1 \in 1 .. Len(turns)
    BY <1>2
  <2> HIDE DEF new
  <2>3. \A s \in DOMAIN table'.turns : KnownTurn(table'.turns[s], chat', epoch, kept)
    BY <1>4, <2>1, <2>2
  <2>4. QED
    BY <1>6, <2>3 DEF Known
<1>8. CASE UNCHANGED table
  BY <1>4, <1>6, <1>8 DEF Known
<1>9. QED
  BY <1>7, <1>8 DEF Appends

LEMMA KeptKnown ==
  ASSUME Conversation, [Next]_vars, Known, UNCHANGED <<epoch, kept>>,
         memory'.turns = memory.turns, table'.turns = table.turns
  PROVE  Known'
BY KnownStays DEF Known

LEMMA ExchangeKnown ==
  ASSUME Typed, NEW c \in Chats, Store(c), NEW leak \in BOOLEAN
  PROVE  /\ Exchange(c, leak) \in Seq(Turn)
         /\ \A i \in 1 .. Len(Exchange(c, leak)) :
              /\ KnownTurn(Exchange(c, leak)[i], chat', epoch, kept)
              /\ Exchange(c, leak)[i].by = c
<1>1. \A turn \in {Question(c), Answer(c)} : KnownTurn(turn, chat', epoch, kept) /\ turn.by = c
  BY ExchangeFacts, StoreFacts DEF KnownTurn, Over
<1>2. CASE leak
  <2>1. Exchange(c, leak) = <<Question(c)>>
    BY <1>2 DEF Exchange
  <2>2. QED
    BY <1>1, <2>1, ExchangeFacts
<1>3. CASE ~leak
  <2>1. Exchange(c, leak) = <<Question(c), Answer(c)>>
    BY <1>3 DEF Exchange
  <2>2. QED
    BY <1>1, <2>1, ExchangeFacts
<1>4. QED
  BY <1>2, <1>3

LEMMA MessageKnown ==
  ASSUME Typed, NEW r \in Rounds, Send(r)
  PROVE  /\ <<Message(r)>> \in Seq(Turn)
         /\ \A i \in 1 .. Len(<<Message(r)>>) :
              /\ <<Message(r)>>[i].by = "herself"
              /\ KnownTurn(<<Message(r)>>[i], chat', epoch, kept)
<1>1. Message(r) \in Turn /\ Message(r).by = "herself" /\ KnownTurn(Message(r), chat', epoch, kept)
  BY SendFacts DEF Message, KnownTurn
<1>2. QED
  BY <1>1

LEMMA NextKnown == Conversation /\ Known /\ [Next]_vars => Known'
<1> SUFFICES ASSUME Conversation, Known, [Next]_vars PROVE Known'
  OBVIOUS
<1>0. Typed
  BY DEF Conversation
<1>1. ASSUME NEW c \in Chats, Ask(c) \/ Reply(c) \/ ChatFails(c) \/ Finish(c) PROVE Known'
  BY <1>0, <1>1, AskFacts, AnswerFacts, FinishFacts, KeptKnown
<1>2. ASSUME NEW c \in Chats, Store(c) PROVE Known'
  <2>1. PICK leak \in BOOLEAN : Appends(Exchange(c, leak))
    BY <1>0, <1>2, StoreFacts
  <2>2. UNCHANGED <<epoch, kept>>
    BY <1>0, <1>2, StoreFacts
  <2>3. QED
    BY <1>0, <1>2, <2>1, <2>2, ExchangeKnown, AppendsKnown
<1>3. ASSUME NEW r \in Rounds, Send(r) PROVE Known'
  <2>1. Appends(<<Message(r)>>) /\ UNCHANGED <<epoch, kept>>
    BY <1>0, <1>3, SendFacts
  <2>2. QED
    BY <1>0, <1>3, <2>1, MessageKnown, AppendsKnown
<1>4. ASSUME NEW r \in Rounds, RoundStarts(r) \/ Decide(r) \/ Enter(r) \/ NotSent(r)
      PROVE  Known'
  BY <1>0, <1>4, RoundStartsFacts, DecideFacts, EnterFacts, KeptKnown DEF Still
<1>5. CASE NewConversation
  <2>1. Len(memory'.turns) = 0
    BY <1>0, <1>5, ClearFacts
  <2>2. CASE DOMAIN table'.turns = {}
    BY <2>1, <2>2 DEF Known
  <2>3. CASE UNCHANGED <<table, chat, epoch, kept>>
    BY <2>1, <2>3 DEF Known
  <2>4. CASE kept' = Speakers(table.turns) /\ UNCHANGED <<table, chat>>
    <3>1. ASSUME NEW s \in DOMAIN table.turns
          PROVE  KnownTurn(table.turns[s], chat, epoch', kept')
      <4> DEFINE turn == table.turns[s]
      <4>1. KnownTurn(turn, chat, epoch, kept)
        BY DEF Known
      <4>2. turn.by # "herself" => turn.by \in kept'
        BY <2>4 DEF Speakers
      <4> HIDE DEF turn
      <4>3. KnownTurn(turn, chat, epoch', kept')
        BY <4>1, <4>2, ConstantFacts DEF KnownTurn
      <4>4. QED
        BY <4>3 DEF turn
    <3>2. QED
      BY <2>1, <2>4, <3>1 DEF Known
  <2>5. QED
    BY <1>0, <1>5, <2>2, <2>3, <2>4, ClearFacts
<1>6. CASE ReadMessages \/ StoryMoves \/ TimePasses
  BY <1>0, <1>6, QuietFacts, KeptKnown DEF Still
<1>7. CASE CrashAndRestart
  <2>1. /\ table.turns \in Rows /\ IsFiniteSet(DOMAIN table.turns)
        /\ memory'.turns = Loaded(table.turns) /\ UNCHANGED <<table, epoch, kept>>
    BY <1>0, <1>7, CrashFacts DEF Typed, TableType
  <2>2. \A s \in DOMAIN table.turns : KnownTurn(table.turns[s], chat', epoch, kept)
    BY <2>1, KnownStays DEF Known
  <2>3. \A i \in 1 .. Len(memory'.turns) : \E s \in DOMAIN table.turns :
          memory'.turns[i] = table.turns[s]
    BY <2>1, LoadedFacts
  <2>4. QED
    BY <2>1, <2>2, <2>3 DEF Known
<1>8. CASE UNCHANGED vars
  BY <1>8, KeptKnown DEF vars, history
<1>9. QED
  BY <1>1, <1>2, <1>3, <1>4, <1>5, <1>6, <1>7, <1>8 DEF Next

\* Only the request of a message asks.
LEMMA AskedBy ==
  ASSUME Conversation, [Next]_vars, NEW c \in Chats, Asks(c)
  PROVE  chat'[c].prompt = CharacterVisibleHistory
<1>0. Typed /\ chat[c].stage = "none" /\ chat'[c].stage = "asked"
  BY DEF Conversation, Asks
<1>1. ASSUME NEW d \in Chats, Reply(d) \/ ChatFails(d) PROVE FALSE
  <2>1. /\ chat'[d].stage \in {"replied", "failed"}
        /\ c # d => chat'[c] = chat[c]
    BY <1>0, <1>1, AnswerFacts
  <2>2. QED
    BY <1>0, <2>1
<1>2. ASSUME NEW d \in Chats, Store(d) PROVE FALSE
  <2>1. /\ chat'[d].stage \in {"stored", "leaked", "failed"}
        /\ c # d => chat'[c] = chat[c]
    BY <1>0, <1>2, StoreFacts
  <2>2. QED
    BY <1>0, <2>1
<1>3. ASSUME NEW d \in Chats, Finish(d) PROVE FALSE
  <2>1. /\ chat'[d].stage \in {"applied", "failed"}
        /\ c # d => chat'[c] = chat[c]
    BY <1>0, <1>3, FinishFacts
  <2>2. QED
    BY <1>0, <2>1
<1>4. ASSUME NEW r \in Rounds,
             RoundStarts(r) \/ Decide(r) \/ Send(r) \/ Enter(r) \/ NotSent(r)
      PROVE  FALSE
  BY <1>0, <1>4 DEF RoundStarts, Decide, Send, Enter, NotSent
<1>5. ~(NewConversation \/ ReadMessages \/ StoryMoves \/ TimePasses \/ UNCHANGED vars)
  BY <1>0 DEF NewConversation, ReadMessages, StoryMoves, TimePasses, vars
<1>6. ~CrashAndRestart
  BY <1>0, CrashFacts
<1>7. ASSUME NEW d \in Chats, Ask(d) PROVE chat'[c].prompt = CharacterVisibleHistory
  <2>1. c = d
    BY <1>0, <1>7, AskFacts
  <2>2. QED
    BY <1>0, <1>7, <2>1, AskFacts
<1>8. QED
  BY <1>1, <1>2, <1>3, <1>4, <1>5, <1>6, <1>7 DEF Next

\* A prompt shows known turns.
LEMMA NextFresh ==
  ASSUME Conversation, Known, [Next]_vars, NEW c \in Chats, Asks(c), NEW turn \in chat'[c].prompt
  PROVE  turn.by \in {"herself"} \cup kept \/ chat[turn.by].landedIn = epoch
<1>1. PICK i \in DOMAIN memory.turns : turn = memory.turns[i]
  BY AskedBy DEF CharacterVisibleHistory
<1>2. i \in 1 .. Len(memory.turns)
  BY <1>1 DEF Conversation, Typed, MemoryType
<1>3. QED
  BY <1>1, <1>2 DEF Known, KnownTurn

LEMMA NextRemembered ==
  Conversation /\ StoredIsRemembered /\ [Next]_vars => StoredIsRemembered'
<1> SUFFICES ASSUME Conversation, StoredIsRemembered, [Next]_vars PROVE StoredIsRemembered'
  OBVIOUS
<1>0. Typed /\ table.turns \in Rows /\ IsFiniteSet(DOMAIN table.turns) /\ memory.turns \in Seq(Turn)
  BY DEF Conversation, Typed, TableType, MemoryType
<1>1. ASSUME table'.turns = table.turns, table'.remembered = table.remembered
      PROVE  StoredIsRemembered'
  BY <1>1 DEF StoredIsRemembered
<1>2. ASSUME NEW turns \in Seq(Turn), table'.turns = Upserted(table.turns, turns),
             NEW writer, \A i \in 1 .. Len(turns) : turns[i].by = writer,
             table.remembered \subseteq table'.remembered,
             writer = "herself" \/ writer \in table'.remembered
      PROVE  StoredIsRemembered'
  <2> DEFINE base == Len(memory.turns)
             new == base .. base + Len(turns) - 1
             up == Upserted(table.turns, turns)
  <2>1. /\ DOMAIN up = DOMAIN table.turns \cup new
        /\ \A s \in new : up[s] = turns[s - base + 1]
        /\ \A s \in DOMAIN table.turns \ new : up[s] = table.turns[s]
    BY <1>0, UpsertedFacts
  <2>2. \A s \in new : s - base + 1 \in 1 .. Len(turns)
    BY <1>0
  <2>3. table'.turns = up
    BY <1>2
  <2> HIDE DEF new, up, base
  <2>4. QED
    BY <1>2, <2>1, <2>2, <2>3 DEF StoredIsRemembered
<1>3. ASSUME NEW c \in Chats, Ask(c) \/ Reply(c) \/ ChatFails(c) \/ Finish(c)
      PROVE  StoredIsRemembered'
  BY <1>0, <1>1, <1>3, AskFacts, AnswerFacts, FinishFacts
<1>4. ASSUME NEW c \in Chats, Store(c) PROVE StoredIsRemembered'
  <2>1. PICK leak \in BOOLEAN : Appends(Exchange(c, leak))
    BY <1>0, <1>4, StoreFacts
  <2>2. CASE table'.turns = Upserted(table.turns, Exchange(c, leak)) /\ ~UNCHANGED table
    <3>1. table'.remembered = table.remembered \cup {c}
      BY <1>0, <1>4, <2>2, StoreFacts
    <3>2. QED
      <4> DEFINE turns == Exchange(c, leak)
      <4>1. turns \in Seq(Turn) /\ \A i \in 1 .. Len(turns) : turns[i].by = c
        BY <1>0, <1>4, ExchangeKnown
      <4>2. table'.turns = Upserted(table.turns, turns)
        BY <2>2
      <4> HIDE DEF turns
      <4>3. QED
        BY <1>2, <3>1, <4>1, <4>2
  <2>3. QED
    BY <1>1, <2>1, <2>2 DEF Appends
<1>5. ASSUME NEW r \in Rounds, Send(r) PROVE StoredIsRemembered'
  <2>1. Appends(<<Message(r)>>) /\ table'.remembered = table.remembered
    BY <1>0, <1>5, SendFacts
  <2>2. QED
    BY <1>0, <1>1, <1>2, <1>5, <2>1, MessageKnown DEF Appends
<1>6. ASSUME NEW r \in Rounds, RoundStarts(r) \/ Decide(r) \/ Enter(r) \/ NotSent(r)
      PROVE  StoredIsRemembered'
  BY <1>0, <1>1, <1>6, RoundStartsFacts, DecideFacts, EnterFacts DEF Still
<1>7. CASE NewConversation
  <2>1. table'.remembered = table.remembered
        /\ (DOMAIN table'.turns = {} \/ table'.turns = table.turns)
    BY <1>0, <1>7, ClearFacts
  <2>2. QED
    BY <1>1, <2>1 DEF StoredIsRemembered
<1>8. CASE ReadMessages \/ StoryMoves \/ TimePasses
  BY <1>0, <1>1, <1>8, QuietFacts DEF Still
<1>9. CASE CrashAndRestart \/ UNCHANGED vars
  BY <1>1, <1>9 DEF CrashAndRestart, vars
<1>10. QED
  BY <1>3, <1>4, <1>5, <1>6, <1>7, <1>8, <1>9 DEF Next
-----------------------------------------------------------------------------
(* While nothing has failed *)

LEMMA FailuresStay == Conversation /\ [Next]_vars /\ failures' = 0 => failures = 0
<1> SUFFICES ASSUME Conversation, [Next]_vars, failures # 0 PROVE failures' # 0
  OBVIOUS
<1>0. Typed
  BY DEF Conversation
<1>1. ASSUME NEW c \in Chats, Ask(c) \/ Reply(c) \/ ChatFails(c) \/ Finish(c)
      PROVE  failures' # 0
  BY <1>0, <1>1, AskFacts, AnswerFacts, FinishFacts
<1>2. ASSUME NEW c \in Chats, Store(c) PROVE failures' # 0
  BY <1>0, <1>2, FailsFacts DEF Store
<1>3. ASSUME NEW r \in Rounds, Send(r) PROVE failures' # 0
  BY <1>0, <1>3, SendFacts
<1>4. ASSUME NEW r \in Rounds, RoundStarts(r) \/ Decide(r) \/ Enter(r) \/ NotSent(r)
      PROVE  failures' # 0
  BY <1>0, <1>4, RoundStartsFacts, DecideFacts, EnterFacts DEF Still
<1>5. CASE NewConversation
  BY <1>0, <1>5, ClearFacts
<1>6. CASE ReadMessages \/ StoryMoves \/ TimePasses
  BY <1>0, <1>6, QuietFacts DEF Still
<1>7. CASE CrashAndRestart \/ UNCHANGED vars
  BY <1>7 DEF CrashAndRestart, vars
<1>8. QED
  BY <1>1, <1>2, <1>3, <1>4, <1>5, <1>6, <1>7 DEF Next

Mirrored(turns, rows) ==
  /\ DOMAIN rows = 0 .. Len(turns) - 1
  /\ \A i \in 1 .. Len(turns) : rows[i - 1] = turns[i]

\* What is in the table stays where it is.
Extends ==
  \A s \in DOMAIN table.turns : s \in DOMAIN table'.turns /\ table'.turns[s] = table.turns[s]

\* An upsert at the length of an array that mirrors the table adds rows.
LEMMA AppendsMirrored ==
  ASSUME Conversation, Mirrored(memory.turns, table.turns), NEW turns \in Seq(Turn),
         memory'.turns = memory.turns \o turns, table'.turns = Upserted(table.turns, turns)
  PROVE  /\ Mirrored(memory'.turns, table'.turns) /\ Extends
         /\ \A i \in 1 .. Len(turns) :
              /\ Len(memory.turns) + i - 1 \in DOMAIN table'.turns
              /\ table'.turns[Len(memory.turns) + i - 1] = turns[i]
<1> DEFINE base == Len(memory.turns)
           new == base .. base + Len(turns) - 1
           up == Upserted(table.turns, turns)
<1>1. /\ memory.turns \in Seq(Turn) /\ table.turns \in Rows /\ IsFiniteSet(DOMAIN table.turns)
  BY DEF Conversation, Typed, MemoryType, TableType
<1>2. base \in Nat /\ Len(turns) \in Nat
  BY <1>1
<1>3. /\ DOMAIN up = DOMAIN table.turns \cup new
      /\ \A s \in new : up[s] = turns[s - base + 1]
      /\ \A s \in DOMAIN table.turns \ new : up[s] = table.turns[s]
  BY <1>1, UpsertedFacts
<1>4. DOMAIN table.turns = 0 .. base - 1 /\ \A i \in 1 .. base : table.turns[i - 1] = memory.turns[i]
  BY DEF Mirrored
<1> HIDE DEF up
<1>5. DOMAIN up = 0 .. base + Len(turns) - 1
  BY <1>2, <1>3, <1>4
<1>6. \A s \in DOMAIN table.turns : s \in DOMAIN up /\ up[s] = table.turns[s]
  BY <1>2, <1>3, <1>4
<1>7. \A i \in 1 .. Len(turns) : base + i - 1 \in new /\ base + i - 1 - base + 1 = i
  BY <1>2
<1>8. ASSUME NEW i \in 1 .. Len(turns)
      PROVE  base + i - 1 \in DOMAIN up /\ up[base + i - 1] = turns[i]
  <2> DEFINE s == base + i - 1
  <2>1. s \in new /\ s - base + 1 = i
    BY <1>7
  <2> HIDE DEF s, new
  <2>2. s \in DOMAIN up /\ up[s] = turns[i]
    BY <1>3, <2>1
  <2>3. QED
    BY <2>2 DEF s
<1>9. table'.turns = up
  BY DEF up
<1>10. /\ Len(memory.turns \o turns) = base + Len(turns)
       /\ \A i \in 1 .. base : (memory.turns \o turns)[i] = memory.turns[i]
       /\ \A i \in 1 .. Len(turns) : (memory.turns \o turns)[base + i] = turns[i]
  BY <1>1
<1> HIDE DEF base
<1>11. ASSUME NEW i \in 1 .. base + Len(turns) PROVE up[i - 1] = (memory.turns \o turns)[i]
  <2>1. CASE i \in 1 .. base
    <3>1. i - 1 \in DOMAIN table.turns
      BY <1>2, <1>4, <2>1
    <3>2. QED
      BY <1>4, <1>6, <1>10, <2>1, <3>1
  <2>2. CASE i \notin 1 .. base
    <3> DEFINE j == i - base
    <3>1. j \in 1 .. Len(turns) /\ base + j = i /\ base + j - 1 = i - 1
      BY <1>2, <2>2
    <3> HIDE DEF j
    <3>2. up[base + j - 1] = turns[j] /\ (memory.turns \o turns)[base + j] = turns[j]
      BY <1>8, <1>10, <3>1
    <3>3. QED
      BY <3>1, <3>2
  <2>3. QED
    BY <2>1, <2>2
<1>12. Mirrored(memory'.turns, table'.turns)
  <2> DEFINE longer == memory.turns \o turns
             n == base + Len(turns)
  <2>1. Len(longer) = n /\ DOMAIN up = 0 .. n - 1 /\ \A i \in 1 .. n : up[i - 1] = longer[i]
    <3>1. Len(longer) = n
      BY <1>10
    <3>2. DOMAIN up = 0 .. n - 1
      BY <1>2, <1>5
    <3>3. \A i \in 1 .. n : up[i - 1] = longer[i]
      BY <1>11
    <3>4. QED
      BY <3>1, <3>2, <3>3
  <2> HIDE DEF longer, n
  <2>2. Mirrored(longer, up)
    BY <2>1 DEF Mirrored
  <2>3. QED
    BY <1>9, <2>2 DEF longer
<1>13. QED
  BY <1>6, <1>8, <1>9, <1>12 DEF Extends, base

MirrorInv ==
  failures = 0 => /\ Mirrored(memory.turns, table.turns)
                  /\ memory.remembered = table.remembered

LEMMA MirrorMeans == Typed => (MirrorInv <=> MirrorIsTable)
<1> SUFFICES ASSUME Typed PROVE MirrorInv <=> MirrorIsTable
  OBVIOUS
<1>1. DOMAIN memory.turns = 1 .. Len(memory.turns)
  BY DEF Typed, MemoryType
<1>2. QED
  BY <1>1 DEF MirrorInv, MirrorIsTable, Mirrored

\* What a step does to a table that is mirrored: it is cleared, or it grows.
LEMMA NextMirror ==
  ASSUME Conversation, MirrorInv, [Next]_vars, failures' = 0
  PROVE  /\ Mirrored(memory.turns, table.turns)' /\ memory'.remembered = table'.remembered
         /\ \/ Extends /\ UNCHANGED epoch
            \/ NewConversation
<1>0. /\ Typed /\ failures = 0 /\ Mirrored(memory.turns, table.turns)
      /\ memory.remembered = table.remembered
      /\ memory.turns \in Seq(Turn) /\ table.turns \in Rows /\ IsFiniteSet(DOMAIN table.turns)
  BY FailuresStay DEF Conversation, Typed, MemoryType, TableType, MirrorInv
<1> DEFINE Goal == /\ Mirrored(memory'.turns, table'.turns)
                   /\ memory'.remembered = table'.remembered
                   /\ \/ Extends /\ UNCHANGED epoch
                      \/ NewConversation
<1>1. ASSUME UNCHANGED <<memory, epoch>>, table'.turns = table.turns,
             table'.remembered = table.remembered
      PROVE  Goal
  BY <1>0, <1>1 DEF Extends
<1>2. ASSUME NEW c \in Chats, Ask(c) \/ Reply(c) \/ ChatFails(c) \/ Finish(c) PROVE Goal
  BY <1>0, <1>1, <1>2, AskFacts, AnswerFacts, FinishFacts
<1>3. ASSUME NEW c \in Chats, Store(c) PROVE Goal
  <2>1. PICK leak \in BOOLEAN : Appends(Exchange(c, leak))
    BY <1>0, <1>3, StoreFacts
  <2>2. /\ UNCHANGED epoch /\ memory'.remembered = memory.remembered \cup {c}
        /\ table'.remembered = table.remembered \cup {c}
    BY <1>0, <1>3, StoreFacts
  <2>3. Exchange(c, leak) \in Seq(Turn)
    BY <1>0, <1>3, ExchangeKnown
  <2>4. CASE table'.turns = Upserted(table.turns, Exchange(c, leak))
    BY <1>0, <2>1, <2>2, <2>3, <2>4, AppendsMirrored DEF Appends
  <2>5. QED
    BY <2>1, <2>4 DEF Appends
<1>4. ASSUME NEW r \in Rounds, Send(r) PROVE Goal
  <2>1. /\ Appends(<<Message(r)>>) /\ UNCHANGED epoch
        /\ memory'.remembered = memory.remembered /\ table'.remembered = table.remembered
        /\ table'.turns = Upserted(table.turns, <<Message(r)>>)
    BY <1>0, <1>4, SendFacts
  <2>2. <<Message(r)>> \in Seq(Turn)
    BY <1>0, <1>4, MessageKnown
  <2>3. QED
    BY <1>0, <2>1, <2>2, AppendsMirrored DEF Appends
<1>5. ASSUME NEW r \in Rounds, RoundStarts(r) \/ Decide(r) \/ Enter(r) \/ NotSent(r)
      PROVE  Goal
  BY <1>0, <1>1, <1>5, RoundStartsFacts, DecideFacts, EnterFacts DEF Still
<1>6. CASE NewConversation
  <2>kept. ASSUME memory.turns = <<>>, DOMAIN table.turns # {} PROVE FALSE
    BY <1>0, <2>kept DEF Mirrored
  <2>1. /\ memory'.turns = <<>> /\ table'.turns = <<>>
        /\ memory'.remembered = memory.remembered /\ table'.remembered = table.remembered
    BY <1>0, <1>6, <2>kept, ClearFacts
  <2>2. Mirrored(<<>>, <<>>)
    BY DEF Mirrored
  <2>3. QED
    BY <1>0, <1>6, <2>1, <2>2
<1>7. CASE ReadMessages \/ StoryMoves \/ TimePasses
  BY <1>0, <1>1, <1>7, QuietFacts DEF Still
<1>8. CASE CrashAndRestart
  <2>1. /\ memory'.turns = Loaded(table.turns) /\ memory'.remembered = table.remembered
        /\ UNCHANGED <<table, epoch>>
    BY <1>0, <1>8, CrashFacts
  <2> DEFINE n == Len(memory.turns)
  <2>2. n \in Nat /\ DOMAIN table.turns = 0 .. n - 1
    BY <1>0 DEF Mirrored
  <2> HIDE DEF n
  <2>3. /\ Len(Loaded(table.turns)) = n
        /\ \A i \in 1 .. n : Loaded(table.turns)[i] = table.turns[i - 1]
    BY <1>0, <2>2, LoadedInOrder
  <2>4. QED
    BY <2>1, <2>2, <2>3 DEF Mirrored, Extends
<1>9. CASE UNCHANGED vars
  BY <1>1, <1>9 DEF vars, history
<1>10. QED
  BY <1>2, <1>3, <1>4, <1>5, <1>6, <1>7, <1>8, <1>9 DEF Next

\* A stored exchange is in the table until the conversation is cleared.
StoredInv ==
  failures = 0 =>
    \A c \in Chats :
      chat[c].stage \in {"stored", "applied"} /\ chat[c].landedIn = epoch => Stored(table.turns, c)

LEMMA NextStored ==
  ASSUME Conversation, MirrorInv, StoredInv, [Next]_vars
  PROVE  StoredInv'
<1> SUFFICES ASSUME failures' = 0, NEW c \in Chats, chat'[c].stage \in {"stored", "applied"},
                    chat'[c].landedIn = epoch'
             PROVE  Stored(table.turns, c)'
  BY DEF StoredInv
<1>0. /\ Typed /\ Exclusive /\ Epochs /\ failures = 0 /\ Mirrored(memory.turns, table.turns)
      /\ chat \in [Chats -> ChatType] /\ epoch \in Nat
  BY FailuresStay DEF Conversation, MirrorInv, Typed
<1>1. ASSUME Extends, UNCHANGED epoch, chat[c].stage \in {"stored", "applied"},
             chat[c].landedIn = epoch, chat'[c].at = chat[c].at
      PROVE  Stored(table.turns, c)'
  <2>1. PICK s \in DOMAIN table.turns : /\ s + 1 \in DOMAIN table.turns
                                        /\ table.turns[s] = Question(c)
                                        /\ table.turns[s + 1] = Answer(c)
    BY <1>0, <1>1 DEF StoredInv, Stored
  <2>2. Question(c)' = Question(c) /\ Answer(c)' = Answer(c)
    BY <1>1 DEF Question, Answer
  <2>3. /\ s \in DOMAIN table'.turns /\ s + 1 \in DOMAIN table'.turns
        /\ table'.turns[s] = Question(c) /\ table'.turns[s + 1] = Answer(c)
    BY <1>1, <2>1 DEF Extends
  <2>4. QED
    BY <2>2, <2>3 DEF Stored
<1>2. CASE NewConversation
  <2>1. UNCHANGED chat /\ epoch' = epoch + 1
    BY <1>0, <1>2, ClearFacts
  <2>2. chat[c].landedIn <= epoch /\ chat[c].landedIn \in Nat
    BY <1>0 DEF Epochs, ChatType
  <2>3. QED
    BY <1>0, <2>1, <2>2
<1>3. CASE Store(c)
  <2>1. PICK leak \in BOOLEAN :
          /\ Appends(Exchange(c, leak))
          /\ chat'[c].stage = "stored" => ~leak
    BY <1>0, <1>3, StoreFacts
  <2>2. chat'[c].stage = "stored" /\ chat'[c].at = chat[c].at
    BY <1>0, <1>3, StoreFacts
  <2>3. Exchange(c, leak) = <<Question(c), Answer(c)>>
    BY <2>1, <2>2 DEF Exchange
  <2> DEFINE turns == <<Question(c), Answer(c)>>
             base == Len(memory.turns)
  <2>4. turns \in Seq(Turn) /\ Len(turns) = 2 /\ turns[1] = Question(c) /\ turns[2] = Answer(c)
    BY <1>0, ExchangeFacts
  <2>5. table'.turns = Upserted(table.turns, turns) /\ memory'.turns = memory.turns \o turns
    BY <2>1, <2>3 DEF Appends
  <2> HIDE DEF turns
  <2>6. \A i \in 1 .. 2 : /\ base + i - 1 \in DOMAIN table'.turns
                          /\ table'.turns[base + i - 1] = turns[i]
    BY <1>0, <2>4, <2>5, AppendsMirrored
  <2>7. base \in Nat /\ base + 1 - 1 = base /\ base + 2 - 1 = base + 1
    BY <1>0 DEF Typed, MemoryType
  <2> HIDE DEF base
  <2>8. /\ base \in DOMAIN table'.turns /\ base + 1 \in DOMAIN table'.turns
        /\ table'.turns[base] = Question(c) /\ table'.turns[base + 1] = Answer(c)
    BY <2>4, <2>6, <2>7
  <2>9. Question(c)' = Question(c) /\ Answer(c)' = Answer(c)
    BY <2>2 DEF Question, Answer
  <2>10. QED
    BY <2>8, <2>9 DEF Stored
<1>4. CASE ~NewConversation /\ ~Store(c)
  <2>1. Extends /\ UNCHANGED epoch
    BY <1>0, <1>4, NextMirror
  <2>2. chat[c].stage \in {"stored", "applied"}
    <3>1. ASSUME NEW d \in Chats, Ask(d) \/ Reply(d) \/ ChatFails(d) PROVE chat'[c] = chat[c]
      BY <1>0, <3>1, AskFacts, AnswerFacts
    <3>2. ASSUME NEW d \in Chats, d # c, Store(d) PROVE chat'[c] = chat[c]
      BY <1>0, <3>2, StoreFacts
    <3>3. ASSUME NEW d \in Chats, Finish(d)
          PROVE  chat'[c] = chat[c] \/ chat[c].stage = "stored"
      BY <1>0, <3>3, FinishFacts
    <3>4. ASSUME NEW r \in Rounds,
                 RoundStarts(r) \/ Decide(r) \/ Send(r) \/ Enter(r) \/ NotSent(r)
          PROVE  UNCHANGED chat
      BY <3>4 DEF RoundStarts, Decide, Send, Enter, NotSent
    <3>5. CASE ReadMessages \/ StoryMoves \/ TimePasses \/ UNCHANGED vars
      BY <3>5 DEF ReadMessages, StoryMoves, TimePasses, vars
    <3>6. CASE CrashAndRestart
      BY <1>0, <3>6, CrashFacts, ForgottenFacts
    <3>7. QED
      BY <1>4, <3>1, <3>2, <3>3, <3>4, <3>5, <3>6 DEF Next
  <2>3. chat'[c].at = chat[c].at /\ chat'[c].landedIn = chat[c].landedIn
    BY <2>2, OverStays DEF Over
  <2>4. QED
    BY <1>1, <2>1, <2>2, <2>3
<1>5. QED
  BY <1>2, <1>3, <1>4

\* The turns behind the answer of an exchange are later.
LEMMA NextPrompt ==
  ASSUME Conversation, MirrorInv, StoredInv, [Next]_vars, failures = 0,
         NEW c \in Chats, Asks(c), NEW d \in Reported, InWindow(d)
  PROVE  Shows(chat'[c].prompt, d)
<1> DEFINE n == Len(memory.turns)
<1>0. /\ n \in Nat /\ DOMAIN memory.turns = 1 .. n /\ DOMAIN table.turns = 0 .. n - 1
      /\ \A i \in 1 .. n : table.turns[i - 1] = memory.turns[i]
  BY DEF Conversation, Typed, MemoryType, MirrorInv, Mirrored
<1>1. d \in Chats /\ chat[d].stage = "applied" /\ chat[d].landedIn = epoch
  BY DEF Reported
<1>2. PICK q \in DOMAIN table.turns :
        /\ q + 1 \in DOMAIN table.turns
        /\ table.turns[q] = Question(d) /\ table.turns[q + 1] = Answer(d)
  BY <1>1 DEF StoredInv, Stored
<1> HIDE DEF n
<1>3. q \in 0 .. n - 1 /\ q + 2 \in 1 .. n
  BY <1>0, <1>2
<1>4. (q + 1) + 1 .. n - 1 \subseteq Later(d)
  <2>1. SUFFICES ASSUME NEW s \in (q + 1) + 1 .. n - 1 PROVE s \in Later(d)
    OBVIOUS
  <2>2. s \in 0 .. n - 1 /\ q + 1 < s
    BY <1>3
  <2>3. QED
    BY <1>0, <1>2, <2>2 DEF Later
<1>5. IsFiniteSet(Later(d))
  <2>1. IsFiniteSet(0 .. n - 1)
    BY <1>0, Below
  <2>2. Later(d) \subseteq 0 .. n - 1
    BY <1>0 DEF Later
  <2>3. QED
    BY <2>1, <2>2, FS_Subset
<1>6. Cardinality((q + 1) + 1 .. n - 1) = n - q - 2
  <2> DEFINE low == (q + 1) + 1
             high == n - 1
  <2>1. low \in Int /\ high \in Int /\ low = q + 2
    BY <1>0, <1>3
  <2>2. Cardinality(low .. high) = IF low > high THEN 0 ELSE high - low + 1
    BY <2>1, FS_Interval
  <2> HIDE DEF low
  <2>3. (IF low > high THEN 0 ELSE high - low + 1) = n - q - 2
    BY <1>0, <1>3, <2>1
  <2>4. QED
    BY <2>2, <2>3 DEF low
<1>7. Cardinality(Later(d)) \in Nat /\ Cardinality((q + 1) + 1 .. n - 1) <= Cardinality(Later(d))
  BY <1>4, <1>5, FS_Subset, FS_CardinalityType
<1>8. HistoryWindow \in Nat /\ Cardinality(Later(d)) + 2 <= HistoryWindow
  BY ConversationAssumption DEF InWindow
<1>9. (q + 1) + HistoryWindow > n /\ (q + 2) + HistoryWindow > n
  <2> DEFINE later == Cardinality(Later(d))
  <2>1. n - q - 2 <= later /\ later \in Nat /\ later + 2 <= HistoryWindow
    BY <1>6, <1>7, <1>8
  <2> HIDE DEF later
  <2>2. QED
    BY <1>0, <1>3, <1>8, <2>1
<1>10. memory.turns[q + 1] = Question(d) /\ q + 1 \in 1 .. n
  <2>1. q + 1 \in 1 .. n /\ (q + 1) - 1 = q
    BY <1>0, <1>3
  <2>2. QED
    BY <1>0, <1>2, <2>1
<1>11. memory.turns[q + 2] = Answer(d)
  <2>1. (q + 2) - 1 = q + 1
    BY <1>3
  <2>2. QED
    BY <1>0, <1>2, <1>3, <2>1
<1>12. chat'[c].prompt = CharacterVisibleHistory
  BY AskedBy
<1>13. Answer(d) \in CharacterVisibleHistory
  <2>1. Answer(d).role = "agent"
    BY DEF Answer
  <2>2. q + 2 \in DOMAIN memory.turns /\ (q + 2) + HistoryWindow > Len(memory.turns)
    BY <1>0, <1>3, <1>9 DEF n
  <2>3. QED
    BY <1>11, <2>1, <2>2 DEF CharacterVisibleHistory
<1>14. ASSUME d \notin OutOfCharacter PROVE Question(d) \in CharacterVisibleHistory
  <2>1. Question(d).by = d
    BY DEF Question
  <2>2. q + 1 \in DOMAIN memory.turns /\ (q + 1) + HistoryWindow > Len(memory.turns)
    BY <1>0, <1>9, <1>10 DEF n
  <2>3. QED
    BY <1>10, <1>14, <2>1, <2>2 DEF CharacterVisibleHistory
<1>15. QED
  BY <1>12, <1>13, <1>14 DEF Shows

\* An entry of this conversation, and a message that is to become one, was said.
Said(t) ==
  \E s \in DOMAIN table.turns :
    table.turns[s] = [by |-> "herself", role |-> "agent", at |-> t]

SaidInv ==
  failures = 0 =>
    /\ \A t \in DOMAIN table.messages : table.messages[t].epoch = epoch => Said(t)
    /\ \A r \in Sends : Said(round[r].at)

LEMMA NextSaid ==
  ASSUME Conversation, MirrorInv, SaidInv, [Next]_vars
  PROVE  SaidInv'
<1> DEFINE said(t) == \E s \in DOMAIN table'.turns :
                        table'.turns[s] = [by |-> "herself", role |-> "agent", at |-> t]
           Goal == /\ \A t \in DOMAIN table'.messages : table'.messages[t].epoch = epoch' => said(t)
                   /\ \A r \in Sends' : said(round'[r].at)
<1> SUFFICES ASSUME failures' = 0 PROVE Goal
  BY DEF SaidInv, Said
<1>0. /\ Typed /\ Epochs /\ failures = 0 /\ Mirrored(memory.turns, table.turns)
      /\ epoch \in Nat /\ table.messages \in Entries
  BY FailuresStay DEF Conversation, MirrorInv, Typed, TableType
<1>1. ASSUME Extends, NEW t, Said(t) PROVE said(t)
  BY <1>1 DEF Extends, Said
<1>2. ASSUME Extends, UNCHANGED epoch, Sends' \subseteq Sends,
             \A r \in Sends' : round'[r].at = round[r].at,
             DOMAIN table'.messages = DOMAIN table.messages,
             \A t \in DOMAIN table.messages : table'.messages[t].epoch = table.messages[t].epoch
      PROVE  Goal
  <2>1. \A t \in DOMAIN table'.messages : table'.messages[t].epoch = epoch' => said(t)
    BY <1>0, <1>1, <1>2 DEF SaidInv
  <2>2. \A r \in Sends' : said(round'[r].at)
    BY <1>0, <1>1, <1>2 DEF SaidInv
  <2>3. QED
    BY <2>1, <2>2
<1>3. (Extends /\ UNCHANGED epoch) \/ NewConversation
  BY <1>0, NextMirror
<1>4. CASE NewConversation
  <2>1. /\ epoch' = epoch + 1 /\ table'.messages = table.messages /\ Sends = {}
        /\ UNCHANGED round
    BY <1>0, <1>4, ClearFacts, BusyFacts
  <2>2. \A t \in DOMAIN table.messages : table.messages[t].epoch # epoch + 1
    BY <1>0, EntriesFacts DEF Epochs, EntryType
  <2>3. Sends' = {}
    BY <2>1 DEF Sends
  <2>4. QED
    BY <2>1, <2>2, <2>3
<1>5. ASSUME NEW c \in Chats, Ask(c) \/ Reply(c) \/ ChatFails(c) \/ Store(c) \/ Finish(c)
      PROVE  Goal
  <2>1. /\ UNCHANGED <<round, epoch>>
        /\ DOMAIN table'.messages = DOMAIN table.messages
        /\ \A t \in DOMAIN table.messages : table'.messages[t].epoch = table.messages[t].epoch
    BY <1>0, <1>5, AskFacts, AnswerFacts, StoreFacts, FinishFacts
  <2>2. Sends' = Sends
    BY <2>1 DEF Sends
  <2>3. Extends
    BY <1>0, <1>3, <1>5, <2>1, ClearFacts
  <2>4. QED
    BY <1>2, <2>1, <2>2, <2>3
<1>6. ASSUME NEW r \in Rounds, RoundStarts(r) \/ Decide(r) \/ NotSent(r) PROVE Goal
  <2>1. Still /\ (\A s \in Rounds : s # r => round'[s] = round[s]) /\ round'[r].stage # "sent"
    BY <1>0, <1>6, RoundStartsFacts, DecideFacts
  <2>2. Extends
    BY <2>1 DEF Still, Extends
  <2>3. Sends' \subseteq Sends /\ \A s \in Sends' : round'[s].at = round[s].at
    BY <2>1 DEF Sends
  <2>4. QED
    BY <1>2, <2>1, <2>2, <2>3 DEF Still
<1>7. ASSUME NEW r \in Rounds, Send(r) PROVE Goal
  <2>1. /\ UNCHANGED epoch /\ table'.messages = table.messages /\ Sends = {}
        /\ Appends(<<Message(r)>>)
        /\ table'.turns = Upserted(table.turns, <<Message(r)>>)
        /\ round'[r].at = round[r].at
        /\ \A s \in Rounds : s # r => round'[s] = round[s]
    BY <1>0, <1>7, SendFacts, BusyFacts
  <2>2. <<Message(r)>> \in Seq(Turn) /\ Len(<<Message(r)>>) = 1 /\ <<Message(r)>>[1] = Message(r)
    BY <1>0, <1>7, MessageKnown
  <2>3. Extends /\ \E s \in DOMAIN table'.turns : table'.turns[s] = Message(r)
    <3> DEFINE turns == <<Message(r)>>
               place == Len(memory.turns) + 1 - 1
    <3>1. /\ turns \in Seq(Turn) /\ 1 \in 1 .. Len(turns) /\ turns[1] = Message(r)
          /\ memory'.turns = memory.turns \o turns /\ table'.turns = Upserted(table.turns, turns)
      BY <2>1, <2>2 DEF Appends
    <3> HIDE DEF turns
    <3>2. Extends /\ place \in DOMAIN table'.turns /\ table'.turns[place] = turns[1]
      BY <1>0, <3>1, AppendsMirrored
    <3>3. QED
      BY <3>1, <3>2
  <2>4. said(round'[r].at)
    BY <2>1, <2>3 DEF Message
  <2>5. Sends' \subseteq {r}
    BY <2>1 DEF Sends
  <2>6. \A t \in DOMAIN table'.messages : table'.messages[t].epoch = epoch' => said(t)
    BY <1>0, <1>1, <2>1, <2>3 DEF SaidInv
  <2>7. QED
    BY <2>4, <2>5, <2>6
<1>8. ASSUME NEW r \in Rounds, Enter(r) PROVE Goal
  <2> DEFINE now == round[r].at
  <2>1. /\ r \in Sends /\ table'.turns = table.turns /\ UNCHANGED epoch
        /\ DOMAIN table'.messages = DOMAIN table.messages \cup {now}
        /\ \A t \in DOMAIN table.messages \ {now} : table'.messages[t] = table.messages[t]
        /\ round'[r].stage = "idle" /\ \A s \in Rounds : s # r => round'[s] = round[s]
    BY <1>0, <1>8, EnterFacts DEF Sends
  <2>2. Extends
    BY <2>1 DEF Extends
  <2>3. said(now)
    BY <1>0, <1>1, <2>1, <2>2 DEF SaidInv
  <2>4. \A t \in DOMAIN table'.messages : table'.messages[t].epoch = epoch' => said(t)
    BY <1>0, <1>1, <2>1, <2>2, <2>3 DEF SaidInv
  <2>5. \A s \in Sends' : s \in Sends /\ round'[s].at = round[s].at
    BY <2>1 DEF Sends
  <2>6. \A s \in Sends' : said(round'[s].at)
    BY <1>0, <1>1, <2>2, <2>5 DEF SaidInv
  <2>7. QED
    BY <2>4, <2>6
<1>9. CASE ReadMessages \/ StoryMoves \/ TimePasses
  <2>1. Still /\ UNCHANGED round
    BY <1>0, <1>9, QuietFacts
  <2>2. Extends /\ Sends' = Sends
    BY <2>1 DEF Still, Extends, Sends
  <2>3. QED
    BY <1>2, <2>1, <2>2 DEF Still
<1>10. CASE CrashAndRestart
  <2>1. UNCHANGED <<table, epoch>> /\ Sends' = {}
    BY <1>0, <1>10, CrashFacts DEF Sends
  <2>2. Extends
    BY <2>1 DEF Extends
  <2>3. QED
    BY <1>2, <2>1, <2>2
<1>11. CASE UNCHANGED vars
  <2>1. UNCHANGED <<table, epoch, round>> /\ Sends' = Sends
    BY <1>11 DEF vars, history, Sends
  <2>2. Extends
    BY <2>1 DEF Extends
  <2>3. QED
    BY <1>2, <2>1, <2>2
<1>12. QED
  BY <1>4, <1>5, <1>6, <1>7, <1>8, <1>9, <1>10, <1>11 DEF Next
-----------------------------------------------------------------------------
(* The gap between her messages *)

\* A chat that is over was asked at or after a time; unlike WroteSince this stays.
LandedSince(s, chats) == \E c \in Chats : Over(chats[c]) /\ chats[c].at >= s

Apart(s, t, chats) == t >= s + (IF LandedSince(s, chats) THEN Gap ELSE 2 * Gap)

Alone == {t \in DOMAIN table.messages : table.messages[t].alone}
Singles == {r \in Rounds : round[r].stage \in {"writing", "sent"} /\ round[r].alone}

\* One message at a time is decided alone, apart from each that was.
Gaps ==
  /\ \A s, t \in Alone : s < t => Apart(s, t, chat)
  /\ \A r \in Singles : \A s \in Alone : Apart(s, round[r].at, chat)
  /\ \A r, q \in Singles : r = q

LEMMA ApartStays ==
  ASSUME Conversation, [Next]_vars, NEW s \in Times, NEW t \in Times, Apart(s, t, chat)
  PROVE  Apart(s, t, chat')
<1>1. LandedSince(s, chat) => LandedSince(s, chat')
  <2>1. SUFFICES ASSUME NEW c \in Chats, Over(chat[c]), chat[c].at >= s PROVE LandedSince(s, chat')
    BY DEF LandedSince
  <2>2. Over(chat'[c]) /\ chat'[c].at >= s
    BY <2>1, OverStays
  <2>3. QED
    BY <2>2 DEF LandedSince
<1>2. Gap \in Nat /\ s \in Nat /\ t \in Nat
  BY ConstantFacts
<1>3. QED
  BY <1>1, <1>2 DEF Apart

\* The backoff of the decision, by a participant's turn that may have answered.
LEMMA DecidedApart ==
  ASSUME Conversation, Known, NEW now \in Times, MaySend(now), NEW s \in DOMAIN table.messages
  PROVE  Apart(s, now, chat)
<1>1. /\ s \in Nat /\ now \in Nat /\ Gap \in Nat /\ now >= s + Gap * BackoffFactor
      /\ memory.turns \in Seq(Turn)
  BY ConstantFacts, EntriesFacts DEF Conversation, Typed, TableType, MemoryType, MaySend
<1>2. CASE s \in Unanswered
  <2>1. BackoffFactor \in {2, 4}
    BY <1>2 DEF BackoffFactor
  <2>2. Gap * BackoffFactor = 2 * Gap \/ Gap * BackoffFactor = 4 * Gap
    BY <1>1, <2>1
  <2>3. now >= s + 2 * Gap
    <3> DEFINE step == Gap * BackoffFactor
    <3>1. now >= s + step /\ (step = 2 * Gap \/ step = 4 * Gap)
      BY <1>1, <2>2
    <3> HIDE DEF step
    <3>2. QED
      BY <1>1, <3>1
  <2>4. QED
    BY <1>1, <2>3 DEF Apart
<1>3. CASE s \notin Unanswered
  <2>1. PICK i \in Asked : ~(s > memory.turns[i].at)
    BY <1>3 DEF Unanswered
  <2>2. i \in 1 .. Len(memory.turns) /\ memory.turns[i].role = "participant"
    BY <1>1, <2>1 DEF Asked
  <2>3. memory.turns[i] \in Turn
    BY <1>1, <2>2
  <2>4. memory.turns[i].at \in Nat
    BY <2>3, ConstantFacts DEF Turn
  <2>5. KnownTurn(memory.turns[i], chat, epoch, kept)
    BY <2>2 DEF Known
  <2>6. LandedSince(s, chat)
    BY <1>1, <2>1, <2>2, <2>4, <2>5 DEF KnownTurn, LandedSince
  <2>7. BackoffFactor \in {1, 2, 4}
    BY DEF BackoffFactor
  <2>8. Gap * BackoffFactor \in {Gap, 2 * Gap, 4 * Gap}
    BY <1>1, <2>7
  <2>9. now >= s + Gap
    <3> DEFINE step == Gap * BackoffFactor
    <3>1. now >= s + step /\ step \in {Gap, 2 * Gap, 4 * Gap}
      BY <1>1, <2>8
    <3> HIDE DEF step
    <3>2. QED
      BY <1>1, <3>1
  <2>10. QED
    BY <2>6, <2>9 DEF Apart
<1>4. QED
  BY <1>2, <1>3

LEMMA NextGaps ==
  ASSUME Conversation, Known, Gaps, [Next]_vars
  PROVE  Gaps'
<1>0. Typed /\ table.messages \in Entries /\ round \in [Rounds -> RoundType]
  BY DEF Conversation, Typed, TableType
<1>t. /\ Alone \subseteq Times /\ \A r \in Rounds : round[r].at \in Times
  BY <1>0, EntriesFacts DEF Alone, RoundType
<1>1. ASSUME Alone' \subseteq Alone, Singles' \subseteq Singles,
             \A r \in Singles' : round'[r].at = round[r].at
      PROVE  Gaps'
  <2>1. \A s, t \in Alone' : s < t => Apart(s, t, chat')
    BY <1>1, <1>t, ApartStays DEF Gaps
  <2>2. ASSUME NEW r \in Singles', NEW s \in Alone' PROVE Apart(s, round'[r].at, chat')
    <3> DEFINE at == round[r].at
    <3>1. s \in Times /\ at \in Times /\ Apart(s, at, chat) /\ round'[r].at = at
      BY <1>1, <1>t, <2>2 DEF Gaps, Singles
    <3> HIDE DEF at
    <3>2. QED
      BY <3>1, ApartStays
  <2>3. QED
    BY <1>1, <2>1, <2>2 DEF Gaps
<1>2. ASSUME NEW c \in Chats, Ask(c) \/ Reply(c) \/ ChatFails(c) \/ Store(c) \/ Finish(c)
      PROVE  Gaps'
  <2>1. /\ UNCHANGED round /\ DOMAIN table'.messages = DOMAIN table.messages
        /\ \A t \in DOMAIN table.messages : table'.messages[t].alone = table.messages[t].alone
    BY <1>0, <1>2, AskFacts, AnswerFacts, StoreFacts, FinishFacts
  <2>2. Alone' = Alone /\ Singles' = Singles
    BY <2>1 DEF Alone, Singles
  <2>3. QED
    BY <1>1, <2>1, <2>2
<1>3. ASSUME NEW r \in Rounds, RoundStarts(r) \/ Decide(r) \/ NotSent(r),
             round'[r].stage # "writing"
      PROVE  Gaps'
  <2>1. /\ Still /\ round'[r].stage \notin {"writing", "sent"}
        /\ \A q \in Rounds : q # r => round'[q] = round[q]
    BY <1>0, <1>3, RoundStartsFacts, DecideFacts
  <2>2. Alone' = Alone
    BY <2>1 DEF Alone, Still
  <2>3. Singles' \subseteq Singles /\ \A q \in Singles' : round'[q].at = round[q].at
    BY <2>1 DEF Singles
  <2>4. QED
    BY <1>1, <2>2, <2>3
<1>4. ASSUME NEW r \in Rounds, Decide(r) \/ NotSent(r), round'[r].stage = "writing" PROVE Gaps'
  <2>1. /\ ~Busy /\ Still /\ round[r].stage = "living" /\ MaySend(round[r].at)
        /\ round'[r].at = round[r].at
        /\ round'[r].alone = \A q \in Rounds : round[q].stage # "writing"
        /\ \A q \in Rounds : q # r => round'[q] = round[q]
    BY <1>0, <1>4, DecideFacts
  <2>2. Alone' = Alone
    BY <2>1 DEF Alone, Still
  <2>3. CASE r \notin Singles'
    <3>1. Singles' \subseteq Singles /\ \A q \in Singles' : round'[q].at = round[q].at
      BY <2>1, <2>3 DEF Singles
    <3>2. QED
      BY <1>1, <2>2, <3>1
  <2>4. CASE r \in Singles'
    <3>1. \A q \in Rounds : round[q].stage # "writing"
      BY <2>1, <2>4 DEF Singles
    <3>2. Singles = {}
      BY <2>1, <3>1, BusyFacts DEF Singles, Sends
    <3>3. Singles' \subseteq {r}
      BY <2>1, <3>2 DEF Singles
    <3>4. ASSUME NEW s \in Alone PROVE Apart(s, round'[r].at, chat')
      <4> DEFINE at == round[r].at
      <4>1. s \in DOMAIN table.messages /\ s \in Times /\ at \in Times /\ MaySend(at)
            /\ round'[r].at = at
        BY <1>t, <2>1, <3>4 DEF Alone
      <4> HIDE DEF at
      <4>2. Apart(s, at, chat)
        BY <4>1, DecidedApart
      <4>3. QED
        BY <4>1, <4>2, ApartStays
    <3>5. \A s, t \in Alone' : s < t => Apart(s, t, chat')
      BY <1>t, <2>2, ApartStays DEF Gaps
    <3>6. QED
      BY <2>2, <3>3, <3>4, <3>5 DEF Gaps
  <2>5. QED
    BY <2>3, <2>4
<1>5. ASSUME NEW r \in Rounds, Send(r) PROVE Gaps'
  <2>1. /\ round[r].stage = "writing" /\ table'.messages = table.messages
        /\ \A q \in Rounds : q # r => round'[q] = round[q]
        /\ \/ round'[r].at = round[r].at /\ round'[r].alone = round[r].alone
           \/ round'[r].stage = "idle"
    BY <1>0, <1>5, SendFacts
  <2>2. Alone' = Alone
    BY <2>1 DEF Alone
  <2>3. Singles' \subseteq Singles /\ \A q \in Singles' : round'[q].at = round[q].at
    BY <2>1 DEF Singles
  <2>4. QED
    BY <1>1, <2>2, <2>3
<1>6. ASSUME NEW r \in Rounds, Enter(r) PROVE Gaps'
  <2> DEFINE now == round[r].at
  <2>1. /\ round[r].stage = "sent" /\ round'[r].stage = "idle" /\ now \in Times
        /\ \A q \in Rounds : q # r => round'[q] = round[q]
        /\ \/ /\ DOMAIN table'.messages = DOMAIN table.messages \cup {now}
              /\ table'.messages[now].alone = round[r].alone
              /\ \A t \in DOMAIN table.messages \ {now} : table'.messages[t] = table.messages[t]
           \/ UNCHANGED table
    BY <1>0, <1>6, EnterFacts
  <2>2. Singles' \subseteq Singles \ {r} /\ \A q \in Singles' : round'[q].at = round[q].at
    BY <2>1 DEF Singles
  <2>3. CASE Alone' \subseteq Alone
    BY <1>1, <2>2, <2>3
  <2>4. CASE ~(Alone' \subseteq Alone)
    <3>1. round[r].alone /\ Alone' \subseteq Alone \cup {now}
      BY <2>1, <2>4 DEF Alone
    <3>2. r \in Singles
      BY <2>1, <3>1 DEF Singles
    <3>3. Singles' = {}
      BY <2>2, <3>2 DEF Gaps
    <3>4. \A s \in Alone : Apart(s, now, chat)
      BY <3>2 DEF Gaps
    <3>5. ASSUME NEW s \in Alone', NEW t \in Alone', s < t PROVE Apart(s, t, chat')
      <4>1. s \in Times /\ t \in Times /\ s \in Alone \cup {now} /\ t \in Alone \cup {now}
        BY <1>t, <2>1, <3>1, <3>5
      <4>2. Gap \in Nat \ {0} /\ s \in Nat /\ t \in Nat /\ now \in Nat
        BY <2>1, <4>1, ConstantFacts
      <4> HIDE DEF now
      <4>3. CASE s = now
        <5>1. t \in Alone
          BY <3>5, <4>1, <4>2, <4>3
        <5>2. now >= t + Gap \/ now >= t + 2 * Gap
          BY <3>4, <5>1 DEF Apart
        <5>3. QED
          BY <3>5, <4>2, <4>3, <5>2
      <4>4. CASE s # now
        <5>1. Apart(s, t, chat)
          BY <3>4, <3>5, <4>1, <4>4 DEF Gaps
        <5>2. QED
          BY <4>1, <5>1, ApartStays
      <4>5. QED
        BY <4>3, <4>4
    <3>6. QED
      BY <3>3, <3>5 DEF Gaps
  <2>5. QED
    BY <2>3, <2>4
<1>7. CASE NewConversation
  <2>1. UNCHANGED round /\ table'.messages = table.messages
    BY <1>0, <1>7, ClearFacts
  <2>2. Alone' = Alone /\ Singles' = Singles
    BY <2>1 DEF Alone, Singles
  <2>3. QED
    BY <1>1, <2>1, <2>2
<1>8. CASE ReadMessages \/ StoryMoves \/ TimePasses
  <2>1. Still /\ UNCHANGED round
    BY <1>0, <1>8, QuietFacts
  <2>2. Alone' = Alone /\ Singles' = Singles
    BY <2>1 DEF Still, Alone, Singles
  <2>3. QED
    BY <1>1, <2>1, <2>2
<1>9. CASE CrashAndRestart
  <2>1. UNCHANGED table /\ Singles' = {}
    BY <1>0, <1>9, CrashFacts DEF Singles
  <2>2. Alone' = Alone
    BY <2>1 DEF Alone
  <2>3. QED
    BY <1>1, <2>1, <2>2
<1>10. CASE UNCHANGED vars
  <2>1. UNCHANGED <<table, round>> /\ Alone' = Alone /\ Singles' = Singles
    BY <1>10 DEF vars, Alone, Singles
  <2>2. QED
    BY <1>1, <2>1
<1>11. ASSUME NEW r \in Rounds, RoundStarts(r) \/ Decide(r) \/ NotSent(r) PROVE Gaps'
  <2>1. CASE RoundStarts(r)
    <3>1. round'[r].stage # "writing"
      BY <1>0, <2>1, RoundStartsFacts
    <3>2. QED
      BY <1>3, <2>1, <3>1
  <2>2. CASE Decide(r) \/ NotSent(r)
    BY <1>3, <1>4, <2>2
  <2>3. QED
    BY <1>11, <2>1, <2>2
<1>12. QED
  BY <1>2, <1>5, <1>6, <1>7, <1>8, <1>9, <1>10, <1>11 DEF Next

LEMMA GapsKeepTheGap == Conversation /\ Gaps => GapKept
<1> SUFFICES ASSUME Conversation, Gaps,
                    NEW s \in DOMAIN table.messages, NEW t \in DOMAIN table.messages, s < t,
                    table.messages[s].alone, table.messages[t].alone
             PROVE  t - s >= IF WroteSince(s) THEN Gap ELSE 2 * Gap
  BY DEF GapKept
<1>1. s \in Alone /\ t \in Alone
  BY DEF Alone
<1>2. s \in Nat /\ t \in Nat /\ Gap \in Nat
  BY EntriesFacts, ConstantFacts DEF Conversation, Typed, TableType
<1>3. LandedSince(s, chat) => WroteSince(s)
  BY DEF LandedSince, WroteSince, Over
<1>4. Apart(s, t, chat)
  BY <1>1 DEF Gaps
<1>5. QED
  BY <1>2, <1>3, <1>4 DEF Apart
-----------------------------------------------------------------------------
(* How long a transcript becomes *)

\* The times of the messages that may still be said, one for each round.
Stamps == {round[r].at : r \in Pending}

\* A chat that is over adds two turns at most, and a tick one.
Bound == 2 * Cardinality(Finished) + ticked

Counted ==
  /\ \A r \in Pending : round[r].at <= ticked
  /\ \A r, q \in Pending : round[r].at = round[q].at => r = q
  /\ Len(memory.turns) + Cardinality(Stamps) <= Bound
  /\ \A s \in DOMAIN table.turns : s < Bound

LEMMA CountFacts ==
  ASSUME Typed
  PROVE  /\ IsFiniteSet(Finished) /\ IsFiniteSet(Stamps)
         /\ Cardinality(Finished) \in Nat /\ Cardinality(Stamps) \in Nat
         /\ ticked \in Nat /\ Bound \in Nat
         /\ Cardinality(Finished) <= Cardinality(Chats) /\ Cardinality(Chats) \in Nat
         /\ Stamps \subseteq Times
<1>1. IsFiniteSet(Chats) /\ Finished \subseteq Chats
  BY ConstantFacts DEF Finished
<1>2. \A r \in Pending : round[r].at \in Times
  BY DEF Typed, RoundType, Pending
<1>3. IsFiniteSet(Times)
  BY ConstantFacts, FS_Interval DEF Times
<1>4. Stamps \subseteq Times
  BY <1>2 DEF Stamps
<1>5. IsFiniteSet(Finished) /\ Cardinality(Finished) <= Cardinality(Chats)
  BY <1>1, FS_Subset
<1>6. IsFiniteSet(Stamps)
  BY <1>3, <1>4, FS_Subset
<1>7. ticked \in Nat
  BY DEF Typed
<1>8. Cardinality(Finished) \in Nat /\ Cardinality(Stamps) \in Nat /\ Cardinality(Chats) \in Nat
  BY <1>1, <1>5, <1>6, FS_CardinalityType
<1>9. Bound \in Nat
  BY <1>7, <1>8 DEF Bound
<1>10. QED
  BY <1>4, <1>5, <1>6, <1>7, <1>8, <1>9

\* Chats that are over stay so.
LEMMA FinishedGrows ==
  ASSUME Conversation, [Next]_vars
  PROVE  /\ Finished \subseteq Finished'
         /\ Cardinality(Finished) <= Cardinality(Finished')
         /\ IsFiniteSet(Finished') /\ Cardinality(Finished') \in Nat
<1>1. Finished \subseteq Finished'
  BY OverStays DEF Finished
<1>2. IsFiniteSet(Finished')
  <2>1. Finished' \subseteq Chats
    BY DEF Finished
  <2>2. QED
    BY <2>1, ConstantFacts, FS_Subset
<1>3. QED
  BY <1>1, <1>2, FS_Subset, FS_CardinalityType

LEMMA NextCounted ==
  ASSUME Conversation, Counted, [Next]_vars
  PROVE  Counted'
<1>0. /\ Typed /\ round \in [Rounds -> RoundType] /\ memory.turns \in Seq(Turn)
      /\ table.turns \in Rows /\ IsFiniteSet(DOMAIN table.turns)
  BY DEF Conversation, Typed, MemoryType, TableType
<1> DEFINE n == Len(memory.turns)
           f == Cardinality(Finished)
           p == Cardinality(Stamps)
<1>n. /\ n \in Nat /\ f \in Nat /\ p \in Nat /\ ticked \in Nat
      /\ Bound = 2 * f + ticked /\ Bound' = 2 * Cardinality(Finished') + ticked'
      /\ Cardinality(Finished') \in Nat /\ f <= Cardinality(Finished')
      /\ n + p <= Bound
      /\ DOMAIN table.turns \in SUBSET Nat /\ \A s \in DOMAIN table.turns : s < Bound
  <2>1. n \in Nat /\ f \in Nat /\ p \in Nat /\ ticked \in Nat
    BY <1>0, CountFacts
  <2>2. Bound = 2 * f + ticked /\ Bound' = 2 * Cardinality(Finished') + ticked'
    BY DEF Bound
  <2>3. Cardinality(Finished') \in Nat /\ f <= Cardinality(Finished')
    BY FinishedGrows
  <2>4. n + p <= Bound /\ \A s \in DOMAIN table.turns : s < Bound
    BY DEF Counted
  <2>5. DOMAIN table.turns \in SUBSET Nat
    BY <1>0, RowsFacts
  <2>6. QED
    BY <2>1, <2>2, <2>3, <2>4, <2>5
<1> DEFINE Narrows == /\ Pending' \subseteq Pending
                      /\ \A r \in Pending' : round'[r].at = round[r].at
<1>1. ASSUME Narrows, ticked' = ticked
      PROVE  /\ \A r \in Pending' : round'[r].at <= ticked'
             /\ \A r, q \in Pending' : round'[r].at = round'[q].at => r = q
             /\ Stamps' \subseteq Stamps
             /\ Cardinality(Stamps') \in Nat /\ Cardinality(Stamps') <= p
  <2>1. Stamps' \subseteq Stamps
    BY <1>1 DEF Stamps
  <2>2. Cardinality(Stamps') <= p /\ Cardinality(Stamps') \in Nat
    BY <1>0, <2>1, CountFacts, FS_Subset, FS_CardinalityType
  <2>3. QED
    BY <1>1, <2>1, <2>2 DEF Counted
<1>2. ASSUME Narrows, ticked' = ticked, Len(memory'.turns) <= n, Len(memory'.turns) \in Nat,
             DOMAIN table'.turns \subseteq DOMAIN table.turns
      PROVE  Counted'
  <2>1. Bound' >= Bound /\ Bound' \in Nat
    BY <1>2, <1>n
  <2>2. Len(memory'.turns) + Cardinality(Stamps') <= Bound'
    <3> DEFINE m == Len(memory'.turns)
               q == Cardinality(Stamps')
    <3>1. m <= n /\ m \in Nat /\ q <= p /\ q \in Nat
      BY <1>1, <1>2
    <3> HIDE DEF m, q, n, p
    <3>2. m + q <= Bound'
      BY <1>n, <2>1, <3>1
    <3>3. QED
      BY <3>2 DEF m, q
  <2>3. \A s \in DOMAIN table'.turns : s < Bound'
    <3>1. SUFFICES ASSUME NEW s \in DOMAIN table'.turns PROVE s < Bound'
      OBVIOUS
    <3>2. s \in Nat /\ s < Bound
      BY <1>n, <1>2
    <3>3. QED
      BY <1>n, <2>1, <3>2
  <2>4. QED
    BY <1>1, <1>2, <2>2, <2>3 DEF Counted
  \* Turns are added by a chat that is now over, or by a round that no longer is pending.
<1>3. ASSUME NEW turns \in Seq(Turn), Appends(turns), Narrows, ticked' = ticked,
             Cardinality(Stamps') + Len(turns) + 2 * f <= p + 2 * Cardinality(Finished')
      PROVE  Counted'
  <2> DEFINE k == Len(turns)
             m == Len(memory'.turns)
             q == Cardinality(Stamps')
             b == Bound'
  <2>1. k \in Nat /\ m = n + k
    BY <1>0, <1>3 DEF Appends
  <2>2. q \in Nat
    BY <1>1, <1>3
  <2>3. b \in Nat /\ Bound <= b /\ q + k + Bound <= p + b
    <3> DEFINE g == Cardinality(Finished')
    <3>1. /\ q + k + 2 * f <= p + 2 * g /\ g \in Nat /\ f <= g
          /\ b = 2 * g + ticked /\ Bound = 2 * f + ticked
      BY <1>3, <1>n
    <3> HIDE DEF k, q, b, g, f, p
    <3>2. QED
      BY <1>n, <2>1, <2>2, <3>1
  <2> HIDE DEF k, m, q, b, n, f, p
  <2>4. m + q <= b /\ n + k <= b
    BY <1>n, <2>1, <2>2, <2>3
  <2>5. ASSUME NEW s \in DOMAIN table'.turns PROVE s < b
    <3>1. CASE s \in DOMAIN table.turns
      BY <1>n, <2>3, <3>1
    <3>2. CASE s \notin DOMAIN table.turns
      <4>1. DOMAIN Upserted(table.turns, turns) = DOMAIN table.turns \cup n .. n + k - 1
        BY <1>0, UpsertedFacts DEF n, k
      <4>2. table'.turns = Upserted(table.turns, turns)
        BY <1>3, <2>5, <3>2 DEF Appends
      <4>3. s \in n .. n + k - 1
        BY <2>5, <3>2, <4>1, <4>2
      <4>4. QED
        BY <1>n, <2>1, <2>3, <2>4, <4>3
    <3>3. QED
      BY <3>1, <3>2
  <2>6. QED
    BY <1>1, <1>3, <2>4, <2>5 DEF Counted, m, q, b
<1>4. ASSUME NEW c \in Chats, Ask(c) \/ Reply(c) \/ ChatFails(c) \/ Finish(c) PROVE Counted'
  <2>1. UNCHANGED <<memory, round, ticked>> /\ table'.turns = table.turns
    BY <1>0, <1>4, AskFacts, AnswerFacts, FinishFacts
  <2>2. Narrows
    BY <2>1 DEF Pending
  <2>3. QED
    BY <1>2, <1>n, <2>1, <2>2
<1>5. ASSUME NEW c \in Chats, Store(c) PROVE Counted'
  <2>1. PICK leak \in BOOLEAN : Appends(Exchange(c, leak))
    BY <1>0, <1>5, StoreFacts
  <2>2. UNCHANGED <<round, ticked>> /\ chat[c].stage = "replied" /\ Over(chat'[c])
    BY <1>0, <1>5, StoreFacts DEF Over
  <2>3. Narrows /\ Stamps' = Stamps
    BY <2>2 DEF Pending, Stamps
  <2>4. c \notin Finished /\ c \in Finished'
    BY <2>2 DEF Finished, Over
  <2>5. Cardinality(Finished') >= f + 1
    <3>1. IsFiniteSet(Finished') /\ Finished \cup {c} \subseteq Finished'
      BY <2>4, FinishedGrows
    <3>2. Cardinality(Finished \cup {c}) = f + 1
      BY <1>0, <2>4, CountFacts, FS_AddElement
    <3>3. Cardinality(Finished \cup {c}) <= Cardinality(Finished')
      BY <3>1, FS_Subset
    <3>4. QED
      BY <3>2, <3>3
  <2>6. Exchange(c, leak) \in Seq(Turn) /\ Len(Exchange(c, leak)) \in {1, 2}
    BY <1>0, ExchangeFacts DEF Exchange
  <2>7. Cardinality(Stamps') + Len(Exchange(c, leak)) + 2 * f <= p + 2 * Cardinality(Finished')
    <3> DEFINE g == Cardinality(Finished')
               k == Len(Exchange(c, leak))
    <3>1. g >= f + 1 /\ g \in Nat /\ f \in Nat /\ p \in Nat /\ k \in {1, 2}
      BY <1>n, <2>5, <2>6
    <3>2. Cardinality(Stamps') = p
      BY <2>3
    <3> HIDE DEF g, k, f, p
    <3>3. p + k + 2 * f <= p + 2 * g
      BY <3>1
    <3>4. QED
      BY <3>2, <3>3 DEF g, k
  <2>8. QED
    BY <1>3, <2>1, <2>2, <2>3, <2>6, <2>7
<1>6. ASSUME NEW r \in Rounds, RoundStarts(r) PROVE Counted'
  <2>1. /\ UNCHANGED memory /\ table'.turns = table.turns
        /\ round[r].stage = "idle" /\ round'[r].stage = "living" /\ round'[r].at = clock
        /\ clock > ticked /\ ticked' = clock /\ clock \in Nat
        /\ \A q \in Rounds : q # r => round'[q] = round[q]
    <3>1. clock \in Nat
      BY <1>0, ConstantFacts DEF Typed
    <3>2. QED
      BY <1>0, <1>6, <3>1, RoundStartsFacts DEF Still
  <2>2. Pending' = Pending \cup {r} /\ \A q \in Pending : q # r /\ round'[q].at = round[q].at
    BY <2>1 DEF Pending
  <2>3. \A q \in Pending : round[q].at <= ticked /\ round[q].at \in Nat
    BY <1>0, ConstantFacts DEF Counted, Pending, RoundType
  <2>4. Stamps' = Stamps \cup {clock} /\ clock \notin Stamps
    <3>1. Stamps' = Stamps \cup {clock}
      BY <2>1, <2>2 DEF Stamps
    <3>2. \A q \in Pending : round[q].at # clock
      BY <1>n, <2>1, <2>3
    <3>3. QED
      BY <3>1, <3>2 DEF Stamps
  <2>5. Cardinality(Stamps') = p + 1
    BY <1>0, <2>4, CountFacts, FS_AddElement
  <2>earlier. ticked \in Nat /\ \A q \in Pending : round'[q].at \in Nat /\ round'[q].at < clock
    <3>1. ticked \in Nat
      BY <1>0, ConstantFacts DEF Typed
    <3>2. \A q \in Pending : round'[q].at = round[q].at
      BY <2>2
    <3>3. \A x \in Nat : x <= ticked => x < clock
      BY <2>1, <3>1
    <3>4. QED
      BY <2>3, <3>1, <3>2, <3>3
  <2>6. \A q \in Pending' : round'[q].at <= ticked'
    BY <2>1, <2>2, <2>earlier
  <2>7. \A q, t \in Pending' : round'[q].at = round'[t].at => q = t
    <3>1. \A q, t \in Pending : round'[q].at = round'[t].at => q = t
      BY <1>0, <2>2 DEF Counted
    <3>2. QED
      BY <2>1, <2>2, <2>earlier, <3>1
  <2> DEFINE g == Cardinality(Finished')
             b == Bound'
  <2>8. b = 2 * g + clock /\ g \in Nat /\ f <= g /\ Bound = 2 * f + ticked
    BY <1>n, <2>1
  <2> HIDE DEF n, f, p, g, b
  <2>9. n + (p + 1) <= b /\ Bound <= b /\ Bound \in Nat /\ b \in Nat
    BY <1>n, <2>1, <2>8
  <2>10. \A s \in DOMAIN table'.turns : s < b
    BY <1>n, <2>1, <2>9
  <2>11. Len(memory'.turns) + Cardinality(Stamps') <= b
    BY <2>1, <2>5, <2>9 DEF n
  <2>12. QED
    BY <2>6, <2>7, <2>10, <2>11 DEF Counted, b
<1>7. ASSUME NEW r \in Rounds, Decide(r) \/ NotSent(r) PROVE Counted'
  <2>1. /\ UNCHANGED <<memory, ticked>> /\ table'.turns = table.turns
        /\ round[r].stage \in {"living", "writing"}
        /\ round'[r].stage = "idle" \/ round'[r].at = round[r].at
        /\ \A q \in Rounds : q # r => round'[q] = round[q]
    BY <1>0, <1>7, DecideFacts DEF Still
  <2>2. Narrows
    BY <2>1 DEF Pending
  <2>3. QED
    BY <1>2, <1>n, <2>1, <2>2
<1>8. ASSUME NEW r \in Rounds, Send(r) PROVE Counted'
  <2> DEFINE now == round[r].at
  <2>1. /\ Appends(<<Message(r)>>) /\ UNCHANGED ticked
        /\ round[r].stage = "writing" /\ round'[r].stage \in {"sent", "idle"}
        /\ \A q \in Rounds : q # r => round'[q] = round[q]
    BY <1>0, <1>8, SendFacts
  <2>2. r \in Pending /\ Pending' = Pending \ {r}
        /\ \A q \in Pending' : round'[q].at = round[q].at
    BY <2>1 DEF Pending
  <2>3. Narrows
    BY <2>2
  <2>4. now \in Stamps /\ Stamps' \subseteq Stamps \ {now}
    BY <2>2 DEF Stamps, Counted
  <2>5. Cardinality(Stamps') + 1 <= p /\ Cardinality(Stamps') \in Nat
    <3>1. IsFiniteSet(Stamps \ {now}) /\ Cardinality(Stamps \ {now}) = p - 1
      BY <1>0, <2>4, CountFacts, FS_RemoveElement
    <3>2. Cardinality(Stamps') <= p - 1 /\ Cardinality(Stamps') \in Nat
      BY <2>4, <3>1, FS_Subset, FS_CardinalityType
    <3>3. QED
      BY <1>n, <3>2
  <2>6. <<Message(r)>> \in Seq(Turn) /\ Len(<<Message(r)>>) = 1
    BY <1>0, <1>8, MessageKnown
  <2>7. Cardinality(Stamps') + Len(<<Message(r)>>) + 2 * f <= p + 2 * Cardinality(Finished')
    <3> DEFINE g == Cardinality(Finished')
               q == Cardinality(Stamps')
    <3>1. q + 1 <= p /\ q \in Nat /\ f <= g /\ g \in Nat
      BY <1>n, <2>5
    <3> HIDE DEF f, p, g, q
    <3>2. q + 1 + 2 * f <= p + 2 * g
      BY <1>n, <3>1
    <3>3. QED
      BY <2>6, <3>2 DEF g, q
  <2>8. QED
    BY <1>3, <2>1, <2>3, <2>6, <2>7
<1>9. ASSUME NEW r \in Rounds, Enter(r) PROVE Counted'
  <2>1. /\ UNCHANGED <<memory, ticked>> /\ table'.turns = table.turns
        /\ round'[r].stage = "idle"
        /\ \A q \in Rounds : q # r => round'[q] = round[q]
    BY <1>0, <1>9, EnterFacts
  <2>2. Narrows
    BY <2>1 DEF Pending
  <2>3. QED
    BY <1>2, <1>n, <2>1, <2>2
<1>10. CASE NewConversation
  <2>1. /\ UNCHANGED <<round, ticked>> /\ Len(memory'.turns) = 0
        /\ DOMAIN table'.turns = {} \/ table'.turns = table.turns
    BY <1>0, <1>10, ClearFacts
  <2>2. Narrows
    BY <2>1 DEF Pending
  <2>3. QED
    BY <1>2, <1>n, <2>1, <2>2
<1>11. CASE ReadMessages \/ StoryMoves \/ TimePasses
  <2>1. UNCHANGED <<memory, round, ticked>> /\ table'.turns = table.turns
    BY <1>0, <1>11, QuietFacts DEF Still
  <2>2. Narrows
    BY <2>1 DEF Pending
  <2>3. QED
    BY <1>2, <1>n, <2>1, <2>2
<1>12. CASE CrashAndRestart
  <2>1. /\ memory'.turns = Loaded(table.turns) /\ UNCHANGED <<table, ticked>>
        /\ \A q \in Rounds : round'[q].stage = "idle"
    BY <1>0, <1>12, CrashFacts
  <2>2. Pending' = {} /\ Stamps' = {}
    BY <2>1 DEF Pending, Stamps
  <2> DEFINE rows == Cardinality(DOMAIN table.turns)
             b == Bound'
  <2>3. Len(memory'.turns) = rows /\ rows \in Nat
    BY <1>0, <2>1, LoadedFacts
  <2>4. Bound <= b /\ b \in Nat /\ Bound \in Nat
    <3> DEFINE g == Cardinality(Finished')
    <3>1. b = 2 * g + ticked /\ g \in Nat /\ f <= g /\ Bound = 2 * f + ticked
      BY <1>n, <2>1
    <3> HIDE DEF f, b, g
    <3>2. QED
      BY <1>n, <3>1
  <2> HIDE DEF b
  <2>5. \A s \in DOMAIN table.turns : s < b
    <3>1. SUFFICES ASSUME NEW s \in DOMAIN table.turns PROVE s < b
      OBVIOUS
    <3>2. s \in Nat /\ s < Bound
      BY <1>n
    <3>3. QED
      BY <2>4, <3>2
  <2>6. DOMAIN table.turns \subseteq 0 .. b - 1
    BY <1>n, <2>4, <2>5
  <2>7. IsFiniteSet(0 .. b - 1) /\ Cardinality(0 .. b - 1) = b
    BY <2>4, Below
  <2>8. rows <= b
    BY <2>6, <2>7, FS_Subset
  <2>9. Len(memory'.turns) + Cardinality(Stamps') <= b
    BY <2>2, <2>3, <2>4, <2>8, FS_EmptySet
  <2>10. QED
    BY <2>1, <2>2, <2>5, <2>9 DEF Counted, b
<1>13. CASE UNCHANGED vars
  <2>1. UNCHANGED <<memory, table, round, ticked>>
    BY <1>13 DEF vars
  <2>2. Narrows
    BY <2>1 DEF Pending
  <2>3. QED
    BY <1>2, <1>n, <2>1, <2>2
<1>14. QED
  BY <1>4, <1>5, <1>6, <1>7, <1>8, <1>9, <1>10, <1>11, <1>12, <1>13 DEF Next

LEMMA OneAtMost ==
  ASSUME NEW S, \A x, y \in S : x = y
  PROVE  Cardinality(S) \in {0, 1} /\ (S = {} => Cardinality(S) = 0)
<1>1. CASE S = {}
  BY <1>1, FS_EmptySet
<1>2. CASE S # {}
  <2>1. PICK x : x \in S
    BY <1>2
  <2>2. S = {x}
    BY <2>1
  <2>3. QED
    BY <1>2, <2>2, FS_Singleton
<1>3. QED
  BY <1>1, <1>2

LEMMA CountedTypes == Conversation /\ Counted => TypeOK
<1> SUFFICES ASSUME Conversation, Counted PROVE TypeOK
  OBVIOUS
<1>0. Typed /\ table \in TableType /\ table.turns \in Rows /\ table.messages \in Entries
  BY DEF Conversation, Typed, TableType
<1>1. DOMAIN table.turns \subseteq Seqs
  <2>1. SUFFICES ASSUME NEW s \in DOMAIN table.turns PROVE s \in Seqs
    OBVIOUS
  <2> DEFINE f == Cardinality(Finished)
             k == Cardinality(Chats)
  <2>2. s \in Nat /\ s < 2 * f + ticked
    BY <1>0, RowsFacts DEF Counted, Bound
  <2>3. f \in Nat /\ k \in Nat /\ f <= k
    BY <1>0, CountFacts
  <2>4. ticked \in Nat /\ LastTime \in Nat /\ ticked <= LastTime
    BY <1>0, ConstantFacts DEF Typed
  <2> HIDE DEF f, k
  <2>5. s \in 0 .. 2 * k + LastTime
    BY <2>2, <2>3, <2>4
  <2>6. QED
    BY <2>5 DEF Seqs, k
<1>2. Cardinality(Stores) + Cardinality(Sends) <= 1
  <2>1. /\ Cardinality(Stores) \in {0, 1} /\ Cardinality(Sends) \in {0, 1}
        /\ Cardinality(Stores) = 0 \/ Cardinality(Sends) = 0
    BY OneAtMost DEF Conversation, Exclusive
  <2>2. QED
    BY <2>1
<1>3. /\ \A s \in DOMAIN table.turns : table.turns[s] \in Turn
      /\ table.remembered \in SUBSET Chats
      /\ DOMAIN table.messages \subseteq Times
      /\ \A t \in DOMAIN table.messages : table.messages[t] \in EntryType
  BY <1>0, RowsFacts, EntriesFacts DEF TableType
<1>4. QED
  BY <1>0, <1>1, <1>2, <1>3
  DEF TypeOK, Typed, MemoryType, ChatType, RoundType, EntryType, Stores, Sends
-----------------------------------------------------------------------------
(* The invariant *)

ConversationInv ==
  /\ Conversation /\ Known /\ StoredIsRemembered
  /\ MirrorInv /\ StoredInv /\ SaidInv
  /\ Gaps /\ Counted

LEMMA InitConversationInv == Init => ConversationInv
<1> SUFFICES ASSUME Init PROVE ConversationInv
  OBVIOUS
<1>1. Conversation
  BY InitConversation
<1>2. /\ memory.turns = <<>> /\ table.turns = <<>> /\ table.messages = <<>>
      /\ memory.remembered = table.remembered /\ ticked = 0
  BY DEF Init
<1>3. DOMAIN table.turns = {} /\ DOMAIN table.messages = {} /\ Len(memory.turns) = 0
  BY <1>2
<1>4. \A c \in Chats : chat[c].stage = "none"
  BY DEF Init, NoChat
<1>5. \A r \in Rounds : round[r].stage = "idle"
  BY DEF Init, NoRound
<1>6. Known /\ StoredIsRemembered
  BY <1>3 DEF Known, StoredIsRemembered
<1>7. StoredInv
  BY <1>4 DEF StoredInv
<1>8. MirrorInv
  BY <1>2, <1>3 DEF MirrorInv, Mirrored
<1>9. SaidInv
  BY <1>3, <1>5 DEF SaidInv, Sends
<1>10. Gaps
  BY <1>3, <1>5 DEF Gaps, Alone, Singles
<1>11. Counted
  <2>1. Finished = {} /\ Pending = {} /\ Stamps = {}
    BY <1>4, <1>5 DEF Finished, Over, Pending, Stamps
  <2>2. Cardinality(Finished) = 0 /\ Cardinality(Stamps) = 0
    BY <2>1, FS_EmptySet
  <2>3. Bound = 0
    BY <1>2, <2>2 DEF Bound
  <2>4. QED
    BY <1>3, <2>1, <2>2, <2>3 DEF Counted
<1>12. QED
  BY <1>1, <1>6, <1>7, <1>8, <1>9, <1>10, <1>11 DEF ConversationInv

LEMMA NextConversationInv == ConversationInv /\ [Next]_vars => ConversationInv'
<1> SUFFICES ASSUME ConversationInv, [Next]_vars PROVE ConversationInv'
  OBVIOUS
<1>1. Conversation' /\ Known' /\ StoredIsRemembered'
  BY NextConversation, NextKnown, NextRemembered DEF ConversationInv
<1>2. MirrorInv'
  BY NextMirror DEF ConversationInv, MirrorInv
<1>3. StoredInv' /\ SaidInv'
  BY NextStored, NextSaid DEF ConversationInv
<1>4. Gaps' /\ Counted'
  BY NextGaps, NextCounted DEF ConversationInv
<1>5. QED
  BY <1>1, <1>2, <1>3, <1>4 DEF ConversationInv

LEMMA SpecConversationInv == Spec => []ConversationInv
BY InitConversationInv, NextConversationInv, PTL DEF Spec
-----------------------------------------------------------------------------
(* Theorems *)

\* Array, rows, entries, chats and rounds keep their shape, at most one of them
\* is between its two transactions, and the keys of the rows stay within two
\* for each chat and one for each tick, whatever fails or is restarted.
THEOREM TypeCorrect == Spec => []TypeOK
<1>1. ConversationInv => TypeOK
  BY CountedTypes DEF ConversationInv
<1>2. QED
  BY <1>1, SpecConversationInv, PTL

\* RealmStateStore: while no transaction has failed, what she is shown is what a
\* restart would show her, in the same order (loadState against upsertTurns).
THEOREM MirrorIsTableHolds == Spec => []MirrorIsTable
<1>1. ConversationInv => MirrorIsTable
  BY MirrorMeans DEF ConversationInv, Conversation
<1>2. QED
  BY <1>1, SpecConversationInv, PTL

\* applyConversation: an exchange reported as applied is in the table, question
\* and answer side by side, however many chats and rounds overlap.
THEOREM ReportedIsStoredHolds == Spec => []ReportedIsStored
<1>1. ConversationInv => ReportedIsStored
  BY DEF ConversationInv, StoredInv, ReportedIsStored, Reported
<1>2. QED
  BY <1>1, SpecConversationInv, PTL

\* characterVisibleHistory: for every window, the prompt of a message shows every
\* exchange that was reported in this conversation and that the window reaches,
\* across restarts.
THEOREM PromptHoldsReportedHolds == Spec => PromptHoldsReported
<1> DEFINE Step == \A c \in Chats : Asks(c) /\ failures = 0 =>
                     \A d \in Reported : InWindow(d) => Shows(chat'[c].prompt, d)
<1>1. ConversationInv /\ [Next]_vars => [Step]_vars
  BY NextPrompt DEF ConversationInv
<1> HIDE DEF Step
<1>2. Spec => [][Step]_vars
  BY <1>1, SpecConversationInv, PTL DEF Spec
<1>3. QED
  BY <1>2 DEF PromptHoldsReported, Step

\* The one transaction of applyConversation: whatever failed or crashed, no row
\* is of an exchange that she does not remember.
THEOREM StoredIsRememberedHolds == Spec => []StoredIsRemembered
<1>1. ConversationInv => StoredIsRemembered
  BY DEF ConversationInv
<1>2. QED
  BY <1>1, SpecConversationInv, PTL

\* runProactiveMessages: an unread entry of this conversation has its turn in
\* the transcript, whatever crashed between its two transactions.
THEOREM EntryWasSaidHolds == Spec => []EntryWasSaid
<1>1. ConversationInv => EntryWasSaid
  BY DEF ConversationInv, SaidInv, Said, EntryWasSaid
<1>2. QED
  BY <1>1, SpecConversationInv, PTL

\* decideProactiveMessage: for every gap, messages decided one at a time keep
\* it, and twice the gap unless the participant wrote since the first.
THEOREM GapKeptHolds == Spec => []GapKept
<1>1. ConversationInv => GapKept
  BY GapsKeepTheGap DEF ConversationInv
<1>2. QED
  BY <1>1, SpecConversationInv, PTL

\* newConversation: whatever failed or crashed, a prompt shows only exchanges that
\* were stored after the last clear that was reported, and those that a retried
\* clear reported without deleting them.
THEOREM FreshContextHolds == Spec => FreshContext
<1> DEFINE Step == \A c \in Chats : Asks(c) =>
                     \A turn \in chat'[c].prompt :
                       \/ turn.by \in {"herself"} \cup kept
                       \/ chat[turn.by].landedIn = epoch
<1>1. ConversationInv /\ [Next]_vars => [Step]_vars
  BY NextFresh DEF ConversationInv
<1> HIDE DEF Step
<1>2. Spec => [][Step]_vars
  BY <1>1, SpecConversationInv, PTL DEF Spec
<1>3. QED
  BY <1>2 DEF FreshContext, Step
=============================================================================
