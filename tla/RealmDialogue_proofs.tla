------------------------- MODULE RealmDialogue_proofs -------------------------
(***************************************************************************)
(* RealmConversation implements RealmDialogue: for any number of chats,    *)
(* rounds, clears and failures, what she is shown is one transcript that   *)
(* grows at its end, in which every message and every tick speaks once.    *)
(*                                                                         *)
(* The refinement needs one invariant more than those of                   *)
(* RealmConversation_proofs: whoever has a turn in the array or in the     *)
(* rows is done, and neither holds a turn twice.                           *)
(***************************************************************************)
EXTENDS RealmConversation_proofs

Distinct(turns) == \A x, y \in DOMAIN turns : turns[x] = turns[y] => x = y

Spoken(turn, chats, times) ==
  IF turn.by = "herself" THEN turn.at \in times ELSE turn.by \in chats

Uttered ==
  /\ \A i \in DOMAIN memory.turns : Spoken(memory.turns[i], Finished, Past)
  /\ \A s \in DOMAIN table.turns : Spoken(table.turns[s], Finished, Past)
  /\ Distinct(memory.turns) /\ Distinct(table.turns)
-----------------------------------------------------------------------------
(* The times that have spoken *)

LEMMA PastFacts ==
  ASSUME Typed
  PROVE  /\ Past \subseteq Times /\ ticked \in Nat /\ Times \subseteq Nat
         /\ \A t \in Past : t <= ticked
<1>1. LastTime \in Nat /\ ticked \in 0 .. LastTime
  BY ConversationAssumption DEF Typed
<1>2. Past \subseteq 1 .. ticked
  BY DEF Past
<1>3. QED
  BY <1>1, <1>2 DEF Times

\* Rounds that end leave their time behind; a time never comes back.
LEMMA PastNarrows ==
  ASSUME Typed, Pending' \subseteq Pending, UNCHANGED ticked,
         \A r \in Pending' : round'[r].at = round[r].at
  PROVE  Past \subseteq Past'
BY DEF Past

LEMMA PastStays ==
  ASSUME Conversation, [Next]_vars
  PROVE  Past \subseteq Past'
<1>0. Typed
  BY DEF Conversation
<1>1. CASE UNCHANGED <<round, ticked>>
  <2>1. Pending' = Pending
    BY <1>1 DEF Pending
  <2>2. QED
    BY <1>0, <1>1, <2>1, PastNarrows
<1>2. ASSUME NEW c \in Chats, Ask(c) \/ Reply(c) \/ ChatFails(c) \/ Store(c) \/ Finish(c)
      PROVE  UNCHANGED <<round, ticked>>
  BY <1>0, <1>2, AskFacts, AnswerFacts, StoreFacts, FinishFacts
<1>3. ASSUME NEW r \in Rounds, RoundStarts(r) PROVE Past \subseteq Past'
  <2>1. /\ round'[r].at = clock /\ clock > ticked /\ ticked' = clock /\ clock \in Nat
        /\ \A q \in Rounds : q # r => round'[q] = round[q]
    BY <1>0, <1>3, RoundStartsFacts, ConstantFacts DEF Typed
  <2>2. SUFFICES ASSUME NEW t \in Past PROVE t \in Past'
    OBVIOUS
  <2>3. t \in Times /\ t \in Nat /\ t <= ticked /\ \A q \in Pending : round[q].at # t
    BY <1>0, <2>2, PastFacts DEF Past
  <2>4. t < clock /\ t <= ticked'
    BY <1>0, <2>1, <2>3, PastFacts
  <2>5. ASSUME NEW q \in Pending' PROVE round'[q].at # t
    <3>1. CASE q = r
      BY <2>1, <2>3, <2>4, <3>1
    <3>2. CASE q # r
      BY <2>1, <2>3, <2>5, <3>2 DEF Pending
    <3>3. QED
      BY <3>1, <3>2
  <2>6. QED
    BY <2>3, <2>4, <2>5 DEF Past
<1>4. ASSUME NEW r \in Rounds, Decide(r) \/ NotSent(r) \/ Send(r) \/ Enter(r)
      PROVE  Past \subseteq Past'
  <2>1. /\ UNCHANGED ticked
        /\ \/ round[r].stage = "living" /\ round'[r].at = round[r].at
           \/ round'[r].stage \in {"sent", "idle"}
        /\ \A q \in Rounds : q # r => round'[q] = round[q]
    BY <1>0, <1>4, DecideFacts, SendFacts, EnterFacts
  <2>2. Pending' \subseteq Pending /\ \A q \in Pending' : round'[q].at = round[q].at
    BY <2>1 DEF Pending
  <2>3. QED
    BY <1>0, <2>1, <2>2, PastNarrows
<1>5. CASE NewConversation \/ ReadMessages \/ StoryMoves \/ TimePasses
  BY <1>0, <1>1, <1>5, ClearFacts, QuietFacts
<1>6. CASE CrashAndRestart
  <2>1. UNCHANGED ticked /\ Pending' = {}
    BY <1>0, <1>6, CrashFacts DEF Pending
  <2>2. QED
    BY <1>0, <2>1, PastNarrows
<1>7. CASE UNCHANGED vars
  BY <1>1, <1>7 DEF vars
<1>8. QED
  BY <1>1, <1>2, <1>3, <1>4, <1>5, <1>6, <1>7 DEF Next

\* The round that speaks leaves its own time behind, and no other.
LEMMA SendPasses ==
  ASSUME Typed, Counted, NEW r \in Rounds, Send(r)
  PROVE  round[r].at \in Times \ Past /\ Past' = Past \cup {round[r].at}
<1>1. /\ round[r].stage = "writing" /\ round'[r].stage \in {"sent", "idle"}
      /\ UNCHANGED ticked
      /\ \A q \in Rounds : q # r => round'[q] = round[q]
  BY SendFacts
<1>2. r \in Pending /\ Pending' = Pending \ {r}
  BY <1>1 DEF Pending
<1>3. \A q \in Pending' : round'[q].at = round[q].at /\ round[q].at # round[r].at
  BY <1>1, <1>2 DEF Counted, Pending
<1>4. round[r].at \in Times /\ round[r].at <= ticked
  BY <1>2 DEF Typed, RoundType, Counted, Pending
<1>5. round[r].at \in 1 .. ticked /\ round[r].at \notin Past
  BY <1>2, <1>4, PastFacts DEF Past, Times
<1>6. {round'[q].at : q \in Pending'} = {round[q].at : q \in Pending} \ {round[r].at}
  BY <1>2, <1>3
<1>7. QED
  BY <1>1, <1>4, <1>5, <1>6 DEF Past

LEMMA SpokenStays ==
  ASSUME Conversation, [Next]_vars, NEW turn, Spoken(turn, Finished, Past)
  PROVE  Spoken(turn, Finished', Past')
BY PastStays, FinishedGrows DEF Spoken
-----------------------------------------------------------------------------
(* Nobody speaks twice *)

LEMMA AppendsUttered ==
  ASSUME Conversation, [Next]_vars, Uttered, NEW turns \in Seq(Turn), Appends(turns),
         Distinct(turns),
         \A i \in 1 .. Len(turns) : /\ ~Spoken(turns[i], Finished, Past)
                                    /\ Spoken(turns[i], Finished', Past')
  PROVE  Uttered'
<1> DEFINE base == Len(memory.turns)
           new == base .. base + Len(turns) - 1
<1>1. /\ memory.turns \in Seq(Turn) /\ table.turns \in Rows /\ IsFiniteSet(DOMAIN table.turns)
      /\ base \in Nat /\ Len(turns) \in Nat
  BY DEF Conversation, Typed, MemoryType, TableType
<1>2. \A i, j \in 1 .. Len(turns) : turns[i] = turns[j] => i = j
  BY DEF Distinct
<1>3. \A i \in 1 .. base : /\ Spoken(memory.turns[i], Finished, Past)
                            /\ Spoken(memory.turns[i], Finished', Past')
  BY <1>1, SpokenStays DEF Uttered
<1>4. \A s \in DOMAIN table.turns : /\ Spoken(table.turns[s], Finished, Past)
                                     /\ Spoken(table.turns[s], Finished', Past')
  BY SpokenStays DEF Uttered
<1>5. /\ DOMAIN memory'.turns = 1 .. base + Len(turns)
      /\ \A i \in 1 .. base : memory'.turns[i] = memory.turns[i]
      /\ \A i \in base + 1 .. base + Len(turns) :
           i - base \in 1 .. Len(turns) /\ memory'.turns[i] = turns[i - base]
  BY <1>1 DEF Appends
<1>6. \A i \in DOMAIN memory'.turns : Spoken(memory'.turns[i], Finished', Past')
  <2>1. SUFFICES ASSUME NEW i \in DOMAIN memory'.turns
                 PROVE  Spoken(memory'.turns[i], Finished', Past')
    OBVIOUS
  <2>2. i \in 1 .. base \/ i \in base + 1 .. base + Len(turns)
    BY <1>1, <1>5, <2>1
  <2>3. QED
    BY <1>3, <1>5, <2>2
<1>7. Distinct(memory'.turns)
  <2>1. SUFFICES ASSUME NEW i \in DOMAIN memory'.turns, NEW j \in DOMAIN memory'.turns,
                        memory'.turns[i] = memory'.turns[j]
                 PROVE  i = j
    BY DEF Distinct
  <2>2. /\ i \in 1 .. base \/ i \in base + 1 .. base + Len(turns)
        /\ j \in 1 .. base \/ j \in base + 1 .. base + Len(turns)
    BY <1>1, <1>5
  <2>3. CASE i \in 1 .. base /\ j \in 1 .. base
    BY <1>1, <1>5, <2>1, <2>3 DEF Uttered, Distinct
  <2>4. CASE i \in base + 1 .. base + Len(turns) /\ j \in base + 1 .. base + Len(turns)
    <3>1. i - base = j - base
      BY <1>2, <1>5, <2>1, <2>4
    <3>2. QED
      BY <1>1, <2>4, <3>1
  <2>5. CASE i \in 1 .. base /\ j \in base + 1 .. base + Len(turns)
    BY <1>3, <1>5, <2>1, <2>5
  <2>6. CASE i \in base + 1 .. base + Len(turns) /\ j \in 1 .. base
    BY <1>3, <1>5, <2>1, <2>6
  <2>7. QED
    BY <2>2, <2>3, <2>4, <2>5, <2>6
<1>8. CASE table'.turns = Upserted(table.turns, turns)
  <2>1. /\ DOMAIN table'.turns = DOMAIN table.turns \cup new
        /\ \A s \in new : table'.turns[s] = turns[s - base + 1]
        /\ \A s \in DOMAIN table.turns \ new : table'.turns[s] = table.turns[s]
    <3> DEFINE up == Upserted(table.turns, turns)
    <3>1. /\ DOMAIN up = DOMAIN table.turns \cup new
          /\ \A s \in new : up[s] = turns[s - base + 1]
          /\ \A s \in DOMAIN table.turns \ new : up[s] = table.turns[s]
      BY <1>1, UpsertedFacts
    <3> HIDE DEF up, new
    <3>2. table'.turns = up
      BY <1>8 DEF up
    <3>3. QED
      BY <3>1, <3>2
  <2>2. \A s \in new : s - base + 1 \in 1 .. Len(turns)
    BY <1>1
  <2>3. \A s, z \in new : s - base + 1 = z - base + 1 => s = z
    BY <1>1
  <2> HIDE DEF new
  <2>4. \A s \in DOMAIN table'.turns : Spoken(table'.turns[s], Finished', Past')
    BY <1>4, <2>1, <2>2
  <2>5. Distinct(table'.turns)
    <3>1. SUFFICES ASSUME NEW s \in DOMAIN table'.turns, NEW z \in DOMAIN table'.turns,
                          table'.turns[s] = table'.turns[z]
                   PROVE  s = z
      BY DEF Distinct
    <3>2. CASE s \in new /\ z \in new
      BY <1>2, <2>1, <2>2, <2>3, <3>1, <3>2
    <3>3. CASE s \notin new /\ z \notin new
      BY <2>1, <3>1, <3>3 DEF Uttered, Distinct
    <3>4. CASE s \in new /\ z \notin new
      BY <1>4, <2>1, <2>2, <3>1, <3>4
    <3>5. CASE s \notin new /\ z \in new
      BY <1>4, <2>1, <2>2, <3>1, <3>5
    <3>6. QED
      BY <3>2, <3>3, <3>4, <3>5
  <2>6. QED
    BY <1>6, <1>7, <2>4, <2>5 DEF Uttered, Distinct
<1>9. CASE UNCHANGED table
  BY <1>4, <1>6, <1>7, <1>9 DEF Uttered, Distinct
<1>10. QED
  BY <1>8, <1>9 DEF Appends

LEMMA KeptUttered ==
  ASSUME Conversation, [Next]_vars, Uttered,
         memory'.turns = memory.turns \/ DOMAIN memory'.turns = {},
         table'.turns = table.turns \/ DOMAIN table'.turns = {}
  PROVE  Uttered'
<1>1. /\ \A i \in DOMAIN memory.turns : Spoken(memory.turns[i], Finished', Past')
      /\ \A s \in DOMAIN table.turns : Spoken(table.turns[s], Finished', Past')
  BY SpokenStays DEF Uttered
<1>2. \A i \in DOMAIN memory'.turns : Spoken(memory'.turns[i], Finished', Past')
  BY <1>1
<1>3. \A s \in DOMAIN table'.turns : Spoken(table'.turns[s], Finished', Past')
  BY <1>1
<1>4. Distinct(memory'.turns) /\ Distinct(table'.turns)
  BY DEF Uttered, Distinct
<1>5. QED
  BY <1>2, <1>3, <1>4 DEF Uttered

\* The turns of an exchange are two, and none of a chat that is over.
LEMMA ExchangeSpeaks ==
  ASSUME Typed, NEW c \in Chats, Store(c), NEW leak \in BOOLEAN
  PROVE  /\ Exchange(c, leak) \in Seq(Turn) /\ Distinct(Exchange(c, leak))
         /\ c \in Chats \ Finished /\ Finished' = Finished \cup {c}
         /\ \A i \in 1 .. Len(Exchange(c, leak)) :
              /\ ~Spoken(Exchange(c, leak)[i], Finished, Past)
              /\ Spoken(Exchange(c, leak)[i], Finished', Past')
<1>1. /\ Exchange(c, leak) \in Seq(Turn)
      /\ \A i \in 1 .. Len(Exchange(c, leak)) : Exchange(c, leak)[i].by = c
  BY ExchangeKnown
<1>2. c \notin Finished /\ Finished' = Finished \cup {c} /\ c # "herself"
  <2>1. /\ chat[c].stage = "replied" /\ chat'[c].stage \in {"stored", "leaked", "failed"}
        /\ \A d \in Chats : d # c => chat'[d] = chat[d]
    BY StoreFacts
  <2>2. QED
    BY <2>1, ConstantFacts DEF Finished, Over
<1>3. Distinct(Exchange(c, leak))
  <2>1. Question(c) # Answer(c)
    BY DEF Question, Answer
  <2>2. QED
    BY <2>1 DEF Exchange, Distinct
<1>4. QED
  BY <1>1, <1>2, <1>3 DEF Spoken

LEMMA MessageSpeaks ==
  ASSUME Typed, Counted, NEW r \in Rounds, Send(r)
  PROVE  /\ <<Message(r)>> \in Seq(Turn) /\ Distinct(<<Message(r)>>)
         /\ \A i \in 1 .. Len(<<Message(r)>>) :
              /\ ~Spoken(<<Message(r)>>[i], Finished, Past)
              /\ Spoken(<<Message(r)>>[i], Finished', Past')
<1>1. Message(r) \in Turn /\ Message(r).by = "herself" /\ Message(r).at = round[r].at
  BY SendFacts DEF Message
<1>2. ~Spoken(Message(r), Finished, Past) /\ Spoken(Message(r), Finished', Past')
  BY <1>1, SendPasses DEF Spoken
<1>3. QED
  BY <1>1, <1>2 DEF Distinct

\* Rows that hold no turn twice are read without one twice.
LEMMA LoadedDistinct ==
  ASSUME NEW rows \in Rows, IsFiniteSet(DOMAIN rows), Distinct(rows)
  PROVE  Distinct(Loaded(rows))
<1> DEFINE n == Cardinality(DOMAIN rows)
           before(s) == Cardinality({z \in DOMAIN rows : z < s})
           place(i) == CHOOSE s \in DOMAIN rows : before(s) = i - 1
<1>1. \A i \in 1 .. n : place(i) \in DOMAIN rows /\ before(place(i)) = i - 1
  BY RowsFacts, Ranks
<1>2. Loaded(rows) = [i \in 1 .. n |-> rows[place(i)]] /\ n \in Nat
  BY FS_CardinalityType DEF Loaded
<1> HIDE DEF place, before
<1>3. ASSUME NEW i \in 1 .. n, NEW j \in 1 .. n, rows[place(i)] = rows[place(j)]
      PROVE  i = j
  <2>1. place(i) = place(j)
    BY <1>1, <1>3 DEF Distinct
  <2>2. i - 1 = j - 1
    BY <1>1, <2>1
  <2>3. QED
    BY <2>2
<1>4. QED
  BY <1>2, <1>3 DEF Distinct

LEMMA NextUttered ==
  ASSUME Conversation, Counted, Uttered, [Next]_vars
  PROVE  Uttered'
<1>0. Typed
  BY DEF Conversation
<1>1. ASSUME NEW c \in Chats, Ask(c) \/ Reply(c) \/ ChatFails(c) \/ Finish(c) PROVE Uttered'
  BY <1>0, <1>1, AskFacts, AnswerFacts, FinishFacts, KeptUttered
<1>2. ASSUME NEW c \in Chats, Store(c) PROVE Uttered'
  <2>1. PICK leak \in BOOLEAN : Appends(Exchange(c, leak))
    BY <1>0, <1>2, StoreFacts
  <2>2. QED
    BY <1>0, <1>2, <2>1, ExchangeSpeaks, AppendsUttered
<1>3. ASSUME NEW r \in Rounds, Send(r) PROVE Uttered'
  <2>1. Appends(<<Message(r)>>)
    BY <1>0, <1>3, SendFacts
  <2>2. QED
    BY <1>0, <1>3, <2>1, MessageSpeaks, AppendsUttered
<1>4. ASSUME NEW r \in Rounds, RoundStarts(r) \/ Decide(r) \/ Enter(r) \/ NotSent(r)
      PROVE  Uttered'
  BY <1>0, <1>4, RoundStartsFacts, DecideFacts, EnterFacts, KeptUttered DEF Still
<1>5. CASE NewConversation
  <2>1. DOMAIN memory'.turns = {} /\ (DOMAIN table'.turns = {} \/ table'.turns = table.turns)
    BY <1>0, <1>5, ClearFacts
  <2>2. QED
    BY <2>1, KeptUttered
<1>6. CASE ReadMessages \/ StoryMoves \/ TimePasses
  BY <1>0, <1>6, QuietFacts, KeptUttered DEF Still
<1>7. CASE CrashAndRestart
  <2>1. /\ table.turns \in Rows /\ IsFiniteSet(DOMAIN table.turns)
        /\ memory'.turns = Loaded(table.turns) /\ UNCHANGED table
    BY <1>0, <1>7, CrashFacts DEF Typed, TableType
  <2>2. \A s \in DOMAIN table.turns : Spoken(table.turns[s], Finished', Past')
    BY SpokenStays DEF Uttered
  <2>3. \A i \in DOMAIN memory'.turns : \E s \in DOMAIN table.turns :
          memory'.turns[i] = table.turns[s]
    BY <2>1, LoadedFacts
  <2>4. Distinct(memory'.turns) /\ Distinct(table'.turns)
    BY <2>1, LoadedDistinct DEF Uttered
  <2>5. \A i \in DOMAIN memory'.turns : Spoken(memory'.turns[i], Finished', Past')
    BY <2>2, <2>3
  <2>6. \A s \in DOMAIN table'.turns : Spoken(table'.turns[s], Finished', Past')
    BY <2>1, <2>2
  <2>7. QED
    BY <2>4, <2>5, <2>6 DEF Uttered
<1>8. CASE UNCHANGED vars
  BY <1>8, KeptUttered DEF vars
<1>9. QED
  BY <1>1, <1>2, <1>3, <1>4, <1>5, <1>6, <1>7, <1>8 DEF Next

LEMMA InitUttered == Init => Uttered
<1> SUFFICES ASSUME Init PROVE Uttered
  OBVIOUS
<1>1. DOMAIN memory.turns = {} /\ DOMAIN table.turns = {}
  BY DEF Init
<1>2. QED
  BY <1>1 DEF Uttered, Distinct

LEMMA SpecUttered == Spec => [](ConversationInv /\ Uttered)
<1>1. Init => ConversationInv /\ Uttered
  BY InitConversationInv, InitUttered
<1>2. ConversationInv /\ Uttered /\ [Next]_vars => ConversationInv' /\ Uttered'
  BY NextConversationInv, NextUttered DEF ConversationInv
<1>3. QED
  BY <1>1, <1>2, PTL DEF Spec
-----------------------------------------------------------------------------
(* The refinement *)

\* A chat or a round goes on, or lapses, or nothing of the transcript happens.
LEMMA Lapses ==
  ASSUME ConversationInv, [Next]_vars, memory'.turns = memory.turns, UNCHANGED epoch
  PROVE  Dialogue!Next
<1>1. Finished \subseteq Finished' /\ Past \subseteq Past'
  BY FinishedGrows, PastStays DEF ConversationInv
<1>2. failures' = 0 => failures = 0
  BY FailuresStay DEF ConversationInv
<1>3. QED
  BY <1>1, <1>2 DEF Dialogue!Next, Dialogue!Lapse, Dialogue!Closes

LEMMA StoreIsExchange ==
  ASSUME ConversationInv, [Next]_vars, NEW c \in Chats, Store(c)
  PROVE  Dialogue!Exchange
<1>0. Typed
  BY DEF ConversationInv, Conversation
<1>1. PICK leak \in BOOLEAN : Appends(Exchange(c, leak))
  BY <1>0, StoreFacts
<1>2. UNCHANGED <<round, ticked, epoch>> /\ chat[c].at \in Times
  BY <1>0, StoreFacts DEF Typed, ChatType
<1>3. UNCHANGED Past
  BY <1>2 DEF Past, Pending
<1>4. c \in Chats \ Finished /\ Finished' = Finished \cup {c}
  BY <1>0, <1>1, ExchangeSpeaks
<1>5. /\ Question(c) = Dialogue!Question(c, chat[c].at)
      /\ Answer(c) = Dialogue!Answer(c, chat[c].at)
  BY DEF Question, Answer, Dialogue!Question, Dialogue!Answer
<1>6. memory'.turns \in {memory.turns \o <<Question(c)>>,
                         memory.turns \o <<Question(c), Answer(c)>>}
  BY <1>1 DEF Appends, Exchange
<1>7. QED
  BY <1>2, <1>3, <1>4, <1>5, <1>6 DEF Dialogue!Exchange

LEMMA SendIsSpeak ==
  ASSUME ConversationInv, [Next]_vars, NEW r \in Rounds, Send(r)
  PROVE  Dialogue!Speak
<1>0. Typed /\ Counted
  BY DEF ConversationInv, Conversation
<1>1. memory'.turns = memory.turns \o <<Message(r)>> /\ UNCHANGED <<chat, epoch>>
  BY <1>0, SendFacts DEF Appends
<1>2. Message(r) = Dialogue!Message(round[r].at)
  BY DEF Message, Dialogue!Message
<1>3. round[r].at \in Times \ Past /\ Past' = Past \cup {round[r].at}
  BY <1>0, SendPasses
<1>4. UNCHANGED Finished
  BY <1>1 DEF Finished
<1>5. QED
  BY <1>1, <1>2, <1>3, <1>4 DEF Dialogue!Speak

LEMMA NewConversationIsClear ==
  ASSUME ConversationInv, NewConversation
  PROVE  Dialogue!Clear
<1>1. /\ memory'.turns = <<>> /\ UNCHANGED <<chat, round, ticked>>
      /\ epoch' = epoch + 1 \/ (epoch' = epoch /\ failures' # 0)
  BY ClearFacts DEF ConversationInv, Conversation
<1>2. UNCHANGED <<Finished, Past>>
  BY <1>1 DEF Finished, Past, Pending
<1>3. QED
  BY <1>1, <1>2 DEF Dialogue!Clear

\* loadState gives back the transcript, or after a failure what is left of it.
LEMMA RestartIsKept ==
  ASSUME ConversationInv, Uttered, Uttered', [Next]_vars, CrashAndRestart
  PROVE  Dialogue!Lapse \/ Dialogue!Recover
<1>0. Conversation /\ Typed /\ MirrorInv /\ table.turns \in Rows /\ memory.turns \in Seq(Turn)
  BY DEF ConversationInv, Conversation, Typed, TableType, MemoryType
<1>1. /\ memory'.turns = Loaded(table.turns) /\ memory'.turns \in Seq(Turn)
      /\ UNCHANGED <<table, epoch, failures>>
  BY <1>0, CrashFacts DEF MemoryType
<1>2. Dialogue!Closes
  BY <1>0, FinishedGrows, PastStays DEF Dialogue!Closes
<1>3. CASE failures = 0
  <2>1. Mirrored(memory.turns, table.turns)
    BY <1>0, <1>3 DEF MirrorInv
  <2>2. /\ Len(memory'.turns) = Len(memory.turns)
        /\ \A i \in 1 .. Len(memory.turns) : memory'.turns[i] = memory.turns[i]
    <3> DEFINE n == Len(memory.turns)
    <3>1. n \in Nat /\ DOMAIN table.turns = 0 .. n - 1
      BY <1>0, <2>1 DEF Mirrored
    <3> HIDE DEF n
    <3>2. Len(Loaded(table.turns)) = n
          /\ \A i \in 1 .. n : Loaded(table.turns)[i] = table.turns[i - 1]
      BY <1>0, <3>1, LoadedInOrder
    <3>3. QED
      BY <1>1, <2>1, <3>2 DEF Mirrored, n
  <2>3. memory'.turns = memory.turns
    BY <1>0, <1>1, <2>2
  <2>4. QED
    BY <1>1, <1>2, <2>3 DEF Dialogue!Lapse
<1>4. CASE failures # 0
  <2>1. /\ \A i \in DOMAIN memory'.turns : Spoken(memory'.turns[i], Finished', Past')
        /\ Distinct(memory'.turns)
    BY DEF Uttered
  <2>2. Dialogue!NoEcho(memory'.turns)
    BY <2>1 DEF Distinct, Dialogue!NoEcho
  <2>3. \A i \in DOMAIN memory'.turns : Dialogue!Spoken(memory'.turns[i], Finished', Past')
    BY <2>1 DEF Spoken, Dialogue!Spoken
  <2>4. memory'.turns \in Seq(Dialogue!Turn)
    BY <1>1 DEF Turn, Dialogue!Turn
  <2>5. QED
    BY <1>1, <1>2, <1>4, <2>2, <2>3, <2>4 DEF Dialogue!Recover
<1>5. QED
  BY <1>3, <1>4

LEMMA SimulatesDialogue ==
  ASSUME ConversationInv, Uttered, Uttered', [Next]_vars
  PROVE  Dialogue!Next
<1>0. Typed /\ (failures' = 0 => failures = 0)
  BY FailuresStay DEF ConversationInv, Conversation
<1>1. ASSUME NEW c \in Chats, Ask(c) \/ Reply(c) \/ ChatFails(c) \/ Finish(c)
      PROVE  Dialogue!Next
  BY <1>0, <1>1, AskFacts, AnswerFacts, FinishFacts, Lapses
<1>2. ASSUME NEW c \in Chats, Store(c) PROVE Dialogue!Next
  BY <1>0, <1>2, StoreIsExchange DEF Dialogue!Next
<1>3. ASSUME NEW r \in Rounds, Send(r) PROVE Dialogue!Next
  BY <1>0, <1>3, SendIsSpeak DEF Dialogue!Next
<1>4. ASSUME NEW r \in Rounds, RoundStarts(r) \/ Decide(r) \/ Enter(r) \/ NotSent(r)
      PROVE  Dialogue!Next
  BY <1>0, <1>4, RoundStartsFacts, DecideFacts, EnterFacts, Lapses DEF Still
<1>5. CASE NewConversation
  BY <1>0, <1>5, NewConversationIsClear DEF Dialogue!Next
<1>6. CASE ReadMessages \/ StoryMoves \/ TimePasses
  BY <1>0, <1>6, QuietFacts, Lapses DEF Still
<1>7. CASE CrashAndRestart
  BY <1>0, <1>7, RestartIsKept DEF Dialogue!Next
<1>8. CASE UNCHANGED vars
  BY <1>8, Lapses DEF vars, history
<1>9. QED
  BY <1>1, <1>2, <1>3, <1>4, <1>5, <1>6, <1>7, <1>8 DEF Next

LEMMA InitDialogue == Init => Dialogue!Init
<1> SUFFICES ASSUME Init PROVE Dialogue!Init
  OBVIOUS
<1>1. memory.turns = <<>> /\ epoch = 0 /\ failures = 0 /\ ticked = 0
  BY DEF Init
<1>2. Finished = {}
  BY DEF Init, NoChat, Finished, Over
<1>3. Past = {}
  BY <1>1, ConstantFacts DEF Past, Times
<1>4. QED
  BY <1>1, <1>2, <1>3 DEF Dialogue!Init
-----------------------------------------------------------------------------
(* Theorems *)

\* RealmStateStore, "Authoritative host state": the transcript she is shown
\* implements RealmDialogue.  It grows at its end, every message and every tick
\* speaks once, and a restart changes nothing of it unless a transaction failed.
THEOREM ImplementsDialogue == Spec => RefinesDialogue
<1>1. ConversationInv /\ Uttered /\ (ConversationInv /\ Uttered)' /\ [Next]_vars
        => [Dialogue!Next]_(Dialogue!vars)
  BY SimulatesDialogue
<1>2. QED
  BY <1>1, InitDialogue, SpecUttered, PTL DEF Spec, RefinesDialogue, Dialogue!Spec

\* upsertTurns and loadState: whatever failed, was cleared in part or restarted,
\* no turn is twice in what she is shown, nor in the rows.
SpokenOnce == Distinct(memory.turns) /\ Distinct(table.turns)

THEOREM SpokenOnceHolds == Spec => []SpokenOnce
<1>1. Uttered => SpokenOnce
  BY DEF Uttered, SpokenOnce
<1>2. QED
  BY <1>1, SpecUttered, PTL
=============================================================================
