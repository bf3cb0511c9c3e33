--------------------------- MODULE RealmConversation ---------------------------
(***************************************************************************)
(* The conversation with one agent of one profile, and the messages she    *)
(* sends of her own accord.                                                *)
(*                                                                         *)
(* The transcript is kept twice: an array in memory, which every reader    *)
(* uses, and the rows of the table conversations under (agent_id, seq),    *)
(* which are read when the process starts.  An append changes the array,   *)
(* then upserts the new rows at seq = the former length of the array.      *)
(*                                                                         *)
(* Node runs one JavaScript turn at a time.  A chat and a tick round await *)
(* the language model, and anything may happen meanwhile; their effects    *)
(* afterwards are one turn of several transactions, each of which may      *)
(* fail, and between which the process may die.                            *)
(***************************************************************************)
EXTENDS Naturals, Sequences, FiniteSets

CONSTANTS
  Chats,        \* the messages the participant sends, one exchange each
  OutOfCharacter, \* those isCharacterVisibleParticipantMessage keeps from her
  HistoryWindow, \* CHAT_HISTORY_WINDOW: the turns a prompt goes back
  Rounds,       \* the tick rounds that may be running at the same time
  LastTime,     \* bound: the clock runs from 1 to LastTime
  Quiet,        \* the times that lie in PROACTIVE_QUIET_HOURS
  Gap,          \* PROACTIVE_TIER_INTERVALS_MS of her tier
  MaxUnanswered, \* PROACTIVE_MAX_UNANSWERED
  MaxClears,    \* bound on new conversations
  MaxMoves,     \* bound on story moves
  MaxFailures   \* bound on transactions that fail

ASSUME ConversationAssumption ==
  /\ IsFiniteSet(Chats)
  /\ "herself" \notin Chats
  /\ OutOfCharacter \subseteq Chats
  /\ HistoryWindow \in Nat \ {0}
  /\ LastTime \in Nat \ {0}
  /\ Quiet \subseteq 1 .. LastTime
  /\ Gap \in Nat \ {0}
  /\ {MaxUnanswered, MaxClears, MaxMoves, MaxFailures} \subseteq Nat

VARIABLES
  clock,      \* the present time
  memory,     \* what the process holds: turns, and what the agent remembers
  table,      \* the same in SQLite, and the table proactive_messages
  generation, \* storyGenerationValue
  chat,       \* the chats
  round,      \* the rounds
  ticked,     \* the time of the last tick
  epoch,      \* new conversations so far
  kept,       \* exchanges left in the table by a clear that reported success
  failures    \* failed transactions so far

history == <<epoch, kept>>
vars == <<clock, memory, table, generation, chat, round, ticked, history, failures>>

Times == 1 .. LastTime
Turn == [by : Chats \cup {"herself"}, role : {"participant", "agent"}, at : Times]
Seqs == 0 .. 2 * Cardinality(Chats) + LastTime

\* asked, replied: the model is writing the reply, then its analysis.  stored:
\* the exchange is committed and the rest of the turn is not.
ChatStages == {"none", "asked", "replied", "stored", "applied", "leaked", "failed"}
NoChat == [stage |-> "none", at |-> 1, gen |-> 0, prompt |-> {}, landedIn |-> 0]

\* living: diaries and reflection are being written; writing: her message is;
\* sent: it is in the transcript and not yet in proactive_messages.
RoundStages == {"idle", "living", "writing", "sent"}
NoRound == [stage |-> "idle", at |-> 1, gen |-> 0, alone |-> TRUE]

\* At most one turn is between its two transactions.
TypeOK ==
  /\ clock \in Times
  /\ memory \in [turns : Seq(Turn), remembered : SUBSET Chats]
  /\ DOMAIN table.turns \subseteq Seqs
  /\ \A s \in DOMAIN table.turns : table.turns[s] \in Turn
  /\ table.remembered \in SUBSET Chats
  /\ DOMAIN table.messages \subseteq Times
  /\ \A t \in DOMAIN table.messages :
       table.messages[t] \in [read : BOOLEAN, alone : BOOLEAN, epoch : Nat]
  /\ generation \in Nat
  /\ chat \in [Chats -> [stage : ChatStages, at : Times, gen : Nat, prompt : SUBSET Turn,
                         landedIn : Nat]]
  /\ round \in [Rounds -> [stage : RoundStages, at : Times, gen : Nat, alone : BOOLEAN]]
  /\ Cardinality({c \in Chats : chat[c].stage = "stored"})
       + Cardinality({r \in Rounds : round[r].stage = "sent"}) <= 1
  /\ ticked \in 0 .. LastTime
  /\ epoch \in Nat
  /\ kept \in SUBSET Chats
  /\ failures \in 0 .. MaxFailures

Init ==
  /\ clock = 1
  /\ memory = [turns |-> <<>>, remembered |-> {}]
  /\ table = [turns |-> <<>>, remembered |-> {}, messages |-> <<>>]
  /\ generation = 0
  /\ chat = [c \in Chats |-> NoChat]
  /\ round = [r \in Rounds |-> NoRound]
  /\ ticked = 0
  /\ epoch = 0
  /\ kept = {}
  /\ failures = 0
-----------------------------------------------------------------------------
(* Turns of the process, transactions and rows *)

\* Mutant: the marks of a stored exchange are left to a later turn.
Busy_MessagesOnly == \E r \in Rounds : round[r].stage = "sent"

Busy == (\E c \in Chats : chat[c].stage = "stored") \/ (\E r \in Rounds : round[r].stage = "sent")

Fails == failures < MaxFailures /\ failures' = failures + 1

\* Mutant: the length is taken after the push.
BaseSeq_AfterPush(turns) == Len(memory.turns) + Len(turns)

BaseSeq(turns) == Len(memory.turns)

\* upsertTurns: INSERT ... ON CONFLICT(agent_id, seq) DO UPDATE.
Upserted(rows, turns) ==
  LET base == BaseSeq(turns)
      new == base .. base + Len(turns) - 1
  IN  [s \in DOMAIN rows \cup new |-> IF s \in new THEN turns[s - base + 1] ELSE rows[s]]

\* Mutant: ORDER BY agent_id, at.
Loaded_ByTime(rows) ==
  [i \in 1 .. Cardinality(DOMAIN rows) |->
     rows[CHOOSE s \in DOMAIN rows :
            Cardinality({z \in DOMAIN rows : \/ rows[z].at < rows[s].at
                                             \/ rows[z].at = rows[s].at /\ z < s}) = i - 1]]

\* loadState: the rows ORDER BY agent_id, seq; the i-th has i - 1 before it.
Loaded(rows) ==
  [i \in 1 .. Cardinality(DOMAIN rows) |->
     rows[CHOOSE s \in DOMAIN rows : Cardinality({z \in DOMAIN rows : z < s}) = i - 1]]

Pushed(turns) == [memory EXCEPT !.turns = @ \o turns]
-----------------------------------------------------------------------------
(* Chats: chat, chatStream and applyChatResponse *)

Question(c) == [by |-> c, role |-> "participant", at |-> chat[c].at]
Answer(c) == [by |-> c, role |-> "agent", at |-> chat[c].at]

Stored(rows, c) ==
  \E s \in DOMAIN rows : /\ s + 1 \in DOMAIN rows
                         /\ rows[s] = Question(c)
                         /\ rows[s + 1] = Answer(c)

\* What the participant has been told is applied, and has not cleared since.
Reported == {c \in Chats : chat[c].stage = "applied" /\ chat[c].landedIn = epoch}

\* Mutant: the turns a prompt goes back are counted from the first.
CharacterVisibleHistory_FromTheFirst ==
  {memory.turns[i] : i \in {j \in DOMAIN memory.turns :
     /\ j <= HistoryWindow
     /\ memory.turns[j].role = "agent" \/ memory.turns[j].by \notin OutOfCharacter}}

\* characterVisibleHistory: the last turns, but for questions that are out of
\* character.  (Answers that are were never stored.)
CharacterVisibleHistory ==
  {memory.turns[i] : i \in {j \in DOMAIN memory.turns :
     /\ j + HistoryWindow > Len(memory.turns)
     /\ memory.turns[j].role = "agent" \/ memory.turns[j].by \notin OutOfCharacter}}

\* The request is built from the arrays in memory and the present time.
Ask(c) ==
  /\ ~Busy
  /\ chat[c].stage = "none"
  /\ chat' = [chat EXCEPT ![c] =
       [NoChat EXCEPT !.stage = "asked", !.at = clock, !.gen = generation,
                      !.prompt = CharacterVisibleHistory]]
  /\ UNCHANGED <<clock, memory, table, generation, round, ticked, history, failures>>

StoryUnchanged(x) == x.gen = generation

\* The exchange is said in the present conversation.
Lands(c, stage) ==
  chat' = [chat EXCEPT ![c] = [NoChat EXCEPT !.stage = stage, !.at = chat[c].at,
                                             !.landedIn = epoch]]

Forgotten == [NoChat EXCEPT !.stage = "failed"]

\* The reply is there: done is emitted, if the story has not moved.
Reply(c) ==
  /\ ~Busy
  /\ chat[c].stage = "asked"
  /\ StoryUnchanged(chat[c])
  /\ chat' = [chat EXCEPT ![c].stage = "replied", ![c].prompt = {}]
  /\ UNCHANGED <<clock, memory, table, generation, round, ticked, history, failures>>

\* The model fails, or assertStoryGeneration throws.
ChatFails(c) ==
  /\ ~Busy
  /\ \/ chat[c].stage = "asked"
     \/ chat[c].stage = "replied" /\ ~StoryUnchanged(chat[c])
  /\ chat' = [chat EXCEPT ![c] = Forgotten]
  /\ UNCHANGED <<clock, memory, table, generation, round, ticked, history, failures>>

\* Mutant: the rows of the exchange are committed before its memories.
Store_RowsFirst(c) ==
  /\ ~Busy
  /\ chat[c].stage = "replied"
  /\ StoryUnchanged(chat[c])
  /\ \E leak \in BOOLEAN :
       LET turns == IF leak THEN <<Question(c)>> ELSE <<Question(c), Answer(c)>>
           pushed == Pushed(turns)
       IN  /\ memory' = [pushed EXCEPT !.remembered = @ \cup {c}]
           /\ table' = [table EXCEPT !.turns = Upserted(@, turns)]
           /\ Lands(c, IF leak THEN "leaked" ELSE "stored")
  /\ UNCHANGED <<clock, generation, round, ticked, epoch, kept, failures>>

\* applyConversation with the exchange, or with the question alone when the
\* reply leaks: array and memories first, then one transaction.
Store(c) ==
  /\ ~Busy
  /\ chat[c].stage = "replied"
  /\ StoryUnchanged(chat[c])
  /\ \E leak \in BOOLEAN :
       LET turns == IF leak THEN <<Question(c)>> ELSE <<Question(c), Answer(c)>>
           pushed == Pushed(turns)
       IN  /\ memory' = [pushed EXCEPT !.remembered = @ \cup {c}]
           /\ \/ /\ table' = [table EXCEPT !.turns = Upserted(@, turns),
                                           !.remembered = @ \cup {c}]
                 /\ Lands(c, IF leak THEN "leaked" ELSE "stored")
                 /\ UNCHANGED failures
              \/ /\ Fails
                 /\ Lands(c, "failed")
                 /\ UNCHANGED table
  /\ UNCHANGED <<clock, generation, round, ticked, epoch, kept>>

MarkedRead(messages) == [t \in DOMAIN messages |-> [messages[t] EXCEPT !.read = TRUE]]

\* applyConversationEmotion and markProactiveRead; either may fail.
Finish(c) ==
  /\ chat[c].stage = "stored"
  /\ \/ /\ table' = [table EXCEPT !.messages = MarkedRead(@)]
        /\ chat' = [chat EXCEPT ![c].stage = "applied"]
        /\ UNCHANGED failures
     \/ /\ Fails
        /\ chat' = [chat EXCEPT ![c].stage = "failed"]
        /\ UNCHANGED table
  /\ UNCHANGED <<clock, memory, generation, round, ticked, history>>
-----------------------------------------------------------------------------
(* Requests that await nothing *)

\* Whose turns are in the rows.
Speakers(rows) == {rows[s].by : s \in DOMAIN rows} \ {"herself"}

\* Mutant: the rows are left in the table.
NewConversation_ArrayOnly ==
  /\ ~Busy
  /\ epoch < MaxClears
  /\ memory.turns # <<>>
  /\ memory' = [memory EXCEPT !.turns = <<>>]
  /\ epoch' = epoch + 1
  /\ UNCHANGED <<clock, table, generation, chat, round, ticked, kept, failures>>

\* newConversation, clearConversation: the array is emptied, then the rows are
\* deleted.  With an empty array success is reported and nothing is deleted,
\* though a DELETE that failed before may have left rows.  (When both are empty
\* there is nothing to tell apart.)
NewConversation ==
  /\ ~Busy
  /\ epoch < MaxClears
  /\ \/ /\ memory.turns # <<>>
        /\ memory' = [memory EXCEPT !.turns = <<>>]
        /\ \/ /\ table' = [table EXCEPT !.turns = <<>>]
              /\ epoch' = epoch + 1
              /\ kept' = {}
              /\ UNCHANGED failures
           \/ Fails /\ UNCHANGED <<table, history>>
     \/ /\ memory.turns = <<>> /\ DOMAIN table.turns # {}
        /\ epoch' = epoch + 1
        /\ kept' = Speakers(table.turns)
        /\ UNCHANGED <<memory, table, failures>>
  /\ UNCHANGED <<clock, generation, chat, round, ticked>>

\* The page marks her messages as read.
ReadMessages ==
  /\ ~Busy
  /\ \E t \in DOMAIN table.messages : ~table.messages[t].read
  /\ table' = [table EXCEPT !.messages = MarkedRead(@)]
  /\ UNCHANGED <<clock, memory, generation, chat, round, ticked, history, failures>>

\* setStoryCursor, forward: the conversation stays (RealmStory has the rest).
StoryMoves ==
  /\ ~Busy
  /\ generation < MaxMoves
  /\ generation' = generation + 1
  /\ UNCHANGED <<clock, memory, table, chat, round, ticked, history, failures>>
-----------------------------------------------------------------------------
(* Rounds: runProactiveMessages *)

\* A new period: everything the round does is stamped with its start.
RoundStarts(r) ==
  /\ ~Busy
  /\ round[r].stage = "idle"
  /\ clock > ticked
  /\ ticked' = clock
  /\ round' = [round EXCEPT ![r] = [stage |-> "living", at |-> clock, gen |-> generation,
                                    alone |-> TRUE]]
  /\ UNCHANGED <<clock, memory, table, generation, chat, history, failures>>

Asked == {i \in DOMAIN memory.turns : memory.turns[i].role = "participant"}

\* proactiveBackoff: messages later than the participant's last turn.
Unanswered ==
  {t \in DOMAIN table.messages :
     \A i \in Asked : (\A j \in Asked : j <= i) => t > memory.turns[i].at}

\* 2 ** unanswered, at most PROACTIVE_BACKOFF_MAX_FACTOR.
BackoffFactor ==
  CASE Unanswered = {} -> 1
    [] Cardinality(Unanswered) = 1 -> 2
    [] OTHER -> 4

\* Mutant: a message that was read no longer holds her back.
MaySend_UnreadOnly(now) ==
  /\ now \notin Quiet
  /\ Cardinality(Unanswered) < MaxUnanswered
  /\ \A t \in DOMAIN table.messages :
       ~table.messages[t].read => now >= t + Gap * BackoffFactor

\* decideProactiveMessage, but for the switch and the material.
MaySend(now) ==
  /\ now \notin Quiet
  /\ Cardinality(Unanswered) < MaxUnanswered
  /\ \A t \in DOMAIN table.messages : now >= t + Gap * BackoffFactor

RoundOver(r) == round' = [round EXCEPT ![r] = NoRound]

\* Diaries and reflection are done; she may have nothing to say, be disabled, be
\* held back, have no model, or the story may have moved.
Decide(r) ==
  /\ ~Busy
  /\ round[r].stage = "living"
  /\ \/ /\ MaySend(round[r].at)
        /\ StoryUnchanged(round[r])
        /\ round' = [round EXCEPT ![r].stage = "writing",
                       ![r].alone = \A s \in Rounds : round[s].stage # "writing"]
     \/ RoundOver(r)
  /\ UNCHANGED <<clock, memory, table, generation, chat, ticked, history, failures>>

\* Mutant: the entry is written first, the turn after it.
Send_EntryFirst(r) ==
  /\ ~Busy
  /\ round[r].stage = "writing"
  /\ StoryUnchanged(round[r])
  /\ table' = [table EXCEPT !.messages =
       [t \in DOMAIN @ \cup {round[r].at} |->
          IF t = round[r].at THEN [read |-> FALSE, alone |-> round[r].alone, epoch |-> epoch]
          ELSE @[t]]]
  /\ round' = [round EXCEPT ![r].stage = "sent"]
  /\ UNCHANGED <<clock, memory, generation, chat, ticked, history, failures>>

\* Her message becomes a turn of the transcript.
Send(r) ==
  /\ ~Busy
  /\ round[r].stage = "writing"
  /\ StoryUnchanged(round[r])
  /\ LET turns == <<[by |-> "herself", role |-> "agent", at |-> round[r].at]>>
     IN  /\ memory' = Pushed(turns)
         /\ \/ /\ table' = [table EXCEPT !.turns = Upserted(@, turns)]
               /\ round' = [round EXCEPT ![r].stage = "sent"]
               /\ UNCHANGED failures
            \/ Fails /\ RoundOver(r) /\ UNCHANGED table
  /\ UNCHANGED <<clock, generation, chat, ticked, epoch, kept>>

\* And then, in a transaction of its own, an unread entry.
Enter(r) ==
  /\ round[r].stage = "sent"
  /\ \/ /\ table' = [table EXCEPT !.messages =
             [t \in DOMAIN @ \cup {round[r].at} |->
                IF t = round[r].at
                THEN [read |-> FALSE, alone |-> round[r].alone, epoch |-> epoch]
                ELSE @[t]]]
        /\ UNCHANGED failures
     \/ Fails /\ UNCHANGED table
  /\ RoundOver(r)
  /\ UNCHANGED <<clock, memory, generation, chat, ticked, history>>

\* She declines, the model fails or leaks, or the story has moved.
NotSent(r) ==
  /\ ~Busy
  /\ round[r].stage = "writing"
  /\ RoundOver(r)
  /\ UNCHANGED <<clock, memory, table, generation, chat, ticked, history, failures>>
-----------------------------------------------------------------------------
TimePasses ==
  /\ ~Busy
  /\ clock < LastTime
  /\ clock' = clock + 1
  /\ UNCHANGED <<memory, table, generation, chat, round, ticked, history, failures>>

\* Mutant: an exchange whose marks are missing is stored again after a restart.
Dropped_Retried ==
  /\ chat' = [c \in Chats |->
       CASE chat[c].stage = "asked" -> Forgotten
         [] chat[c].stage = "stored" -> [chat[c] EXCEPT !.stage = "replied"]
         [] OTHER -> chat[c]]
  /\ round' = [r \in Rounds |-> NoRound]

\* What is left of the chats and rounds of a process that dies.
Dropped ==
  /\ chat' = [c \in Chats |->
       CASE chat[c].stage \in {"asked", "replied"} -> Forgotten
         [] chat[c].stage = "stored" -> [chat[c] EXCEPT !.stage = "failed"]
         [] OTHER -> chat[c]]
  /\ round' = [r \in Rounds |-> NoRound]

\* loadState.
CrashAndRestart ==
  /\ memory' = [turns |-> Loaded(table.turns), remembered |-> table.remembered]
  /\ generation' = 0
  /\ Dropped
  /\ UNCHANGED <<clock, table, ticked, history, failures>>

Next ==
  \/ \E c \in Chats : Ask(c) \/ Reply(c) \/ ChatFails(c) \/ Store(c) \/ Finish(c)
  \/ \E r \in Rounds : RoundStarts(r) \/ Decide(r) \/ Send(r) \/ Enter(r) \/ NotSent(r)
  \/ NewConversation \/ ReadMessages \/ StoryMoves
  \/ TimePasses \/ CrashAndRestart

Spec == Init /\ [][Next]_vars
-----------------------------------------------------------------------------
(* Properties *)

\* While no transaction has failed the array and the rows are the same
\* transcript, and no memory is only in one of them, whatever was interleaved,
\* cleared or restarted: what she is shown is what a restart would show her
\* (RealmStateStore, "Authoritative host state").
MirrorIsTable ==
  failures = 0 =>
    /\ DOMAIN table.turns = 0 .. Len(memory.turns) - 1
    /\ \A i \in DOMAIN memory.turns : table.turns[i - 1] = memory.turns[i]
    /\ memory.remembered = table.remembered

\* An exchange reported as applied is in the table, question and answer side by
\* side, until the conversation is cleared: chats that overlap do not mix or
\* overwrite each other, and neither does her own message (applyConversation).
ReportedIsStored ==
  failures = 0 => \A c \in Reported : Stored(table.turns, c)

\* The prompt of a message shows every exchange that was reported as applied in
\* this conversation, unless so many turns are stored after it that the window
\* leaves it out: its answer, and its question if that was in character.  Turns
\* count whoever said them, and neither overlapping chats nor a restart changes
\* anything of it (characterVisibleHistory, and loadState before it).
Asks(c) == chat[c].stage = "none" /\ chat'[c].stage = "asked"

Later(d) ==
  {s \in DOMAIN table.turns :
     \E a \in DOMAIN table.turns : a < s /\ table.turns[a] = Answer(d)}
InWindow(d) == Cardinality(Later(d)) + 2 <= HistoryWindow

Shows(prompt, d) ==
  /\ Answer(d) \in prompt
  /\ d \in OutOfCharacter \/ Question(d) \in prompt

PromptHoldsReported ==
  [][\A c \in Chats : Asks(c) /\ failures = 0 =>
       \A d \in Reported : InWindow(d) => Shows(chat'[c].prompt, d)]_vars

\* Whatever failed or crashed, no exchange is in the stored transcript that she
\* would not remember once the transcript is cleared (the one transaction of
\* applyConversation).
StoredIsRemembered ==
  \A s \in DOMAIN table.turns :
    table.turns[s].by = "herself" \/ table.turns[s].by \in table.remembered

\* An entry of proactive_messages was said: its turn is in the transcript of the
\* conversation it was written in, whatever crashed between the two
\* transactions.  The converse fails: the turn may be there without its entry.
EntryWasSaid ==
  failures = 0 =>
    \A t \in DOMAIN table.messages :
      table.messages[t].epoch = epoch =>
        \E s \in DOMAIN table.turns :
          table.turns[s] = [by |-> "herself", role |-> "agent", at |-> t]

\* PROACTIVE_TIER_INTERVALS_MS, "Base gap between two proactive messages", and
\* the backoff "while her last message went unanswered" (runProactiveMessages):
\* messages decided while no other round was writing one keep the gap, and twice
\* the gap unless the participant wrote since the first, although the decision is
\* taken long after the stamp and the message written long after the decision.
WroteSince(t) == \E c \in Chats : chat[c].stage # "none" /\ chat[c].at >= t

GapKept ==
  \A s, t \in DOMAIN table.messages :
    s < t /\ table.messages[s].alone /\ table.messages[t].alone =>
      t - s >= IF WroteSince(s) THEN Gap ELSE 2 * Gap

\* newConversation, "clear the visible transcript so the next message opens a
\* fresh context": a prompt shows only exchanges that were stored after the last
\* clear that was reported as done, whatever else failed or restarted since.  One
\* thing the code does not keep: if the DELETE of a clear failed, a retry finds the
\* array empty and reports success without deleting anything, and a restart shows
\* her the rows again (kept).  (An exchange asked before the clear and answered
\* after it is one of the new conversation.)
FreshContext ==
  [][\A c \in Chats : Asks(c) =>
       \A turn \in chat'[c].prompt :
         \/ turn.by \in {"herself"} \cup kept
         \/ chat[turn.by].landedIn = epoch]_vars

\* A chat that is over has added what it ever adds to the transcript.
Over(exchange) == exchange.stage \in {"stored", "leaked", "applied", "failed"}
Finished == {c \in Chats : Over(chat[c])}

\* Rounds whose message may still be said.
Pending == {r \in Rounds : round[r].stage \in {"living", "writing"}}
Past == (1 .. ticked) \ {round[r].at : r \in Pending}

\* RealmStateStore, "Authoritative host state": the transcript she is shown is the
\* one of RealmDialogue.  It grows at its end only, each message and each tick
\* speaks once, and overlapping chats and rounds, lapsed requests and restarts
\* change nothing of it while no transaction has failed.
Dialogue == INSTANCE RealmDialogue
              WITH said <- memory.turns, closed <- Finished, past <- Past,
                   intact <- failures = 0
RefinesDialogue == Dialogue!Spec
=============================================================================
