---------------------------- MODULE RealmDialogue ----------------------------
(***************************************************************************)
(* What the participant and she may rely on of their transcript, as it is  *)
(* shown to her (RealmStateStore, "Authoritative host state"): a list that *)
(* grows at its end, by an exchange or by a message of hers, each message  *)
(* of the participant and each tick at most once; and that a new           *)
(* conversation empties.  Nothing else changes it, restarts included,      *)
(* while no transaction has failed.  After one has, a restart may lose     *)
(* some of it or bring back what was cleared, but adds nothing that was    *)
(* not said and nothing twice.                                             *)
(***************************************************************************)
EXTENDS Naturals, Sequences

CONSTANTS
  Chats,   \* the messages of the participant
  Times    \* the times of the ticks, at most one message of hers each

VARIABLES
  said,    \* the transcript
  closed,  \* the messages that were answered, or never will be
  past,    \* the ticks whose message was said, or never will be
  epoch,   \* new conversations so far
  intact   \* no transaction has failed

vars == <<said, closed, past, epoch, intact>>

Question(c, t) == [by |-> c, role |-> "participant", at |-> t]
Answer(c, t) == [by |-> c, role |-> "agent", at |-> t]
Message(t) == [by |-> "herself", role |-> "agent", at |-> t]

Turn == [by : Chats \cup {"herself"}, role : {"participant", "agent"}, at : Times]

\* Only who is closed has spoken.
Spoken(turn, chats, times) ==
  IF turn.by = "herself" THEN turn.at \in times ELSE turn.by \in chats

NoEcho(turns) == \A i, j \in DOMAIN turns : turns[i] = turns[j] => i = j

Init == said = <<>> /\ closed = {} /\ past = {} /\ epoch = 0 /\ intact = TRUE

\* A leaking reply leaves its question alone in the transcript.
Exchange ==
  /\ \E c \in Chats \ closed, t \in Times :
       /\ closed' = closed \cup {c}
       /\ said' \in {said \o <<Question(c, t)>>, said \o <<Question(c, t), Answer(c, t)>>}
  /\ UNCHANGED <<past, epoch>>

Speak ==
  /\ \E t \in Times \ past : past' = past \cup {t} /\ said' = said \o <<Message(t)>>
  /\ UNCHANGED <<closed, epoch>>

Clear ==
  /\ said' = <<>>
  /\ intact' => epoch' = epoch + 1
  /\ epoch' \in {epoch, epoch + 1}
  /\ UNCHANGED <<closed, past>>

Closes == closed \subseteq closed' /\ past \subseteq past'

\* A chat fails, or a tick has nothing to say, or the process restarts.
Lapse == Closes /\ UNCHANGED <<said, epoch>>

\* The process restarts from what was stored.
Recover ==
  /\ ~intact
  /\ said' \in Seq(Turn) /\ NoEcho(said')
  /\ \A i \in DOMAIN said' : Spoken(said'[i], closed', past')
  /\ Closes
  /\ UNCHANGED epoch

Next ==
  /\ Lapse \/ Exchange \/ Speak \/ Clear \/ Recover
  /\ intact' => intact

Spec == Init /\ [][Next]_vars
=============================================================================
