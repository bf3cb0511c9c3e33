-------------------------------- MODULE ChatPage --------------------------------
(***************************************************************************)
(* The chat page in the browser: which profile and agent it shows, and     *)
(* which of its requests it still listens to.                              *)
(*                                                                         *)
(* Every view of the page has a number, viewGeneration.  A request         *)
(* remembers the number it was made under and is dropped if the number has *)
(* changed when its answer arrives.  viewLoading locks the controls.       *)
(* Answers arrive in any order; each may fail.  An answer of the host is   *)
(* read at the moment it arrives.                                          *)
(***************************************************************************)
EXTENDS Naturals, FiniteSets

CONSTANTS
  Profiles,     \* the profiles of the host
  Agents,       \* the agents, the same in every profile
  FirstProfile, \* profiles[0]
  FirstAgent,   \* agents[0]
  None,         \* null
  Messages,     \* what the participant sends
  Polls,        \* polls of the story that may be under way at the same time
  Cursors,      \* story cursors
  MaxViews,     \* bound: views that the participant opens
  MaxMoves,     \* bound on moves of a story
  MaxFailures   \* bound on requests that fail

ASSUME ChatPageAssumption ==
  /\ FirstProfile \in Profiles
  /\ FirstAgent \in Agents
  /\ None \notin Profiles \cup Agents \cup Cursors
  /\ Cursors \subseteq Nat /\ Cursors # {}
  /\ MaxViews \in Nat \ {0}
  /\ {MaxMoves, MaxFailures} \subseteq Nat

VARIABLES
  page,     \* what the script of the page holds
  view,     \* the task that opened each view
  send,     \* the messages
  poll,     \* the polls
  cursor,   \* at the host: the story cursor of each profile
  moves,    \* moves of a story so far
  failures  \* failed requests so far

vars == <<page, view, send, poll, cursor, moves, failures>>

Generations == 1 .. MaxViews + MaxMoves

\* opens: loadProfile, the agent picker, or a new conversation.  awaits: the
\* answer it waits for.  caught: its caller unlocks the page if it fails.
Views == [opens : {"nothing", "profile", "agent", "conversation"},
          awaits : {"nothing", "state", "post", "history"},
          profile : Profiles, agent : Agents \cup {None}, story : Cursors \cup {None},
          caught : BOOLEAN]
NoView == [opens |-> "nothing", awaits |-> "nothing", profile |-> FirstProfile,
           agent |-> None, story |-> None, caught |-> FALSE]

TypeOK ==
  /\ page \in [generation : Generations, loading : BOOLEAN, profile : Profiles,
               agent : Agents \cup {None}, picked : Agents, story : Cursors \cup {None},
               log : SUBSET (Profiles \X Agents), dialog : BOOLEAN]
  /\ view \in [Generations -> Views]
  /\ send \in [Messages -> [step : {"unsent", "asked", "done", "over"}, generation : {0} \cup Generations]]
  /\ poll \in [Polls -> {0} \cup Generations]
  /\ cursor \in [Profiles -> Cursors]
  /\ moves \in 0 .. MaxMoves
  /\ failures \in 0 .. MaxFailures
-----------------------------------------------------------------------------
(* Views *)

\* loadProfile up to its first await: the log stays as it is.
LoadProfile(p, caught) ==
  /\ page' = [page EXCEPT !.generation = @ + 1, !.profile = p, !.agent = None,
                          !.story = None, !.loading = TRUE]
  /\ view' = [view EXCEPT ![page.generation + 1] =
       [opens |-> "profile", awaits |-> "state", profile |-> p, agent |-> page.agent,
        story |-> None, caught |-> caught]]

\* loadAgent up to its await.
LoadAgent(g, a) == [page EXCEPT !.agent = a, !.picked = a, !.log = {}, !.generation = g]

Current(g) == page.generation = g

Ends(g) == view' = [view EXCEPT ![g] = NoView]

Fails == failures < MaxFailures /\ failures' = failures + 1

Answered == UNCHANGED failures

Unlocked == [page EXCEPT !.loading = FALSE]

\* init has the list of profiles and loads the first.
Init ==
  /\ page = [generation |-> 1, loading |-> TRUE, profile |-> FirstProfile, agent |-> None,
             picked |-> FirstAgent, story |-> None, log |-> {}, dialog |-> FALSE]
  /\ view = [g \in Generations |->
               IF g = 1 THEN [NoView EXCEPT !.opens = "profile", !.awaits = "state"] ELSE NoView]
  /\ send = [m \in Messages |-> [step |-> "unsent", generation |-> 0]]
  /\ poll = [i \in Polls |-> 0]
  /\ cursor \in [Profiles -> Cursors]
  /\ moves = 0
  /\ failures = 0

\* The controls are usable: not disabled, and not covered by the dialog.
Usable == ~page.loading /\ ~page.dialog

MayOpen == page.generation < MaxViews

PickProfile(p) ==
  /\ Usable /\ MayOpen
  /\ p # page.profile
  /\ LoadProfile(p, TRUE)
  /\ UNCHANGED <<send, poll, cursor, moves, failures>>

PickAgent(a) ==
  /\ Usable /\ MayOpen
  /\ a # page.picked
  /\ LET g == page.generation + 1
     IN  /\ page' = [LoadAgent(g, a) EXCEPT !.loading = TRUE]
         /\ view' = [view EXCEPT ![g] = [opens |-> "agent", awaits |-> "history",
                profile |-> page.profile, agent |-> a, story |-> None, caught |-> TRUE]]
  /\ UNCHANGED <<send, poll, cursor, moves, failures>>

OpenDialog ==
  /\ Usable
  /\ page.agent # None
  /\ page' = [page EXCEPT !.dialog = TRUE]
  /\ UNCHANGED <<view, send, poll, cursor, moves, failures>>

CancelDialog ==
  /\ page.dialog
  /\ page' = [page EXCEPT !.dialog = FALSE]
  /\ UNCHANGED <<view, send, poll, cursor, moves, failures>>

\* The page may be loading by now: a poll goes on behind the dialog.
ConfirmDialog ==
  /\ page.dialog /\ MayOpen
  /\ LET g == page.generation + 1
     IN  /\ page' = [page EXCEPT !.dialog = FALSE, !.generation = g, !.loading = TRUE]
         /\ view' = [view EXCEPT ![g] = [opens |-> "conversation", awaits |-> "post",
                profile |-> page.profile, agent |-> None, story |-> None, caught |-> TRUE]]
  /\ UNCHANGED <<send, poll, cursor, moves, failures>>

PreviousOrFirst(g) == IF view[g].agent # None THEN view[g].agent ELSE FirstAgent

\* The answer of an abandoned view is dropped.
StateArrives(g) ==
  /\ view[g].awaits = "state"
  /\ IF Current(g)
     THEN \/ /\ page' = LoadAgent(g, PreviousOrFirst(g))
             /\ view' = [view EXCEPT ![g].awaits = "history", ![g].agent = PreviousOrFirst(g),
                                     ![g].story = cursor[page.profile]]
             /\ Answered
          \/ /\ Fails
             /\ page' = IF view[g].caught THEN Unlocked ELSE page
             /\ Ends(g)
     ELSE Ends(g) /\ UNCHANGED <<page, failures>>
  /\ UNCHANGED <<send, poll, cursor, moves>>

\* Mutant: an agent that is not there is loaded like any other.
PostArrives_AnyAgent(g) ==
  /\ view[g].awaits = "post"
  /\ IF Current(g)
     THEN /\ page' = [page EXCEPT !.log = {<<page.profile, page.agent>>}]
          /\ view' = [view EXCEPT ![g].awaits = "history", ![g].agent = page.agent]
          /\ Answered
     ELSE Ends(g) /\ UNCHANGED <<page, failures>>
  /\ UNCHANGED <<send, poll, cursor, moves>>

\* The transcript is cleared at the host.  loadAgent(current) throws when a poll
\* has left no agent, as a failed request does.
PostArrives(g) ==
  /\ view[g].awaits = "post"
  /\ IF Current(g)
     THEN \/ /\ page.agent # None
             /\ page' = LoadAgent(g, page.agent)
             /\ view' = [view EXCEPT ![g].awaits = "history", ![g].agent = page.agent]
             /\ Answered
          \/ /\ \/ page.agent = None /\ Answered
                \/ Fails
             /\ page' = Unlocked
             /\ Ends(g)
     ELSE Ends(g) /\ UNCHANGED <<page, failures>>
  /\ UNCHANGED <<send, poll, cursor, moves>>

Shown(g) == page.log \cup {<<view[g].profile, view[g].agent>>}

\* Mutant: loadAgent does not look at the number of its view.
HistoryArrives_AnyView(g) ==
  /\ view[g].awaits = "history"
  /\ page' = IF view[g].opens = "profile"
             THEN [Unlocked EXCEPT !.log = Shown(g), !.story = view[g].story]
             ELSE [Unlocked EXCEPT !.log = Shown(g)]
  /\ Ends(g)
  /\ UNCHANGED <<send, poll, cursor, moves, failures>>

\* An HTTP error is an answer too: it shows as a history without turns.
HistoryArrives(g) ==
  /\ view[g].awaits = "history"
  /\ IF Current(g)
     THEN \/ /\ page' = IF view[g].opens = "profile"
                        THEN [Unlocked EXCEPT !.log = Shown(g), !.story = view[g].story]
                        ELSE [Unlocked EXCEPT !.log = Shown(g)]
             /\ Answered
          \/ Fails /\ page' = IF view[g].caught THEN Unlocked ELSE page
     ELSE UNCHANGED <<page, failures>>
  /\ Ends(g)
  /\ UNCHANGED <<send, poll, cursor, moves>>
-----------------------------------------------------------------------------
(* Messages *)

Submit(m) ==
  /\ Usable
  /\ page.agent # None
  /\ send[m].step = "unsent"
  /\ send' = [send EXCEPT ![m] = [step |-> "asked", generation |-> page.generation]]
  /\ page' = [page EXCEPT !.loading = TRUE, !.log = @ \cup {<<page.profile, page.agent>>}]
  /\ UNCHANGED <<view, poll, cursor, moves, failures>>

\* The reply is complete: the bubble is restyled.  In an abandoned view the
\* reader is cancelled.
DoneArrives(m) ==
  /\ send[m].step = "asked"
  /\ send' = [send EXCEPT ![m].step = IF Current(send[m].generation) THEN "done" ELSE "over"]
  /\ UNCHANGED <<page, view, poll, cursor, moves, failures>>

\* Mutant: the finally block unlocks whatever view it belongs to.
SendEnds_AnyView(m) ==
  /\ send[m].step \in {"asked", "done"}
  /\ send' = [send EXCEPT ![m].step = "over"]
  /\ page' = Unlocked
  /\ UNCHANGED <<view, poll, cursor, moves, failures>>

\* Mutant: only a reply that was applied unlocks.
SendEnds_AppliedOnly(m) ==
  /\ send[m].step \in {"asked", "done"}
  /\ send' = [send EXCEPT ![m].step = "over"]
  /\ page' = IF Current(send[m].generation) /\ send[m].step = "done" THEN Unlocked ELSE page
  /\ UNCHANGED <<view, poll, cursor, moves, failures>>

\* applied and the end of the stream, an error frame, or a broken connection.
SendEnds(m) ==
  /\ send[m].step \in {"asked", "done"}
  /\ send' = [send EXCEPT ![m].step = "over"]
  /\ page' = IF Current(send[m].generation) THEN Unlocked ELSE page
  /\ UNCHANGED <<view, poll, cursor, moves, failures>>
-----------------------------------------------------------------------------
(* Polls of the story: refreshStoryProgress, every five seconds *)

StoryMoves(p) ==
  /\ moves < MaxMoves
  /\ moves' = moves + 1
  /\ \E c \in Cursors \ {cursor[p]} : cursor' = [cursor EXCEPT ![p] = c]
  /\ UNCHANGED <<page, view, send, poll, failures>>

PollFires(i) ==
  /\ poll[i] = 0
  /\ ~page.loading
  /\ page.story # None
  /\ poll' = [poll EXCEPT ![i] = page.generation]
  /\ UNCHANGED <<page, view, send, cursor, moves, failures>>

\* Mutant: only a story that went on is loaded again.
PollArrives_Forward(i) ==
  /\ poll[i] # 0
  /\ poll' = [poll EXCEPT ![i] = 0]
  /\ IF Current(poll[i]) /\ cursor[page.profile] > page.story
     THEN LoadProfile(page.profile, FALSE)
     ELSE UNCHANGED <<page, view>>
  /\ UNCHANGED <<send, cursor, moves, failures>>

\* A message may have been sent meanwhile: that is no new view.
PollArrives(i) ==
  /\ poll[i] # 0
  /\ poll' = [poll EXCEPT ![i] = 0]
  /\ \/ /\ Current(poll[i])
        /\ cursor[page.profile] # page.story
        /\ LoadProfile(page.profile, FALSE)
        /\ Answered
     \/ /\ \/ ~Current(poll[i]) /\ Answered
           \/ cursor[page.profile] = page.story /\ Answered
           \/ Fails
        /\ UNCHANGED <<page, view>>
  /\ UNCHANGED <<send, cursor, moves>>
-----------------------------------------------------------------------------
Arrives(g) == StateArrives(g) \/ PostArrives(g) \/ HistoryArrives(g)

Next ==
  \/ \E p \in Profiles : PickProfile(p) \/ StoryMoves(p)
  \/ \E a \in Agents : PickAgent(a)
  \/ OpenDialog \/ CancelDialog \/ ConfirmDialog
  \/ \E g \in Generations : StateArrives(g) \/ PostArrives(g) \/ HistoryArrives(g)
  \/ \E m \in Messages : Submit(m) \/ DoneArrives(m) \/ SendEnds(m)
  \/ \E i \in Polls : PollFires(i) \/ PollArrives(i)

\* Every request is answered or fails, and the timer goes on.
Fairness ==
  /\ \A g \in Generations : WF_vars(Arrives(g))
  /\ \A m \in Messages : WF_vars(SendEnds(m))
  /\ \A i \in Polls : WF_vars(PollFires(i)) /\ WF_vars(PollArrives(i))

Spec == Init /\ [][Next]_vars /\ Fairness
-----------------------------------------------------------------------------
(* Properties *)

\* While an agent is selected, the log shows that agent of that profile and
\* nothing else, whatever answers arrived late (loadAgent's two checks).
ShowsWhatIsSelected == page.agent # None => page.log \subseteq {<<page.profile, page.agent>>}

Listening == {m \in Messages : /\ send[m].step \in {"asked", "done"}
                               /\ Current(send[m].generation)}

Opening == view[page.generation].awaits # "nothing"

\* As long as no request failed, the controls are locked exactly while the
\* present view is opening or has a message under way, and never for two
\* messages: no answer of an abandoned view unlocks the page, and none leaves
\* it locked (viewLoading).
LockedWhileBusy ==
  failures = 0 => /\ page.loading <=> Opening \/ Listening # {}
                  /\ Cardinality(Listening) <= 1

\* A locked page is unlocked again, unless a request failed: loadProfile called
\* from a poll or from init unlocks nothing when it fails.
Unlocks == page.loading ~> ~page.loading \/ failures > 0

\* A view left without its story, which no poll will bring back.
Stuck == ~page.loading /\ page.story = None

\* The page comes to show the story cursor of its profile once that rests,
\* forward or back, unless a request failed or a new conversation was confirmed
\* while the poll was loading the profile again (refreshStoryProgress).
StoryCatchesUp == <>[](page.story = cursor[page.profile] \/ Stuck \/ failures > 0)

\* README, "done (reply complete - UI unlocks)": once the reply is complete, the
\* controls are not locked for its sake.
DoneUnlocks ==
  (\E m \in Listening : send[m].step = "done") => ~page.loading
=============================================================================
