---------------------------- MODULE ChatPage_proofs ----------------------------
(***************************************************************************)
(* Proofs about ChatPage, for any profiles, agents, messages and polls and *)
(* any number of views, moves of the story and failures.                   *)
(***************************************************************************)
EXTENDS ChatPage, TLAPS, FiniteSetTheorems

PageType ==
  [generation : Generations, loading : BOOLEAN, profile : Profiles,
   agent : Agents \cup {None}, picked : Agents, story : Cursors \cup {None},
   log : SUBSET (Profiles \X Agents), dialog : BOOLEAN]

SendType ==
  [step : {"unsent", "asked", "done", "over"}, generation : {0} \cup Generations]

\* The view that is opening is that of the selected profile, and, once it waits
\* for the transcript, of the selected agent; a profile has its story by then.
ViewMatches ==
  Opening =>
    /\ view[page.generation].profile = page.profile
    /\ view[page.generation].awaits = "history" =>
         /\ view[page.generation].agent = page.agent /\ page.agent # None
         /\ view[page.generation].opens = "profile" => view[page.generation].story # None
    /\ view[page.generation].awaits = "post" => view[page.generation].opens # "profile"

\* Requests were made under the present view or an earlier one, and polls only
\* once the story was known.
AskedBefore ==
  /\ \A m \in Messages : send[m].generation <= page.generation
  /\ \A i \in Polls : /\ poll[i] <= page.generation
                      /\ poll[i] = page.generation => page.story # None

\* The story has moved since the view read it.
Behind ==
  \/ page.story # None /\ page.story # cursor[page.profile]
  \/ /\ view[page.generation].awaits = "history"
     /\ view[page.generation].opens = "profile"
     /\ view[page.generation].story # cursor[page.profile]

\* Each profile that a poll loads again is owed to a move.
LoadsCounted ==
  /\ page.generation <= MaxViews + moves
  /\ Behind => moves > 0 /\ page.generation < MaxViews + moves

\* LockedWhileBusy, and no message under way in a view that opens.
Locks ==
  failures = 0 =>
    /\ page.loading <=> Opening \/ Listening # {}
    /\ \A m, n \in Listening : m = n
    /\ Opening => Listening = {}

PageInv ==
  TypeOK /\ ViewMatches /\ ShowsWhatIsSelected /\ AskedBefore /\ LoadsCounted /\ Locks
-----------------------------------------------------------------------------
(* Facts *)

LEMMA TypeFacts ==
  ASSUME TypeOK
  PROVE  /\ page \in PageType
         /\ page.generation \in Nat /\ page.generation \in Generations
         /\ page.generation >= 1
         /\ moves \in Nat /\ failures \in Nat
         /\ MaxViews \in Nat \ {0} /\ MaxMoves \in Nat /\ MaxFailures \in Nat
         /\ \A m \in Messages : send[m] \in SendType /\ send[m].generation \in Nat
         /\ \A i \in Polls : poll[i] \in Nat
         /\ \A g \in Generations : g \in Nat /\ view[g] \in Views
BY ChatPageAssumption DEF TypeOK, PageType, SendType, Generations

\* A view that begins: nothing of the former one is listened to any more.
LEMMA NewView ==
  ASSUME TypeOK, AskedBefore,
         NEW v \in Views, v.awaits # "nothing",
         page'.generation = page.generation + 1,
         page'.generation \in Generations,
         page'.loading = TRUE,
         view' = [view EXCEPT ![page.generation + 1] = v],
         v.profile = page'.profile,
         v.awaits = "history" =>
           v.agent = page'.agent /\ page'.agent # None /\ v.opens # "profile",
         v.awaits = "post" => v.opens # "profile",
         UNCHANGED send,
         \A i \in Polls : poll'[i] = poll[i] \/ poll'[i] = 0
  PROVE  ViewMatches' /\ AskedBefore' /\ Locks'
<1>1. view'[page'.generation] = v
  BY DEF TypeOK
<1>2. Opening'
  BY <1>1 DEF Opening
<1>3. ViewMatches'
  BY <1>1 DEF ViewMatches
<1>4. /\ \A m \in Messages : send'[m].generation < page'.generation
      /\ \A i \in Polls : poll'[i] < page'.generation
  BY TypeFacts DEF AskedBefore
<1>5. AskedBefore'
  BY <1>4, TypeFacts DEF AskedBefore, Generations
<1>6. Listening' = {}
  BY <1>4, TypeFacts DEF Listening, Current
<1>7. Locks'
  BY <1>2, <1>6 DEF Locks
<1>8. QED
  BY <1>3, <1>5, <1>7

\* The profile is the same, and no request is made.
LEMMA SameView ==
  ASSUME TypeOK, AskedBefore, UNCHANGED <<send, page>>,
         \A i \in Polls : poll'[i] \in {poll[i], 0}
  PROVE  AskedBefore'
BY TypeFacts DEF AskedBefore
-----------------------------------------------------------------------------
LEMMA InitPageInv == Init => PageInv
<1> SUFFICES ASSUME Init PROVE PageInv
  OBVIOUS
<1> USE ChatPageAssumption DEF Init
<1>1. 1 \in Generations
  BY DEF Generations
<1>2. NoView \in Views
  BY DEF NoView, Views
<1>3. TypeOK
  <2>1. page \in PageType
    BY <1>1 DEF PageType
  <2>2. view \in [Generations -> Views]
    BY <1>1, <1>2 DEF Views, NoView
  <2>3. send \in [Messages -> SendType] /\ poll \in [Polls -> {0} \cup Generations]
    BY DEF SendType
  <2>4. QED
    BY <2>1, <2>2, <2>3 DEF TypeOK, PageType, SendType
<1>4. /\ page.generation = 1 /\ page.agent = None /\ page.loading = TRUE /\ page.story = None
      /\ view[1].awaits = "state" /\ view[1].profile = page.profile
  BY <1>1 DEF NoView
<1>5. Opening /\ ViewMatches /\ ShowsWhatIsSelected
  BY <1>4 DEF Opening, ViewMatches, ShowsWhatIsSelected
<1>6. AskedBefore
  BY <1>4 DEF AskedBefore
<1>7. LoadsCounted
  BY <1>4 DEF LoadsCounted, Behind
<1>8. Listening = {}
  BY DEF Listening
<1>9. Locks
  BY <1>4, <1>5, <1>8 DEF Locks
<1>10. QED
  BY <1>3, <1>5, <1>6, <1>7, <1>9 DEF PageInv

\* loadProfile, from the picker or from a poll.
LEMMA LoadKeeps ==
  ASSUME PageInv, NEW p \in Profiles, NEW caught \in BOOLEAN, LoadProfile(p, caught),
         UNCHANGED <<send, cursor, moves, failures>>,
         poll' \in [Polls -> {0} \cup Generations],
         \A i \in Polls : poll'[i] \in {poll[i], 0},
         page.generation < MaxViews + moves
  PROVE  PageInv'
<1> DEFINE v == [opens |-> "profile", awaits |-> "state", profile |-> p, agent |-> page.agent,
                 story |-> None, caught |-> caught]
<1>1. TypeOK /\ AskedBefore /\ page \in PageType
  BY TypeFacts DEF PageInv
<1>2. page.generation + 1 \in Generations
  BY <1>1, TypeFacts DEF TypeOK, Generations
<1>3. v \in Views
  BY <1>1 DEF Views, PageType
<1>4. /\ page' = [page EXCEPT !.generation = page.generation + 1, !.profile = p, !.agent = None,
                              !.story = None, !.loading = TRUE]
      /\ view' = [view EXCEPT ![page.generation + 1] = v]
  BY DEF LoadProfile
<1>5. /\ page' \in PageType
      /\ page'.generation = page.generation + 1 /\ page'.profile = p /\ page'.agent = None
      /\ page'.story = None /\ page'.loading = TRUE
  BY <1>1, <1>2, <1>4 DEF PageType
<1>6. TypeOK'
  <2>1. view' \in [Generations -> Views]
    BY <1>1, <1>3, <1>4 DEF TypeOK
  <2>2. QED
    BY <1>1, <1>5, <2>1 DEF TypeOK, PageType
<1>7. ViewMatches' /\ AskedBefore' /\ Locks'
  BY <1>1, <1>2, <1>3, <1>4, <1>5, NewView
<1>8. ShowsWhatIsSelected'
  BY <1>5 DEF ShowsWhatIsSelected
<1>9. LoadsCounted'
  <2>1. view'[page'.generation].awaits = "state"
    BY <1>1, <1>2, <1>4, <1>5 DEF TypeOK
  <2>2. ~Behind'
    BY <1>5, <2>1 DEF Behind
  <2>3. QED
    BY <1>1, <1>5, <2>2, TypeFacts DEF LoadsCounted
<1>10. QED
  BY <1>6, <1>7, <1>8, <1>9 DEF PageInv

LEMMA PickProfileKeeps ==
  ASSUME PageInv, NEW p \in Profiles, PickProfile(p)
  PROVE  PageInv'
<1>1. page.generation < MaxViews + moves
  BY TypeFacts DEF PageInv, PickProfile, MayOpen
<1>2. QED
  BY <1>1, LoadKeeps DEF PickProfile, PageInv, TypeOK

\* A new view of the same profile and story.
LEMMA OpenKeeps ==
  ASSUME PageInv, MayOpen, NEW v \in Views, v.awaits # "nothing", v.opens # "profile",
         page' \in PageType,
         page'.generation = page.generation + 1, page'.loading = TRUE,
         page'.profile = page.profile, page'.story = page.story,
         view' = [view EXCEPT ![page.generation + 1] = v],
         v.profile = page.profile,
         v.awaits = "history" => v.agent = page'.agent /\ page'.agent # None,
         UNCHANGED <<send, poll, cursor, moves, failures>>,
         ShowsWhatIsSelected'
  PROVE  PageInv'
<1>1. TypeOK /\ AskedBefore /\ LoadsCounted
  BY DEF PageInv
<1>2. page.generation + 1 \in Generations
  BY DEF PageType
<1>3. TypeOK'
  <2>1. view' \in [Generations -> Views]
    BY <1>1 DEF TypeOK
  <2>2. QED
    BY <1>1, <2>1 DEF TypeOK, PageType
<1>4. ViewMatches' /\ AskedBefore' /\ Locks'
  BY <1>1, <1>2, NewView
<1>5. LoadsCounted'
  <2>1. view'[page'.generation].opens # "profile"
    BY <1>1, <1>2 DEF TypeOK
  <2>2. Behind' => Behind
    BY <2>1 DEF Behind
  <2>3. QED
    BY <1>1, <2>2, TypeFacts DEF LoadsCounted, MayOpen
<1>6. QED
  BY <1>3, <1>4, <1>5 DEF PageInv

LEMMA PickAgentKeeps ==
  ASSUME PageInv, NEW a \in Agents, PickAgent(a)
  PROVE  PageInv'
<1> DEFINE v == [opens |-> "agent", awaits |-> "history", profile |-> page.profile,
                 agent |-> a, story |-> None, caught |-> TRUE]
<1>1. page \in PageType /\ MayOpen /\ page.generation + 1 \in Generations /\ a # None
  BY TypeFacts, ChatPageAssumption DEF PageInv, PickAgent, MayOpen, Generations
<1>2. /\ page' = [page EXCEPT !.agent = a, !.picked = a, !.log = {},
                              !.generation = page.generation + 1, !.loading = TRUE]
      /\ view' = [view EXCEPT ![page.generation + 1] = v]
      /\ UNCHANGED <<send, poll, cursor, moves, failures>>
  BY <1>1 DEF PickAgent, LoadAgent, PageType
<1>3. v \in Views
  BY <1>1 DEF Views, PageType
<1>4. /\ page' \in PageType
      /\ page'.generation = page.generation + 1 /\ page'.loading = TRUE
      /\ page'.profile = page.profile /\ page'.story = page.story /\ page'.agent = a
      /\ page'.log = {}
  BY <1>1, <1>2 DEF PageType
<1>5. ShowsWhatIsSelected'
  BY <1>4 DEF ShowsWhatIsSelected
<1>6. QED
  BY <1>1, <1>2, <1>3, <1>4, <1>5, OpenKeeps

LEMMA ConfirmKeeps ==
  ASSUME PageInv, ConfirmDialog
  PROVE  PageInv'
<1> DEFINE v == [opens |-> "conversation", awaits |-> "post", profile |-> page.profile,
                 agent |-> None, story |-> None, caught |-> TRUE]
<1>1. page \in PageType /\ MayOpen /\ page.generation + 1 \in Generations
  BY TypeFacts, ChatPageAssumption DEF PageInv, ConfirmDialog, MayOpen, Generations
<1>2. /\ page' = [page EXCEPT !.dialog = FALSE, !.generation = page.generation + 1,
                              !.loading = TRUE]
      /\ view' = [view EXCEPT ![page.generation + 1] = v]
      /\ UNCHANGED <<send, poll, cursor, moves, failures>>
  BY DEF ConfirmDialog
<1>3. v \in Views
  BY <1>1 DEF Views, PageType
<1>4. /\ page' \in PageType
      /\ page'.generation = page.generation + 1 /\ page'.loading = TRUE
      /\ page'.profile = page.profile /\ page'.story = page.story /\ page'.agent = page.agent
      /\ page'.log = page.log
  BY <1>1, <1>2 DEF PageType
<1>5. ShowsWhatIsSelected'
  BY <1>4 DEF ShowsWhatIsSelected, PageInv
<1>6. QED
  BY <1>1, <1>2, <1>3, <1>4, <1>5, OpenKeeps
-----------------------------------------------------------------------------
(* Steps within a view *)

\* The dialog opens or closes.
LEMMA DialogKeeps ==
  ASSUME PageInv, OpenDialog \/ CancelDialog
  PROVE  PageInv'
<1>1. page \in PageType
  BY TypeFacts DEF PageInv
<1>2. PICK b \in BOOLEAN : page' = [page EXCEPT !.dialog = b]
  BY Zenon DEF OpenDialog, CancelDialog
<1>3. UNCHANGED <<view, send, poll, cursor, moves, failures>>
  BY DEF OpenDialog, CancelDialog
<1>4. /\ page' \in PageType
      /\ page'.generation = page.generation /\ page'.loading = page.loading
      /\ page'.profile = page.profile /\ page'.story = page.story /\ page'.agent = page.agent
      /\ page'.log = page.log
  BY <1>1, <1>2 DEF PageType
<1>5. TypeOK'
  BY <1>3, <1>4 DEF PageInv, TypeOK, PageType
<1>6. ViewMatches' /\ ShowsWhatIsSelected' /\ AskedBefore' /\ LoadsCounted'
  BY <1>3, <1>4
  DEF PageInv, ViewMatches, ShowsWhatIsSelected, AskedBefore, LoadsCounted, Behind, Opening
<1>7. Locks'
  <2>1. Listening' = Listening /\ Opening' = Opening
    BY <1>3, <1>4 DEF Listening, Current, Opening
  <2>2. QED
    BY <1>3, <1>4, <2>1 DEF PageInv, Locks
<1>8. QED
  BY <1>5, <1>6, <1>7 DEF PageInv

\* A view that was abandoned ends, and the page stays as it is.
LEMMA AbandonedKeeps ==
  ASSUME PageInv, NEW g \in Generations, g # page.generation, Ends(g),
         UNCHANGED <<page, send, poll, cursor, moves, failures>>
  PROVE  PageInv'
<1>1. NoView \in Views
  BY ChatPageAssumption DEF NoView, Views
<1>2. TypeOK'
  BY <1>1 DEF PageInv, TypeOK, Ends
<1>3. view'[page.generation] = view[page.generation]
  BY TypeFacts DEF PageInv, TypeOK, Ends
<1>4. ViewMatches' /\ ShowsWhatIsSelected' /\ AskedBefore' /\ LoadsCounted'
  BY <1>3
  DEF PageInv, ViewMatches, ShowsWhatIsSelected, AskedBefore, LoadsCounted, Behind, Opening
<1>5. Locks'
  <2>1. Listening' = Listening /\ Opening' = Opening
    BY <1>3 DEF Listening, Current, Opening
  <2>2. QED
    BY <2>1 DEF PageInv, Locks
<1>6. QED
  BY <1>2, <1>4, <1>5 DEF PageInv

\* The present view goes on: it waits for the transcript of the agent it selects.
LEMMA HistoryNext ==
  ASSUME PageInv, Opening, NEW a \in Agents, NEW s \in Cursors \cup {None},
         page' = LoadAgent(page.generation, a),
         view' = [view EXCEPT ![page.generation].awaits = "history",
                              ![page.generation].agent = a,
                              ![page.generation].story = s],
         view[page.generation].opens = "profile" => s = cursor[page.profile],
         UNCHANGED <<send, poll, cursor, moves, failures>>
  PROVE  PageInv'
<1> DEFINE g == page.generation
<1>1. TypeOK /\ page \in PageType /\ g \in Generations /\ view[g] \in Views /\ a # None
  BY TypeFacts, ChatPageAssumption DEF PageInv
<1>2. /\ page' \in PageType
      /\ page'.generation = g /\ page'.loading = page.loading
      /\ page'.profile = page.profile /\ page'.story = page.story /\ page'.agent = a
      /\ page'.log = {}
  BY <1>1 DEF LoadAgent, PageType
<1>3. /\ view'[g] \in Views
      /\ view'[g].awaits = "history" /\ view'[g].agent = a /\ view'[g].story = s
      /\ view'[g].profile = view[g].profile /\ view'[g].opens = view[g].opens
      /\ view' \in [Generations -> Views]
  BY <1>1 DEF TypeOK, Views
<1>4. TypeOK'
  BY <1>1, <1>2, <1>3 DEF TypeOK, PageType
<1>5. ViewMatches' /\ ShowsWhatIsSelected' /\ AskedBefore'
  BY <1>1, <1>2, <1>3, ChatPageAssumption
  DEF PageInv, TypeOK, PageType, ViewMatches, ShowsWhatIsSelected, AskedBefore, Opening
<1>6. LoadsCounted'
  <2>1. Behind' => Behind
    BY <1>2, <1>3 DEF Behind
  <2>2. QED
    BY <1>2, <2>1 DEF PageInv, LoadsCounted
<1>7. Locks'
  <2>1. Listening' = Listening /\ Opening'
    BY <1>2, <1>3 DEF Listening, Current, Opening
  <2>2. QED
    BY <1>2, <2>1 DEF PageInv, Locks
<1>8. QED
  BY <1>4, <1>5, <1>6, <1>7 DEF PageInv

\* The present view ends, with the transcript shown or without, and the page is
\* unlocked or a request has failed.
LEMMA ViewEnds ==
  ASSUME PageInv, Opening, Ends(page.generation),
         page' \in PageType,
         page'.generation = page.generation, page'.profile = page.profile,
         page'.agent = page.agent,
         page'.log \subseteq page.log \cup {<<page.profile, page.agent>>},
         \/ page'.story = page.story
         \/ /\ view[page.generation].awaits = "history"
            /\ view[page.generation].opens = "profile"
            /\ page'.story = view[page.generation].story,
         failures' \in 0 .. MaxFailures,
         (page'.loading = FALSE /\ UNCHANGED failures) \/ failures' # 0,
         UNCHANGED <<send, poll, cursor, moves>>
  PROVE  PageInv'
<1> DEFINE g == page.generation
<1>1. NoView \in Views
  BY ChatPageAssumption DEF NoView, Views
<1>2. TypeOK'
  <2>1. view' \in [Generations -> Views]
    BY <1>1 DEF PageInv, TypeOK, Ends
  <2>2. QED
    BY <2>1 DEF PageInv, TypeOK, PageType
<1>3. view'[g].awaits = "nothing"
  BY TypeFacts DEF PageInv, TypeOK, Ends, NoView
<1>4. ~Opening'
  BY <1>3 DEF Opening
<1>5. ViewMatches' /\ ShowsWhatIsSelected'
  BY <1>4 DEF PageInv, ViewMatches, ShowsWhatIsSelected
<1>6. AskedBefore'
  BY DEF PageInv, AskedBefore, ViewMatches
<1>7. LoadsCounted'
  <2>1. Behind' => Behind
    BY <1>3 DEF Behind
  <2>2. QED
    BY <2>1 DEF PageInv, LoadsCounted
<1>8. Locks'
  <2>1. Listening' = Listening
    BY DEF Listening, Current
  <2>2. QED
    BY <1>4, <2>1 DEF PageInv, Locks
<1>9. QED
  BY <1>2, <1>5, <1>6, <1>7, <1>8 DEF PageInv

LEMMA StateKeeps ==
  ASSUME PageInv, NEW g \in Generations, StateArrives(g)
  PROVE  PageInv'
<1>1. /\ TypeOK /\ page \in PageType /\ view[g] \in Views /\ view[g].awaits = "state"
      /\ UNCHANGED <<send, poll, cursor, moves>>
  BY TypeFacts DEF PageInv, StateArrives
<1>2. CASE g # page.generation
  <2>1. Ends(g) /\ UNCHANGED <<page, failures>>
    BY <1>2 DEF StateArrives, Current
  <2>2. QED
    BY <1>1, <1>2, <2>1, AbandonedKeeps
<1>3. CASE g = page.generation
  <2>1. Opening
    BY <1>1, <1>3 DEF Opening
  <2>2. PreviousOrFirst(g) \in Agents
    BY <1>1, ChatPageAssumption DEF PreviousOrFirst, Views
  <2>3. CASE /\ page' = LoadAgent(g, PreviousOrFirst(g))
             /\ view' = [view EXCEPT ![g].awaits = "history", ![g].agent = PreviousOrFirst(g),
                                     ![g].story = cursor[page.profile]]
             /\ Answered
    <3>1. cursor[page.profile] \in Cursors
      BY <1>1 DEF TypeOK, PageType
    <3>2. QED
      BY <1>1, <1>3, <2>1, <2>2, <2>3, <3>1, HistoryNext DEF Answered
  <2>4. CASE /\ Fails
             /\ page' = IF view[g].caught THEN Unlocked ELSE page
             /\ Ends(g)
    <3>1. failures' \in 0 .. MaxFailures /\ failures' # 0
      BY <1>1, <2>4, TypeFacts DEF Fails, TypeOK
    <3>2. /\ page' \in PageType
          /\ page'.generation = page.generation /\ page'.profile = page.profile
          /\ page'.agent = page.agent /\ page'.log = page.log /\ page'.story = page.story
      BY <1>1, <2>4 DEF Unlocked, PageType
    <3>3. QED
      BY <1>1, <1>3, <2>1, <2>4, <3>1, <3>2, ViewEnds
  <2>5. QED
    BY <1>3, <2>3, <2>4, Zenon DEF StateArrives, Current
<1>4. QED
  BY <1>2, <1>3

LEMMA PostKeeps ==
  ASSUME PageInv, NEW g \in Generations, PostArrives(g)
  PROVE  PageInv'
<1>1. /\ TypeOK /\ page \in PageType /\ view[g] \in Views /\ view[g].awaits = "post"
      /\ UNCHANGED <<send, poll, cursor, moves>>
  BY TypeFacts DEF PageInv, PostArrives
<1>2. CASE g # page.generation
  <2>1. Ends(g) /\ UNCHANGED <<page, failures>>
    BY <1>2 DEF PostArrives, Current
  <2>2. QED
    BY <1>1, <1>2, <2>1, AbandonedKeeps
<1>3. CASE g = page.generation
  <2>1. Opening /\ view[g].opens # "profile"
    BY <1>1, <1>3 DEF Opening, PageInv, ViewMatches
  <2>2. CASE /\ page.agent # None
             /\ page' = LoadAgent(g, page.agent)
             /\ view' = [view EXCEPT ![g].awaits = "history", ![g].agent = page.agent]
             /\ Answered
    <3>1. page.agent \in Agents /\ view[g].story \in Cursors \cup {None}
      BY <1>1, <2>2 DEF PageType, Views
    <3>2. view' = [view EXCEPT ![g].awaits = "history", ![g].agent = page.agent,
                               ![g].story = view[g].story]
      BY <1>1, <2>2 DEF TypeOK, Views
    <3>3. QED
      BY <1>1, <1>3, <2>1, <2>2, <3>1, <3>2, HistoryNext DEF Answered
  <2>3. CASE /\ \/ page.agent = None /\ Answered
                \/ Fails
             /\ page' = Unlocked
             /\ Ends(g)
    <3>1. failures' \in 0 .. MaxFailures /\ (UNCHANGED failures \/ failures' # 0)
      BY <1>1, <2>3, TypeFacts DEF Fails, TypeOK, Answered
    <3>2. /\ page' \in PageType /\ page'.loading = FALSE
          /\ page'.generation = page.generation /\ page'.profile = page.profile
          /\ page'.agent = page.agent /\ page'.log = page.log /\ page'.story = page.story
      BY <1>1, <2>3 DEF Unlocked, PageType
    <3>3. QED
      BY <1>1, <1>3, <2>1, <2>3, <3>1, <3>2, ViewEnds
  <2>4. QED
    BY <1>3, <2>2, <2>3, Zenon DEF PostArrives, Current
<1>4. QED
  BY <1>2, <1>3

LEMMA HistoryKeeps ==
  ASSUME PageInv, NEW g \in Generations, HistoryArrives(g)
  PROVE  PageInv'
<1>1. /\ TypeOK /\ page \in PageType /\ view[g] \in Views /\ view[g].awaits = "history"
      /\ Ends(g) /\ UNCHANGED <<send, poll, cursor, moves>>
  BY TypeFacts DEF PageInv, HistoryArrives
<1>2. CASE g # page.generation
  <2>1. UNCHANGED <<page, failures>>
    BY <1>2 DEF HistoryArrives, Current
  <2>2. QED
    BY <1>1, <1>2, <2>1, AbandonedKeeps
<1>3. CASE g = page.generation
  <2>1. /\ Opening
        /\ view[g].profile = page.profile /\ view[g].agent = page.agent /\ page.agent # None
    BY <1>1, <1>3 DEF Opening, PageInv, ViewMatches
  <2>2. CASE /\ page' = IF view[g].opens = "profile"
                        THEN [Unlocked EXCEPT !.log = Shown(g), !.story = view[g].story]
                        ELSE [Unlocked EXCEPT !.log = Shown(g)]
             /\ Answered
    <3>1. Shown(g) = page.log \cup {<<page.profile, page.agent>>}
      BY <2>1 DEF Shown
    <3>2. Shown(g) \in SUBSET (Profiles \X Agents)
      BY <1>1, <2>1, <3>1 DEF PageType
    <3>3. /\ page' \in PageType /\ page'.loading = FALSE
          /\ page'.generation = page.generation /\ page'.profile = page.profile
          /\ page'.agent = page.agent /\ page'.log = Shown(g)
          /\ page'.story = IF view[g].opens = "profile" THEN view[g].story ELSE page.story
      BY <1>1, <2>2, <3>2 DEF Unlocked, PageType, Views
    <3>4. failures' \in 0 .. MaxFailures /\ UNCHANGED failures
      BY <1>1, <2>2 DEF Answered, TypeOK
    <3>5. QED
      BY <1>1, <1>3, <2>1, <3>1, <3>3, <3>4, ViewEnds
  <2>3. CASE Fails /\ page' = IF view[g].caught THEN Unlocked ELSE page
    <3>1. failures' \in 0 .. MaxFailures /\ failures' # 0
      BY <1>1, <2>3, TypeFacts DEF Fails, TypeOK
    <3>2. /\ page' \in PageType
          /\ page'.generation = page.generation /\ page'.profile = page.profile
          /\ page'.agent = page.agent /\ page'.log = page.log /\ page'.story = page.story
      BY <1>1, <2>3 DEF Unlocked, PageType
    <3>3. QED
      BY <1>1, <1>3, <2>1, <3>1, <3>2, ViewEnds
  <2>4. QED
    BY <1>3, <2>2, <2>3, Zenon DEF HistoryArrives, Current
<1>4. QED
  BY <1>2, <1>3
-----------------------------------------------------------------------------
(* Messages *)

\* A message is sent, when nothing is under way.
LEMMA SubmitKeeps ==
  ASSUME PageInv, NEW m \in Messages, Submit(m)
  PROVE  PageInv'
<1>1. /\ TypeOK /\ page \in PageType /\ page.generation \in Generations
      /\ page.loading = FALSE /\ page.agent # None /\ send[m].step = "unsent"
  BY TypeFacts DEF PageInv, Submit, Usable, PageType
<1>2. /\ send' = [send EXCEPT ![m] = [step |-> "asked", generation |-> page.generation]]
      /\ page' = [page EXCEPT !.loading = TRUE,
                              !.log = page.log \cup {<<page.profile, page.agent>>}]
      /\ UNCHANGED <<view, poll, cursor, moves, failures>>
  BY DEF Submit
<1>3. /\ page' \in PageType
      /\ page'.generation = page.generation /\ page'.loading = TRUE
      /\ page'.profile = page.profile /\ page'.story = page.story /\ page'.agent = page.agent
      /\ page'.log = page.log \cup {<<page.profile, page.agent>>}
  <2>1. page.log \cup {<<page.profile, page.agent>>} \in SUBSET (Profiles \X Agents)
    BY <1>1 DEF PageType
  <2>2. QED
    BY <1>1, <1>2, <2>1 DEF PageType
<1>4. /\ send' \in [Messages -> SendType]
      /\ send'[m].step = "asked" /\ send'[m].generation = page.generation
      /\ \A n \in Messages \ {m} : send'[n] = send[n]
  BY <1>1, <1>2 DEF TypeOK, SendType
<1>5. TypeOK'
  BY <1>1, <1>2, <1>3, <1>4 DEF TypeOK, PageType, SendType
<1>6. ViewMatches' /\ ShowsWhatIsSelected' /\ LoadsCounted'
  BY <1>2, <1>3
  DEF PageInv, ViewMatches, ShowsWhatIsSelected, LoadsCounted, Behind, Opening
<1>7. AskedBefore'
  BY <1>2, <1>3, <1>4, TypeFacts DEF PageInv, AskedBefore
<1>8. Locks'
  <2>1. SUFFICES ASSUME failures = 0
                 PROVE  ~Opening' /\ Listening' = {m}
    BY <1>2, <1>3 DEF Locks
  <2>2. ~Opening /\ Listening = {}
    BY <1>1, <2>1 DEF PageInv, Locks
  <2>3. ~Opening'
    BY <1>2, <1>3, <2>2 DEF Opening
  <2>4. Listening' = {m}
    BY <1>3, <1>4, <2>2 DEF Listening, Current
  <2>5. QED
    BY <2>3, <2>4
<1>9. QED
  BY <1>5, <1>6, <1>7, <1>8 DEF PageInv

\* A message goes on: the page is the same, or it is unlocked for it.
LEMMA MessageKeeps ==
  ASSUME PageInv, NEW m \in Messages, DoneArrives(m) \/ SendEnds(m)
  PROVE  PageInv'
<1>1. /\ TypeOK /\ page \in PageType /\ send[m] \in SendType
      /\ send[m].step \in {"asked", "done"}
      /\ UNCHANGED <<view, poll, cursor, moves, failures>>
  BY TypeFacts DEF PageInv, DoneArrives, SendEnds
<1>2. PICK step \in {"done", "over"} : send' = [send EXCEPT ![m].step = step]
  BY DEF DoneArrives, SendEnds
<1>3. /\ send' \in [Messages -> SendType]
      /\ send'[m].step = step /\ send'[m].generation = send[m].generation
      /\ \A n \in Messages \ {m} : send'[n] = send[n]
  BY <1>1, <1>2 DEF TypeOK, SendType
<1>4. page' = page \/ page' = Unlocked
  BY DEF DoneArrives, SendEnds
<1>5. /\ page' \in PageType
      /\ page'.generation = page.generation
      /\ page'.profile = page.profile /\ page'.story = page.story /\ page'.agent = page.agent
      /\ page'.log = page.log
  BY <1>1, <1>4 DEF Unlocked, PageType
<1>6. TypeOK'
  BY <1>1, <1>3, <1>5 DEF TypeOK, PageType, SendType
<1>7. ViewMatches' /\ ShowsWhatIsSelected' /\ LoadsCounted'
  BY <1>1, <1>5
  DEF PageInv, ViewMatches, ShowsWhatIsSelected, LoadsCounted, Behind, Opening
<1>8. AskedBefore'
  BY <1>1, <1>3, <1>5 DEF PageInv, AskedBefore
<1>9. Opening' = Opening
  BY <1>1, <1>5 DEF Opening
<1>10. Locks'
  <2>1. SUFFICES ASSUME failures = 0
                 PROVE  /\ page'.loading <=> Opening' \/ Listening' # {}
                        /\ \A x, y \in Listening' : x = y
                        /\ Opening' => Listening' = {}
    BY <1>1 DEF Locks
  <2>2. /\ page.loading <=> Opening \/ Listening # {}
        /\ \A x, y \in Listening : x = y
        /\ Opening => Listening = {}
    BY <2>1 DEF PageInv, Locks
  <2>3. CASE send[m].generation # page.generation
    <3>1. page' = page
      BY <2>3 DEF DoneArrives, SendEnds, Current
    <3>2. Listening' = Listening
      BY <1>3, <1>5, <2>3 DEF Listening, Current
    <3>3. QED
      BY <1>9, <2>2, <3>1, <3>2
  <2>4. CASE send[m].generation = page.generation
    <3>1. m \in Listening
      BY <1>1, <2>4 DEF Listening, Current
    <3>2. CASE DoneArrives(m)
      <4>1. page' = page /\ send'[m].step = "done"
        BY <1>1, <2>4, <3>2 DEF DoneArrives, Current, TypeOK
      <4>2. Listening' = Listening
        BY <1>1, <1>3, <2>4, <4>1 DEF Listening, Current
      <4>3. QED
        BY <1>9, <2>2, <4>1, <4>2
    <3>3. CASE SendEnds(m)
      <4>1. page' = Unlocked /\ send'[m].step = "over"
        BY <1>1, <2>4, <3>3 DEF SendEnds, Current, TypeOK
      <4>2. page'.loading = FALSE
        BY <1>1, <4>1 DEF Unlocked, PageType
      <4>3. Listening' = {}
        BY <1>3, <1>5, <2>2, <3>1, <4>1 DEF Listening, Current
      <4>4. QED
        BY <1>9, <2>2, <3>1, <4>2, <4>3
    <3>4. QED
      BY <3>2, <3>3
  <2>5. QED
    BY <2>3, <2>4
<1>11. QED
  BY <1>6, <1>7, <1>8, <1>10 DEF PageInv
-----------------------------------------------------------------------------
(* The story and its polls *)

LEMMA MoveKeeps ==
  ASSUME PageInv, NEW p \in Profiles, StoryMoves(p)
  PROVE  PageInv'
<1>1. /\ TypeOK /\ UNCHANGED <<page, view, send, poll, failures>>
      /\ moves' = moves + 1 /\ moves' \in 0 .. MaxMoves
  BY TypeFacts DEF PageInv, StoryMoves, TypeOK
<1>2. cursor' \in [Profiles -> Cursors]
  BY <1>1 DEF StoryMoves, TypeOK
<1>3. TypeOK'
  BY <1>1, <1>2 DEF TypeOK
<1>4. ViewMatches' /\ ShowsWhatIsSelected' /\ AskedBefore'
  BY <1>1 DEF PageInv, ViewMatches, ShowsWhatIsSelected, AskedBefore, Opening
<1>5. LoadsCounted'
  BY <1>1, TypeFacts DEF PageInv, LoadsCounted
<1>6. Locks'
  <2>1. Listening' = Listening /\ Opening' = Opening
    BY <1>1 DEF Listening, Current, Opening
  <2>2. QED
    BY <1>1, <2>1 DEF PageInv, Locks
<1>7. QED
  BY <1>3, <1>4, <1>5, <1>6 DEF PageInv

\* A poll begins, or ends without a change.
LEMMA PollKeeps ==
  ASSUME PageInv, NEW i \in Polls, NEW value \in {0} \cup Generations,
         poll' = [poll EXCEPT ![i] = value],
         value # 0 => value = page.generation /\ page.story # None,
         UNCHANGED <<page, view, send, cursor, moves>>,
         failures' \in 0 .. MaxFailures, UNCHANGED failures \/ failures' # 0
  PROVE  PageInv'
<1>1. TypeOK
  BY DEF PageInv
<1>2. /\ poll' \in [Polls -> {0} \cup Generations]
      /\ \A j \in Polls : poll'[j] \in {poll[j], value}
  BY <1>1 DEF TypeOK
<1>3. TypeOK'
  BY <1>1, <1>2 DEF TypeOK
<1>4. ViewMatches' /\ ShowsWhatIsSelected' /\ LoadsCounted'
  BY DEF PageInv, ViewMatches, ShowsWhatIsSelected, LoadsCounted, Behind, Opening
<1>5. AskedBefore'
  BY <1>1, <1>2, TypeFacts DEF PageInv, AskedBefore
<1>6. Locks'
  <2>1. Listening' = Listening /\ Opening' = Opening
    BY DEF Listening, Current, Opening
  <2>2. QED
    BY <2>1 DEF PageInv, Locks
<1>7. QED
  BY <1>3, <1>4, <1>5, <1>6 DEF PageInv

LEMMA PollFiresKeeps ==
  ASSUME PageInv, NEW i \in Polls, PollFires(i)
  PROVE  PageInv'
<1>1. page.generation \in Generations /\ failures \in 0 .. MaxFailures
  BY TypeFacts DEF PageInv, TypeOK
<1>2. QED
  BY <1>1, PollKeeps DEF PollFires

LEMMA PollArrivesKeeps ==
  ASSUME PageInv, NEW i \in Polls, PollArrives(i)
  PROVE  PageInv'
<1>1. /\ TypeOK /\ poll[i] # 0 /\ poll' = [poll EXCEPT ![i] = 0]
      /\ UNCHANGED <<send, cursor, moves>>
  BY DEF PageInv, PollArrives
<1>2. CASE /\ Current(poll[i])
           /\ cursor[page.profile] # page.story
           /\ LoadProfile(page.profile, FALSE)
           /\ Answered
  <2>1. Behind
    BY <1>2 DEF Behind, Current, PageInv, AskedBefore
  <2>2. page.generation < MaxViews + moves
    BY <2>1 DEF PageInv, LoadsCounted
  <2>3. /\ poll' \in [Polls -> {0} \cup Generations]
        /\ \A j \in Polls : poll'[j] \in {poll[j], 0}
    BY <1>1 DEF TypeOK
  <2>4. page.profile \in Profiles
    BY <1>1, TypeFacts DEF PageType
  <2>5. QED
    BY <1>1, <1>2, <2>2, <2>3, <2>4, LoadKeeps DEF Answered
<1>3. CASE /\ \/ ~Current(poll[i]) /\ Answered
              \/ cursor[page.profile] = page.story /\ Answered
              \/ Fails
           /\ UNCHANGED <<page, view>>
  <2>1. failures' \in 0 .. MaxFailures /\ (UNCHANGED failures \/ failures' # 0)
    BY <1>1, <1>3, TypeFacts DEF Fails, TypeOK, Answered
  <2>2. QED
    BY <1>1, <1>3, <2>1, PollKeeps
<1>4. QED
  BY <1>2, <1>3, Zenon DEF PollArrives
-----------------------------------------------------------------------------
LEMMA NextPageInv == PageInv /\ [Next]_vars => PageInv'
<1> SUFFICES ASSUME PageInv, [Next]_vars PROVE PageInv'
  OBVIOUS
<1>1. ASSUME NEW p \in Profiles, PickProfile(p) \/ StoryMoves(p) PROVE PageInv'
  BY <1>1, PickProfileKeeps, MoveKeeps
<1>2. ASSUME NEW a \in Agents, PickAgent(a) PROVE PageInv'
  BY <1>2, PickAgentKeeps
<1>3. CASE OpenDialog \/ CancelDialog \/ ConfirmDialog
  BY <1>3, DialogKeeps, ConfirmKeeps
<1>4. ASSUME NEW g \in Generations, StateArrives(g) \/ PostArrives(g) \/ HistoryArrives(g)
      PROVE  PageInv'
  BY <1>4, StateKeeps, PostKeeps, HistoryKeeps
<1>5. ASSUME NEW m \in Messages, Submit(m) \/ DoneArrives(m) \/ SendEnds(m) PROVE PageInv'
  BY <1>5, SubmitKeeps, MessageKeeps
<1>6. ASSUME NEW i \in Polls, PollFires(i) \/ PollArrives(i) PROVE PageInv'
  BY <1>6, PollFiresKeeps, PollArrivesKeeps
<1>7. CASE UNCHANGED vars
  <2>1. Listening' = Listening /\ Opening' = Opening
    BY <1>7 DEF vars, Listening, Current, Opening
  <2>2. QED
    BY <1>7, <2>1
    DEF vars, PageInv, TypeOK, ViewMatches, ShowsWhatIsSelected, AskedBefore, LoadsCounted,
        Behind, Locks
<1>8. QED
  BY <1>1, <1>2, <1>3, <1>4, <1>5, <1>6, <1>7 DEF Next

LEMMA SpecPageInv == Spec => []PageInv
BY InitPageInv, NextPageInv, PTL DEF Spec
-----------------------------------------------------------------------------
(* Theorems *)

\* The page and its requests keep their shape; the numbers of the views stay
\* within the views the participant opens and one for each move of the story.
THEOREM TypeCorrect == Spec => []TypeOK
<1>1. PageInv => TypeOK
  BY DEF PageInv
<1>2. QED
  BY <1>1, SpecPageInv, PTL

\* While an agent is selected, the log shows that agent of that profile and
\* nothing else, in whatever order answers arrive (loadAgent's two checks).
THEOREM ShowsWhatIsSelectedHolds == Spec => []ShowsWhatIsSelected
<1>1. PageInv => ShowsWhatIsSelected
  BY DEF PageInv
<1>2. QED
  BY <1>1, SpecPageInv, PTL

\* As long as no request failed, the controls are locked exactly while the
\* present view is opening or has its one message under way (viewLoading).
THEOREM LockedWhileBusyHolds == Spec => []LockedWhileBusy
<1>1. PageInv => LockedWhileBusy
  <2>1. SUFFICES ASSUME PageInv, failures = 0
                 PROVE  /\ page.loading <=> Opening \/ Listening # {}
                        /\ Cardinality(Listening) <= 1
    BY DEF LockedWhileBusy
  <2>2. /\ page.loading <=> Opening \/ Listening # {}
        /\ \A m, n \in Listening : m = n
    BY <2>1 DEF PageInv, Locks
  <2>3. Cardinality(Listening) <= 1
    <3>1. CASE Listening = {}
      BY <3>1, FS_EmptySet
    <3>2. CASE Listening # {}
      <4>1. PICK m : Listening = {m}
        BY <2>2, <3>2
      <4>2. QED
        BY <4>1, FS_Singleton
    <3>3. QED
      BY <3>1, <3>2
  <2>4. QED
    BY <2>2, <2>3
<1>2. QED
  BY <1>1, SpecPageInv, PTL
=============================================================================
