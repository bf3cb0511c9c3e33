------------------------------- MODULE MCChatPage -------------------------------
(* Model checking instance of ChatPage. *)
EXTENDS ChatPage

CONSTANTS p1, p2, a1, a2, m1, m2, i1, i2

TwoProfiles == {p1, p2}
TwoAgents == {a1, a2}
TwoMessages == {m1, m2}
TwoPolls == {i1, i2}
TwoCursors == 0 .. 1
=============================================================================
