------------------------- MODULE MCRealmConversation -------------------------
(* Model checking instance of RealmConversation. *)
EXTENDS RealmConversation, TLC

CONSTANTS c1, c2, r1, r2

TwoChats == {c1, c2}
Strays == {c2}
TwoRounds == {r1, r2}
Nights == {}
Symmetry == Permutations(TwoRounds)
=============================================================================
