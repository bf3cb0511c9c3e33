---------------------------- MODULE MCSelfConcept ----------------------------
(* Model checking instance of SelfConcept. *)
EXTENDS SelfConcept, TLC

CONSTANTS left, right, a1, a2, b1

TwoProcesses == {left, right}
OnlyLeft == {left}
ThreeAttempts == {a1, a2, b1}
Owner == (a1 :> left) @@ (a2 :> left) @@ (b1 :> right)
=============================================================================
