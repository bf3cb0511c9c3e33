----------------------------- MODULE MCRealmTick -----------------------------
(* Model checking instance of RealmTick. *)
EXTENDS RealmTick

CONSTANTS r1, r2

TwoRounds == {r1, r2}
=============================================================================
