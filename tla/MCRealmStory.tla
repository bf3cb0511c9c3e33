---------------------------- MODULE MCRealmStory ----------------------------
(* Model checking instance of RealmStory. *)
EXTENDS RealmStory, TLC

CONSTANTS c1, r1

ChatActors == {c1}
RoundActors == {r1}
=============================================================================
