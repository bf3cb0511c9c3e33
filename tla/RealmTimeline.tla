---------------------------- MODULE RealmTimeline ----------------------------
(***************************************************************************)
(* What story progress promises to one profile (CONTEXT.md, "Story         *)
(* rollback"): a life is one line.  It grows only at the present story     *)
(* position, moving forward keeps all of it, and moving back to a position *)
(* keeps exactly what had happened up to that position, however many       *)
(* moves, pending replies and restarts lie between.                        *)
(***************************************************************************)
EXTENDS Naturals

CONSTANTS
  Cursors,   \* story positions, a set of naturals
  Entry      \* everything that can happen; an entry's .at is its position

VARIABLES
  position,  \* where the profile's story stands
  life       \* the set of entries that are part of the profile's state

vars == <<position, life>>

Upto(c) == {e \in life : e.at <= c}

Init == position = 0 /\ life = {}

Live ==
  /\ \E e \in Entry : e.at = position /\ life' = life \cup {e}
  /\ UNCHANGED position

Advance ==
  /\ \E c \in Cursors : c > position /\ position' = c
  /\ UNCHANGED life

Rewind ==
  \E c \in Cursors :
    /\ c < position
    /\ position' = c
    /\ life' = Upto(c)

Next == Live \/ Advance \/ Rewind

Spec == Init /\ [][Next]_vars
=============================================================================
