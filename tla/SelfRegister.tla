----------------------------- MODULE SelfRegister -----------------------------
(***************************************************************************)
(* What the self-concept of an agent promises to whoever replaces it or    *)
(* reads it: one register with a log, although processes race for it and   *)
(* die between their statements.  An accepted reflection replaces the row  *)
(* that is there by the next revision and enters the log in the same step, *)
(* once.  A story move saves the row or puts a saved one back; the log     *)
(* never forgets, so that it becomes a tree of revisions.                  *)
(***************************************************************************)
EXTENDS Naturals, Sequences

CONSTANT Attempts  \* the reflections that propose a new row

VARIABLES
  row,    \* the row of the agent: its revision and its author
  saved,  \* the rows of the story checkpoints
  log     \* the rows that were accepted

vars == <<row, saved, log>>

NoRow == [revision |-> 0, by |-> "nobody"]

Init == row = NoRow /\ saved = <<>> /\ log = {}

Accept ==
  /\ \E a \in Attempts :
       /\ \A entry \in log : entry.by # a
       /\ row' = [revision |-> row.revision + 1, by |-> a]
  /\ log' = log \cup {row'}
  /\ UNCHANGED saved

Save ==
  /\ saved' = Append(saved, row)
  /\ UNCHANGED <<row, log>>

Rewind ==
  /\ \E k \in DOMAIN saved, drop \in {0, 1} :
       row' = saved[k] /\ saved' = SubSeq(saved, 1, k - drop)
  /\ UNCHANGED log

Next == Accept \/ Save \/ Rewind

Spec == Init /\ [][Next]_vars
-----------------------------------------------------------------------------
\* Every row that is there, was saved or was accepted goes back to the first one
\* through rows that were accepted, one revision at a time.
Connected ==
  /\ \A r \in {row} \cup {saved[i] : i \in DOMAIN saved} : r = NoRow \/ r \in log
  /\ \A r \in log : r.revision = 1 \/ \E q \in log : q.revision + 1 = r.revision
=============================================================================
