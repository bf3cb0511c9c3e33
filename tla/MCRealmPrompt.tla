----------------------------- MODULE MCRealmPrompt -----------------------------
(* Model checking instance of RealmPrompt. *)
EXTENDS RealmPrompt

CONSTANTS c1, n1, p1, p2, t1, l1, s1, s2

Line(own, private) == [own |-> own, private |-> private]
Scene(order, available, lines) == [order |-> order, available |-> available, lines |-> lines]

Hers == Line(TRUE, FALSE)
Theirs == Line(FALSE, FALSE)
TheirThought == Line(FALSE, TRUE)
HerThought == Line(TRUE, TRUE)

\* She comes in late; her thought is her own.
Staged ==
  <<Scene(0, TRUE, <<Theirs, Hers, TheirThought, Theirs>>), Scene(1, TRUE, <<HerThought>>)>>

\* The source page of the second scene was missing.
Incomplete == <<Scene(0, TRUE, <<Hers>>), Scene(1, FALSE, <<Hers>>)>>

ThreeCatalogs == {<<>>, Staged, Incomplete}
OneChat == {c1}
OneNote == {n1}
NoNotes == {}
OnePlot == {p1}
TwoPlots == {p1, p2}
OneStep == {t1}
OneLegacy == {l1}
TwoSummaries == {s1, s2}
OneSummary == {s1}
=============================================================================
