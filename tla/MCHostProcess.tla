------------------------------ MODULE MCHostProcess ------------------------------
(* Model checking instance of HostProcess. *)
EXTENDS HostProcess

CONSTANTS sonnet, retired, k1, k2, master, guest, friend, n1, n2

TwoModels == {sonnet, retired}
InCatalog == {sonnet}
TwoKeys == {k1, k2}
ThreeProfiles == {master, guest, friend}
TwoNames == {n1, n2}
=============================================================================
