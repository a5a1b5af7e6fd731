---------------------------- MODULE MCTypeCLink ----------------------------
(* TypeCLink for TLC: which tables the two ports run, and their toggles.    *)
EXTENDS TypeCLink

PerPort(a, b) == [p \in Port |-> IF p = A THEN a ELSE b]

TrySrcDrp == PerPort("drp_source", "drp_none")
TrySrcTrySnk == PerPort("drp_source", "drp_sink")

Slices22 == PerPort(2, 2)
Slices23 == PerPort(2, 3)
Slices33 == PerPort(3, 3)
=============================================================================
