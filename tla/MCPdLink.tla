------------------------------ MODULE MCPdLink ------------------------------
(* PdLink for TLC: where the revisions start, what each client does.       *)
EXTENDS PdLink

BothRev3 == [p \in Port |-> 3]
OneRev2 == [p \in Port |-> IF p = A THEN 3 ELSE 2]

PerPort(a, b) == [p \in Port |-> IF p = A THEN a ELSE b]

Send11 == PerPort(1, 1)
Send20 == PerPort(2, 0)
Send21 == PerPort(2, 1)
Send31 == PerPort(3, 1)

SoftDetach == {"soft_reset", "detach"}

None == PerPort({}, {})
SoftHardB == PerPort({}, {"soft_reset", "hard_reset"})
SoftDetachBoth == PerPort(SoftDetach, SoftDetach)
=============================================================================
