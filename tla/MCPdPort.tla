------------------------------ MODULE MCPdPort ------------------------------
EXTENDS PdPortAlone
CONSTANT t5
OneTerm == {t5}
PowerAndCable == {"pr_swap", "vconn"}
=============================================================================
