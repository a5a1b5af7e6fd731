---------------------------- MODULE MCPdContract ----------------------------
EXTENDS PdContract
CONSTANTS a, b, t5, t9
OneTerm == {t5}
TwoTerms == {t5, t9}
PowerAndData == {"pr_swap", "dr_swap"}
AllFeatures == {"pr_swap", "dr_swap", "vconn"}
NothingWrong == {}
AnyFault == {"preempted", "failed", "missed", "early", "unplugged"}
TwoWishes == {0} \X (0..2)
OneAndOne == (0..1) \X (0..1)
FaultsOrSwaps == {0} \X (0..4) \cup (0..2) \X (0..1)
OnlyA == {a}
Both == {a, b}
=============================================================================
