---------------------------- MODULE PowerContract ----------------------------
(***************************************************************************)
(* What two ports promise each other about power: the load draws an        *)
(* operating point only while the supply stands at it, and the supply      *)
(* moves to another one only while nobody draws.  Whatever breaks the      *)
(* contract - a reset, the plug pulled - turns the supply off first.       *)
(***************************************************************************)
CONSTANTS
  Terms,    \* the operating points
  None      \* nothing drawn beyond what any port may draw

VARIABLES
  supply,   \* what the source provides: an operating point, "safe5v",
            \* "off", or on its way from one to the other
  load      \* what the sink may draw

Supply == Terms \cup {"safe5v", "off", "changing"}

Init == supply = "off" /\ load = None

\* The supply leaves what it provides only while nobody draws it.
Program == load = None /\ supply' \in Supply /\ load' = None

Draw ==
  /\ load = None /\ supply \in Terms
  /\ load' = supply /\ UNCHANGED supply

Release == load # None /\ load' = None /\ UNCHANGED supply

\* The contract ends with the supply off or falling.
Break ==
  /\ load # None /\ supply' \in {"off", "changing"}
  /\ load' \in {load, None}

Next == Program \/ Draw \/ Release \/ Break

Spec == Init /\ [][Next]_<<supply, load>>
=============================================================================
