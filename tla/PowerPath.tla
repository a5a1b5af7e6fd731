----------------------------- MODULE PowerPath -----------------------------
(***************************************************************************)
(* The switching half of the Zephyr VBUS adapter, zephyr/src/Vbus.cpp, on  *)
(* top of the power path controller of Tcpp03.  The connection machine     *)
(* annotates a switch position; the adapter puts it into three or four     *)
(* calls of the driver, the paths it does not want first.  The VCONN       *)
(* switch sits in the same register, and its machine runs on the same      *)
(* work queue: it calls between two positions, not within one.             *)
(***************************************************************************)
EXTENDS Tcpp03

VARIABLES
  position,   \* the vbus_power annotated last
  next,       \* the call of notifyEntry(vbus_power) that comes next
  recovered   \* history: a recovery word has gone out since `position`

pathVars == <<position, next, recovered>>
switchVars == <<device, handling, pathVars>>

-----------------------------------------------------------------------------
Positions == {"open", "sink", "safe5v", "safe0v"}
\* the path a position closes
Wanted(at) == CASE at = "sink"   -> {"sink"}
                [] at = "safe5v" -> {"source"}
                [] at = "safe0v" -> {"discharge"}
                [] at = "open"   -> {}

\* how the positions of the connection tables follow each other
Follow(at) == CASE at = "open" -> Positions \ {"open"}
                [] at = "sink" -> {"open"}
                [] OTHER       -> {"open", "safe5v", "safe0v"} \ {at}

Calls == {"discharge", "source", "sink", "close", "none"}
\* mutant of After: the sink path is skipped
AfterSkipping(call) == CASE call = "discharge" -> "source"
                         [] call = "source"    -> "close"
                         [] call = "sink"      -> "close"
                         [] call = "close"     -> "none"
After(call) == CASE call = "discharge" -> "source"
                 [] call = "source"    -> "sink"
                 [] call = "sink"      -> "close"
                 [] call = "close"     -> "none"

-----------------------------------------------------------------------------
\* notifyEntry(vbus_power): a position that stays is not annotated again
Annotate ==
  /\ next = "none"
  /\ position' \in Follow(position) /\ next' = "discharge"
  /\ recovered' = FALSE
  /\ UNCHANGED <<device, handling>>

\* mutant of SwitchOff: the path that is wanted goes off
SwitchOffWanted ==
  /\ next \in Paths
  /\ IF next \in Wanted(position) THEN SetPath(next, FALSE) ELSE UNCHANGED <<device, handling>>
  /\ next' = After(next)
  /\ UNCHANGED <<position, recovered>>
\* a path that is not wanted goes off; what the call returns is not looked at
SwitchOff ==
  /\ next \in Paths
  /\ IF next \in Wanted(position) THEN UNCHANGED <<device, handling>> ELSE SetPath(next, FALSE)
  /\ next' = After(next)
  /\ UNCHANGED <<position, recovered>>

\* the wanted path closes
Close ==
  /\ next = "close" /\ next' = "none"
  /\ IF position = "open" THEN UNCHANGED <<device, handling>>
     ELSE \E path \in Wanted(position) : SetPath(path, TRUE)
  /\ UNCHANGED <<position, recovered>>

SwitchVconn ==
  /\ next = "none"
  /\ \/ \E pin \in Pins \ {control.vconn} : SetVconn(pin)
     \/ SetVconnDischarge(~control.vconn_discharge)
  /\ UNCHANGED pathVars

\* the handler is about to write the recovery word
Recovering == \/ handler = "vbus" /\ "OCP_VBUS" \in seen
              \/ handler = "vconn" /\ "OCP_VCONN" \in seen

HandlerStep ==
  /\ Handler
  /\ recovered' = IF Recovering THEN TRUE ELSE recovered
  /\ UNCHANGED <<position, next>>

DeviceStep == Device /\ UNCHANGED pathVars

PathInit == DriverInit /\ position = "open" /\ next = "none" /\ recovered = FALSE
PathNext == Annotate \/ SwitchOff \/ Close \/ SwitchVconn \/ HandlerStep \/ DeviceStep

PathSpec == PathInit /\ [][PathNext]_switchVars
\* The system work queue runs what is on it.
PathFairness == WF_switchVars(HandlerStep)

-----------------------------------------------------------------------------
PathTypeOK ==
  /\ DriverTypeOK
  /\ position \in Positions /\ next \in Calls /\ recovered \in BOOLEAN

\* Never two paths at once, on the way from one position to another included
\* and whatever the fault handler writes in between.
AtMostOnePath == \A p, q \in control.closed : p = q
OnePathUnlessFailed == failures = 0 => AtMostOnePath

\* Once a position is applied the switches are as it wants them, or an
\* overcurrent since has left them all open: the copy of the register the
\* handler builds on never brings a path of an older position back.
InPosition ==
  failures = 0 /\ next = "none"
    => \/ control.closed = Wanted(position)
       \/ recovered /\ control.closed = {}

\* One failed transfer, wherever it strikes, does not let the port drive VBUS
\* and draw from it: the tables pass an open position between the two, which
\* tries the departing path once more.
NeverSourceIntoSink == failures <= 1 => ~({"source", "sink"} \subseteq control.closed)

\* What an overcurrent opened is released again, if no transfer fails and
\* nothing else may hold the flag line.
Recovers ==
  [](flags \subseteq Overcurrents) => (tripped ~> ~tripped \/ failures > 0)
=============================================================================
