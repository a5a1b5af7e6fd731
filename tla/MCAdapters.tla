----------------------------- MODULE MCAdapters -----------------------------
(***************************************************************************)
(* The Zephyr adapters side by side for TLC.  They share no state, so one  *)
(* of them moves in a behaviour, chosen at its start, and the others stay  *)
(* in their initial states, in which nothing they owe fairness is enabled. *)
(***************************************************************************)
EXTENDS Tcpc, VbusMonitor, PowerPath

VARIABLE adapter  \* the one that moves

vars == <<alertVars, samplingVars, switchVars, adapter>>

Init == /\ AlertsInit /\ SamplingInit /\ PathInit
        /\ adapter \in {"alerts", "sampling", "switching"}
        /\ adapter # "alerts" => line = "open"
        /\ adapter # "sampling" => volts = "safe0v"

AlertsStep == /\ adapter = "alerts" /\ AlertsNext
              /\ UNCHANGED <<samplingVars, switchVars, adapter>>
SamplingStep == /\ adapter = "sampling" /\ SamplingNext
                /\ UNCHANGED <<alertVars, switchVars, adapter>>
SwitchingStep == /\ adapter = "switching" /\ PathNext
                 /\ UNCHANGED <<alertVars, samplingVars, adapter>>

Next == AlertsStep \/ SamplingStep \/ SwitchingStep

Spec == Init /\ [][Next]_vars
FairSpec == Spec /\ AlertsFairness /\ SamplingFairness /\ PathFairness

\* The state of each adapter has its type: a reading is never of a level that
\* was not asked for, no more outcomes are delivered than transmissions were
\* begun, and the VCONN switch is on one pin.
AdaptersTypeOK == AlertsTypeOK /\ SamplingTypeOK /\ PathTypeOK
=============================================================================
