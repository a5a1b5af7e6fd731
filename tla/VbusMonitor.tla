---------------------------- MODULE VbusMonitor ----------------------------
(***************************************************************************)
(* The sampling half of the Zephyr VBUS adapter, zephyr/src/Vbus.cpp: the  *)
(* connection machine arms one level, a delayable work item samples it and *)
(* reports through the callback.                                           *)
(*                                                                         *)
(* Everything runs on the stack's one work queue, so a sampling and the    *)
(* arming that its report causes are one step.  A report may take the      *)
(* machine through several states, each of which arms its level: those of  *)
(* `via`, and in the end `to`.                                             *)
(* VBUS, the driver's thresholds and the kernel's work item are external.  *)
(***************************************************************************)
EXTENDS Integers

VARIABLES
  volts,      \* the zone VBUS lies in
  monitored,  \* monitored_
  met,        \* met_
  owed,       \* report_pending_
  item,       \* the delayable work item: on the queue, its delay running
  told        \* history: the last report since the level was armed

samplingVars == <<volts, monitored, met, owed, item, told>>

-----------------------------------------------------------------------------
\* below vSafe0V, below vSinkDisconnect, below vSafe5V, at it
Zones == {"safe0v", "low", "sagging", "safe5v"}
Levels == {"safe0v", "safe5v", "sink_disconnect", "sink_disconnect_pd", "unwatched"}

\* toZephyr() and the driver's check_level()
Meets(level, v) ==
  CASE level = "safe0v" -> v = "safe0v"
    [] level = "safe5v" -> v = "safe5v"
    [] OTHER            -> v \in {"safe0v", "low"}

\* k_work_delayable.  A running item that is cancelled takes no submission
\* until it ends; a delay may be started for it all the same.
Work == [queued : BOOLEAN, delayed : BOOLEAN, canceling : BOOLEAN]
Idle == [queued |-> FALSE, delayed |-> FALSE, canceling |-> FALSE]
Begun(w) == [w EXCEPT !.queued = FALSE]
Cancel(w, running) == [Idle EXCEPT !.canceling = running]
ScheduleNow(w) == [w EXCEPT !.delayed = FALSE, !.queued = @ \/ ~w.canceling]
ScheduleDelayed(w) == [w EXCEPT !.delayed = TRUE]
Ended(w) == [w EXCEPT !.canceling = FALSE]

\* what the stack's calls change, as one value
Sampling == [level |-> monitored, owed |-> owed, item |-> item]
\* notifyEntry(vbus_level), from within the item's own report or not
Armed(s, level, running) ==
  IF level = "unwatched"
  THEN [s EXCEPT !.level = level, !.item = Cancel(@, running)]
  ELSE [level |-> level, owed |-> TRUE, item |-> ScheduleNow(s.item)]
\* One after the other, from within a report: whatever the order, `unwatched`
\* on the way has cancelled the item until it ends, and a level watched on the
\* way leaves its report owed.
Along(s, via, to) ==
  LET passed == IF "unwatched" \in via THEN Armed(s, "unwatched", TRUE) ELSE s IN
  Armed([passed EXCEPT !.owed = @ \/ via \ {"unwatched"} # {}], to, TRUE)

-----------------------------------------------------------------------------
SamplingInit ==
  /\ volts \in Zones /\ monitored = "unwatched"
  /\ met = FALSE /\ owed = FALSE /\ item = Idle /\ told = "none"

VbusChanges == /\ volts' \in Zones \ {volts}
               /\ UNCHANGED <<monitored, met, owed, item, told>>

Becomes(s) == monitored' = s.level /\ owed' = s.owed /\ item' = s.item

\* A transition of another cause: a timer, the CC line, the PD layer.
Arm(level) ==
  /\ level # monitored
  /\ Becomes(Armed(Sampling, level, FALSE))
  /\ told' = "none"
  /\ UNCHANGED <<volts, met>>

\* The delay runs out.
Elapses == /\ item.delayed
           /\ item' = ScheduleNow(item)
           /\ UNCHANGED <<volts, monitored, met, owed, told>>

News == owed \/ Meets(monitored, volts) # met

\* poll(), with a report that takes the machine nowhere, or along some levels
Sampled == item.queued /\ News /\ met' = Meets(monitored, volts) /\ UNCHANGED volts
Reporting == [Sampling EXCEPT !.owed = FALSE, !.item = Begun(@)]
Again(s) == Becomes([s EXCEPT !.item = Ended(ScheduleDelayed(@))])

Report == /\ Sampled
          /\ Again(Reporting)
          /\ told' = IF met' THEN "met" ELSE "unmet"

ReportLeads(via, to) == /\ Sampled
                        /\ Again(Along(Reporting, via, to))
                        /\ told' = "none"

\* mutant of Quiet: sampling ends with the first sample that is no news
QuietForGood == /\ item.queued /\ ~News
                /\ item' = Begun(item)
                /\ UNCHANGED <<volts, monitored, met, owed, told>>
Quiet == /\ item.queued /\ ~News
         /\ item' = ScheduleDelayed(Begun(item))
         /\ UNCHANGED <<volts, monitored, met, owed, told>>

\* Assumption: one report brings the machine to no level twice.
Poll == \/ Quiet \/ Report
        \/ \E to \in Levels \ {monitored} : \E via \in SUBSET (Levels \ {monitored, to}) :
             ReportLeads(via, to)

SamplingNext ==
  \/ VbusChanges \/ Elapses \/ Poll
  \/ \E level \in Levels : Arm(level)

SamplingSpec == SamplingInit /\ [][SamplingNext]_samplingVars

\* The kernel's clock runs, and the work queue's thread.
SamplingFairness == WF_samplingVars(Elapses) /\ WF_samplingVars(Poll)

-----------------------------------------------------------------------------
SamplingTypeOK ==
  /\ volts \in Zones /\ monitored \in Levels
  /\ met \in BOOLEAN /\ owed \in BOOLEAN /\ item \in Work
  /\ told \in {"none", "met", "unmet"}

\* A level that stays watched while VBUS stays where it is is told truly.
Steady == <>[][monitored' = monitored /\ volts' = volts]_samplingVars
SteadyIsTold ==
  Steady /\ <>[](monitored # "unwatched")
    => <>[](told = IF Meets(monitored, volts) THEN "met" ELSE "unmet")
=============================================================================
