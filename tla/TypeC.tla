------------------------------- MODULE TypeC -------------------------------
(***************************************************************************)
(* The USB Type-C connection layer: the CC watcher and the front end of    *)
(* include/usbc/layer/TypeC.hpp around the transition tables of            *)
(* include/usbc/state/TypeCSink.hpp, TypeCSource.hpp and TypeCDrp.hpp.     *)
(*                                                                         *)
(* Each port runs one table.  The drivers, VBUS and the PD layer are open  *)
(* here: they may report any line the port's own pull lets it see, and     *)
(* direct anything at any time.  TypeCLink closes them with a cable.       *)
(*                                                                         *)
(* A port handles one event to its end before it takes the next driver     *)
(* call or timer (fsm::QueuedMachine); what the watcher detects while a    *)
(* transition runs is queued behind it: `due`.                             *)
(***************************************************************************)
EXTENDS Integers, FiniteSets

CONSTANTS
  Port,             \* the ports
  Table,            \* [Port -> Tables]: the transition table a port runs
  SrcSlice,         \* [Port -> ticks]: the Rp part of a DRP's toggle period
  SnkSlice,         \* [Port -> ticks]: the Rd part
  tPDDebounce,      \* also tTryCCDebounce and tSRCDisconnect: 15 ms all three
  tCCDebounce,
  tDRPTry,
  tTryRest,         \* tTryTimeout - tDRPTry
  tErrorRecovery,
  tHardResetWindow,
  tPSSourceOff,
  tPSSourceOn

Tables == {"sink", "source", "drp_none", "drp_source", "drp_sink"}
Ticks == Nat \ {0}

ASSUME TableAssumption == Table \in [Port -> Tables]
ASSUME SliceAssumption == SrcSlice \in [Port -> Ticks] /\ SnkSlice \in [Port -> Ticks]
ASSUME TimeAssumption ==
  {tPDDebounce, tCCDebounce, tDRPTry, tTryRest, tErrorRecovery,
   tHardResetWindow, tPSSourceOff, tPSSourceOn} \subseteq Ticks

VARIABLES
  state,       \* the connection machine's state
  attachment,  \* its context: what the connection rests on
  timer,       \* ticks to the state's timeout, or Off
  watcher,     \* the CcWatcher: last report, running debounce, queued detection
  told,        \* the VBUS driver's report_pending_ and met_
  vbus,        \* the voltage at the port's receptacle
  allowed      \* the role lock's answer: may the port act as a source

vars == <<state, attachment, timer, watcher, told, vbus, allowed>>

-----------------------------------------------------------------------------
(* What the states are annotated with.                                      *)

IsDrp(p) == Table[p] \in {"drp_none", "drp_source", "drp_sink"}

RpStates == {"unattached_src", "attach_wait_src", "attach_wait_src_rd_detected",
             "attached_src", "unattached_wait_src", "try_src",
             "try_src_until_safe0v", "try_src_timed_out", "try_wait_src",
             "try_wait_src_rd_detected", "try_wait_src_timed_out"}
OpenStates == {"disabled", "error_recovery"}
RdStates == {"unattached_snk", "attach_wait_snk", "attach_wait_snk_rp_detected",
             "attached_snk", "hard_reset_snk", "hard_reset_recover_snk",
             "removing_vbus", "try_wait_snk", "try_wait_snk_debounced",
             "try_snk_wait", "try_snk", "try_snk_rp_detected",
             "swap_standby_to_src", "swap_standby_to_snk"}
State == RpStates \cup RdStates \cup OpenStates

Pull(s) == IF s \in RpStates THEN "rp" ELSE IF s \in RdStates THEN "rd" ELSE "open"

\* vbus_power: the switch position
Sourcing == {"attached_src"}
Discharging == {"attach_wait_src", "attach_wait_src_rd_detected",
                "unattached_wait_src", "removing_vbus"}
\* mutant of Path: the departing source's path stays closed in the standby
PathThroughStandby(s) ==
  CASE s \in Sourcing \cup {"swap_standby_to_snk"} -> "safe5v"
    [] s \in Discharging -> "safe0v"
    [] s = "attached_snk" -> "sink"
    [] OTHER -> "open"
Path(s) == CASE s \in Sourcing -> "safe5v"
             [] s \in Discharging -> "safe0v"
             [] s = "attached_snk" -> "sink"
             [] OTHER -> "open"

\* vbus_level: what the VBUS driver watches for
Level(s) ==
  CASE s \in {"attach_wait_snk_rp_detected", "hard_reset_recover_snk", "try_wait_snk",
              "try_wait_snk_debounced", "try_snk_rp_detected"} -> "safe5v"
    [] s \in {"attached_snk", "hard_reset_snk"} -> "sink_disconnect"
    [] s \in {"attach_wait_src_rd_detected", "unattached_wait_src", "removing_vbus",
              "try_src_until_safe0v", "try_wait_src", "try_wait_src_rd_detected"} -> "safe0v"
    [] OTHER -> "unwatched"

\* cc_debounce: how long a termination, and the open line, have to hold
Debounce(termination, open) == [termination |-> termination, open |-> open]
NoRule == Debounce(0, -1)
Rule(s) ==
  CASE s \in {"unattached_snk", "unattached_src"} -> Debounce(0, 0)
    [] s \in {"attach_wait_snk", "attach_wait_snk_rp_detected"} -> Debounce(tCCDebounce, tPDDebounce)
    [] s \in {"attach_wait_src", "attach_wait_src_rd_detected"} -> Debounce(tCCDebounce, 0)
    [] s \in {"attached_src", "try_wait_snk", "try_wait_snk_debounced"} -> Debounce(0, tPDDebounce)
    [] s \in {"try_src", "try_src_until_safe0v", "try_src_timed_out", "try_wait_src",
              "try_wait_src_rd_detected", "try_wait_src_timed_out"} -> Debounce(tPDDebounce, 0)
    [] s \in {"try_snk", "try_snk_rp_detected"} -> Debounce(tPDDebounce, tPDDebounce)
    [] OTHER -> NoRule

Off == -1
\* how long a connection is held on the PD layer's word
\* mutant of HoldTime: no safety net
HeldForever(s) == Off
HoldTime(s) ==
  CASE s \in {"hard_reset_snk", "hard_reset_recover_snk"} -> tHardResetWindow
    [] s = "swap_standby_to_src" -> tPSSourceOff
    [] s = "swap_standby_to_snk" -> tPSSourceOn
    [] OTHER -> Off
Duration(p, s) ==
  CASE s = "unattached_snk" /\ IsDrp(p) -> SnkSlice[p]
    [] s = "unattached_src" /\ IsDrp(p) -> SrcSlice[p]
    [] s \in {"try_src", "try_snk_wait", "try_wait_src"} -> tDRPTry
    [] s = "try_src_until_safe0v" -> tTryRest
    [] s = "try_wait_snk" -> tCCDebounce
    [] s = "error_recovery" -> tErrorRecovery
    [] OTHER -> HoldTime(s)

\* pd_connection: the states that hold a connection
Attached == {"attached_snk", "attached_src"}
Standby == {"swap_standby_to_src", "swap_standby_to_snk"}
Connected == Attached \cup Standby \cup {"hard_reset_snk", "hard_reset_recover_snk"}

-----------------------------------------------------------------------------
(* A CC status: the termination the partner shows and the pins it is on.    *)
(* Both pins stand for an accessory, Ra on both included; a lone Ra is a    *)
(* cable without a device and counts as open.                               *)

Pin == {"cc1", "cc2"}
Status == {[sees |-> "open", pins |-> {}]}
            \cup [sees : {"rp", "rd"}, pins : (SUBSET Pin) \ {{}}]
OpenLine == [sees |-> "open", pins |-> {}]

SourcePresent(cc) == cc.sees = "rp"
SinkPresent(cc) == cc.sees = "rd"
SingleRp(cc) == cc.sees = "rp" /\ cc.pins # Pin
SingleRd(cc) == cc.sees = "rd" /\ cc.pins # Pin
OrientationOf(cc) == IF "cc1" \in cc.pins THEN "cc1" ELSE "cc2"

\* a pulled line shows the other termination or none
Visible(s) == {cc \in Status : \/ cc.sees = "open"
                               \/ cc.sees = "rp" /\ Pull(s) = "rd"
                               \/ cc.sees = "rd" /\ Pull(s) = "rp"}

\* VBUS at vSafe0V, below vSinkDisconnect, at vSafe5V
Voltage == 0..2
Met(level, v) == CASE level = "safe0v" -> v = 0
                   [] level = "safe5v" -> v = 2
                   [] level = "sink_disconnect" -> v < 2
                   [] OTHER -> FALSE

\* port_frontend::vbusEvent
\* mutant of VbusEvent: a met report always means present
VbusEventMetIsPresent(level, met) ==
  IF level = "safe0v" THEN IF met THEN "vbus_reached_safe0v" ELSE "vbus_left_safe0v"
  ELSE IF met THEN "vbus_present" ELSE "vbus_removed"
VbusEvent(level, met) ==
  CASE level = "safe0v" -> IF met THEN "vbus_reached_safe0v" ELSE "vbus_left_safe0v"
    [] level = "safe5v" -> IF met THEN "vbus_present" ELSE "vbus_removed"
    [] OTHER -> IF met THEN "vbus_removed" ELSE "vbus_present"

NoAttachment == [detected |-> OpenLine, orientation |-> "cc1", data |-> "ufp", resolved |-> FALSE]

-----------------------------------------------------------------------------
(* The transition tables.  A flow is the set of states its rows take port p *)
(* to on event e.  The source tries a table's rows in order; here each row  *)
(* has the negation of those before it that could take its event, so the    *)
(* set has at most one member.                                              *)

Row(taken, to) == IF taken THEN {to} ELSE {}
On(p, from, e, event) == state[p] = from /\ e = event

Cc(p) == watcher[p].status               \* the payload of event::cc_detected
DebouncePending(p) == watcher[p].pending # Off
\* the questions a guard asks of VBUS
\* mutant of VbusAtSafe0v: the other level is asked for
VbusAtSafe0vOther(p) == vbus[p] = 2
VbusAtSafe0v(p) == vbus[p] = 0
VbusAtSafe5v(p) == vbus[p] = 2
\* mutant of TriesSource: never tried
TriesSourceNever(p) == FALSE
TriesSource(p) == Table[p] = "drp_source" /\ allowed[p]

\* entry_flow and the sink's and the source's first rows
EntryFlow(p, e) ==
  Row(On(p, "disabled", e, "started"),
      IF Table[p] = "source" THEN "unattached_src" ELSE "unattached_snk")

\* sink_attach_flow, with the DRP's own exits and Try.SRC entries ahead of it
SinkAttachFlow(p, e) ==
  LET cc == Cc(p)
      waits == state[p] \in {"attach_wait_snk", "attach_wait_snk_rp_detected"}
      attach == IF TriesSource(p) THEN "try_src" ELSE "attached_snk"
      open_exit == IF IsDrp(p) /\ allowed[p] THEN "unattached_src" ELSE "unattached_snk" IN
  UNION {
    Row(On(p, "unattached_snk", e, "cc_detected") /\ SourcePresent(cc), "attach_wait_snk"),
    Row(waits /\ e = "cc_detected" /\ ~SourcePresent(cc), open_exit),
    Row(On(p, "attach_wait_snk", e, "cc_detected") /\ SingleRp(cc) /\ VbusAtSafe5v(p), attach),
    Row(waits /\ e = "cc_detected" /\ SingleRp(cc)
          /\ (state[p] = "attach_wait_snk" => ~VbusAtSafe5v(p)), "attach_wait_snk_rp_detected"),
    Row(On(p, "attach_wait_snk_rp_detected", e, "vbus_present"), attach),
    Row(On(p, "attach_wait_snk_rp_detected", e, "cc_detected") /\ SourcePresent(cc)
          /\ ~SingleRp(cc), "attach_wait_snk"),
    Row(On(p, "attached_snk", e, "vbus_removed"), "unattached_snk")}

HardResetFlow(p, e) ==
  UNION {
    Row(On(p, "attached_snk", e, "hard_reset"), "hard_reset_snk"),
    Row(On(p, "hard_reset_snk", e, "vbus_removed"), "hard_reset_recover_snk"),
    Row(On(p, "hard_reset_snk", e, "timeout"), "unattached_snk"),
    Row(On(p, "hard_reset_recover_snk", e, "vbus_present"), "attached_snk"),
    Row(On(p, "hard_reset_recover_snk", e, "timeout"), "unattached_snk")}

ErrorRecoveryFlow(p, e) ==
  Row(e = "error_recovery", "error_recovery")
    \cup Row(On(p, "error_recovery", e, "timeout"),
             IF Table[p] \in {"source", "drp_source"} THEN "unattached_src" ELSE "unattached_snk")

\* source_attach_flow; its attach leads to Try.SNK in a sink-preferring DRP
SourceAttachFlow(p, e) ==
  LET cc == Cc(p)
      waits == state[p] \in {"attach_wait_src", "attach_wait_src_rd_detected"}
      attach == IF Table[p] = "drp_sink" THEN "try_snk_wait" ELSE "attached_src" IN
  UNION {
    Row(On(p, "unattached_src", e, "cc_detected") /\ SinkPresent(cc), "attach_wait_src"),
    Row(waits /\ e = "cc_detected" /\ ~SinkPresent(cc),
        IF IsDrp(p) THEN "unattached_snk" ELSE "unattached_src"),
    Row(On(p, "attach_wait_src", e, "cc_detected") /\ SingleRd(cc) /\ VbusAtSafe0v(p), attach),
    Row(waits /\ e = "cc_detected" /\ SingleRd(cc)
          /\ (state[p] = "attach_wait_src" => ~VbusAtSafe0v(p)), "attach_wait_src_rd_detected"),
    Row(On(p, "attach_wait_src_rd_detected", e, "vbus_reached_safe0v"), attach),
    Row(On(p, "attach_wait_src_rd_detected", e, "cc_detected") /\ SinkPresent(cc)
          /\ ~SingleRd(cc), "attach_wait_src"),
    Row(On(p, "attached_src", e, "cc_detected") /\ ~SingleRd(cc),
        IF IsDrp(p) THEN "removing_vbus" ELSE "unattached_wait_src"),
    Row(On(p, "unattached_wait_src", e, "vbus_reached_safe0v"), "unattached_src")}

\* the toggle, and where a DRP goes once VBUS is removed
ToggleFlow(p, e) ==
  UNION {
    Row(On(p, "unattached_snk", e, "timeout"),
        IF allowed[p] THEN "unattached_src" ELSE "unattached_snk"),
    Row(On(p, "unattached_src", e, "timeout"), "unattached_snk"),
    Row(On(p, "removing_vbus", e, "vbus_reached_safe0v"),
        IF Table[p] = "drp_source" THEN "try_wait_snk" ELSE "unattached_snk")}

TrySrcFlow(p, e) ==
  LET cc == Cc(p)
      tries == state[p] \in {"try_src", "try_src_until_safe0v", "try_src_timed_out"}
      waits == state[p] \in {"try_wait_snk", "try_wait_snk_debounced"}
      rp_detected == SingleRp(attachment[p].detected) IN
  UNION {
    Row(tries /\ e = "cc_detected" /\ SingleRd(cc), "attached_src"),
    Row(On(p, "try_src", e, "timeout"),
        IF ~DebouncePending(p) /\ VbusAtSafe0v(p) THEN "try_wait_snk" ELSE "try_src_until_safe0v"),
    Row(On(p, "try_src_until_safe0v", e, "cc_detected") /\ ~SingleRd(cc) /\ VbusAtSafe0v(p),
        "try_wait_snk"),
    Row(On(p, "try_src_until_safe0v", e, "vbus_reached_safe0v") /\ ~DebouncePending(p),
        "try_wait_snk"),
    Row(On(p, "try_src_until_safe0v", e, "timeout"),
        IF DebouncePending(p) THEN "try_src_timed_out" ELSE "try_wait_snk"),
    Row(On(p, "try_src_timed_out", e, "cc_detected") /\ ~SingleRd(cc), "try_wait_snk"),
    Row(waits /\ e = "cc_detected" /\ ~SourcePresent(cc), "unattached_snk"),
    Row(On(p, "try_wait_snk", e, "timeout"),
        IF rp_detected /\ VbusAtSafe5v(p) THEN "attached_snk" ELSE "try_wait_snk_debounced"),
    Row(On(p, "try_wait_snk_debounced", e, "vbus_present") /\ rp_detected, "attached_snk"),
    Row(On(p, "try_wait_snk_debounced", e, "cc_detected") /\ SingleRp(cc) /\ VbusAtSafe5v(p),
        "attached_snk")}

TrySnkFlow(p, e) ==
  LET cc == Cc(p)
      tries == state[p] \in {"try_snk", "try_snk_rp_detected"}
      waits == state[p] \in {"try_wait_src", "try_wait_src_timed_out"} IN
  UNION {
    Row(On(p, "try_snk_wait", e, "timeout"), "try_snk"),
    Row(On(p, "try_snk", e, "cc_detected") /\ SingleRp(cc) /\ VbusAtSafe5v(p), "attached_snk"),
    Row(tries /\ e = "cc_detected" /\ SingleRp(cc)
          /\ (state[p] = "try_snk" => ~VbusAtSafe5v(p)), "try_snk_rp_detected"),
    Row(tries /\ e = "cc_detected" /\ ~SourcePresent(cc), "try_wait_src"),
    Row(On(p, "try_snk_rp_detected", e, "vbus_present"), "attached_snk"),
    Row(On(p, "try_snk_rp_detected", e, "cc_detected") /\ SourcePresent(cc) /\ ~SingleRp(cc),
        "try_snk"),
    Row(waits /\ e = "cc_detected" /\ SingleRd(cc),
        IF VbusAtSafe0v(p) THEN "attached_src" ELSE "try_wait_src_rd_detected"),
    Row(On(p, "try_wait_src", e, "timeout"),
        IF DebouncePending(p) THEN "try_wait_src_timed_out" ELSE "unattached_snk"),
    Row(On(p, "try_wait_src_rd_detected", e, "vbus_reached_safe0v"), "attached_src"),
    Row(On(p, "try_wait_src_rd_detected", e, "cc_detected"),
        IF SingleRd(cc) THEN "try_wait_src_rd_detected" ELSE "try_wait_src"),
    Row(On(p, "try_wait_src_timed_out", e, "cc_detected") /\ ~SingleRd(cc), "unattached_snk")}

SwapFlow(p, e) ==
  UNION {
    Row(On(p, "attached_snk", e, "swap_to_source"), "swap_standby_to_src"),
    Row(On(p, "attached_src", e, "swap_to_sink"), "swap_standby_to_snk"),
    Row(On(p, "swap_standby_to_src", e, "swap_complete"), "attached_src"),
    Row(On(p, "swap_standby_to_src", e, "swap_abort"), "attached_snk"),
    Row(On(p, "swap_standby_to_snk", e, "swap_complete"), "attached_snk"),
    Row(On(p, "swap_standby_to_snk", e, "swap_abort"), "attached_src"),
    Row(state[p] \in Standby /\ e = "timeout", "unattached_snk")}

\* sink_transitions, source_transitions and the three of table_for
Target(p, e) ==
  EntryFlow(p, e) \cup ErrorRecoveryFlow(p, e)
    \cup (IF Table[p] = "source" THEN {} ELSE SinkAttachFlow(p, e) \cup HardResetFlow(p, e))
    \cup (IF Table[p] = "sink" THEN {} ELSE SourceAttachFlow(p, e))
    \cup (IF IsDrp(p) THEN ToggleFlow(p, e) \cup SwapFlow(p, e) ELSE {})
    \cup (IF Table[p] = "drp_source" THEN TrySrcFlow(p, e) ELSE {})
    \cup (IF Table[p] = "drp_sink" THEN TrySnkFlow(p, e) ELSE {})

-----------------------------------------------------------------------------
(* Entering a state, and what its observers make of the annotations.        *)

\* the attached states' constructors: what an attach resolves, what a
\* resume or a swap keeps
\* mutant of Keeps: VBUS returning attaches afresh
KeepsSwapsOnly(p, e) == e \in {"swap_complete", "swap_abort"}
Keeps(p, e) == \/ e \in {"swap_complete", "swap_abort"}
               \/ e = "vbus_present" /\ attachment[p].resolved
Resolved(s, cc) == [detected |-> cc, orientation |-> OrientationOf(cc),
                    data |-> IF s = "attached_snk" THEN "ufp" ELSE "dfp", resolved |-> TRUE]

\* the states whose constructor resets it
\* mutants of Resets: not while VBUS is removed; not in the toggle
ResetsAtRest(s) == s \in {"unattached_snk", "unattached_src"}
ResetsRemoving(s) == s = "removing_vbus"
Resets(s) == s \in {"unattached_snk", "unattached_src", "removing_vbus"}

AttachmentOn(p, e, s) ==
  CASE Resets(s) -> NoAttachment
    [] s \in {"attach_wait_snk_rp_detected", "attach_wait_src_rd_detected",
              "try_snk_rp_detected", "try_wait_src_rd_detected"} ->
         [attachment[p] EXCEPT !.detected = Cc(p)]
    [] s \in Attached /\ ~Keeps(p, e) ->
         Resolved(s, IF e = "cc_detected" THEN Cc(p) ELSE attachment[p].detected)
    [] OTHER -> attachment[p]

\* CcWatcher::evaluate
Evaluated(w, rule) ==
  LET time == IF w.status.sees = "open" THEN rule.open ELSE rule.termination IN
  IF ~w.reported \/ rule = NoRule THEN w
  ELSE IF time = 0 THEN [w EXCEPT !.pending = Off, !.due = TRUE]
  ELSE [w EXCEPT !.pending = time]

\* CcWatcher::notifyExit and notifyEntry: a changed pull voids the report, a
\* changed rule evaluates it anew, an equal rule leaves the debounce running
\* mutant of StillReported: the report of the old pull is used under the new
ReportOutlivesPull(p, s) == watcher[p].reported
StillReported(p, s) == watcher[p].reported /\ Pull(s) = Pull(state[p])
\* mutant of WatcherOn: the new rule waits for the next report
WatcherOnUnevaluated(p, s) ==
  LET w == [watcher[p] EXCEPT !.due = FALSE, !.reported = StillReported(p, s)] IN
  IF Rule(s) = Rule(state[p]) THEN w ELSE [w EXCEPT !.pending = Off]
WatcherOn(p, s) ==
  LET w == [watcher[p] EXCEPT !.due = FALSE, !.reported = StillReported(p, s)] IN
  IF Rule(s) = Rule(state[p]) THEN w
  ELSE Evaluated([w EXCEPT !.pending = Off], Rule(s))

\* the reading of the level watched, and what the driver has told of it
Reading(p) == IF Met(Level(state[p]), vbus[p]) THEN "met" ELSE "unmet"
VbusEvents == {"vbus_reached_safe0v", "vbus_left_safe0v", "vbus_present", "vbus_removed"}
Heard(p, e) == IF e \in VbusEvents THEN Reading(p) ELSE told[p]

\* the VBUS driver's notifyEntry: a changed level is armed, its report owed
Armed(p, e, s) ==
  IF Level(s) = Level(state[p]) THEN Heard(p, e)
  ELSE IF Level(s) = "unwatched" THEN "off" ELSE "owed"

Enter(p, e, s) ==
  /\ state' = [state EXCEPT ![p] = s]
  /\ attachment' = [attachment EXCEPT ![p] = AttachmentOn(p, e, s)]
  /\ watcher' = [watcher EXCEPT ![p] = WatcherOn(p, s)]
  /\ timer' = [timer EXCEPT ![p] = Duration(p, s)]
  /\ told' = [told EXCEPT ![p] = Armed(p, e, s)]

\* The internal transitions: TryWait.SNK keeps a detected Rp, a DR_Swap
\* flips the data role of an attached port.
Internal(p, e) ==
  CASE state[p] \in {"try_wait_snk", "try_wait_snk_debounced"} /\ e = "cc_detected" ->
         [attachment[p] EXCEPT !.detected = Cc(p)]
    [] IsDrp(p) /\ state[p] \in Attached /\ e = "swap_data_role" ->
         [attachment[p] EXCEPT !.data = IF @ = "ufp" THEN "dfp" ELSE "ufp"]
    [] OTHER -> attachment[p]

\* An event no row takes changes no state: an internal transition, or dropped.
Process(p, e) ==
  \/ \E s \in Target(p, e) : Enter(p, e, s)
  \/ /\ Target(p, e) = {}
     /\ attachment' = [attachment EXCEPT ![p] = Internal(p, e)]
     /\ watcher' = [watcher EXCEPT ![p].due = FALSE]
     /\ told' = [told EXCEPT ![p] = Heard(p, e)]
     /\ UNCHANGED <<state, timer>>

-----------------------------------------------------------------------------
(* The calls into a port.                                                   *)

Idle(p) == ~watcher[p].due

\* port_frontend::startPort; that it reads the line is a report like others
Start(p) ==
  /\ state[p] = "disabled"
  /\ Process(p, "started")
  /\ UNCHANGED <<vbus, allowed>>

\* the queued event::cc_detected
Detected(p) ==
  /\ watcher[p].due
  /\ Process(p, "cc_detected")
  /\ UNCHANGED <<vbus, allowed>>

\* CcWatcher::report
Report(p, cc) ==
  /\ Idle(p) /\ state[p] # "disabled"
  /\ ~(watcher[p].reported /\ watcher[p].status = cc)
  /\ watcher' = [watcher EXCEPT ![p] =
       Evaluated([@ EXCEPT !.status = cc, !.reported = TRUE], Rule(state[p]))]
  /\ UNCHANGED <<state, attachment, timer, told, vbus, allowed>>

\* CcWatcher::debounced
Debounced(p) ==
  /\ Idle(p) /\ watcher[p].pending = 0
  /\ watcher' = [watcher EXCEPT ![p].pending = Off, ![p].due = TRUE]
  /\ UNCHANGED <<state, attachment, timer, told, vbus, allowed>>

\* the state's timeout
Timeout(p) ==
  /\ Idle(p) /\ timer[p] = 0
  /\ Process(p, "timeout")
  /\ UNCHANGED <<vbus, allowed>>

\* the VBUS driver's report on the level it watches: the first one after it
\* was armed, then every change
VbusReport(p) ==
  /\ Idle(p) /\ told[p] # "off" /\ told[p] # Reading(p)
  /\ Process(p, VbusEvent(Level(state[p]), Reading(p) = "met"))
  /\ UNCHANGED <<vbus, allowed>>

\* what the PD layer and the application direct through the facades
Directives == {"swap_to_source", "swap_to_sink", "swap_complete", "swap_abort",
               "swap_data_role", "error_recovery", "hard_reset"}
Direct(p, e) ==
  /\ Idle(p) /\ state[p] # "disabled"
  /\ Process(p, e)
  /\ UNCHANGED <<vbus, allowed>>

\* the application moves the role lock
Lock(p) ==
  /\ allowed' = [allowed EXCEPT ![p] = ~@]
  /\ UNCHANGED <<state, attachment, timer, watcher, told, vbus>>

\* VBUS moves, at one port or along a cable
Moves(ports, v) ==
  /\ vbus' = [p \in Port |-> IF p \in ports THEN v ELSE vbus[p]]
  /\ UNCHANGED <<state, attachment, timer, watcher, told, allowed>>

\* mutant of Ahead: a stopped timer counts
AheadWhenOff(t) == t - 1
Ahead(t) == IF t > 0 THEN t - 1 ELSE t
\* a tick passes once everything due by now has happened
Tick ==
  /\ \A p \in Port : Idle(p) /\ timer[p] # 0 /\ watcher[p].pending # 0
  /\ timer' = [p \in Port |-> Ahead(timer[p])]
  /\ watcher' = [p \in Port |-> [watcher[p] EXCEPT !.pending = Ahead(@)]]
  /\ UNCHANGED <<state, attachment, told, vbus, allowed>>

Init ==
  /\ state = [p \in Port |-> "disabled"]
  /\ attachment = [p \in Port |-> NoAttachment]
  /\ timer = [p \in Port |-> Off]
  /\ watcher = [p \in Port |-> [status |-> OpenLine, reported |-> FALSE,
                                pending |-> Off, due |-> FALSE]]
  /\ told = [p \in Port |-> "off"]
  /\ vbus \in [Port -> {0}]
  /\ allowed \in [Port -> BOOLEAN]

PortStep(p) ==
  \/ Start(p) \/ Detected(p) \/ Debounced(p) \/ Timeout(p) \/ VbusReport(p)
  \/ \E cc \in Visible(state[p]) : Report(p, cc)

Next ==
  \/ \E p \in Port : \/ PortStep(p)
                     \/ \E e \in Directives : Direct(p, e)
                     \/ Lock(p)
  \/ \E ports \in {{p} : p \in Port} \cup {Port} : \E v \in Voltage : Moves(ports, v)
  \/ Tick

Spec == Init /\ [][Next]_vars

-----------------------------------------------------------------------------
Attachment == [detected : Status, orientation : Pin, data : {"ufp", "dfp"},
               resolved : BOOLEAN]
Watcher == [status : Status, reported : BOOLEAN, pending : Nat \cup {Off}, due : BOOLEAN]
TypeOK ==
  /\ state \in [Port -> State]
  /\ attachment \in [Port -> Attachment]
  /\ timer \in [Port -> Nat \cup {Off}]
  /\ watcher \in [Port -> Watcher]
  /\ told \in [Port -> {"off", "owed", "met", "unmet"}]
  /\ vbus \in [Port -> Voltage]
  /\ allowed \in [Port -> BOOLEAN]

\* A connection rests on one CC wire: while it is held, through hard resets
\* and role swaps, the attachment has the single-pin status it was detected
\* on and the orientation that pin gives; a state that waits for VBUS holds the
\* status it will attach on; before an attach nothing of an
\* earlier connection is left (the `resolved` that decides whether VBUS
\* returning resumes or attaches afresh).
OnOneWire(a) ==
  /\ a.resolved
  /\ a.detected.sees # "open" /\ a.detected.pins # Pin
  /\ a.orientation \in a.detected.pins
RpHeld == {"attach_wait_snk_rp_detected", "try_snk_rp_detected"}
RdHeld == {"attach_wait_src_rd_detected", "try_wait_src_rd_detected"}
ConnectionResolved ==
  \A p \in Port :
    /\ state[p] \in Connected => OnOneWire(attachment[p])
    /\ state[p] \in RpHeld => SingleRp(attachment[p].detected)
    /\ state[p] \in RdHeld => SingleRd(attachment[p].detected)
    /\ attachment[p].resolved => state[p] \in Connected \cup {"error_recovery", "unattached_wait_src"}

\* What the watcher has, debounces or hands on was measured under the pull
\* the port presents now: no detection carries a status of the other role.
DetectionsFitThePull ==
  \A p \in Port : LET w == watcher[p] IN
    /\ w.pending # Off \/ w.due => w.reported
    /\ w.reported => w.status \in Visible(state[p])

\* Where only a VBUS report leads on and the level was armed on entry, the
\* driver still owes the report; where only the running debounce decides, it
\* runs or its outcome is queued.
AwaitsVbus == {"attach_wait_snk_rp_detected", "attached_snk", "hard_reset_snk",
               "hard_reset_recover_snk", "try_snk_rp_detected", "removing_vbus",
               "attach_wait_src_rd_detected", "unattached_wait_src"}
AwaitsDebounce == {"try_src_timed_out", "try_wait_src_timed_out"}
ReportsOwed ==
  \A p \in Port :
    /\ state[p] \in AwaitsVbus => told[p] \in {"owed", "unmet"}
    /\ state[p] \in AwaitsDebounce => watcher[p].pending # Off \/ watcher[p].due

\* Two waits for VBUS do not arm their level: they watch the one of the state
\* before and ask instead what VBUS is.  Such a wait sleeps when the level it
\* waits for stands and the driver has told so already, to a state that did
\* not take it: no report is to come.
AskedVbus(p) ==
  \/ state[p] = "try_wait_src_rd_detected"
  \/ state[p] = "try_wait_snk_debounced" /\ SingleRp(attachment[p].detected)
Sleeps(p) == AskedVbus(p) /\ told[p] = "met" /\ Reading(p) = "met"
LeftUntold(p) == told[p] = "met" /\ Reading(p) = "unmet"

\* No wait for VBUS or for a debounce is slept through, but for one case: the
\* two waits that ask do, when VBUS had left the level since the driver told
\* of it and is back before the driver noticed, the question having been
\* answered in between.
NoLostWakeup ==
  /\ []ReportsOwed
  /\ [][\A p \in Port : Sleeps(p)' => Sleeps(p) \/ LeftUntold(p)]_vars

\* A connection that goes on keeps its plug, and its data role changes only
\* in place, by a DR_Swap: neither a hard reset's VBUS cycle nor a power
\* role swap resolves it anew.
ConnectionKept ==
  [][\A p \in Port : state[p] \in Connected /\ state'[p] \in Connected =>
       /\ attachment'[p].detected = attachment[p].detected
       /\ attachment'[p].orientation = attachment[p].orientation
       /\ state'[p] # state[p] => attachment'[p].data = attachment[p].data]_vars

\* interface/Questions.hpp: while the role lock says no, no phase presenting
\* Rp begins from rest or in place of a sink's attach; phases already running
\* complete, and the attach and toggle rows fall through to the sink's.
LockHonoured ==
  [][\A p \in Port :
       /\ IsDrp(p) /\ ~allowed[p]
       /\ state[p] \in {"disabled", "unattached_snk", "attach_wait_snk",
                        "attach_wait_snk_rp_detected"}
       => Pull(state'[p]) # "rp"]_vars
=============================================================================
