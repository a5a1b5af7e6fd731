-------------------------------- MODULE Tcpc --------------------------------
(***************************************************************************)
(* The Zephyr adapter of a port controller, zephyr/src/Tcpc.cpp: alerts    *)
(* come in the driver's context (a thread or an interrupt), are gathered   *)
(* as bits and leave as callbacks from the stack's work queue.             *)
(*                                                                         *)
(* Two contexts interleave: the driver's alert(), two steps long, and the  *)
(* work queue, which runs deliver() to the next callback in one step.      *)
(* What the stack does in a callback, or in other work of the queue, is    *)
(* open.  The port controller, the line and the kernel are external.       *)
(***************************************************************************)
EXTENDS Integers, Sequences

CONSTANTS
  MaxEvents,  \* bound: line changes, messages and hard resets of a behaviour
  Overlaps    \* may a transmission begin before the last one's outcome is out

ASSUME EventsAssumption == MaxEvents \in Nat
ASSUME OverlapsAssumption == Overlaps \in BOOLEAN

VARIABLES
  line,      \* what the CC line carries
  pull,      \* the termination presented: pull_
  heardCc,   \* the reading the connection layer holds, "none" after a new pull
  misread,   \* history: the last reading of the line failed
  unfetched, \* history: the last draining ended on a failed fetch
  pending,   \* the alerts gathered: pending_
  calling,   \* the driver is within alert(), its bit set, the work not submitted
  queued,    \* alert_work_ is on the queue
  bits,      \* what deliver() took and has not come to yet
  rx,        \* messages the driver holds
  listens,   \* a protocol layer holds the PHY: phy_callbacks_
  checked,   \* deliver() has found it held, and further outcomes follow
  inFlight,  \* transmissions the driver has not concluded
  awaited,   \* transmissions whose outcome has not left the adapter
  raised,    \* events so far
  log        \* history: the PHY's events that have not left the adapter

alertVars == <<line, pull, heardCc, misread, unfetched, pending, calling, queued, bits, rx,
               listens, checked, inFlight, awaited, raised, log>>

-----------------------------------------------------------------------------
Outcomes == {"transmit_success", "transmit_discarded", "transmit_failed"}
Alerts == {"cc_changed", "message_received", "hard_reset_received"} \cup Outcomes

\* fromVoltage(): an open line is told by the termination presented
Lines == {"open", "attached"}
Pulls == {"open", "rd", "rp"}
Reading(l, p) == IF l = "open" THEN IF p = "rd" THEN "snk_open" ELSE "src_open" ELSE l
Readings == {"attached", "snk_open", "src_open"}

Without(s, i) == SubSeq(s, 1, i - 1) \o SubSeq(s, i + 1, Len(s))
\* the eldest event of a kind leaves the adapter
Leaves(kind) ==
  \E i \in DOMAIN log :
    /\ log[i] = kind /\ \A j \in 1..(i - 1) : log[j] # kind
    /\ log' = Without(log, i)

-----------------------------------------------------------------------------
(* The driver's context.                                                    *)

\* alert(): atomic_or, then the work is submitted.  A second alert of a kind
\* before the work has run is the first one still.
Alert(kind) == /\ ~calling /\ calling' = TRUE
               /\ pending' = pending \cup {kind}
Happens(kind) == log' = IF kind \in pending THEN log ELSE Append(log, kind)

Counts == raised < MaxEvents /\ raised' = raised + 1
QueueRests == UNCHANGED <<unfetched, checked>>
StackRests == QueueRests /\ UNCHANGED <<pull, heardCc, misread, listens, awaited>>

\* Attach, detach, or the line as it was, measured afresh under a new pull.
CcChanges ==
  /\ Counts /\ Alert("cc_changed")
  /\ line' \in Lines
  /\ StackRests /\ UNCHANGED <<queued, bits, rx, inFlight, log>>

MessageArrives ==
  /\ Counts /\ Alert("message_received")
  /\ rx' = rx + 1 /\ log' = Append(log, "message_received")
  /\ StackRests /\ UNCHANGED <<line, queued, bits, inFlight>>

HardResetArrives ==
  /\ Counts /\ Alert("hard_reset_received") /\ Happens("hard_reset_received")
  /\ StackRests /\ UNCHANGED <<line, queued, bits, rx, inFlight>>

\* The one outcome of a transmission.
Concludes(outcome) ==
  /\ inFlight > 0 /\ inFlight' = inFlight - 1
  /\ Alert(outcome) /\ Happens(outcome)
  /\ StackRests /\ UNCHANGED <<line, queued, bits, rx, raised>>

\* k_work_submit_to_queue, and alert() returns.
Submit ==
  /\ calling /\ calling' = FALSE
  /\ queued' = TRUE
  /\ StackRests /\ UNCHANGED <<line, pending, bits, rx, inFlight, raised, log>>

-----------------------------------------------------------------------------
(* What the stack does with a callback, or in other work on its queue, when *)
(* it awaits the outcome of `left` transmissions.                           *)

\* notifyEntry(cc_termination)
Presents(left) == /\ pull' \in Pulls \ {pull} /\ awaited' = left
                  /\ UNCHANGED <<listens, inFlight>>
\* setCallbacks(): a protocol layer takes the PHY, or lets it go.
Holds(left) == /\ listens' = ~listens /\ awaited' = left
               /\ UNCHANGED <<pull, inFlight>>
\* transmit(), of a message or a signal
Transmits(left) == /\ listens /\ left <= (IF Overlaps THEN 1 ELSE 0)
                   /\ inFlight' = inFlight + 1 /\ awaited' = left + 1
                   /\ UNCHANGED <<pull, listens>>
Nothing(left) == awaited' = left /\ UNCHANGED <<pull, listens, inFlight>>

\* mutant of Heeds: a reading outlives the pull it was measured under
HeedsStale(cc) == heardCc' = cc
\* the watcher drops what was measured under another pull
Heeds(cc) == heardCc' = IF pull' = pull THEN cc ELSE "none"
Reacts(left, cc) ==
  /\ Presents(left) \/ Holds(left) \/ Transmits(left) \/ Nothing(left)
  /\ Heeds(cc)

StackWorks ==
  /\ bits = {}
  /\ Presents(awaited) \/ Holds(awaited) \/ Transmits(awaited)
  /\ Heeds(heardCc)
  /\ QueueRests /\ UNCHANGED <<line, misread, pending, calling, queued, bits, rx, raised, log>>

-----------------------------------------------------------------------------
(* deliver(), callback by callback.                                         *)

\* mutant of Deliver: the alerts are read and stay
DeliverKeeps ==
  /\ queued /\ bits = {} /\ queued' = FALSE
  /\ bits' = pending /\ UNCHANGED pending
  /\ StackRests /\ UNCHANGED <<line, calling, rx, inFlight, raised, log>>
\* atomic_clear
Deliver ==
  /\ queued /\ bits = {} /\ queued' = FALSE
  /\ bits' = pending /\ pending' = {}
  /\ StackRests /\ UNCHANGED <<line, calling, rx, inFlight, raised, log>>

\* deliver()'s order
Ahead(kind) ==
  CASE kind = "cc_changed"          -> {}
    [] kind = "hard_reset_received" -> {"cc_changed"}
    [] kind = "transmit_success"    -> {"cc_changed", "hard_reset_received"}
    [] kind = "transmit_discarded"  -> {"cc_changed", "hard_reset_received", "transmit_success"}
    [] kind = "transmit_failed"     -> Alerts \ {"transmit_failed", "message_received"}
    [] kind = "message_received"    -> Alerts \ {"message_received"}
Turn(kind) == kind \in bits /\ bits \cap Ahead(kind) = {}
DriverRests == UNCHANGED <<line, pending, calling, queued, raised>>

\* reportCc(): one reading, of now; a failed one is not repeated
ReportCc ==
  /\ Turn("cc_changed") /\ bits' = bits \ {"cc_changed"}
  /\ \/ Reacts(awaited, Reading(line, pull)) /\ misread' = FALSE
     \/ Nothing(awaited) /\ UNCHANGED heardCc /\ misread' = TRUE
  /\ DriverRests /\ QueueRests /\ UNCHANGED <<rx, log>>

\* Without a holder of the PHY nobody hears it.
ReportHardReset ==
  /\ Turn("hard_reset_received") /\ bits' = bits \ {"hard_reset_received"}
  /\ Leaves("hard_reset_received")
  /\ IF listens THEN Reacts(awaited, heardCc) ELSE Nothing(awaited) /\ UNCHANGED heardCc
  /\ DriverRests /\ QueueRests /\ UNCHANGED <<misread, rx>>

\* deliver() asks once for a holder, ahead of the outcomes.  One which lets the
\* PHY go upon the first outcome leaves an empty callback to the second: the
\* queue comes to its end there.
ReportOutcome(outcome) ==
  /\ Turn(outcome) /\ bits' = bits \ {outcome}
  /\ checked => listens
  /\ checked' = (listens /\ bits' \cap Outcomes # {})
  /\ Leaves(outcome)
  /\ LET left == awaited - 1 IN
     IF listens THEN Reacts(left, heardCc) ELSE Nothing(left) /\ UNCHANGED heardCc
  /\ DriverRests /\ UNCHANGED <<misread, unfetched, rx>>

\* reportReceived(), once round its loop
\* mutant of ReportMessage: one message an alert
ReportOneMessage ==
  /\ Turn("message_received") /\ bits' = {}
  /\ rx > 0 /\ rx' = rx - 1
  /\ Leaves("message_received")
  /\ IF listens THEN Reacts(awaited, heardCc) ELSE Nothing(awaited) /\ UNCHANGED heardCc
  /\ DriverRests /\ QueueRests /\ UNCHANGED misread
ReportMessage ==
  /\ Turn("message_received") /\ UNCHANGED bits
  /\ rx > 0 /\ rx' = rx - 1
  /\ Leaves("message_received")
  /\ IF listens THEN Reacts(awaited, heardCc) ELSE Nothing(awaited) /\ UNCHANGED heardCc
  /\ DriverRests /\ QueueRests /\ UNCHANGED misread

\* The loop ends when the driver has nothing more, or fails to hand it over:
\* what it holds then stays until the next message's alert.
Drained ==
  /\ Turn("message_received") /\ bits' = bits \ {"message_received"}
  /\ unfetched' = (rx > 0)
  /\ DriverRests
  /\ UNCHANGED <<pull, heardCc, misread, listens, checked, awaited, rx, inFlight, log>>

-----------------------------------------------------------------------------
\* start() has run: the callbacks are in place, nothing is presented yet.
AlertsInit ==
  /\ line \in Lines /\ pull = "open" /\ heardCc = "none" /\ misread = FALSE
  /\ pending = {} /\ calling = FALSE /\ queued = FALSE /\ bits = {}
  /\ unfetched = FALSE /\ checked = FALSE
  /\ rx = 0 /\ listens = FALSE /\ inFlight = 0 /\ awaited = 0
  /\ raised = 0 /\ log = <<>>

Driver ==
  \/ CcChanges
  \/ MessageArrives
  \/ HardResetArrives
  \/ \E outcome \in Outcomes : Concludes(outcome)

Reports ==
  \/ ReportCc
  \/ ReportHardReset
  \/ \E outcome \in Outcomes : ReportOutcome(outcome)
  \/ ReportMessage
  \/ Drained

AlertsNext == Driver \/ Submit \/ StackWorks \/ Deliver \/ Reports

AlertsSpec == AlertsInit /\ [][AlertsNext]_alertVars

\* alert() returns, and the work queue's thread runs what is on the queue.
AlertsFairness == WF_alertVars(Submit) /\ WF_alertVars(Deliver \/ Reports)

-----------------------------------------------------------------------------
AlertsTypeOK ==
  /\ line \in Lines /\ pull \in Pulls /\ heardCc \in Readings \cup {"none"}
  /\ misread \in BOOLEAN /\ unfetched \in BOOLEAN /\ checked \in BOOLEAN
  /\ pending \subseteq Alerts /\ bits \subseteq Alerts
  /\ calling \in BOOLEAN /\ queued \in BOOLEAN /\ listens \in BOOLEAN
  /\ rx \in Nat /\ inFlight \in Nat /\ awaited \in Nat /\ raised \in 0..MaxEvents
  /\ log \in Seq(Alerts)

\* When the adapter is at rest nothing is left behind in it or in the driver:
\* no alert came too late for the running work and too early to bring a new
\* one, and no message lies behind another's alert - but for one whose fetch
\* failed, with those behind it.
NothingStranded ==
  ~calling /\ ~queued /\ bits = {} => pending = {} /\ (rx = 0 \/ unfetched)

\* As long as the stack waits for an outcome before it transmits again, every
\* transmission it awaits has exactly one: with the driver still, gathered,
\* or about to be delivered.  None is lost and none is heard twice.
Whereabouts ==
  {<<"gathered", o>> : o \in Outcomes \cap pending}
    \cup {<<"delivering", o>> : o \in Outcomes \cap bits}
    \cup {<<"driver", i>> : i \in 1..inFlight}
OneOutcomeEach ==
  ~Overlaps => \/ awaited = 0 /\ Whereabouts = {}
               \/ awaited = 1 /\ \E place \in Whereabouts : Whereabouts = {place}

\* Unless a change is still on its way, or could not be read, what the
\* connection layer holds of the line is what the line carries, told as the
\* role now presented sees it.
CcUpToDate ==
  ~misread /\ "cc_changed" \notin pending \cup bits
    => heardCc \in {"none", Reading(line, pull)}

\* Whatever the PHY has raised leaves the adapter in the end, once no more
\* events come (MaxEvents) than the stack's own transmissions bring - unless
\* the last fetch of a message failed.
AllReported == log # <<>> ~> log = <<>> \/ unfetched
=============================================================================
