# Verification of UsbTypeC

TLA+ models of the USB Type-C and USB Power Delivery stack under
`include/usbc` and of the adapters under `zephyr/`, checked with TLC and proved
with TLAPS. Paths below are relative to the repository.

## The system

The library is a set of table-driven state machines (the `mtl` finite state
machine library, an external dependency) with a thin layer class around each.
Everything runs in one serialized context: a PHY callback, a CC or VBUS report
or a timer expiry is delivered, the machine makes one transition, and the
observers of the states' annotations act on the new state. An event processed
from within a transition is queued (`QueuedMachine`, four places) and handled
after it.

| part | state | operations | talks to |
|---|---|---|---|
| protocol layer (`layer/ProtocolLayer.hpp`, `state/ProtocolLayer.hpp`) | transmit machine, message in flight, RetryCounter, MessageIDCounter, stored MessageID, negotiated revision, client | `transmit`, `transmitHardReset`, `reset`, `onTransmitted`, `onReceived`, `onHardResetReceived`, timers, connection entry and exit | PHY below, policy engine above, connection machine beside it |
| PHY (`interface/PdPhy.hpp`) | what it transmits, receive detection | transmit a message or a signal, report one outcome, deliver messages | protocol layer, CC wire |
| Type-C machines (`state/TypeC*.hpp`, `layer/TypeC.hpp`, `TypeC*.hpp`) | table state, debounced CC status, VBUS questions, power and data role, swap standby | start, CC and VBUS reports, timers, role swap, hard reset window, error recovery | CC and VBUS drivers, protocol layer, engines, VCONN |
| policy engines (`state/*PolicyEngine.hpp`, `layer/*PolicyEngine.hpp`) | table state, contract, hard reset counter, capabilities counter, data role, parked request, BIST mode | messages, outcomes, timers, application requests | protocol layer, Type-C machine, application policy, supply |
| VCONN (`state/Vconn.hpp`, `layer/Vconn.hpp`) | on, off, waiting for the engine | connection facts, swap | port controller |
| port facades (`PdSink.hpp`, `PdSource.hpp`, `PdDrp.hpp`) | the live engine | composition, engine hand-over in a PR_Swap | all of the above |
| Zephyr adapters (`zephyr/src`) | alert bits, the level watched and what was told of it | alerts to callbacks, VBUS sampling, switch positions | devices, the machines |
| TCPP03-M20 driver (`zephyr/drivers`) | copy of the control register | paths, VCONN, fault recovery | I2C, both of the system's work queues |

What is hard about it: two ports act on each other over a wire that loses
messages and acknowledgements; a report of the PHY is in the driver's queue while
the layer's state changes; timers race late answers; resets cross messages in
flight; a state carries over into the next connection; the machines react from
within each other's callbacks.

What makes each part correct:

- protocol layer: the client is handed the partner's messages in order and once;
  a message reported done was received; nothing but a repetition is dropped; every
  transmission concludes; a forgotten partner is forgotten completely.
- Type-C machines: two connected ports take opposite roles, never two VBUS
  sources; attach only on a debounced termination; toggling ports find each other;
  a detach or an error recovery reaches a safe state from everywhere.
- policy engines: both ends agree on the contract; no request outside an
  agreement; every atomic message sequence ends; a hard reset returns to default.
- VCONN: exactly one end sources it, and a swap hands it over without a gap
  in who is responsible.
- adapters: no event lost, invented or told of another time than now; a watched
  level of VBUS told truly; one power path at a time, the one asked for last.

## Modules

| module | what it is |
|---|---|
| `ProtocolLayer` | the protocol layers of the two ports of a connection: state, one action per call, callback and timeout |
| `PdLink` | EXTENDS it with the PHYs as contracted, the wire, the clients; the specification and its properties |
| `MessageDelivery` | what the layers promise their clients, without MessageIDs, retries or timers |
| `MCPdLink` | constants for TLC |
| `PdLinkProofs` | the theorems about `PdLink` |
| `TypeC` | Type-C ports, each with one of the five transition tables, its CC watcher and its view of VBUS; drivers, VBUS and the PD layer are open |
| `TypeCLink` | EXTENDS it with a cable between two ports, VBUS as the switches drive it, drivers that report, engines that direct swaps, resets and recoveries |
| `MCTypeC`, `MCTypeCLink` | constants for TLC |
| `TypeCProofs`, `TypeCLinkProofs` | the theorems about them |
| `PolicyEngine` | what the two policy engines share: messages, guards, the rows of the service, swap and reset states |
| `SinkPolicyEngine`, `SourcePolicyEngine` | EXTEND it with the tables of the sink and of the source |
| `Vconn` | the VCONN machine |
| `PdPort` | one port as `PdDrp.hpp` assembles it: both engines, the VCONN machine, power, and who directs whom; every handler an operator from port to port |
| `PdPortAlone` | one port under an environment that calls any handler any time |
| `PdContract` | two ports on a cable, with what goes wrong between them |
| `PowerContract` | what the two promise each other about power, without any message |
| `MCPdPort`, `MCPdContract` | constants for TLC |
| `PdPortProofs`, `PdPortAloneProofs`, `PdContractProofs` | the lemmas about a port's handlers, and the theorems about one port and two |
| `PdFaultlessProofs` | the theorems about two ports as long as nothing goes wrong between them |
| `Tcpc` | the Zephyr adapter of a port controller: alerts gathered in one context, delivered in another |
| `VbusMonitor` | the sampling half of the Zephyr VBUS adapter |
| `Tcpp03` | the driver of the power path controller: its control register, its fault handler, the device |
| `PowerPath` | EXTENDS it with the switching half of the VBUS adapter |
| `MCAdapters` | the three adapters in one instance, one of them moving |
| `AdapterProofs` | the theorems about `Tcpc`, `VbusMonitor` and `PowerPath`, and about the three together |

How they meet: `ProtocolLayer` and `TypeC` model their part in full. `PdPort` takes the
protocol layer as one message in flight with an outcome, and the connection machine as the
eight states an engine can tell apart; `TypeCLink` takes the engines as directives in their
order. The adapters keep the contracts which `PdLink` (`interface/PdPhy.hpp`) and `TypeC`
(`interface/Vbus.hpp`) rest on, but for what "Seen while modelling" lists.

The protocol layer and the connection machine meet in `connection`, which `ProtocolLayer` has
as an input (Attach, Detach) and `TypeC` as the set `Connected`.

### ProtocolLayer and the code

`tx` is the state of the transmit machine (`state/ProtocolLayer.hpp`), `context`
and `retry` its `tx_context`; `txCounter`, `rxId` and `revision` are
`tx_counter_[sop]`, `rx_id_[sop]` and `revision_`. `connection` is the
`tc::pd_connection` fact the layer observes; an attached port also has its engine
live, so it also stands for `client_`. `tx_ready_` is the annotation of
two states, hence `TxReady`. `job` is the transmission the driver was handed
and `events` are the callbacks it has yet to make, in order: the contract of
`interface/PdPhy.hpp` says they arrive one at a time in a serialized context.

The actions are the public calls (`Transmit`, `TransmitHardReset`, `Attach`,
`Detach`, `SendSoftReset` = the engine's entry into a `prl::reset_action` state
followed by its message), the timeouts (`PhyResponseTimeout`,
`HardResetCompleteTimeout`), and the callbacks (`OnTransmitted*`, `OnReceived*`,
`OnHardResetReceived`). Each includes what the client does synchronously from
within the report: a received Soft_Reset resets the layer and sends the Accept
before `onReceived` returns (the states' annotations notify the layer port before
the instance message; the soft reset row is a wildcard, whose entry notifies
`reset_action` again), and leaving `wait_for_hard_reset_complete` lets the
engine leave its hard reset state, which resets the layer, unless the engine is
no longer in that state. `HandOver` may be refused by a PHY that still holds
something; a refused hand-off "is not reported" (`layer/ProtocolLayer.hpp:127`).

A message is its number in order of submission, with the MessageID, the
revision and whether it is a Soft_Reset. Numbers are history: no guard of the layer
reads them. The other history variables are listed in the module.

Abstractions: SOP only (the layer listens for nothing else); the payload is left
out; the client's answers other than the Accept are ordinary `Transmit` calls; the
debounce before an attach outlasts the transmit machine's timers (1 ms to 100 ms
against at least 100 ms), so `Attach` waits for them, while everything else may
happen in between.

### PdLink: the environment

External: the PHY takes a transmission, the wire carries or loses the
message, the GoodCRC comes back or is lost, an incoming message discards what the
receiving PHY holds, a hard reset goes out over everything. After an attempt the PHY
reports an outcome or, as an attempt that went unanswered, nothing. With
`WhoRetransmits = "phy"` a message may arrive more than once before the outcome.
`Expires` is the comment in `state/ProtocolLayer.hpp:84`: the layer's timer runs out
after the PHY has reported what it will. With `LateOutcomes` the timer may run out
any time, and a late outcome then meets whatever is in flight.

### TypeC and the code

| in the model | in the code |
|---|---|
| `state` | the state of the machine built from `table_for` (`state/TypeCDrp.hpp`), `sink_transitions`, `source_transitions` |
| `Table` | which of them: `sink`, `source`, `drp_none`, `drp_source` (Try.SRC), `drp_sink` (Try.SNK) |
| `Pull`, `Path`, `Level`, `Rule`, `Duration` | the annotations a state carries for its observers: `cc_termination`, `vbus_power`, `vbus_level`, `cc_debounce`, the timeout |
| `attachment` | the machine's context (`tc::attachment`): detected status, orientation, data role, `resolved` |
| `watcher` | `CcWatcher`: last report, whether it counts, the running debounce, and `due`: an `event::cc_detected` it put in the machine's queue |
| `told` | `report_pending_` and `met_` of the VBUS driver: off, a first report owed, or the last one made |
| `vbus`, `allowed`, `timer` | the voltage at the receptacle, the answer of `sourcing_allowed`, the state's timer |

Each `...Flow` operator is the flow of that name in `state/`, row by row. The machine
takes the first row that fits; the model's rows carry the negations of the rows before
them that compete for the event, so a flow has at most one target. `Process` is one event
handled to its end: the transition, the constructor of the new state (`AttachmentOn`), the
observers it notifies (`WatcherOn`, the timer, `Armed`). A detection the watcher makes
while a transition runs is queued behind it, and no other call comes in before it is
handled (`Idle`): `QueuedMachine` runs its queue empty inside the call.

A transition into a state with the same level, rule or pull does not notify the
observer of it (they compare annotations), which is why `WatcherOn` and `Armed` ask
whether it changed. An event no row takes is dropped, after the internal handlers
(`Internal`): TryWait.SNK keeps a detected Rp, an attached port flips its data role.

Abstractions: the 15 ms times (`tPDDebounce`, `tTryCCDebounce`, `tSRCDisconnect`) are one
constant; the Rp value is not told apart; both pins together stand for any
accessory, a lone Ra counts as open as `cc_status` has it; `sink_disconnect_pd`, a level
of the engines, is left out; the PD layer does not direct a port before its `start()`.
Time is counted in ticks, one is the resolution of the drivers, and whatever is due
happens before the next one.

### TypeCLink: the environment

- the line: a port sees the other's termination when the two pull opposite ways, on
  the pin the plug was put in;
- VBUS: one conductor while the cable is in; it moves a step at a time to where the
  switches drive it, resting at most `VbusLag` ticks on its way;
- the drivers: what they have to report they report before the next tick (`Owes`);
- the cable: pulled any time, plugged in again the same way or flipped. It stays out for at
  least `Gap` ticks and is not plugged onto a bus that is still charged. `Gap`
  is longer than the standbys and the hard reset windows last, so that both ends notice;
- the engines: `enter_swap_standby`, the source's supply, `assert_new_role` and
  `swap_completed` at each end, the hard reset window, the error recovery request. They are
  directives in the order in which the engines make them (`PdDrp.hpp`,
  `connection_directions`, `state/*PolicyEngine.hpp`), each its own step; a
  message lost between them is a step that does not come. `swap_abort` is not
  among them as the library never directs it; a single port (`TypeC`) accepts it;
- the supply of a source is its engine's: it stays off between the supply's settling and
  the handing over, and comes back on with a new connection.

### PdPort and the code

A port is one record, and every handler an operator from port to port, so that what a
handler sets in motion is one step: mtl runs its queue empty inside the call.

| field | in the code |
|---|---|
| `conn` | the connection machine, reduced to the states an engine can tell apart |
| `data`, `header` | the attachment's data role; the roles stamped into the protocol layer's header |
| `client` | which engine the protocol layer reports to (`takeLayer`, `leaveLayer`) |
| `tx` | the transmission the protocol layer holds: one message or a hard reset |
| `eng[r]` | an engine: `pe` its state, the rest its context (`pe_connection`, `pe_negotiation`, `src_negotiation`), `role` its `data_role_`, `deaf` the BIST test data mode, `parked` its `pending_sequence_` |
| `power[r]` | `SinkPower`, `SourcePower`: the load's limit, the application pending for a new contract, one in force |
| `supply` | `SourceSupply`: the operating point last programmed, its completion awaited |
| `rp`, `txok` | the Rp the source engine asks for; SinkTxOK as the sink last saw it |
| `vconn` | the VCONN machine |

A table is a set of rows `<<from, event, yes, no, to>>`; the guards a row needs and those it
must not have make the order of the code's rows explicit, so that one row at most is
taken (`Taken`). `Process` is an event: the row (`Step`), the constructor of the new state
(`Context`), its observers (`Powered`, `Programmed`, `Presented`, `Transmits`, the VCONN
machine), and the word the entered state emits into the queue (`Emits`, `Follow`).
`Directed` is what the new state directs the connection machine to do, and what that means
for the engines in turn: `connection_directions` of `PdDrp.hpp`, with the order in which one
engine retires and the other takes the layer; it acts on a state entered, as `notifyEntry` does,
not on one kept. `Transit` names the states which only the machine's own word or another machine
leads out of. The names are the code's.

Abstractions: a message is its type and, for a Request, the operating point; an operating
point is a model value; the policy's answer is an input (`yes`); at most one message is in
flight, and a message for a port whose layer is busy is refused as `PrlPort` has it; the chunked
message's answers, `get_*` and discovery are there as rows, not as content. A `PdSink` or a
`PdSource` is the port which takes one role and has no swap feature.

### PdPortAlone and PdContract: the environment

`PdPortAlone` calls any handler any time the interfaces allow: any message, any
outcome, any timer, any answer, attach and detach. What it shows does not depend on
what a partner would do.

`PdContract` puts two such ports on a cable. A message is heard by the partner's engine
(`Deliver`) and then confirmed (`Confirm`), or fails; a hard reset likewise. VBUS is what the
sourcing port's supply makes it, a source finds CC open when its partner presents no Rd, a
sink sees the Rp. What goes wrong is counted in `faults`: a transmission that fails
before or after the partner heard it, a message preempted by one of the partner's, a hard
reset missed, a timer out of its turn, the plug pulled; `preempted` remembers the second kind. What an application asks or a
policy refuses is counted in `wishes`. Timers run out in the order of their durations, and after
what takes less time than any of them (`InTurn`, `Busy`); one of up to 30 ms may come early
as a fault, since a slow partner can outlast it (`Sluggish`).

### The Zephyr adapters

`Tcpc`: `pending` is `pending_`, one bit per kind of alert; `calling` the driver between
`atomic_or` and the submission; `queued` the work item; `bits` what a running `deliver()` took and
has not come to. The driver's context and the work queue interleave between any two callbacks.
What the stack does from within a callback is open: present another pull, take or leave the PHY,
transmit. `log` is history: the PHY's events that have not left the adapter. `checked` is
`deliver()` between the outcomes: it has found the PHY held (`Tcpc.cpp:283`) and does not look again. Where
the holder lets go in between, the code calls an empty callback; that is undefined, and the model stops the queue
there. A fetch may fail and ends the draining (`Drained`); `unfetched` remembers that it left something.
The calls that only pass a value to the driver are left out.

`VbusMonitor`: `monitored`, `met`, `owed`, `item` are `monitored_`, `met_`, `report_pending_` and the
delayable work item with the kernel's rules: a running item that is cancelled takes no submission
until it ends, but a delay may be started for it. A report may take the machine through
several states, each arming its level, while the item runs.

`Tcpp03`: `control` is the register and its copy (`tcpp03_data`), written whole; a transfer that
fails writes neither. The fault handler runs in steps, since the lock is held over one write
only; `seen` is what it read. The device opens every switch on an overcurrent until the
recovery word is written. `PowerPath`: `notifyEntry(vbus_power)` call by call (`next`), the
positions following each other as the connection tables have them.

The three share no state. `MCAdapters` lets one of them move in a behaviour: one run, and the
states add up instead of multiplying.

## Runs

| run | instance | what it shows |
|---|---|---|
| `link_lossy` | the protocol layer retransmits, 2 MessageIDs, 3 + 1 messages, one port of revision 2 | types; on receive only repetitions are dropped, or a message after the MessageIDs wrapped around with everything between lost |
| `link_promise` | the PHY retransmits, 3 MessageIDs, 2 + 1 messages, soft resets, detach and replug on both sides | the layers implement `MessageDelivery` |
| `link_late` | late outcomes, 2 messages, a soft and a hard reset at the receiver | order and at-most-once hold all the same; the sender, which hears the hard reset, restarts at MessageID 0; every transmission concludes, the hard reset included, confirmed or not |
| `port_alone` | each of the five tables alone, every driver and PD input | what a connection rests on, detections under the right pull, no wait slept through but in the one case `NoLostWakeup` names, the plug kept |
| `tc_swap` | a Try.SRC and a Try.SNK port, the role lock of the second moving any time, on a cable pulled and flipped, a role swap, hard reset or error recovery any time | never two sources, the true orientation at both ends, no attached pair comes apart by itself, a cable that stays in connects, one that stays out disconnects |
| `tc_prefers` | a Try.SRC port and one without preference, the times in the proportions of the code, a VBUS that lags, a role lock that moves | the Try.SRC port ends as the source, of a sink or of a port that rests in `removing_vbus` for good (finding 1) |
| `pd_port` | a dual-role PD port under any partner, cable, timers, supply, policy and application | one engine at work, the right one; BIST mode, collision-avoidance Rp and load limit end with the contract they belong to; a handler returns with no engine in transit, but for a termination flip the connection machine cannot follow (`NothingLeftHalfway`) |
| `pd_contract` | two dual-role PD ports, four wishes without a fault, or two faults and one wish | agreement, never both drive VBUS, one VCONN source, opposite data roles, nobody stuck in passing, `PowerContract` kept, the pair settles for good unless a message was preempted after it was heard (finding 3) |
| `adapters` | the Zephyr adapters one at a time: three events of a port controller; ways of two levels; three fault flags and one failed transfer | no event stranded (but messages the driver fails to hand over) or told twice, a steady VBUS told truly, one path at a time and in position, an overcurrent's hold released |
| `removing_vbus`, `pd_data_role`, `pd_preempted` | violations | see Findings |

Bounds of the `link_*` runs: `MaxMessages` (what a client submits), `MaxEvents` (callbacks
queued; two is enough for an outcome and an arrival to meet in either order), and in
`PhyReceive` one more copy of a message when the PHY retransmits. `IdCount` is 2 or 3
where the wrap matters, so that a wrap takes two or three messages and not eight;
8 where it must not. A port whose next Accept would exceed `MaxMessages` waits
with the Soft_Reset in its callbacks. The system comes to rest when the messages
are used up, hence `CHECK_DEADLOCK FALSE`.

Bounds of the Type-C runs: `MaxPlugs` (2: a connection, a pull, and a second one that
may be flipped), `MaxDirected` (one swap, reset or recovery, at any time: each reaches
through every state of both ports). In `tc_swap` a cable stays out for 13 ticks, more than
two hard reset windows, the hypothesis of `PlugIsTrue`. Times are scaled to a few ticks that keep
their order, except in `tc_prefers`, where it is their proportions that decide (150 ms
debounce, 100 ms Try, 700 ms Try timeout against a tick of 15 ms). There VBUS rests up to four ticks
on each of its two steps (`VbusLag` 4), so its fall may outlast the Try time of seven ticks and the rest
in `removing_vbus` is reached: without the exception (`HeldUp`) `PreferenceWins` fails. The cable
stays out for 24 ticks, longer than the Try states of the connection before; with 6 a replug
meets the Try.SRC port in TryWait.SNK, and it may end as the sink ("Seen while modelling"). A pair
whose two preferences agree on the roles is not in this run: either of them alone would decide it. In `port_alone` the
constraint `OneRuns` leaves the ports of the other tables before `start()`: five
machines in one run, one at a time. A pair that rests apart, or attached with all
moves used up, has nothing to do but let time pass, and the time out of a cable is
counted only up to `Gap`: `CHECK_DEADLOCK FALSE` in the `tc_*` runs.

Bounds of `pd_port`: one operating point at vSafe5V, `nHardResetCount` 1 and `nCapsCount` 0 in
place of 2 and 50 (a counter's two sides and its limit are all there; only repetitions
go), the features PR_Swap and VCONN. 86,933 states; with DR_Swap too it has 380,073 and
passes as well, and the theorems cover every choice.

Bounds of `pd_contract`: two operating points, one of them above vSafe5V, every feature, either
port the first source. `Budget` is a set of mixes: up to four wishes without a fault, or up
to two faults with one wish. Larger mixes meet what "Seen while modelling" lists: two faults
and two refusals leave a target nobody programmed, three wishes and an early timer a late
Accept. A pair under contract with its wishes used up rests: `CHECK_DEADLOCK FALSE`.

Bounds of `adapters`: three events of the port controller (a change, a message, a hard reset may
meet in each order, twice the same kind once gathered and once not); up to two
levels armed on the way of one report (a state entered and left again within it); both overcurrents and one flag that
comes and goes by itself, one failed transfer. The stack waits for an outcome before it
transmits again (`Overlaps` FALSE), which the protocol layer does but for its timer. An adapter
may have nothing to do: `CHECK_DEADLOCK FALSE`.


Fairness of `PdLink` (`FairSpec`): weak fairness of a PHY working off its job, of the
driver making its callbacks, and of a running timer expiring. All three are what the
driver contract and the timer service promise; nothing is assumed of the wire
or the clients. A client that requests hard resets without end restarts the timer
for ever, so `EveryTransmissionConcludes` holds for clients that stop; the engines
do (HardResetCounter).

Fairness of `TypeCLink` (`LinkFairness`): weak fairness of time and VBUS, of each port's
work (callbacks, timers, its queue), and of a source's engine bringing back or handing
over the supply it turned off. Nobody is assumed to plug, pull, or go on with a swap: the
standbys' own timeouts end what the other end does not. The two toggle periods in a run
differ, as those of two real oscillators do: with equal ones in lock-step two ports
chase each other for ever, which the Type-C specification leaves to the drift.

Fairness of `PdContract` (`FairSpec`): whenever the ports can move on without a fault or a
wish, in the end they do. It is the weak fairness of `Progress` without faults and wishes, with
`CanProgress` written out for its ENABLED. The code justifies it by its timers: a state that waits
for the partner is timed, a transmission has an outcome, a supply settles. Faults and wishes need
not come.

Fairness of the adapters: `alert()` returns and the work queue runs what is on it
(`AlertsFairness`); the kernel's clock runs (`SamplingFairness`); the system work queue runs the
fault handler (`PathFairness`). They are conjoined in `MCAdapters`, where those of the adapters
that do not move ask for nothing, their actions being disabled in the initial state.


## Proofs

All are for every value of the constants under the assumptions the modules name.

`PdLinkProofs`: any number of MessageIDs from two up, either retransmission kind, any
clients, late outcomes or not.

- `TypeCorrect`: `TypeOK`, inductive as it stands.
- `StreamsStayInOrder`: `StreamsInOrder`, the inductive invariant. The messages of a
  port on their way to the other port's client are one stream: the one last handed
  over, those in the callbacks, the one the PHY holds, the one in flight. Along it the
  numbers do not fall, equal numbers are the same message with the same MessageID,
  and the stored MessageID is that of the last message handed over. `DeliveredInOrder`
  alone says nothing of what is under way, so it is not inductive.
- `InOrder`: `DeliveredInOrder` follows.
- `RestartsFromZero`: `RestartsAtZero`, at both ends and for any clients. The invariant `Restarted`: a port
  whose client submitted nothing since the last hard reset, sent or heard, has no message in flight
  and its counter stands at 0; of the message submitted then the MessageID is 0. A detach or a soft reset in
  between changes nothing of that. Of the next connection nothing is said: there the timer of a message still in
  flight counts it after the restart ("Seen while modelling").
- `DropsRepeatsOrWraps`: `DropsOnlyRepeatsOrWraps`, for clients that do not reset (`NobodyResets`,
  the instance of `link_lossy`). The invariant `Counted`: the n-th message of a port carries the
  MessageID n - 1 modulo `IdCount` wherever it is on its way, the counter is that of the messages
  concluded, and the stored MessageID is that of the message last handed over. Two numbers with one
  MessageID are equal or at least `IdCount` apart, and the streams are in order. After a
  soft reset a Soft_Reset may itself be dropped as a repetition ("Seen while modelling").
- `ImplementsPromise`: `KeepsPromise`, the refinement of `MessageDelivery`, where outcomes come in time
  and no client hard resets (`OutcomesInTime`, the instance of `link_promise`). The invariant `Kept`:
  a PHY owes its layer one outcome, while it holds the message in flight and then in its callbacks; a
  success there says that the partner's PHY has answered that very message; and what is received
  was answered. A late outcome, or one from before a hard reset, is taken for the next
  message's, and with either the promise is false.

`TypeCProofs`: any set of ports, tables, times and slices. First the tables are read once:
the `Target...` lemmas say of every row where it may lead, by state and event. Then a
step is one that handles an event (`Handles`), or one of four that touch neither state nor
attachment (`Steps`), and every invariant is proved over these two kinds.

- `TypeCorrect`: `TypeOK` with `OfTable`, that a port stays in the states of its
  table; the later proofs need it to know that a table has a row for a state.
- `ConnectionsResolved`: `ConnectionResolved`, inductive: its clauses on the waits
  for VBUS are what a later attach rests on, its last one that `resolved` is false when an
  attach asks for it.
- `PlugKept`: `ConnectionKept` by the same lemma on what a transition leaves.
- `DetectionsFit`: `DetectionsFitThePull`, which needs that nothing is debounced under the
  rules that take no time (`OnlyDebounced`): the toggle changes the pull and not the
  rule, so a debounce running there would survive it.
- `NoWakeupLost`: `NoLostWakeup`, an invariant and an action property. A state that arms its level
  leaves on the report, so the report is owed as long as it waits (`ReportsOwed`). Two waits arm nothing, as the
  state before them watched the same level (`try_wait_src_rd_detected`, and `try_wait_snk_debounced` with an
  Rp): the report may have been made to that state, and they rest on what was asked at their entry.
  A step that puts one of them to sleep, the level met and told, finds it so already, or the driver with a
  report it has not made of VBUS having left the level (`LeftUntold`).
- `LockIsHonoured`: `LockHonoured`, by the table.

`TypeCLinkProofs`: any two tables, any times, any cable and engines.

- `LinkTypeCorrect`, with `OneConductor`: the two receptacles of a cable have one voltage.
- `PortsOnACable`: `LinkSpec` implements `Spec` of `TypeC`, so the theorems above hold of
  the ports of a cable.
- `NeverTwo`: `NeverTwoSources`. Call a port's *claim* that it is a source, or has a
  Rd reported (`Claims`). A port becomes a source on a reported Rd, or by the last step
  of a swap when the other end is in its standby. A Rd is reported only while the
  other port presents it, and that one is then no source and holds no Rd
  report (`DetectionsFitThePull`). So never do both claim. `HeldSeesRd` is the link between the
  wait for vSafe0V and the report it was entered on.
- `PlugIsTrue`: `TruePlug`, for a cable that stays out long enough (`LongGap`): longer than
  tPDDebounce and a standby after it, and longer than two hard reset windows. The hypothesis is
  what the code relies on: inside a hard reset window it looks at neither the CC pins nor a short
  loss of VBUS. The invariant `PlugInv` has five parts. While the cable is out, every state
  that holds a connection or waits for VBUS on a detection has a debounce or a timer running, and
  what is left of it plus the time out is bounded (`EndsRun`, `Ending`), so none of them sees the cable come
  back, but for two: a sink, which only VBUS detaches, and the states of Try.SRC, which keep a
  detection. What is seen, and held otherwise, is of the pin the wire is on (`Seen`, `HeldTruly`).
  Those two may be stale (`Stale`), and really are: VBUS can be gone for good before its report
  is made. But nobody powers a stale port (`StaleAlone`): its VBUS is below vSafe5V and its partner
  still has a debounce ahead of it before it can be a source, during which a tick passes, and no tick
  passes before the stale port's driver has told it that VBUS is gone or that Rp is on another pin. An
  attached sink whose VBUS is gone owes a report (`ReportsOwed`), which is where `TruePlug` looks
  away.
- `TheyStay`: `Stays`, from `PlugInv` and `SinkFar`. Nothing but a detection that the Rd is gone
  detaches a source unasked. A driver can report the line open under an attached source
  (`OpenSource`) only of a partner that presents no Rd; and the partner of such a source is far from a
  sink (`FarFromSink`): it presents no Rd, or waits for the Rp, a timer or a debounce that has just begun.
  Each of these takes a tick, and no tick passes before the driver has reported the Rd. So when the
  partner has become a sink, the source has none of it left to debounce.

`PdPortProofs`, `PdPortAloneProofs`, `PdContractProofs`: any operating points, features, revision
and counter limits, any environment; for the pair any faults and wishes in any number.

- `PortInOrder`: `InOrder`, the inductive invariant of a port between two handlers. Its parts:
  the types, each engine in a state of its own table; what the sink may draw in each of
  its states (`Drawing`); what Rp belongs to which state of the source (`RpShown`); in which states
  and under which contract an engine may be deaf (`Deafened`); that who is not the layer's client
  rests (`Solo`); that the client is the one `conn` calls for; that without a client nothing is
  in flight and VCONN is off (`Loose`). The four properties of a port follow, and none is
  inductive alone: that a retiring engine leaves nothing behind, for one, needs to know which
  engine was at work and in which of its states.
- The argument goes from the inside out: what a row may lead to (`SinkTable`, `SourceTable`), what
  entering a state writes, one event, an event with the word it emits, an engine's retirement,
  the directions, the handlers, the step.
- `PortTypeCorrect`, `OneEngine`, `ClientFits`, `DeafOnly`, `RpFits`, `ReadyContract`: the types and the
  properties `pd_port` checks, for every value of the constants.
- `NothingHalfway`: `NothingLeftHalfway`, by the invariant `InOrder` with `Through`: a sink which
  waits for the new source's VBUS does so only while the connection machine waits with it, so
  the PS_RDY it hears completes the swap there too. Which state an event may lead to is read off
  the rows (`Leads`, `Goes`) as far as `Transit` asks, then followed through the words the entered
  states emit (`OwnWord`) and the directions (`DirectedThrough`). The exception is one the code has:
  "Seen while modelling", a PR_Swap in a window.
- `NothingHeld`: for two ports and any faults and wishes `NothingInTransit` can fail in that way only
  (`HeldBack`).
- `PairStaysInOrder`, `ContractTypeCorrect`: two ports on a cable each stay in order, whatever is
  lost, and so have all of these properties.
- `NoTwoSources`: `NeverBothDrive`, for ports without VCONN_Swap (`NoVconnSwap`), any number of faults
  and wishes. A PS_RDY does not say what is ready. The invariant `PairOwes`: a port speaks
  as its state says (`Orderly`), and a sink whose state shows an explicit contract is owed no PS_RDY
  (`OwesPsRdy`). So the PS_RDY that makes an attached sink the new source is that of a partner
  which has turned sink. With VCONN_Swap the invariant is false, and so is the property beyond the budget of
  `pd_contract` ("Seen while modelling").

`PdFaultlessProofs`: any operating points, features, revision and counter limits, with or without a
cable that asks for VCONN, any number of wishes; behaviours up to their first fault.

- `NothingWrongUndisturbed`: `Undisturbed` as long as `faults` is 0, the inductive invariant. It says of
  each port that it is in order and hears (`Sound`), and of the two that they stand to each other in one of
  a list of ways (`Meeting`): apart (`Parting`); facing each other on the way to a contract (`Negotiating`),
  in a hard reset the source asked for (`Resetting`), in the half of a PR_Swap where the old source leaves
  the supply (`Swapping`) or the new one takes it (`Taking`); or under the contract (`Contracted`), in a
  conversation (`Conversing`): both free, an answer under way, a data role flipped at one end and
  not yet at the other, VCONN being handed over. Each way names both states, both transmissions, whether each
  has been heard, the supply and the roles: a message is never read apart from what its sender has done.
- `AgreedUnlessFaulty`, `DataRolesOpposite`, `VconnSourceOne`: `Agreement` as long as `faults` is 0, and
  `OppositeDataRoles` and `OneVconnSource`, which speak of such behaviours only. Of the ways the two can meet
  a settled pair is left with the one where both are free, and there the terms, the supply, the data roles
  and VCONN are what they should be. None of the three is inductive alone: what is agreed
  at rest depends on each answer being that to the question asked.
- `ThroughUnlessFaulty`: `NothingInTransit` as long as `faults` is 0, from `NothingHeld`: none of the ways has a
  port in the termination flip its connection machine does not follow (`FlipFollowed`).
- `OneDrivesUnlessFaulty`: `NeverBothDrive` as long as `faults` is 0, with VCONN_Swap, where `NoTwoSources` is
  without it and with any faults: of a pair in one of these ways one at most is an attached source.
- `PowerKeptUnlessFaulty`: every behaviour without a fault implements `PowerContract` (`KeepsPowerContract`),
  step by step. `Powering` is the picture in each state: a port may draw an operating point only as the sink of
  an explicit contract on these terms (`Drawing`), and then its partner is the source and the supply stands
  there (`Contracted`, or a PR_Swap whose sink has not yet gone to standby). A step which is not an
  attachment moves one port only (`OneMoves`): if it is the sink, the supply stays where it is; if it is the
  source while the sink draws, the supply stays too, since the sink draws afterwards as well.
- The argument: the rows these connections take (`Ways`) are in the tables and have no rival
  (`WaysHad`, `WaysOnly`), and what arrives where no row is for it changes nothing (`Ignored`); from it what an
  event with the word it emits makes of a port in each of the states; then the handlers, for a port under
  the contract and outside it; then the pair, one lemma for each kind of step, with the two
  ports in either order (`Pairs`).
- What holds the list together is that timers run out in turn. At a lull, with nothing in flight, nothing
  settling and VBUS seen by both, few of the ways are left (`MeetingLulls`). Outside the contract the source
  pauses there, and its timer is the shorter (`SourceIsFirst`): the sink, which waits for an offer, the
  PS_RDY or VBUS, is not the first to give up. Under the contract a lull finds each port
  at rest, warning with its Rp or with a question that crossed the other's, which the other ignores:
  the timer brings the question out, or the port back to Ready.
- `TermsAssumption` asks that no operating point is "off", "default" or "standby": a supply without output, and
  the limits of a sink without a contract and of one in a swap, are modelled as levels of their own.

`AdapterProofs`: for `Tcpc` any number of events, overlapping transmissions or not.

- `NeverStranded`, `OutcomesMatch`, `ReadingIsOfNow`: `NothingStranded`, `OneOutcomeEach`, `CcUpToDate`. The
  inductive invariant is `Kept`: types, that work is under way wherever an alert or a
  message waits (`Underway`), that an awaited outcome is in exactly one place
  (`InOnePlace`), and that the reading is of now unless a change waits.
- `AlertsTypeCorrect`: `AlertsTypeOK`, the log of what is under way included.

For `PowerPath` and `VbusMonitor` any faults and any number of failed transfers, any ways of the levels.

- `OnePath`, `StaysInPosition`, `NeverIntoItself`: `OnePathUnlessFailed`, `InPosition`,
  `NeverSourceIntoSink`. The invariant `Placed` counts failures: a path closed, unwanted and past its
  call took one (`Strays`), the other power path where one is wanted took one to be closed still and
  another to stay so past its call (`Crosses`). The device and the fault handler enter through
  what they may do to the switches (`HandlerEffect`).
- `PathTypeCorrect`: `PathTypeOK`; it needs to know of each call of `notifyEntry` which comes next.
- `SamplingGoesOn`: `SamplingTypeOK` with `Watching`, that a watched level's work item is queued or its
  delay runs whatever was cancelled while it ran, and `ToldLast`, that what the connection machine was told
  is the last sample or a report is owed: the safety half of `SteadyIsTold`.
- `EachAlone`: the three side by side implement each one's specification; so `AdaptersTypeCorrect`,
  `AdaptersTypeOK`.

Model-checked only:

- liveness (`EveryTransmissionConcludes`, `Connects`, `Disconnects`, `PreferenceWins`, `SettlesForGood`,
  `AllReported`, `SteadyIsTold`, `Recovers`): TLAPS has neither ENABLED nor fairness;
- once there was a fault: `NothingInTransit` without the exception of `NothingHeld`, `Agreement`, the refinement
  of `PowerContract` (`KeepsPowerContract`), and `NeverBothDrive` with VCONN_Swap. They hold within the budget of
  faults and wishes; with larger mixes the first two and the last fail ("Seen while modelling"), and the
  contract about power is stated up to one fault only (`Promised`). What makes them hold within it is how few faults there are, not a relation between
  the two ports' states.

`StreamsInOrder`, `LockHonoured`, `LinkTypeOK`, `PortTypeOK` and `TypeOK` of `PdContract` are proved and no
longer listed with a run; the role lock moves in `tc_swap` and `tc_prefers`, and `NeverTwo` covers a
moving lock for every table. No module declares a RECURSIVE operator: where the code has a loop, the
model has what the loop comes to, a set or a relation.

## Findings

Where the code departs from its own comments; each is a run TLC finds violated.

1. `removing_vbus`: a DRP that lost its sink removes VBUS at Rd, with no time limit. If the
   other end's Try.SRC detects that Rd and drives VBUS first, vSafe0V never comes and the state
   never ends (`state/TypeCDrp.hpp:294`). `Connects` names it as the one way not to attach,
   `PreferenceWins` as the one way not to become the sink.
2. `pd_data_role`: `startSwapWaitSourceOn()` takes the data role of the attach
   (`layer/SinkPolicyEngine.hpp:217`), not the one a DR_Swap has made of it: after a DR_Swap and a
   PR_Swap both ports announce the same data role in their headers.
3. `pd_preempted`: a discarded transmission is nothing to the engine
   (`layer/PolicyEngine.hpp:154`), which takes the preempting message for the next event. A source
   whose PS_RDY lost its GoodCRC and was then preempted drops that message in its state and
   waits, without a timer, for an outcome that does not come. `SettlesForGood` excepts the
   behaviours in which a message was preempted so (`preempted`) and no others.

Seen while modelling, without a run of their own:

Protocol layer
- a Soft_Reset has MessageID 0, as its sender has just reset; a receiver that last stored 0 drops
  it as a retransmission (`layer/ProtocolLayer.hpp:319`);
- a Soft_Reset whose GoodCRC was lost is handed over twice, as the reset it causes wipes the
  MessageID stored for it (`:322`);
- a queued success of an earlier message completes the hard reset before its
  signal is on the wire (`:291`);
- a message given up after the detach counts its MessageID after the restart (`:410`), so the next
  connection begins at 1.

Type-C machines
- the Try.SRC table leaves ErrorRecovery for Rp without asking the role lock
  (`state/TypeCDrp.hpp:621`);
- a flipped replug inside the hard reset window is resumed with the old orientation, as
  neither the CC pins nor a short loss of VBUS count there (`state/TypeCSink.hpp:245`); `Gap`
  excludes it from `TruePlug`;
- TryWait.SNK consumes the VBUS report before its debounce is up and then only asks
  (`state/TypeCDrp.hpp:526`), TryWait.SRC likewise (`:551`): a dip the polling misses is never
  told. `NoLostWakeup` names the case;
- a cable pulled as a Try.SRC port attaches, and back while VBUS falls or within tCCDebounce of that, finds it
  in TryWait.SNK: it may end as the sink of a port without preference. `Gap` excludes it
  from `PreferenceWins`;
- Try.SRC's attach does not ask for vSafe0V (`:505`);
- a standby that times out goes to Unattached.SNK, where `TypeCDrp.hpp:98` has it fall back to the
  role being left.

Policy engines and VCONN
- an Accept does not name what it accepts: a late one of a VCONN_Swap starts a PR_Swap the
  partner knows nothing of (three wishes and an early timer), and one of a Request may end a
  Soft_Reset (two lost messages);
- the source keeps its new target from the moment it decides, before the sink has the Accept
  (`state/SourcePolicyEngine.hpp:221`): a soft reset then leaves terms nobody programmed;
- a DR_Swap whose Accept lost its GoodCRC leaves both ports with the same data role;
- nor does a PS_RDY say what is ready (`state/SinkPolicyEngine.hpp:567`): with three wishes
  and four faults the late PS_RDY of a VCONN_Swap is taken for the one of a PR_Swap, and both ports
  drive VBUS;
- a VCONN swap broken by a reset leaves the VCONN machine in `turn_on` or `wait` until the detach; both
  or neither may power the cable, and the next swap hangs in `vcs_active`;
- a Not_Supported in Ready is answered with Not_Supported (`layer/PolicyEngine.hpp:236`): two ports
  may exchange them for ever;
- a Soft_Reset that arrives in the hard reset state takes the engine out of it, its Accept is
  refused by the layer, and no timer runs;
- a soft reset in the middle of a PR_Swap leaves the connection machine in its standby until
  tPSSourceOff;
- an open hard reset window does not keep the sink's engine from negotiating: a Soft_Reset takes it
  from Discovery to Ready there, and a PR_Swap agreed upon in the window, or in the standby of the
  swap before, rests in Assert_Rp without a timer of its own until the connection machine's runs
  out, as `completeSwap()` needs the standby of this swap (`TypeCDrp.hpp:122`);
- a parked swap request survives a reset and is made in the next contract;
- `SinkPower` restores the defaults only for a contract that was applied
  (`interface/Power.hpp:168`); a supply that loses regulation is not acted on (`:46`).

Zephyr adapters
- `poll()` schedules the next sample after the callback (`Vbus.cpp:148`), also when the callback's
  transition turned the monitoring off; `interface/Vbus.hpp:38` has the driver stop
  measuring;
- what `discharge()`, `sourcePath()` and `sinkPath()` return is ignored (`Vbus.cpp:51`): when the
  old path does not open, the new one closes all the same, against the comment above it;
- alerts gathered before a delivery leave in the order of the code, two of a kind as one
  (`Tcpc.cpp:275`); `interface/PdPhy.hpp:20` asks for one callback per event in order;
- a CC reading that fails is not repeated (`Tcpc.cpp:304`), nor a message's fetch (`:314`): it lies in the
  driver, and those behind it, until the next message's alert;
- the holder of the PHY is asked for once ahead of the outcomes (`Tcpc.cpp:283`): one that lets the PHY go
  upon the first leaves an empty callback to the second. It takes two transmissions that overlap;
- the fault handler reads the role when it runs, not at the fault
  (`st_tcpp03_m20.c:268`); only its reports depend on it, and nobody registers for them;
- the flag line interrupts on its edge (`:339`): a flag raised while another keeps the line active, a
  failed reading of the flags or a failed recovery leaves the switches open for good;
- two overcurrents are recovered one after the other from one reading: the second recovery
  opens what the stack has closed in between, and nobody is told.

## Not modelled

- Message formats (`spec/`): bit layouts and constants without state; what the engines tell
  apart of a message is in `PolicyEngine`.
- The protocol layer's SOP' and SOP'' counters (nothing is received on them), the BIST carrier.
- The port controller's pass-through calls (Rp value, VCONN, header roles, polarity), the
  initialisation of the devices, dead battery.
- The samples, which wire the library to boards; their `port.start()` in the main thread next to a
  running work queue is listed as a hazard. Every module takes the stack's calls as
  serialized, which the interfaces demand.
- Tests, the size report, board shields.

## Plan

A project of this size keeps to a dozen runs; a new one replaces or merges with one above.

1. done: the protocol layer, its environment, `MessageDelivery`, its theorems.
2. done: the Type-C machines, alone and on a cable, and their theorems.
3. done: the policy engines, VCONN and the port facades, alone and as a pair, `PowerContract`, and
   the theorems about a port.
4. done: the Zephyr adapters and the TCPP03-M20, and their theorems.
5. theorems left: a bound on faults under which `Agreement` and `KeepsPowerContract` are inductive.
6. compositions left: `PdContract` over `PdLink` instead of one message in flight, and `TypeCLink` under
   the engines instead of directives; both exceed what TLC finishes in minutes.
