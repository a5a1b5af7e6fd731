----------------------------- MODULE PdContract -----------------------------
(***************************************************************************)
(* Two ports (PdPort) on one cable: the messages and hard resets they      *)
(* exchange, VBUS as the sourcing port's supply drives it, the Rp the      *)
(* sinking one reads, and the detach each concludes from the other's.      *)
(*                                                                         *)
(* A transmission is heard by the partner's engine and then confirmed to   *)
(* the sender's, or fails after the layer's retries; PdLink models the     *)
(* layers in between.  What goes wrong - a failed transmission, a missed   *)
(* hard reset, a timer ahead of its turn, the plug pulled - is a fault,    *)
(* what an application or a policy decides of its own accord a wish; both  *)
(* are bounded.                                                            *)
(*                                                                         *)
(* Timers run out in the order of their durations: an exchange bounded by  *)
(* a short timer is over before a longer one waiting for it runs out.      *)
(***************************************************************************)
EXTENDS PdPort

CONSTANTS
  A, B,           \* the ports
  FirstSource,    \* those which may attach as the source
  Ra,             \* the cable asks for VCONN
  FaultKinds,     \* what may go wrong
  Budget          \* bound: the mixes <<faults, wishes>> a behaviour may have

ASSUME PairAssumption == A # B /\ FirstSource \subseteq {A, B}
ASSUME RaAssumption == Ra \in BOOLEAN
ASSUME FaultAssumption ==
  FaultKinds \subseteq {"preempted", "failed", "missed", "early", "unplugged"}
ASSUME BudgetAssumption == Budget \subseteq Nat \X Nat /\ <<0, 0>> \in Budget

Port == {A, B}
Peer(p) == IF p = A THEN B ELSE A

VARIABLES
  ports,    \* the two ports
  heard,    \* what a port is transmitting has reached the partner
  faults,   \* what went wrong so far
  wishes,   \* what was asked or refused so far
  preempted \* a message was preempted after it had been heard

vars == <<ports, heard, faults, wishes, preempted>>

live(p) == ports[p].client # "none"
Engine(p) == ports[p].eng[ports[p].client]
Transmitting(p) == ports[p].tx \notin {Idle, HardReset}

Init ==
  /\ ports = [p \in Port |-> NewPort]
  /\ heard = [p \in Port |-> FALSE]
  /\ faults = 0 /\ wishes = 0 /\ preempted = FALSE

\* The port p becomes g.  A new transmission has not been heard yet.
Becomes(p, g) ==
  /\ ports' = [ports EXCEPT ![p] = g]
  /\ heard' = [heard EXCEPT ![p] = heard[p] /\ g.tx = ports[p].tx]

Faultless == UNCHANGED <<faults, preempted>>
Fault(kind) ==
  kind \in FaultKinds /\ faults' = faults + 1 /\ <<faults', wishes>> \in Budget
  /\ preempted' = (preempted \/ kind = "preempted")
Wish == wishes' = wishes + 1 /\ <<faults', wishes'>> \in Budget

(***************************************************************************)
(* The wire.                                                               *)
(***************************************************************************)

\* What the partner's policy may say no to.
Questions == {"request", "pr_swap", "dr_swap", "vconn_swap"}

\* The partner hears the message; what it was transmitting itself is
\* discarded, and a hard reset it is about to signal comes first.  A message
\* of the partner already heard is as good as confirmed: to lose that is a
\* fault.
Deliver(p) ==
  LET q == Peer(p)
  IN /\ Transmitting(p) /\ ~heard[p] /\ live(q) /\ ports[q].tx # HardReset
     /\ IF heard[q] THEN Fault("preempted") ELSE Faultless
     /\ \E x \in Terms, yes \in BOOLEAN :
          /\ IF yes THEN UNCHANGED wishes ELSE Wish /\ ports[p].tx.type \in Questions
          /\ ports' = [ports EXCEPT ![q] = Received(ports[q], ports[p].tx, x, yes)]
          /\ heard' = [r \in Port |-> r = p]

Confirm(p) ==
  /\ Transmitting(p) /\ heard[p]
  /\ Becomes(p, TxDone(ports[p]))
  /\ Faultless /\ UNCHANGED wishes

\* Nobody there to answer, or a fault of the line - before or after the
\* partner heard the message.
Fail(p) ==
  /\ Transmitting(p)
  /\ IF live(Peer(p)) THEN Fault("failed") ELSE Faultless
  /\ ports' = [ports EXCEPT ![p] = TxError(ports[p])]
  /\ heard' = [heard EXCEPT ![p] = FALSE]
  /\ UNCHANGED wishes

Signal(p) ==
  LET q == Peer(p)
  IN /\ ports[p].tx = HardReset /\ ~heard[p] /\ live(q)
     /\ ports' = [ports EXCEPT ![q] = HardResetHeard(ports[q])]
     /\ heard' = [r \in Port |-> r = p]
     /\ Faultless /\ UNCHANGED wishes

\* The signal is on the wire; the partner missing it is a fault.
Signalled(p) ==
  /\ ports[p].tx = HardReset
  /\ IF live(Peer(p)) /\ ~heard[p] THEN Fault("missed") ELSE Faultless
  /\ Becomes(p, HardResetSent(ports[p]))
  /\ UNCHANGED wishes

(***************************************************************************)
(* VBUS, Rp and the attachment.                                            *)
(***************************************************************************)
Sourcing(p) == ports[p].conn = "attached_src"
VbusOn == \E p \in Port :
  Sourcing(p) /\ ports[p].supply.out # "off" /\ ~ports[p].supply.pending
VbusOff == \A p \in Port :
  Sourcing(p) => ports[p].supply.out = "off" /\ ~ports[p].supply.pending
SinkTxOk(p) == Sourcing(Peer(p)) /\ ports[Peer(p)].rp = "ok"

Settle(p) ==
  /\ ports[p].supply.pending
  /\ Becomes(p, SupplySettled(ports[p]))
  /\ Faultless /\ UNCHANGED wishes

\* VBUS gone in the window of a hard reset is expected, in Attached.SNK it is
\* the detach; back, it attaches the sink again.
VbusChanged(p) ==
  /\ \/ VbusOff /\ ports[p].conn = "hard_reset_snk" /\ Becomes(p, WindowVbusGone(ports[p]))
     \/ VbusOff /\ ports[p].conn = "attached_snk" /\ Becomes(p, Detached(ports[p]))
     \/ /\ VbusOn /\ ports[p].conn = "hard_reset_recover_snk"
        /\ Becomes(p, WindowVbusBack(ports[p], SinkTxOk(p)))
  /\ Faultless /\ UNCHANGED wishes

\* A source finds CC open when its partner presents no Rd.
CcOpen(p) ==
  /\ Sourcing(p) /\ ports[Peer(p)].conn \in {"detached", "error_recovery", "attached_src"}
  /\ Becomes(p, Detached(ports[p]))
  /\ Faultless /\ UNCHANGED wishes

SeeRp(p) ==
  /\ ports[p].conn = "attached_snk" /\ Sourcing(Peer(p))
  /\ ports[p].txok # SinkTxOk(p)
  /\ Becomes(p, RpSeen(ports[p], SinkTxOk(p)))
  /\ Faultless /\ UNCHANGED wishes

RecoveryOver(p) ==
  /\ ports[p].conn = "error_recovery" /\ ports[Peer(p)].conn \in {"detached", "error_recovery"}
  /\ Becomes(p, [ports[p] EXCEPT !.conn = "detached"])
  /\ Faultless /\ UNCHANGED wishes

\* p attaches as the source of its partner, whose sink sees VBUS.
Attach(p) ==
  LET q == Peer(p)
  IN /\ p \in FirstSource
     /\ \A r \in Port : ports[r].conn = "detached" /\ ~ports[r].supply.pending
     /\ ports' = [r \in Port |-> Attached(ports[r], IF r = p THEN "source" ELSE "sink",
                                          FALSE, Ra)]
     /\ heard' = [r \in Port |-> FALSE]
     /\ Faultless /\ UNCHANGED wishes

Unplug ==
  /\ \E p \in Port : live(p)
  /\ Fault("unplugged")
  /\ ports' = [p \in Port |-> IF ports[p].conn \in {"detached", "error_recovery"}
                              THEN ports[p] ELSE Detached(ports[p])]
  /\ heard' = [p \in Port |-> FALSE]
  /\ UNCHANGED wishes

(***************************************************************************)
(* Timers: the engines', the VCONN machine's tVCONNSourceTimeout, and the  *)
(* connection machine's for the states in which it expects VBUS to change. *)
(***************************************************************************)
Duration(s) ==
  CASE s \in {"sink_tx_wait_pr", "sink_tx_wait_dr"} -> 18
    [] s \in {"send_capabilities", "select_capability", "send_soft_reset",
              "send_dr_swap", "send_pr_swap", "vcs_send_swap"} -> 27
    [] s \in {"transition_supply_delay", "swap_transition_to_off",
              "swap_source_start"} -> 30
    [] s \in {"chunk_received", "bist_carrier"} -> 45
    [] s \in {"dr_swap_wait", "pr_swap_wait", "request_wait", "discovery"} -> 150
    [] s = "wait_for_capabilities" -> 465
    [] s = "transition_sink" -> 500
    [] s = "recover" -> 800
    [] s = "wait_no_response" -> 5000

ConnDuration(conn) ==
  CASE conn = "standby_to_snk" -> 435
    [] conn = "standby_to_src" -> 835
    [] conn \in {"hard_reset_snk", "hard_reset_recover_snk"} -> 6000

VconnDuration == 120

TimedConn == {"standby_to_snk", "standby_to_src",
              "hard_reset_snk", "hard_reset_recover_snk"}

Running(p) ==
  {Duration(ports[p].eng[r].pe) : r \in {q \in Role : ports[p].eng[q].pe \in Timed(q)}}
  \cup {d \in {VconnDuration} : ports[p].vconn = "wait"}
  \cup {ConnDuration(c) : c \in {ports[p].conn} \cap TimedConn}

\* Something is under way at p which takes less time than any timer.
Busy(p) ==
  \/ ports[p].tx # Idle \/ ports[p].supply.pending
  \/ VbusOff /\ ports[p].conn \in {"hard_reset_snk", "attached_snk"}
  \/ VbusOn /\ ports[p].conn = "hard_reset_recover_snk"
  \/ Sourcing(p) /\ ports[Peer(p)].conn \in {"detached", "error_recovery", "attached_src"}
  \/ ports[p].conn = "attached_snk" /\ Sourcing(Peer(p)) /\ ports[p].txok # SinkTxOk(p)

InTurn(d) == \A p \in Port : ~Busy(p) /\ \A other \in Running(p) : d <= other

\* Out of its turn only a timer runs out which a slow answer can outlast.
Sluggish == 30

Expires(d) ==
  /\ IF InTurn(d) THEN Faultless ELSE d <= Sluggish /\ Fault("early")
  /\ UNCHANGED wishes

PeTimer(p) ==
  \E r \in Role :
    /\ ports[p].eng[r].pe \in Timed(r)
    /\ Expires(Duration(ports[p].eng[r].pe))
    /\ Becomes(p, PeTimeout(ports[p], r))

VconnTimer(p) ==
  /\ ports[p].vconn = "wait"
  /\ Expires(VconnDuration)
  /\ Becomes(p, VconnTimeout(ports[p]))

\* tPSSourceOff, tPSSourceOn, the window of a hard reset: the detach.
ConnTimer(p) ==
  /\ ports[p].conn \in TimedConn
  /\ Expires(ConnDuration(ports[p].conn))
  /\ Becomes(p, Detached(ports[p]))

(***************************************************************************)
(* The applications.                                                       *)
(***************************************************************************)
Ask(p) ==
  /\ live(p) /\ Engine(p).pe = "ready" /\ Faultless /\ Wish
  /\ \/ \E seq \in {"pr_swap", "dr_swap"} \cap Features : Becomes(p, AskSwap(ports[p], seq))
     \/ "vconn" \in Features /\ Becomes(p, AskVconnSwap(ports[p]))

Progress(p) ==
  \/ Deliver(p) \/ Confirm(p) \/ Fail(p) \/ Signal(p) \/ Signalled(p)
  \/ Settle(p) \/ VbusChanged(p) \/ CcOpen(p) \/ SeeRp(p) \/ RecoveryOver(p)
  \/ Attach(p) \/ PeTimer(p) \/ VconnTimer(p) \/ ConnTimer(p)

Next == Unplug \/ \E p \in Port : Progress(p) \/ Ask(p)

Spec == Init /\ [][Next]_vars

\* A step which is neither a fault nor a wish is possible: where nothing is
\* under way, the timer whose turn it is runs out.
CanProgress ==
  \E p \in Port :
    \/ Busy(p) \/ Running(p) # {}
    \/ ports[p].conn = "error_recovery" /\ ports[Peer(p)].conn \in {"detached", "error_recovery"}
    \/ p \in FirstSource /\ \A r \in Port : ports[r].conn = "detached"

\* The ports, their timers and the wire between them do not stop; faults and
\* wishes need not come.  This is the weak fairness of Progress without
\* faults and wishes, written out with CanProgress for its ENABLED, which is
\* too expensive to evaluate.
FairSpec ==
  /\ Spec
  /\ []<>~CanProgress \/ []<><<UNCHANGED <<faults, wishes>>>>_vars

(***************************************************************************)
(* What is to hold of the connection.                                      *)
(***************************************************************************)
TypeOK ==
  /\ DOMAIN ports = Port /\ \A p \in Port : Typed(ports[p])
  /\ heard \in [Port -> BOOLEAN]
  /\ <<faults, wishes>> \in Budget
  /\ preempted \in BOOLEAN

\* Both ports rest in the contract: Ready, nothing under way, no timer running.
Settled ==
  \A p \in Port : live(p) /\ Engine(p).pe = "ready" /\ ~Busy(p) /\ Running(p) = {}

\* Two ports never drive VBUS against each other, mid PR_Swap included.
NeverBothDrive == ~(Sourcing(A) /\ Sourcing(B))

\* Settled, the ports agree on who sources and on what: the supply stands at
\* the terms of both.
Agreement ==
  Settled =>
    \E p \in Port :
      /\ Sourcing(p) /\ ports[Peer(p)].conn = "attached_snk"
      /\ Engine(p).terms = Engine(Peer(p)).terms
      /\ ports[p].supply = [out |-> Engine(p).terms, pending |-> FALSE]

\* Settled, the attachments have opposite data roles - unless an answer was
\* lost on the way.
OppositeDataRoles == Settled /\ faults = 0 => ports[A].data # ports[B].data

\* Settled, the ports announce opposite data roles in their headers.
OppositeHeaders == Settled /\ faults = 0 => ports[A].header # ports[B].header

\* No engine comes to rest in a state which only the other machines can
\* finish for it.
NothingInTransit == \A p \in Port, r \in Role : ports[p].eng[r].pe \notin Transit(r)

\* Settled, the cable is powered by exactly one of the ports - unless a reset
\* broke into the hand-over.
OneVconnSource ==
  Settled /\ faults = 0 /\ Ra /\ "vconn" \in Features =>
    \E p \in Port : ports[p].vconn = "source" /\ ports[Peer(p)].vconn = "off"

\* A transmission was preempted whose outcome alone could move the engine on:
\* it waits for good, or until the partner or the application moves it.
OutcomeOnly(r) == {s \in States(r) \ Timed(r) : \E row \in Rows[r][s] : row[2] = "message_sent"}

Stranded ==
  \E p \in Port : live(p) /\ ports[p].tx = Idle /\ Engine(p).pe \in OutcomeOnly(ports[p].client)

NeverStranded == ~Stranded

\* Once nothing goes wrong any more and nobody asks, the ports end up under a
\* contract and stay there - after lost, missed and failed messages, resets,
\* early timers and an unplugged cable.  Only a message preempted after it
\* was heard may keep them from it: the outcome is never told to the engine
\* (the empty onTxDiscarded), and a port is left stranded for ever.
SettlesForGood == <>[]Settled \/ <>[](preempted /\ Stranded)

(***************************************************************************)
(* The ports keep what PowerContract promises, one fault notwithstanding.  *)
(* With two messages lost the sink may take the Accept of its Request for  *)
(* that of its Soft_Reset, and draw while the supply moves.                *)
(***************************************************************************)
Promised == NeverBothDrive /\ faults <= 1

Provided ==
  IF Promised /\ \E p \in Port : Sourcing(p)
  THEN LET supply == ports[CHOOSE p \in Port : Sourcing(p)].supply
       IN IF supply.pending THEN "changing" ELSE supply.out
  ELSE "off"

Drawn ==
  LET limits == {ports[p].power["sink"].limit : p \in Port} \cap Terms
  IN IF Promised /\ limits # {} THEN CHOOSE t \in limits : TRUE ELSE None

Promise == INSTANCE PowerContract WITH supply <- Provided, load <- Drawn
KeepsPowerContract == Promise!Spec
=============================================================================
