------------------------------- MODULE PdPort -------------------------------
(***************************************************************************)
(* One USB PD port as PdDrp.hpp assembles it: the two policy engines of    *)
(* layer/SinkPolicyEngine.hpp and layer/SourcePolicyEngine.hpp on their    *)
(* common base, the VCONN machine, the power interfaces, and the           *)
(* directions by which engines and connection machine move each other.  A  *)
(* PdSink or a PdSource is the port which takes one role and has no swap   *)
(* feature.                                                                *)
(*                                                                         *)
(* An operator takes the port's state and yields the state after the whole *)
(* handler.  PdPortAlone runs one port against an open environment,        *)
(* PdContract two ports against each other.                                *)
(*                                                                         *)
(* The connection machine is reduced to the states an engine can tell      *)
(* apart (TypeC models it in full), the protocol layer to one message in   *)
(* flight (ProtocolLayer models it in full).                               *)
(***************************************************************************)
EXTENDS SinkPolicyEngine, SourcePolicyEngine, Vconn

Conn == {"detached", "attached_snk", "attached_src", "hard_reset_snk",
         "hard_reset_recover_snk", "standby_to_src", "standby_to_snk",
         "error_recovery"}

States(r) == IF r = "sink" THEN SinkStates ELSE SourceStates
Resting(r) == IF r = "sink" THEN "discovery" ELSE "startup"
Timed(r) == IF r = "sink" THEN SinkTimed ELSE SourceTimed
Level(r, s) == IF r = "sink" THEN SinkLevel(s) ELSE SourceLevel(s)

(***************************************************************************)
(* Machine-owned context of an engine: pe_connection (data, count,         *)
(* attached), pe_negotiation and src_negotiation (explicit, pending,       *)
(* terms - the request accepted, or the supply's target -, caps,           *)
(* connected), and the engine's own data_role_, bist_test_data_ and        *)
(* pending_sequence_ (parked).                                             *)
(***************************************************************************)
NoNegotiation(en) ==
  [en EXCEPT !.explicit = FALSE, !.pending = None, !.terms = None,
             !.caps = 0, !.connected = FALSE]

NoConnection(r, en) ==
  [en EXCEPT !.data = defaultDataRole(r), !.count = 0, !.attached = FALSE]

Counted(n, limit) == IF n < limit THEN n + 1 ELSE n

\* The constructors of the states: what entering s by the event e, with the
\* operating point x, writes into the context.
Context(r, en, s, e, x) ==
  LET at == [en EXCEPT !.pe = s]
  IN CASE s = "startup" /\ (r = "source" \/ e = "vbus_removed") ->
            NoNegotiation(NoConnection(r, at))
       [] \/ s = "transition_to_default"
          \/ s = "startup" /\ r = "sink" /\ e # "vbus_removed" ->
            NoNegotiation(at)
       [] s = "ready" -> [at EXCEPT !.explicit = TRUE, !.connected = (r = "source")]
       [] s \in {"evaluate_capability", "negotiate_capability"} ->
            [at EXCEPT !.count = 0]
       [] s = "select_capability" /\ e = "capabilities_evaluated" ->
            [at EXCEPT !.pending = x]
       [] s = "transition_sink" -> [at EXCEPT !.terms = en.pending]
       [] s = "transition_supply" -> [at EXCEPT !.terms = x]
       [] s = "hard_reset" ->
            [at EXCEPT !.count = Counted(en.count, nHardResetCount + 1)]
       [] s = "send_capabilities" ->
            [at EXCEPT !.caps = Counted(en.caps, nCapsCount + 1),
                       !.attached = (en.attached \/ e = "attached")]
       [] s = "swap_source_on" ->
            [at EXCEPT !.attached = TRUE, !.data = en.role, !.connected = TRUE]
       [] s = "swap_wait_source_on" -> [at EXCEPT !.data = en.role]
       [] s = "swap_source_start" -> [at EXCEPT !.caps = 0]
       [] s = "dr_swap_change" -> [at EXCEPT !.data = Other(en.data)]
       [] OTHER -> at

(***************************************************************************)
(* The observers of an engine's machine.                                   *)
(***************************************************************************)

\* mutant of Powered: only a new contract's edge arms the application
PoweredAfterTransition(r, w, from, s, terms) ==
  LET edge == Level(r, from) = "transition" /\ Level(r, s) = "explicit_contract"
      armed == w.armed \/ edge
  IN IF s = "ready" /\ armed
     THEN [limit |-> terms, armed |-> FALSE, active |-> TRUE]
     ELSE IF r = "sink" /\ s \in StandbyLimited
     THEN [w EXCEPT !.limit = "standby", !.armed = armed]
     ELSE IF w.active /\ s \in (IF r = "sink" THEN SinkRestores
                                ELSE {"startup", "restore_default"})
     THEN [limit |-> "default", armed |-> armed, active |-> FALSE]
     ELSE [w EXCEPT !.armed = armed]

\* SinkPower and SourcePower: the level's edge to Explicit Contract marks
\* the application pending for the terms Ready delivers.
Powered(r, w, from, s, terms) ==
  LET edge == Level(r, from) # Level(r, s)
      armed == IF edge THEN Level(r, s) = "explicit_contract" ELSE w.armed
  IN IF s = "ready" /\ armed
     THEN [limit |-> terms, armed |-> FALSE, active |-> TRUE]
     ELSE IF r = "sink" /\ s \in StandbyLimited
     THEN [w EXCEPT !.limit = "standby", !.armed = armed]
     ELSE IF w.active /\ s \in (IF r = "sink" THEN SinkRestores
                                ELSE {"startup", "restore_default"})
     THEN [limit |-> "default", armed |-> armed, active |-> FALSE]
     ELSE [w EXCEPT !.armed = armed]

\* SourceSupply: a new operating point, whose completion is then awaited.
Programmed(supply, s, target) ==
  IF s = "transition_supply_settle" THEN [out |-> target, pending |-> TRUE]
  ELSE IF s \in SupplyOff THEN [out |-> "off", pending |-> TRUE]
  ELSE IF s \in SupplySafe5V THEN [out |-> "safe5v", pending |-> TRUE]
  ELSE supply

\* mutant of Presented: the advertisement is not shown again
PresentedOnce(rp, en, from, s) ==
  IF s = "ready" /\ Rev3 THEN "ok"
  ELSE IF s \in {"sink_tx_wait_dr", "sink_tx_wait_pr"} /\ Rev3 /\ en.explicit THEN "ng"
  ELSE rp

\* ActionDriver: the Rp of collision avoidance under a PD3 contract, the
\* advertisement once the level is another.
Presented(rp, en, from, s) ==
  IF s = "ready" /\ Rev3 THEN "ok"
  ELSE IF s \in {"sink_tx_wait_dr", "sink_tx_wait_pr"} /\ Rev3 /\ en.explicit THEN "ng"
  ELSE IF SourceLevel(s) # "explicit_contract" /\ SourceLevel(from) # SourceLevel(s)
  THEN "advertised"
  ELSE rp

\* PrlPort: the layer takes one transmission at a time and refuses the next,
\* a hard reset displaces whatever is in flight; only its client is heard.
\* The capabilities do not go through the port: nobody asks who is live.
Sends(r, en, s, e) ==
  IF r = "sink" THEN SinkSends(s, e, en.pending) ELSE SourceSends(s, e)

Transmits(g, r, en, s, e) ==
  IF s = "hard_reset" /\ g.client = r THEN HardReset
  ELSE IF g.tx = Idle /\ (g.client = r \/ s = "send_capabilities")
  THEN Sends(r, en, s, e)
  ELSE g.tx

\* The engine r enters a state, `en' being its context there.  The DR_Swap's
\* flip reaches the header and, in an attached state, the attachment
\* (applyDataRoleSwap).
Enter(g, r, en, e) ==
  LET from == g.eng[r].pe
      flips == en.pe = "dr_swap_change"
  IN [g EXCEPT
       !.eng[r] = en,
       !.tx = Transmits(g, r, en, en.pe, e),
       !.header = IF flips /\ g.client = r THEN en.data ELSE g.header,
       !.data = IF flips /\ g.conn \in {"attached_snk", "attached_src"}
                THEN Other(g.data) ELSE g.data,
       !.power[r] = Powered(r, g.power[r], from, en.pe, en.terms),
       !.supply = IF r = "source" THEN Programmed(g.supply, en.pe, en.terms)
                  ELSE g.supply,
       !.rp = IF r = "source" THEN Presented(g.rp, en, from, en.pe) ELSE g.rp,
       !.vconn = VconnNext(g.vconn, VconnHears(en.pe))]

(***************************************************************************)
(* The machine: one event, and the word the state entered emits - an       *)
(* exchange's end, a gate open already, the policy's verdict, the VCONN    *)
(* machine's switch.                                                       *)
(***************************************************************************)
Holds(g, r, yes) ==
  LET en == g.eng[r]
  IN {q \in {"hard_resets_left", "explicit_contract_holds", "no_hard_reset_yet",
             "caps_count_allows", "pd_was_connected", "still_attached",
             "vconn_source_role_held", "pr_swap_allowed", "dr_swap_allowed",
             "vconn_swap_allowed"} :
        CASE q = "hard_resets_left" -> en.count <= nHardResetCount
          [] q = "explicit_contract_holds" -> en.explicit
          [] q = "no_hard_reset_yet" -> en.count = 0
          [] q = "caps_count_allows" -> en.caps <= nCapsCount
          [] q = "pd_was_connected" -> en.connected
          [] q = "still_attached" -> en.attached
          [] q = "vconn_source_role_held" -> "vconn" \in Features /\ g.vconn \in RoleHeld
          [] q = "pr_swap_allowed" -> "pr_swap" \in Features /\ yes
          [] q = "dr_swap_allowed" -> "dr_swap" \in Features /\ yes
          [] q = "vconn_swap_allowed" -> "vconn" \in Features /\ yes}

Rows == [r \in Role |->
           [s \in States(r) |->
              {row \in IF r = "sink" THEN SinkRows ELSE SourceRows : row[1] = s}]]

Taken(g, r, e, yes) ==
  LET holds == Holds(g, r, yes)
  IN {row \in Rows[r][g.eng[r].pe] :
        row[2] = e /\ row[3] \subseteq holds /\ row[4] \cap holds = {}}

Take(g, r, taken, e, x) ==
  IF taken = {} THEN g
  ELSE Enter(g, r, Context(r, g.eng[r], (CHOOSE row \in taken : TRUE)[5], e, x), e)

Step(g, r, e, x, yes) == Take(g, r, Taken(g, r, e, yes), e, x)

\* sinkTxAllows(): collision avoidance applies under a PD3 contract.
SinkTxAllows(g) == ~Rev3 \/ ~g.eng["sink"].explicit \/ g.txok

\* mutant of Emits: the policy's no is no word to the machine
EmitsNoRefusal(g, h, r, yes) ==
  LET s == h.eng[r].pe
  IN IF s = g.eng[r].pe THEN "none"
     ELSE CASE s \in {"dr_swap_change", "vcs_partner_on", "vcs_ps_rdy_sent"} ->
            "swap_finished"
       [] s = "evaluate_capability" -> "capabilities_evaluated"
       [] s = "negotiate_capability" -> IF yes THEN "request_ok" ELSE "none"
       [] s = "vcs_active" /\ g.vconn # "turn_on" /\ h.vconn = "turn_on" ->
            "send_vconn_ps_rdy"
       [] OTHER -> "none"

Emits(g, h, r, yes) ==
  LET s == h.eng[r].pe
  IN IF s = g.eng[r].pe THEN "none"
     ELSE CASE s \in {"dr_swap_change", "vcs_partner_on", "vcs_ps_rdy_sent"} ->
            "swap_finished"
       [] s \in Gates /\ SinkTxAllows(h) -> Retry(s)
       [] s = "evaluate_capability" -> "capabilities_evaluated"
       [] s = "negotiate_capability" -> IF yes THEN "request_ok" ELSE "request_bad"
       [] s = "vcs_active" /\ g.vconn # "turn_on" /\ h.vconn = "turn_on" ->
            "send_vconn_ps_rdy"
       [] OTHER -> "none"

Follow(g, h, r, x, yes) == Step(h, r, Emits(g, h, r, yes), x, yes)

Process(g, r, e, x, yes) == Follow(g, Step(g, r, e, x, yes), r, x, yes)

(***************************************************************************)
(* Going live and retiring.  The layer's client is the live engine; taking *)
(* it stamps the roles into the header.                                    *)
(***************************************************************************)
takeLayer(g, r) == [g EXCEPT !.client = r, !.header = g.eng[r].role]

\* mutant of leaveLayer: a retiring engine releases the other's layer, too
leaveLayerOfAny(g, r) == [g EXCEPT !.client = "none", !.eng[r].deaf = FALSE]

leaveLayer(g, r) ==
  [g EXCEPT !.client = IF g.client = r THEN "none" ELSE g.client,
            !.eng[r].deaf = FALSE]

\* attached_data_role: both engines hear the role ahead of the attach.
AnnounceData(g) ==
  [g EXCEPT !.eng = [r \in Role |-> [g.eng[r] EXCEPT !.role = g.data]]]

\* mutant of vbusRemoved: the parked request survives the connection
vbusRemovedParked(g) ==
  Process(Process(leaveLayer(g, "sink"), "sink", "vbus_removed", None, FALSE),
          "sink", "started", None, FALSE)

vbusRemoved(g) ==
  LET quiet == [leaveLayer(g, "sink") EXCEPT !.eng["sink"].parked = "none"]
  IN Process(Process(quiet, "sink", "vbus_removed", None, FALSE),
             "sink", "started", None, FALSE)

detached(g) == Process(leaveLayer(g, "source"), "source", "detached", None, FALSE)

Retire(g) ==
  IF g.client = "sink" THEN vbusRemoved(g)
  ELSE IF g.client = "source" THEN detached(g)
  ELSE g

\* sinkTxChanged(ok): a request in its gate fires, then the one parked - once.
Swap(seq) == IF seq = "pr_swap" THEN "send_pr_swap" ELSE "send_dr_swap"

fireGated(g) ==
  LET s == g.eng["sink"].pe
  IN IF s \in Gates THEN Process(g, "sink", Retry(s), None, FALSE) ELSE g

firePending(g) ==
  LET parked == g.eng["sink"].parked
      cleared == [g EXCEPT !.eng["sink"].parked = "none"]
  IN IF parked # "none" /\ g.eng["sink"].pe = "ready"
     THEN Process(cleared, "sink", Swap(parked), None, FALSE)
     ELSE cleared

sinkTxChanged(g, ok) ==
  LET seen == [g EXCEPT !.txok = ok]
  IN IF ok THEN firePending(fireGated(seen)) ELSE seen

(***************************************************************************)
(* The directions of the engines to the connection machine, executed when  *)
(* the state is entered, and what the connection machine's new state means *)
(* for the engines (PdDrp's connection_directions).                        *)
(***************************************************************************)
vbusPresent(g) == Process(takeLayer(g, "sink"), "sink", "vbus_present", None, FALSE)

\* completeSwap() into Attached.SRC: the sink engine retires, the source
\* engine continues the connection.
CompleteToSource(g) ==
  LET there == AnnounceData([g EXCEPT !.conn = "attached_src"])
  IN Process(takeLayer(vbusRemoved(there), "source"),
             "source", "attached_swap", None, FALSE)

\* beginSwapToSink(): the sink engine takes the layer, the source's retires.
BeginSwapToSink(g) ==
  LET there == takeLayer([g EXCEPT !.conn = "standby_to_snk"], "sink")
  IN detached(Process(there, "sink", "swap_wait_source_on", None, FALSE))

\* completeSwap() into Attached.SNK, with the Rp the port sees there.
CompleteToSink(g) ==
  LET there == sinkTxChanged(AnnounceData([g EXCEPT !.conn = "attached_snk"]), g.txok)
  IN Process(Process(there, "sink", "swap_done", None, FALSE),
             "sink", "vbus_present", None, FALSE)

\* hardResetWindow(), which only Attached.SNK opens, and afterHardReset().
SinkAfterHardReset(g) ==
  LET window == IF g.conn = "attached_snk"
                THEN [g EXCEPT !.conn = "hard_reset_snk"] ELSE g
  IN Process(Process(window, "sink", "default_level_reached", None, FALSE),
             "sink", "started", None, FALSE)

\* The connection ends: the layer forgets the partner, VCONN goes off, the
\* live engine retires.
Disconnect(g, to) ==
  Retire([g EXCEPT !.conn = to, !.tx = Idle,
                   !.vconn = VconnNext(g.vconn, "detached")])

\* What the connection machine is directed to do as the port g has become h.
Directed(g, h) ==
  LET entered(r) == IF h.eng[r].pe = g.eng[r].pe THEN "none" ELSE h.eng[r].pe
      snk == entered("sink")
      src == entered("source")
  IN IF snk = "swap_transition_to_off" /\ h.conn = "attached_snk"
     THEN [h EXCEPT !.conn = "standby_to_src"]
     ELSE IF snk = "swap_assert_rp" /\ h.conn = "standby_to_src" THEN CompleteToSource(h)
     ELSE IF src = "swap_assert_rd" /\ h.conn = "attached_src" THEN BeginSwapToSink(h)
     ELSE IF snk = "swap_source_on_seen" /\ h.conn = "standby_to_snk" THEN CompleteToSink(h)
     ELSE IF snk = "transition_to_default" THEN SinkAfterHardReset(h)
     ELSE IF "error_recovery" \in {snk, src} THEN Disconnect(h, "error_recovery")
     ELSE h

\* An event at the engine r, with everything it sets in motion.
Handle(g, r, e, x, yes) == Directed(g, Process(g, r, e, x, yes))

\* The states which only the machine's own word or another machine leads out of:
\* a handler passes through them.
Transit(r) ==
  {"dr_swap_change", "vcs_partner_on", "vcs_ps_rdy_sent", "error_recovery"} \cup
  IF r = "sink"
  THEN {"startup", "evaluate_capability", "swap_assert_rp", "swap_source_on_seen",
        "transition_to_default"}
  ELSE {"negotiate_capability", "swap_assert_rd"}

(***************************************************************************)
(* The connection machine's facts.                                         *)
(***************************************************************************)

\* A fresh attach: the data role follows the power role; the Rp in the CC
\* report seeds the sink's view, Ra in the source's turns VCONN on.
Attached(g, r, ok, ra) ==
  LET conn == IF r = "sink" THEN "attached_snk" ELSE "attached_src"
      there == AnnounceData([g EXCEPT !.conn = conn, !.data = defaultDataRole(r)])
      vconn == IF ra /\ "vconn" \in Features
               THEN VconnNext(g.vconn, "attached_source_ra") ELSE g.vconn
  IN IF r = "sink" THEN vbusPresent(sinkTxChanged(there, ok))
     ELSE Process(takeLayer([there EXCEPT !.vconn = vconn], "source"),
                  "source", "attached", None, FALSE)

Detached(g) == Disconnect(g, "detached")

\* VBUS in the window of a hard reset: gone, then back - Attached.SNK again,
\* the attachment's data role as it was.
WindowVbusGone(g) == [g EXCEPT !.conn = "hard_reset_recover_snk"]

WindowVbusBack(g, ok) ==
  vbusPresent(sinkTxChanged(AnnounceData([g EXCEPT !.conn = "attached_snk"]), ok))

(***************************************************************************)
(* The layer's reports (PrlPort).                                          *)
(***************************************************************************)

\* contractVoltage() = vSafe5V: what BIST asks for
At5VContract(en) == en.explicit /\ en.terms \in At5V

\* dispatch(): the event a message is for the engine r, "none" for those it
\* drops without asking the machine.
EventOf(g, r, type) ==
  CASE type = "source_capabilities" /\ r = "sink" -> "source_capabilities"
    [] type = "request" /\ r = "source" -> "request"
    [] type = "get_source_cap" ->
         IF r = "source" THEN "get_source_caps"
         ELSE IF DualRole THEN "send_source_caps" ELSE "unsupported"
    [] type = "get_sink_cap" ->
         IF r = "sink" \/ DualRole THEN "send_sink_capabilities" ELSE "unsupported"
    [] type \in {"accept", "reject", "wait", "ps_rdy"} -> type
    [] type = "dr_swap" -> "dr_swap_received"
    [] type = "pr_swap" -> "pr_swap_received"
    [] type = "vconn_swap" -> "vconn_swap_received"
    [] type = "soft_reset" -> "soft_reset_received"
    [] type = "bist_carrier" -> IF At5VContract(g.eng[r]) THEN "bist_carrier" ELSE "none"
    [] type = "bist_test_data" -> "none"
    [] type = "chunked" -> "chunked_message"
    [] OTHER -> "unsupported"

\* A message the layer delivers; it preempts the own one in flight, of which
\* the engine hears nothing more (onTxDiscarded).  `x' is the policy's pick
\* from the capabilities, `yes' its answer to a request.
Received(g, m, x, yes) ==
  LET r == g.client
      preempted == [g EXCEPT !.tx = IF g.tx = HardReset THEN g.tx ELSE Idle]
      en == g.eng[r]
  IN IF en.deaf THEN preempted
     ELSE IF m.type = "bist_test_data" /\ At5VContract(en) /\ en.pe = "ready"
     THEN [preempted EXCEPT !.eng[r].deaf = TRUE]
     ELSE Handle(preempted, r, EventOf(g, r, m.type),
                 IF m.type = "request" THEN m.terms ELSE x, yes)

\* onTxDone(); the first acknowledged Source_Capabilities makes the partner
\* a PD partner (an internal transition).
TxDone(g) ==
  LET r == g.client
      sent == [g EXCEPT !.tx = Idle]
  IN IF g.eng[r].pe = "send_capabilities"
     THEN [sent EXCEPT !.eng[r].connected = TRUE]
     ELSE Handle(sent, r, "message_sent", None, FALSE)

TxError(g) == Handle([g EXCEPT !.tx = Idle], g.client, "protocol_error", None, FALSE)

\* mutant of HardResetHeard: the BIST test mode goes on
HardResetHeardDeaf(g) ==
  Handle([g EXCEPT !.tx = Idle], g.client, "hard_reset_received", None, FALSE)

\* onHardReset() and onHardResetSent(): the BIST test mode ends.
HardResetHeard(g) ==
  Handle([g EXCEPT !.tx = Idle, !.eng[g.client].deaf = FALSE],
         g.client, "hard_reset_received", None, FALSE)

HardResetSent(g) ==
  Handle([g EXCEPT !.tx = Idle, !.eng[g.client].deaf = FALSE],
         g.client, "hard_reset_complete", None, FALSE)

(***************************************************************************)
(* Timers, the supply, the CC line, the application.                       *)
(***************************************************************************)
PeTimeout(g, r) == Handle(g, r, "timeout", None, FALSE)

SupplySettled(g) ==
  Handle([g EXCEPT !.supply.pending = FALSE], "source", "supply_settled", None, FALSE)

\* tVCONNSourceTimeout: the hard reset is asked of the live engine.
VconnTimeout(g) ==
  Handle([g EXCEPT !.vconn = VconnNext(g.vconn, "timeout")],
         g.client, "hard_reset_request", None, FALSE)

RpSeen(g, ok) == Directed(g, sinkTxChanged(g, ok))

\* requestPowerSwap(), requestDataSwap(): sent from Ready; under SinkTxNG the
\* sink parks the request, under PD3 the source warns first.
AskSwap(g, seq) ==
  LET r == g.client
  IN IF r = "sink" /\ g.eng[r].pe # "ready" THEN g
     ELSE IF r = "sink" /\ ~SinkTxAllows(g) THEN [g EXCEPT !.eng[r].parked = seq]
     ELSE Handle(g, r, IF r = "sink" \/ ~Rev3 THEN Swap(seq)
                       ELSE IF seq = "pr_swap" THEN "begin_pr_swap"
                       ELSE "begin_dr_swap", None, FALSE)

AskVconnSwap(g) == Handle(g, g.client, "send_vconn_swap", None, FALSE)

(***************************************************************************)
(* The port before its first attach.                                       *)
(***************************************************************************)
NewEngine(r) ==
  [pe |-> Resting(r), data |-> defaultDataRole(r), count |-> 0, explicit |-> FALSE,
   pending |-> None, terms |-> None, role |-> defaultDataRole(r), deaf |-> FALSE,
   attached |-> FALSE, caps |-> 0, connected |-> FALSE, parked |-> "none"]

NewPort ==
  [conn |-> "detached", data |-> "ufp", client |-> "none", header |-> "ufp",
   tx |-> Idle, eng |-> [r \in Role |-> NewEngine(r)],
   power |-> [r \in Role |-> [limit |-> "default", armed |-> FALSE, active |-> FALSE]],
   supply |-> [out |-> "safe5v", pending |-> FALSE],
   rp |-> "advertised", txok |-> TRUE, vconn |-> "off"]

EngineType(states) ==
  [pe : states, data : DataRole,
   count : 0..(nHardResetCount + 1), explicit : BOOLEAN,
   pending : Terms \cup {None}, terms : Terms \cup {None}, role : DataRole,
   deaf : BOOLEAN, attached : BOOLEAN, caps : 0..(nCapsCount + 1),
   connected : BOOLEAN, parked : {"none", "pr_swap", "dr_swap"}]

PowerType ==
  [limit : Terms \cup {None, "default", "standby"}, armed : BOOLEAN, active : BOOLEAN]

\* Every part of a port is in its domain, and each engine in a state of its table.
Typed(g) ==
  /\ g \in
       [conn : Conn, data : DataRole, client : Role \cup {"none"}, header : DataRole,
        tx : [type : ControlType \cup DataType \cup {"idle", "hard_reset"},
              terms : Terms \cup {None}],
        eng : [Role -> EngineType(SinkStates \cup SourceStates)],
        power : [Role -> PowerType],
        supply : [out : Terms \cup {None, "off", "safe5v"}, pending : BOOLEAN],
        rp : {"advertised", "ok", "ng"}, txok : BOOLEAN, vconn : VconnState]
  /\ \A r \in Role : g.eng[r].pe \in States(r)
=============================================================================
