-------------------------- MODULE PdContractProofs --------------------------
(***************************************************************************)
(* Theorems about PdContract: whatever the faults and the wishes, the two  *)
(* ports stay in order, each by the lemmas about its handlers, and they    *)
(* never drive VBUS against each other unless they swap VCONN.             *)
(***************************************************************************)
EXTENDS PdContract, PdPortProofs

\* Both ports are in order, and the budget is kept.
PairInOrder ==
  /\ DOMAIN ports = Port /\ \A p \in Port : InOrder(ports[p])
  /\ heard \in [Port -> BOOLEAN]
  /\ <<faults, wishes>> \in Budget

\* Nothing under way says that nobody is live, nor does a timer.
LEMMA Lives ==
  ASSUME PairInOrder, NEW p \in Port, ports[p].tx # Idle
  PROVE  ports[p].client # "none"
  BY DEF PairInOrder, InOrder, Loose

\* A port which hands over to a state in order leaves the pair in order.
LEMMA BecomesInOrder ==
  ASSUME PairInOrder, NEW p \in Port, NEW g, InOrder(g), Becomes(p, g),
         <<faults', wishes'>> \in Budget
  PROVE  PairInOrder'
<1>1. heard' \in [Port -> BOOLEAN]
  BY DEF Becomes, PairInOrder
<1>2. DOMAIN ports' = Port /\ \A q \in Port : InOrder(ports'[q])
  BY DEF Becomes, PairInOrder
<1> QED BY <1>1, <1>2 DEF PairInOrder

\* Whatever counts a fault or a wish stays within the budget.
LEMMA WithinBudget ==
  ASSUME PairInOrder
  PROVE  /\ Faultless /\ UNCHANGED wishes => <<faults', wishes'>> \in Budget
         /\ \A kind : Fault(kind) /\ UNCHANGED wishes => <<faults', wishes'>> \in Budget
         /\ Wish => <<faults', wishes'>> \in Budget
  BY DEF PairInOrder, Faultless, Fault, Wish

-----------------------------------------------------------------------------
(***************************************************************************)
(* The actions, one by one.                                                *)
(***************************************************************************)
\* A message reaches the partner's live engine.
LEMMA DeliverKeeps ==
  ASSUME PairInOrder, NEW p \in Port, Deliver(p)
  PROVE  PairInOrder'
<1> DEFINE q == Peer(p)
<1>1. q \in Port
  BY DEF Peer, Port
<1>2. ports[p].tx \in TxType
  BY PortFields DEF PairInOrder, InOrder, Engines
<1>3. PICK x \in Terms, yes \in BOOLEAN :
        /\ IF yes THEN UNCHANGED wishes ELSE Wish
        /\ ports' = [ports EXCEPT ![q] = Received(ports[q], ports[p].tx, x, yes)]
        /\ heard' = [r \in Port |-> r = p]
  BY DEF Deliver
<1>4. InOrder(Received(ports[q], ports[p].tx, x, yes))
  <2>1. ports[q].client # "none" /\ InOrder(ports[q])
    BY <1>1 DEF Deliver, live, PairInOrder
  <2> QED BY <1>2, <2>1, ReceivedKeeps
<1>5. <<faults', wishes'>> \in Budget
  <2>1. Faultless \/ Fault("preempted")
    BY DEF Deliver
  <2>2. UNCHANGED wishes \/ Wish
    BY <1>3
  <2> QED BY <2>1, <2>2, WithinBudget
<1>6. DOMAIN ports' = Port /\ \A r \in Port : InOrder(ports'[r])
  BY <1>1, <1>3, <1>4 DEF PairInOrder
<1>7. heard' \in [Port -> BOOLEAN]
  BY <1>3
<1> QED BY <1>5, <1>6, <1>7 DEF PairInOrder

\* The transmission of p ends.
LEMMA OutcomeKeeps ==
  ASSUME PairInOrder, NEW p \in Port, Confirm(p) \/ Fail(p)
  PROVE  PairInOrder'
<1>1. ports[p].client # "none" /\ InOrder(ports[p])
  BY Lives DEF Confirm, Fail, Transmitting, PairInOrder
<1>2. InOrder(TxDone(ports[p])) /\ InOrder(TxError(ports[p]))
  BY <1>1, TransmittedKeeps
<1>3. CASE Confirm(p)
  <2>1. <<faults', wishes'>> \in Budget
    BY <1>3, WithinBudget DEF Confirm
  <2> QED BY <1>2, <1>3, <2>1, BecomesInOrder DEF Confirm
<1>4. CASE Fail(p)
  <2>1. <<faults', wishes'>> \in Budget
    BY <1>4, WithinBudget DEF Fail
  <2>2. DOMAIN ports' = Port /\ \A r \in Port : InOrder(ports'[r])
    BY <1>2, <1>4 DEF Fail, PairInOrder
  <2>3. heard' \in [Port -> BOOLEAN]
    BY <1>4 DEF Fail, PairInOrder
  <2> QED BY <2>1, <2>2, <2>3 DEF PairInOrder
<1> QED BY <1>3, <1>4

\* The hard reset signal, heard by the partner and reported to its sender.
LEMMA SignalKeeps ==
  ASSUME PairInOrder, NEW p \in Port, Signal(p) \/ Signalled(p)
  PROVE  PairInOrder'
<1>1. CASE Signal(p)
  <2> DEFINE q == Peer(p)
  <2>1. q \in Port
    BY DEF Peer, Port
  <2>2. InOrder(HardResetHeard(ports[q]))
    BY <1>1, <2>1, ResetKeeps DEF Signal, live, PairInOrder
  <2>3. <<faults', wishes'>> \in Budget
    BY <1>1, WithinBudget DEF Signal
  <2>4. DOMAIN ports' = Port /\ \A r \in Port : InOrder(ports'[r])
    BY <1>1, <2>1, <2>2 DEF Signal, PairInOrder
  <2>5. heard' \in [Port -> BOOLEAN]
    BY <1>1 DEF Signal
  <2> QED BY <2>3, <2>4, <2>5 DEF PairInOrder
<1>2. CASE Signalled(p)
  <2>1. ports[p].tx # Idle
    BY <1>2 DEF Signalled, Idle, HardReset
  <2>2. InOrder(HardResetSent(ports[p]))
    BY <2>1, Lives, ResetKeeps DEF PairInOrder
  <2>3. <<faults', wishes'>> \in Budget
    BY <1>2, WithinBudget DEF Signalled
  <2> QED BY <1>2, <2>2, <2>3, BecomesInOrder DEF Signalled
<1> QED BY <1>1, <1>2

\* The supply, VBUS, CC and Rp.
LEMMA LineKeeps ==
  ASSUME PairInOrder, NEW p \in Port,
         Settle(p) \/ VbusChanged(p) \/ CcOpen(p) \/ SeeRp(p) \/ RecoveryOver(p)
  PROVE  PairInOrder'
<1> DEFINE g == ports[p]
           q == Peer(p)
<1>1. InOrder(g)
  BY DEF PairInOrder
<1>2. SinkTxOk(p) \in BOOLEAN
  BY DEF SinkTxOk, Sourcing
<1>3. <<faults', wishes'>> \in Budget
  BY WithinBudget DEF Settle, VbusChanged, CcOpen, SeeRp, RecoveryOver
<1>4. InOrder(Detached(g))
  <2>1. InOrder(Disconnect(g, "detached"))
    BY <1>1, DisconnectKeeps
  <2> QED BY <2>1 DEF Detached
<1>5. CASE Settle(p)
  BY <1>1, <1>3, <1>5, SupplyKeeps, BecomesInOrder DEF Settle
<1>6. CASE VbusChanged(p)
  <2>1. g.conn = "hard_reset_snk" => InOrder(WindowVbusGone(g))
    BY <1>1, WindowOpens
  <2>2. g.conn = "hard_reset_recover_snk" => InOrder(WindowVbusBack(g, SinkTxOk(p)))
    BY <1>1, <1>2, WindowKeeps
  <2> QED BY <1>3, <1>4, <1>6, <2>1, <2>2, BecomesInOrder DEF VbusChanged
<1>7. CASE CcOpen(p)
  BY <1>3, <1>4, <1>7, BecomesInOrder DEF CcOpen
<1>8. CASE SeeRp(p)
  BY <1>1, <1>2, <1>3, <1>8, SeeRpKeeps, BecomesInOrder DEF SeeRp
<1>9. CASE RecoveryOver(p)
  <2>1. InOrder([g EXCEPT !.conn = "detached"])
    BY <1>1, <1>9, RecoveryKeeps DEF RecoveryOver
  <2> QED BY <1>3, <1>9, <2>1, BecomesInOrder DEF RecoveryOver
<1> QED BY <1>5, <1>6, <1>7, <1>8, <1>9

\* Both ports attach, or the plug is pulled.
LEMMA PlugKeeps ==
  ASSUME PairInOrder, Unplug \/ \E p \in Port : Attach(p)
  PROVE  PairInOrder'
<1>1. CASE Unplug
  <2>1. \A p \in Port : InOrder(Detached(ports[p]))
    <3>1. \A p \in Port : InOrder(Disconnect(ports[p], "detached"))
      BY DisconnectKeeps DEF PairInOrder
    <3> QED BY <3>1 DEF Detached
  <2>2. DOMAIN ports' = Port /\ \A p \in Port : InOrder(ports'[p])
    BY <1>1, <2>1 DEF Unplug, PairInOrder
  <2>3. heard' \in [Port -> BOOLEAN]
    BY <1>1 DEF Unplug
  <2>4. <<faults', wishes'>> \in Budget
    BY <1>1, WithinBudget DEF Unplug
  <2> QED BY <2>2, <2>3, <2>4 DEF PairInOrder
<1>2. ASSUME NEW p \in Port, Attach(p)
      PROVE  PairInOrder'
  <2> DEFINE role(r) == IF r = p THEN "source" ELSE "sink"
  <2>1. \A r \in Port : InOrder(ports[r]) /\ ports[r].client = "none"
    BY <1>2 DEF Attach, PairInOrder, InOrder, ClientIn
  <2>2. \A r \in Port : role(r) \in Role
    BY DEF Role
  <2>3. ports' = [r \in Port |-> Attached(ports[r], role(r), FALSE, Ra)]
    BY <1>2 DEF Attach
  <2> HIDE DEF role
  <2>4. \A r \in Port : InOrder(Attached(ports[r], role(r), FALSE, Ra))
    BY <2>1, <2>2, RaAssumption, AttachedKeeps
  <2>5. DOMAIN ports' = Port /\ \A r \in Port : InOrder(ports'[r])
    BY <2>3, <2>4
  <2>6. heard' \in [Port -> BOOLEAN]
    BY <1>2 DEF Attach
  <2>7. <<faults', wishes'>> \in Budget
    BY <1>2, WithinBudget DEF Attach
  <2> QED BY <2>5, <2>6, <2>7 DEF PairInOrder
<1> QED BY <1>1, <1>2

\* The timers.
LEMMA TimerKeeps ==
  ASSUME PairInOrder, NEW p \in Port, PeTimer(p) \/ VconnTimer(p) \/ ConnTimer(p)
  PROVE  PairInOrder'
<1>1. InOrder(ports[p])
  BY DEF PairInOrder
<1>2. \A d : Expires(d) => <<faults', wishes'>> \in Budget
  BY WithinBudget DEF Expires
<1>3. CASE PeTimer(p)
  <2>1. PICK r \in Role : /\ ports[p].eng[r].pe \in Timed(r)
                          /\ Expires(Duration(ports[p].eng[r].pe))
                          /\ Becomes(p, PeTimeout(ports[p], r))
    BY <1>3 DEF PeTimer
  <2>2. InOrder(PeTimeout(ports[p], r))
    BY <1>1, <2>1, TimeoutKeeps
  <2> QED BY <1>2, <2>1, <2>2, BecomesInOrder
<1>4. CASE VconnTimer(p)
  <2>1. InOrder(VconnTimeout(ports[p]))
    BY <1>1, <1>4, VconnTimeoutKeeps DEF VconnTimer
  <2> QED BY <1>2, <1>4, <2>1, BecomesInOrder DEF VconnTimer
<1>5. CASE ConnTimer(p)
  <2>1. InOrder(Disconnect(ports[p], "detached"))
    BY <1>1, DisconnectKeeps
  <2> QED BY <1>2, <1>5, <2>1, BecomesInOrder DEF ConnTimer, Detached
<1> QED BY <1>3, <1>4, <1>5

\* The application asks for a swap.
LEMMA AskingKeeps ==
  ASSUME PairInOrder, NEW p \in Port, Ask(p)
  PROVE  PairInOrder'
<1>1. InOrder(ports[p]) /\ ports[p].client # "none"
  BY DEF PairInOrder, Ask, live
<1>2. <<faults', wishes'>> \in Budget
  BY WithinBudget DEF Ask
<1>3. \A seq \in {"pr_swap", "dr_swap"} : InOrder(AskSwap(ports[p], seq))
  BY <1>1, AskKeeps
<1>4. InOrder(AskVconnSwap(ports[p]))
  BY <1>1, AskKeeps
<1> QED BY <1>2, <1>3, <1>4, BecomesInOrder DEF Ask

-----------------------------------------------------------------------------
(***************************************************************************)
(* What a port says, and what it owes its partner: the invariant behind    *)
(* NeverBothDrive where no VCONN_Swap is answered for.  A sink whose state *)
(* shows an explicit contract is owed no PS_RDY, so the one which makes it *)
(* the new source in a PR_Swap comes from a partner which has turned sink. *)
(***************************************************************************)
NoVconnSwap == "vconn" \notin Features

\* The source has agreed to something whose end it announces with a PS_RDY.
Owing == {"negotiate_capability", "transition_supply", "transition_supply_delay",
          "transition_supply_settle", "swap_source_on"}
\* It announces it.
Telling == {"transition_supply_ps_rdy", "swap_source_on_ps_rdy"}

\* In the state s of the engine r a message of this type can be under way.
Speaks(r, s, type) ==
  /\ type = "request" => r = "sink" /\ s = "select_capability"
  /\ type = "ps_rdy" => IF r = "sink" THEN s = "swap_wait_source_on" ELSE s \in Telling
  /\ type = "reject" =>
       s = "send_not_supported" \/ (r = "source" /\ s = "capability_response")

\* The states in which one of these is, and the events which find the layer
\* free of it: an answer, the outcome, a reset, the end.
Talking(r) ==
  IF r = "sink" THEN {"select_capability", "swap_wait_source_on", "send_not_supported"}
  ELSE Telling \cup {"send_not_supported", "capability_response"}
Clearing ==
  {"accept", "reject", "wait", "ps_rdy", "message_sent", "protocol_error",
   "soft_reset_received", "hard_reset_received", "vbus_removed", "detached"}

\* A row of either table leaves such a state only with the layer free, or to
\* the hard reset which frees it; the VCONN_Swap is entered by its own events.
Clears(r, row) ==
  /\ row[1] \in Talking(r) => row[2] \in Clearing \/ row[5] = "hard_reset"
  /\ row[5] \in VcsStates =>
       \/ row[1] \in VcsStates \/ row[2] = "send_vconn_swap"
       \/ "vconn_source_role_held" \in row[3] \/ "vconn_swap_allowed" \in row[3]

Explicit(s) == SinkLevel(s) = "explicit_contract"

\* The sink comes to a contract's level by a PS_RDY or a Reject only, and turns
\* its termination by the PS_RDY of the old source only.
SinkTells(row) ==
  /\ Clears("sink", row)
  /\ Explicit(row[5]) => Explicit(row[1]) \/ row[2] \in {"ps_rdy", "reject"}
  /\ row[5] = "swap_assert_rp" =>
       row[1] = "swap_transition_to_off" /\ row[2] = "ps_rdy"

\* The source owes a PS_RDY by a Request or as the new source only.
SourceTells(row) ==
  /\ Clears("source", row)
  /\ row[5] \in Owing => row[1] \in Owing \/ row[2] \in {"request", "attached_swap"}
  /\ row[5] \in Telling => row[1] \in Owing

\* From VBUS to the contract.
LEMMA SinkNegotiationTells ==
  ASSUME NEW row \in CapabilityRows \cup RequestRows
  PROVE  SinkTells(row)
  BY WhenRow, OnRow, IfRow, FromAnyRow, SMTT(60)
     DEF CapabilityRows, RequestRows, SinkTells, Clears, Talking, Telling, Clearing,
         Explicit, SinkLevel, VcsStates

\* The services and the swaps.
LEMMA SinkServiceTells ==
  ASSUME NEW row \in ServiceRows \cup Service("send_source_caps", "give_source_cap")
                     \cup DataSwapRows("dr_swap_gate")
                     \cup On("dr_swap_gate", "send_dr_swap", "send_dr_swap")
                     \cup On("dr_swap_gate", "protocol_error", "send_soft_reset")
  PROVE  SinkTells(row)
  BY WhenRow, OnRow, IfRow, FromAnyRow, SMTT(60)
     DEF ServiceRows, Service, DataSwapRows, DrsStates, SinkTells, Clears, Talking,
         Telling, Clearing, Explicit, SinkLevel, VcsStates

\* The VCONN_Swap.
LEMMA SinkVconnTells ==
  ASSUME NEW row \in VconnSwapRows
  PROVE  SinkTells(row)
  BY WhenRow, OnRow, IfRow, FromAnyRow, SMTT(60)
     DEF VconnSwapRows, SinkTells, Clears, Talking, Telling, Clearing, Explicit,
         SinkLevel, VcsStates

\* The PR_Swap.
LEMMA SinkPowerSwapTells ==
  ASSUME NEW row \in SinkPowerSwapRows
  PROVE  SinkTells(row)
  BY WhenRow, OnRow, IfRow, FromAnyRow, SMTT(60)
     DEF SinkPowerSwapRows, PowerSwapRows, SinkTells, Clears, Talking, Telling, Clearing,
         Explicit, SinkLevel, VcsStates

\* The resets and the end of the connection.
LEMMA SinkResetTells ==
  ASSUME NEW row \in FromAny(SinkStates, "vbus_removed", "startup")
                     \cup ResetRows(SinkStates, "wait_for_capabilities")
                     \cup On("transition_to_default", "default_level_reached", "startup")
  PROVE  SinkTells(row)
  BY WhenRow, OnRow, IfRow, FromAnyRow, SMTT(60)
     DEF ResetRows, SinkTells, Clears, Talking, Telling, Clearing, Explicit, SinkLevel,
         VcsStates

\* Every row of the sink's table.
LEMMA SinkTableTells == \A row \in SinkRows : SinkTells(row)
  BY SinkNegotiationTells, SinkServiceTells, SinkVconnTells, SinkPowerSwapTells,
     SinkResetTells DEF SinkRows

\* The advertisement and the negotiation.
LEMMA SourceNegotiationTells ==
  ASSUME NEW row \in AdvertisementRows \cup NegotiationRows
  PROVE  SourceTells(row)
  BY WhenRow, OnRow, IfRow, FromAnyRow, SMTT(60)
     DEF AdvertisementRows, NegotiationRows, SourceTells, Clears, Talking, Owing,
         Telling, Clearing, VcsStates

\* The services, collision avoidance and the DR_Swap.
LEMMA SourceServiceTells ==
  ASSUME NEW row \in ServiceRows \cup CollisionRows \cup DataSwapRows("send_dr_swap")
  PROVE  SourceTells(row)
  BY WhenRow, OnRow, IfRow, FromAnyRow, SMTT(60)
     DEF ServiceRows, Service, CollisionRows, DataSwapRows, DrsStates, SourceTells,
         Clears, Talking, Owing, Telling, Clearing, VcsStates

\* The VCONN_Swap.
LEMMA SourceVconnTells ==
  ASSUME NEW row \in VconnSwapRows
  PROVE  SourceTells(row)
  BY WhenRow, OnRow, IfRow, FromAnyRow, SMTT(60)
     DEF VconnSwapRows, SourceTells, Clears, Talking, Owing, Telling, Clearing, VcsStates

\* The PR_Swap.
LEMMA SourcePowerSwapTells ==
  ASSUME NEW row \in SourcePowerSwapRows
  PROVE  SourceTells(row)
  BY WhenRow, OnRow, IfRow, FromAnyRow, SMTT(60)
     DEF SourcePowerSwapRows, PowerSwapRows, SourceTells, Clears, Talking, Owing,
         Telling, Clearing, VcsStates

\* The resets, the recovery and the end of the connection.
LEMMA SourceResetTells ==
  ASSUME NEW row \in FromAny(SourceStates, "detached", "startup")
                     \cup ResetRows(SourceStates, "send_capabilities") \cup RecoveryRows
  PROVE  SourceTells(row)
  BY WhenRow, OnRow, IfRow, FromAnyRow, SMTT(60)
     DEF ResetRows, RecoveryRows, SourceTells, Clears, Talking, Owing, Telling,
         Clearing, VcsStates

\* Every row of the source's table.
LEMMA SourceTableTells == \A row \in SourceRows : SourceTells(row)
  BY SourceNegotiationTells, SourceServiceTells, SourceVconnTells,
     SourcePowerSwapTells, SourceResetTells DEF SourceRows

\* No refusal, no Request and no PS_RDY is under way.
Silent(g) == g.tx.type \notin {"request", "ps_rdy", "reject"}
\* What is under way is what the live engine's state speaks of.
Spoken(g) ==
  /\ \A r \in Role : g.eng[r].pe \notin VcsStates
  /\ Silent(g) \/ (g.client \in Role /\ Speaks(g.client, g.eng[g.client].pe, g.tx.type))

\* From g to h the sink does not come to a contract's level ...
Draws(g, h) == Explicit(h.eng["sink"].pe) => Explicit(g.eng["sink"].pe)
\* ... the port does not come to owe a PS_RDY it did not owe ...
Owes(g, h) ==
  /\ h.eng["source"].pe \in Owing => g.eng["source"].pe \in Owing
  /\ h.client = "source" /\ h.tx.type = "ps_rdy" =>
       g.eng["source"].pe \in Owing \/ (g.client = "source" /\ h.tx = g.tx)
\* ... and the sink does not come to turn its termination.
Turns(g, h) == h.eng["sink"].pe = "swap_assert_rp" => g.eng["sink"].pe = "swap_assert_rp"

Tells(g, h) == Spoken(h) /\ Draws(g, h) /\ Owes(g, h) /\ Turns(g, h)

\* What an engine sends on entering a state is what that state speaks of.
LEMMA SendsSpoken ==
  ASSUME NEW r \in Role, NEW en, NEW s, s \notin VcsStates, NEW e
  PROVE  Speaks(r, s, Sends(r, en, s, e).type)
<1>1. \A type : Control(type).type = type
  BY DEF Control
<1>2. Idle.type = "idle" /\ Request(en.pending).type = "request"
      /\ Refusal(e) \in {"reject", "not_supported"}
  BY DEF Idle, Request, Refusal
<1>3. s \in DOMAIN SharedSends => SharedSends[s] \notin {"request", "ps_rdy", "reject"}
  BY DEF SharedSends, VcsStates
<1>4. CASE r = "sink"
  <2>1. Sends(r, en, s, e) = SinkSends(s, e, en.pending)
    BY <1>4 DEF Sends
  <2>2. CASE s \in {"select_capability", "send_not_supported", "swap_wait_source_on",
                    "give_source_cap"}
    BY <1>1, <1>2, <1>4, <2>1, <2>2 DEF SinkSends, Speaks
  <2>3. CASE s \notin {"select_capability", "send_not_supported", "swap_wait_source_on",
                       "give_source_cap"}
    <3>1. Sends(r, en, s, e).type \notin {"request", "ps_rdy", "reject"}
      BY <1>1, <1>2, <1>3, <2>1, <2>3 DEF SinkSends
    <3> QED BY <3>1 DEF Speaks
  <2> QED BY <2>2, <2>3
<1>5. CASE r = "source"
  <2>1. Sends(r, en, s, e) = SourceSends(s, e)
    BY <1>5 DEF Sends
  <2>2. CASE s \in Telling \cup {"send_capabilities", "send_not_supported",
                                 "transition_supply", "capability_response"}
    BY <1>1, <1>2, <1>5, <2>1, <2>2 DEF SourceSends, Speaks, Telling
  <2>3. CASE s \notin Telling \cup {"send_capabilities", "send_not_supported",
                                    "transition_supply", "capability_response"}
    <3>1. Sends(r, en, s, e).type \notin {"request", "ps_rdy", "reject"}
      BY <1>1, <1>2, <1>3, <2>1, <2>3 DEF SourceSends, Telling
    <3> QED BY <3>1 DEF Speaks
  <2> QED BY <2>2, <2>3
<1> QED BY <1>4, <1>5 DEF Role

\* Nothing is said where none of the three is under way.
LEMMA SilentSpeaks ==
  ASSUME NEW g, \A r \in Role : g.eng[r].pe \notin VcsStates, Silent(g)
  PROVE  Spoken(g)
  BY DEF Spoken

\* Without the feature nobody holds or is given the VCONN source role.
LEMMA NoVconnHeld ==
  ASSUME NoVconnSwap, NEW g, NEW r, NEW yes
  PROVE  /\ "vconn_source_role_held" \notin Holds(g, r, yes)
         /\ "vconn_swap_allowed" \notin Holds(g, r, yes)
  BY DEF NoVconnSwap, Holds

\* The event is heard by the engine r while it is live only with the layer free.
Heard(g, r, e) == g.client = r /\ e \in Clearing => Silent(g)

\* One event, which need not be one of those that change what is owed.
StepTold(g, h, r, e) ==
  /\ Spoken(h)
  /\ (r = "sink" /\ e \in {"ps_rdy", "reject"}) \/ Draws(g, h)
  /\ (r = "source" /\ e \in {"request", "attached_swap"}) \/ Owes(g, h)
  /\ \/ r = "sink" /\ e = "ps_rdy" /\ g.eng["sink"].pe = "swap_transition_to_off"
     \/ Turns(g, h)

\* One event at one engine.
LEMMA StepTells ==
  ASSUME NoVconnSwap, NEW g, Typed(g), Spoken(g), NEW r \in Role, NEW e,
         e # "send_vconn_swap", Heard(g, r, e), NEW x \in Terms \cup {None}, NEW yes
  PROVE  StepTold(g, Step(g, r, e, x, yes), r, e)
<1> DEFINE h == Step(g, r, e, x, yes)
<1>1. CASE h = g
  BY <1>1 DEF StepTold, Draws, Owes, Turns
<1>2. ASSUME NEW row \in Table(r), row[1] = g.eng[r].pe, row[2] = e,
             row[3] \subseteq Holds(g, r, yes),
             h = Enter(g, r, Context(r, g.eng[r], row[5], e, x), e)
      PROVE  StepTold(g, h, r, e)
  <2> DEFINE en == Context(r, g.eng[r], row[5], e, x)
  <2>1. row[5] \in States(r)
    BY <1>2, SinkTable, SourceTable DEF Table, SinkFits, SourceFits, States, Role
  <2>2. en \in EngineType(SinkStates \cup SourceStates) /\ en.pe = row[5]
    <3> DEFINE was == g.eng[r]
    <3>1. was \in EngineType(SinkStates \cup SourceStates)
      BY PortFields
    <3> HIDE DEF was, h
    <3>2. ASSUME NEW s \in States(r)
          PROVE  /\ Context(r, was, s, e, x) \in EngineType(SinkStates \cup SourceStates)
                 /\ Context(r, was, s, e, x).pe = s
      BY <3>1, ContextTyped
    <3> QED BY <2>1, <3>2 DEF was
  <2>3. /\ h.client = g.client /\ h.conn = g.conn /\ h.eng[r].pe = row[5]
        /\ \A q \in Role \ {r} : h.eng[q] = g.eng[q]
        /\ h.tx = Transmits(g, r, en, row[5], e)
    <3>1. Entered(g, r, en, e, h)
      <4>1. en.pe \in States(r)
        BY <2>1, <2>2
      <4> HIDE DEF en
      <4> QED BY <1>2, <2>2, <4>1, EnterFields DEF en
    <3> HIDE DEF en, h
    <3> QED BY <2>2, <3>1 DEF Entered
  <2>4. Clears(r, row)
    BY <1>2, SinkTableTells, SourceTableTells DEF Table, SinkTells, SourceTells, Role
  <2> HIDE DEF en, h
  <2>5. \A q \in Role : h.eng[q].pe \notin VcsStates
    <3>1. row[5] \notin VcsStates
      <4>1. /\ "vconn_source_role_held" \notin row[3]
            /\ "vconn_swap_allowed" \notin row[3]
        BY <1>2, NoVconnHeld
      <4>2. row[1] \notin VcsStates
        BY <1>2 DEF Spoken
      <4> QED BY <1>2, <2>4, <4>1, <4>2 DEF Clears
    <3> QED BY <2>3, <3>1 DEF Spoken
  <2>6. \/ h.tx = HardReset
        \/ /\ g.client = r \/ row[5] = "send_capabilities"
           /\ h.tx = Sends(r, en, row[5], e)
        \/ h.tx = g.tx /\ ~(row[5] = "hard_reset" /\ g.client = r)
    BY <2>3 DEF Transmits
  <2>7. Spoken(h)
    <3>1. CASE h.tx = HardReset
      BY <2>5, <3>1, SilentSpeaks DEF Silent, HardReset
    <3>2. CASE /\ g.client = r \/ row[5] = "send_capabilities"
               /\ h.tx = Sends(r, en, row[5], e)
      <4>1. Speaks(r, row[5], h.tx.type)
        <5>1. row[5] \notin VcsStates
          BY <2>3, <2>5
        <5> QED BY <3>2, <5>1, SendsSpoken
      <4>2. CASE g.client = r
        BY <2>3, <2>5, <4>1, <4>2 DEF Spoken
      <4>3. CASE row[5] = "send_capabilities"
        <5>1. Silent(h)
          BY <4>1, <4>3 DEF Speaks, Telling, Silent, Role
        <5> QED BY <2>5, <5>1, SilentSpeaks
      <4> QED BY <3>2, <4>2, <4>3
    <3>3. CASE h.tx = g.tx /\ ~(row[5] = "hard_reset" /\ g.client = r)
      <4>1. CASE Silent(g)
        BY <2>5, <3>3, <4>1, SilentSpeaks DEF Silent
      <4>2. CASE ~Silent(g)
        <5>1. g.client \in Role /\ Speaks(g.client, g.eng[g.client].pe, g.tx.type)
          BY <4>2 DEF Spoken
        <5>2. g.client # r
          <6> SUFFICES ASSUME g.client = r PROVE FALSE
            OBVIOUS
          <6>1. Speaks(r, row[1], g.tx.type)
            BY <1>2, <5>1
          <6>2. row[1] \in Talking(r)
            BY <4>2, <6>1 DEF Speaks, Talking, Silent, Role
          <6>3. e \in Clearing \/ row[5] = "hard_reset"
            BY <1>2, <2>4, <6>2 DEF Clears
          <6> QED BY <3>3, <4>2, <6>3 DEF Heard
        <5>3. h.eng[g.client] = g.eng[g.client]
          BY <2>3, <5>1, <5>2
        <5> QED BY <2>3, <2>5, <3>3, <5>1, <5>3 DEF Spoken
      <4> QED BY <4>1, <4>2
    <3> QED BY <2>6, <3>1, <3>2, <3>3
  <2>8. CASE r = "sink"
    <3>1. SinkTells(row)
      BY <1>2, <2>8, SinkTableTells DEF Table
    <3>2. h.eng["source"] = g.eng["source"]
      BY <2>3, <2>8 DEF Role
    <3>3. Owes(g, h)
      <4>1. h.client = "source" => h.tx \in {g.tx, HardReset} \/ h.tx.type # "ps_rdy"
        <5>1. CASE row[5] = "send_capabilities" /\ h.tx = Sends(r, en, row[5], e)
          <6>1. Speaks(r, row[5], h.tx.type)
            BY <5>1, SendsSpoken DEF VcsStates
          <6> QED BY <2>8, <5>1, <6>1 DEF Speaks
        <5> QED BY <2>3, <2>6, <2>8, <5>1
      <4>2. HardReset.type # "ps_rdy"
        BY DEF HardReset
      <4> QED BY <2>3, <3>2, <4>1, <4>2 DEF Owes
    <3>4. e \in {"ps_rdy", "reject"} \/ Draws(g, h)
      BY <1>2, <2>3, <2>8, <3>1 DEF SinkTells, Draws
    <3>5. (e = "ps_rdy" /\ g.eng["sink"].pe = "swap_transition_to_off") \/ Turns(g, h)
      BY <1>2, <2>3, <2>8, <3>1 DEF SinkTells, Turns
    <3> QED BY <2>7, <2>8, <3>3, <3>4, <3>5 DEF StepTold
  <2>9. CASE r = "source"
    <3>1. SourceTells(row)
      BY <1>2, <2>9, SourceTableTells DEF Table
    <3>2. h.eng["sink"] = g.eng["sink"]
      BY <2>3, <2>9 DEF Role
    <3>3. e \in {"request", "attached_swap"} \/ Owes(g, h)
      <4> SUFFICES ASSUME e \notin {"request", "attached_swap"} PROVE Owes(g, h)
        OBVIOUS
      <4>1. h.eng["source"].pe \in Owing => g.eng["source"].pe \in Owing
        BY <1>2, <2>3, <2>9, <3>1 DEF SourceTells
      <4>2. ASSUME h.client = "source", h.tx.type = "ps_rdy"
            PROVE  g.eng["source"].pe \in Owing \/ (g.client = "source" /\ h.tx = g.tx)
        <5>1. row[5] \in Telling
          <6>1. ~Silent(h)
            BY <4>2 DEF Silent
          <6> QED BY <2>3, <2>7, <2>9, <4>2, <6>1 DEF Spoken, Speaks
        <5> QED BY <1>2, <2>9, <3>1, <5>1 DEF SourceTells
      <4> QED BY <4>1, <4>2 DEF Owes
    <3>4. Draws(g, h) /\ Turns(g, h)
      BY <3>2 DEF Draws, Turns
    <3> QED BY <2>7, <2>9, <3>3, <3>4 DEF StepTold
  <2> QED BY <2>8, <2>9 DEF Role
<1> QED BY <1>1, <1>2, StepTakesRow

\* The three relations add up.
LEMMA TellsOn ==
  ASSUME NEW g, NEW k, NEW h
  PROVE  /\ Draws(g, k) /\ Draws(k, h) => Draws(g, h)
         /\ Owes(g, k) /\ Owes(k, h) => Owes(g, h)
         /\ Turns(g, k) /\ Turns(k, h) => Turns(g, h)
         /\ Tells(g, k) /\ Tells(k, h) => Tells(g, h)
  BY DEF Draws, Owes, Turns, Tells

\* h differs from g neither in its states nor in what is under way, nor in
\* whose it is.
Alike(g, h) ==
  /\ h.client = g.client /\ h.tx = g.tx
  /\ \A r \in Role : h.eng[r].pe = g.eng[r].pe

\* What else differs is of no account.
LEMMA AlikeTells ==
  ASSUME NEW g, NEW h, Alike(g, h), Spoken(g)
  PROVE  Tells(g, h)
<1>1. "sink" \in Role /\ "source" \in Role
  BY DEF Role
<1>2. Spoken(h)
  BY DEF Alike, Spoken, Silent
<1> QED BY <1>1, <1>2 DEF Alike, Tells, Draws, Owes, Turns

\* An event and the word it has emitted.
LEMMA ProcessTells ==
  ASSUME NoVconnSwap, NEW g, Engines(g), Spoken(g), NEW r \in Role, NEW e,
         e # "send_vconn_swap", Heard(g, r, e), NEW x \in Terms \cup {None}, NEW yes,
         e \in {"capabilities_evaluated", "source_capabilities"} => x \in Terms,
         g.eng[r].deaf => e \in QuietEvents
  PROVE  StepTold(g, Process(g, r, e, x, yes), r, e)
<1> DEFINE k == Step(g, r, e, x, yes)
           word == Emits(g, k, r, yes)
           h == Step(k, r, word, x, yes)
<1>1. Typed(g)
  BY DEF Engines
<1>2. StepTold(g, k, r, e)
  BY <1>1, StepTells
<1>3. Typed(k)
  <2>1. e = "capabilities_evaluated" => x \in Terms
    OBVIOUS
  <2>2. Engines(k)
    BY <2>1, StepKeeps
  <2> QED BY <2>2 DEF Engines
<1>4. Process(g, r, e, x, yes) = h
  BY DEF Process, Follow
<1>5. /\ word \notin Clearing
      /\ word \notin {"send_vconn_swap", "ps_rdy", "reject", "request", "attached_swap"}
  BY DEF Emits, Gates, Retry, Clearing
<1> HIDE DEF k, word
<1>6. StepTold(k, h, r, word)
  <2>1. Spoken(k)
    BY <1>2 DEF StepTold
  <2>2. Heard(k, r, word)
    BY <1>5 DEF Heard
  <2>3. word # "send_vconn_swap"
    BY <1>5
  <2> QED BY <1>3, <2>1, <2>2, <2>3, StepTells
<1> HIDE DEF h
<1>7. Tells(k, h)
  BY <1>5, <1>6 DEF StepTold, Tells
<1> QED BY <1>2, <1>4, <1>7, TellsOn DEF StepTold, Tells

\* The events which change nothing of what is owed.
Usual(e) ==
  e \notin {"ps_rdy", "reject", "request", "attached_swap", "send_vconn_swap"}

\* One of them, without an operating point.
LEMMA PlainTells ==
  ASSUME NoVconnSwap, NEW g, Engines(g), Spoken(g), NEW r \in Role, NEW e,
         Usual(e), e \notin Clearing, Plain(e), g.eng[r].deaf => e \in QuietEvents
  PROVE  LET h == Process(g, r, e, None, FALSE)
         IN Tells(g, h) /\ Engines(h) /\ Same(g, h, r)
<1> DEFINE h == Process(g, r, e, None, FALSE)
<1>1. /\ None \in Terms \cup {None} /\ e # "send_vconn_swap" /\ Heard(g, r, e)
      /\ e \notin {"capabilities_evaluated", "source_capabilities"}
  BY DEF Usual, Heard, Plain
<1>2. StepTold(g, h, r, e)
  BY <1>1, ProcessTells
<1>3. Engines(h) /\ Same(g, h, r)
  BY <1>1, ProcessKeeps
<1> HIDE DEF h
<1>4. Tells(g, h)
  BY <1>2 DEF StepTold, Usual, Tells
<1> QED BY <1>3, <1>4 DEF h

\* A retired engine says nothing and owes nothing.
LEMMA RetiredTells ==
  ASSUME NEW g, Spoken(g), NEW r \in Role, g.client = r => Silent(g),
         NEW h, Retired(g, h, r)
  PROVE  Tells(g, h)
<1>1. /\ h.eng[r].pe \in {"discovery", "startup"}
      /\ \A q \in Role \ {r} : h.eng[q] = g.eng[q]
      /\ h.tx = g.tx /\ h.client = IF g.client = r THEN "none" ELSE g.client
  BY DEF Retired, Rests, Resting
<1>2. \A q \in Role : h.eng[q].pe \notin VcsStates
  BY <1>1 DEF Spoken, VcsStates
<1>3. Spoken(h)
  <2>1. CASE Silent(g)
    BY <1>1, <1>2, <2>1, SilentSpeaks DEF Silent
  <2>2. CASE ~Silent(g)
    BY <1>1, <1>2, <2>2 DEF Spoken
  <2> QED BY <2>1, <2>2
<1>4. Draws(g, h) /\ Turns(g, h)
  BY <1>1 DEF Draws, Turns, Explicit, SinkLevel, Role
<1>5. Owes(g, h)
  <2>1. h.eng["source"].pe \in Owing => g.eng["source"].pe \in Owing
    BY <1>1 DEF Owing, Role
  <2>2. h.client = "source" => g.client = "source"
    BY <1>1
  <2> QED BY <1>1, <2>1, <2>2 DEF Owes
<1> QED BY <1>3, <1>4, <1>5 DEF Tells

\* SinkTxOk seen, the sink's retries fire.
LEMMA SinkTxTells ==
  ASSUME NoVconnSwap, NEW g, Engines(g), Spoken(g), NEW ok \in BOOLEAN
  PROVE  Tells(g, sinkTxChanged(g, ok))
<1> DEFINE seen == [g EXCEPT !.txok = ok]
           gated == fireGated(seen)
           pending == firePending(gated)
<1>1. Tells(g, seen) /\ Engines(seen)
  <2>1. Typed(g)
    BY DEF Engines
  <2>2. /\ seen.power = g.power /\ seen.rp = g.rp /\ seen.eng = g.eng
        /\ seen.conn = g.conn /\ seen.client = g.client /\ seen.tx = g.tx
    BY <2>1 DEF Typed
  <2>3. Typed(seen)
    BY <2>1 DEF Typed
  <2> HIDE DEF seen
  <2>4. Around(g, seen)
    BY <2>2, <2>3, AroundKeeps
  <2> QED BY <2>2, <2>4, AlikeTells DEF Around, Alike
<1>2. sinkTxChanged(g, ok) = IF ok THEN pending ELSE seen
  BY DEF sinkTxChanged
<1> HIDE DEF seen
<1>3. Tells(seen, gated) /\ Engines(gated)
  <2> DEFINE s == seen.eng["sink"].pe
             e == Retry(s)
  <2>1. CASE s \notin Gates
    BY <1>1, <2>1, AlikeTells DEF fireGated, Alike, Tells
  <2>2. CASE s \in Gates
    <3>1. ~seen.eng["sink"].deaf
      BY <1>1, <2>2 DEF Engines, Deafened, DeafStates, Gates, Role
    <3>2. Usual(e) /\ e \notin Clearing /\ Plain(e) /\ "sink" \in Role
      BY <2>2 DEF Retry, Gates, Usual, Clearing, Plain, Role
    <3>3. gated = Process(seen, "sink", e, None, FALSE)
      BY <2>2 DEF fireGated
    <3> HIDE DEF e
    <3>4. Spoken(seen)
      BY <1>1 DEF Tells
    <3> QED BY <1>1, <3>1, <3>2, <3>3, <3>4, PlainTells
  <2> QED BY <2>1, <2>2
<1> HIDE DEF gated
<1>4. Tells(gated, pending)
  <2> DEFINE parked == gated.eng["sink"].parked
             cleared == [gated EXCEPT !.eng["sink"].parked = "none"]
             e == Swap(parked)
  <2>1. /\ Engines(cleared) /\ cleared.client = gated.client /\ cleared.tx = gated.tx
        /\ cleared.eng["source"] = gated.eng["source"]
        /\ cleared.eng["sink"].pe = gated.eng["sink"].pe
    BY <1>3, UnparkKeeps
  <2>2. pending \in {cleared, Process(cleared, "sink", e, None, FALSE)}
    BY DEF firePending
  <2> HIDE DEF cleared
  <2>3. Tells(gated, cleared)
    <3>1. Alike(gated, cleared)
      BY <2>1 DEF Alike, Role
    <3> QED BY <1>3, <3>1, AlikeTells DEF Tells
  <2>4. Usual(e) /\ e \notin Clearing /\ Plain(e) /\ "sink" \in Role /\ e \in QuietEvents
    BY DEF Swap, Usual, Clearing, Plain, QuietEvents, Role
  <2>5. Tells(cleared, Process(cleared, "sink", e, None, FALSE))
    <3>1. Spoken(cleared)
      BY <2>3 DEF Tells
    <3> HIDE DEF e
    <3> QED BY <2>1, <2>4, <3>1, PlainTells
  <2>6. Tells(gated, Process(cleared, "sink", e, None, FALSE))
    BY <2>3, <2>5, TellsOn
  <2> HIDE DEF e
  <2> QED BY <2>2, <2>3, <2>6
<1> QED BY <1>1, <1>2, <1>3, <1>4, TellsOn

\* The data role announced.
LEMMA AnnounceTells ==
  ASSUME NEW g, Engines(g), Spoken(g)
  PROVE  Tells(g, AnnounceData(g))
<1>1. Announced(g, AnnounceData(g))
  BY AnnounceKeeps
<1> QED BY <1>1, AlikeTells DEF Announced, Alike

\* A sink engine with its ears open takes two of them in a row.
LEMMA TwoPlainTells ==
  ASSUME NoVconnSwap, NEW g, Engines(g), Spoken(g), ~g.eng["sink"].deaf,
         NEW d, Usual(d), d \notin Clearing, Plain(d),
         NEW e, Usual(e), e \notin Clearing, Plain(e)
  PROVE  LET h == Process(Process(g, "sink", d, None, FALSE), "sink", e, None, FALSE)
         IN Tells(g, h) /\ h.conn = g.conn
<1> DEFINE k == Process(g, "sink", d, None, FALSE)
           h == Process(k, "sink", e, None, FALSE)
<1>1. "sink" \in Role
  BY DEF Role
<1>2. Tells(g, k) /\ Engines(k) /\ Same(g, k, "sink")
  BY <1>1, PlainTells
<1> HIDE DEF k
<1>3. Spoken(k) /\ ~k.eng["sink"].deaf
  BY <1>2 DEF Tells, Same
<1>4. Tells(k, h) /\ Same(k, h, "sink")
  BY <1>1, <1>2, <1>3, PlainTells
<1> HIDE DEF h
<1>5. Tells(g, h) /\ h.conn = g.conn
  BY <1>2, <1>4, TellsOn DEF Same
<1> QED BY <1>5 DEF h, k

\* The sink does not rest on the way from Rd to Rp.
Turned(g) == g.eng["sink"].pe = "swap_assert_rp" => g.conn # "standby_to_src"

\* What a handler does which changes nothing of what is owed: the port does
\* not become Attached.SRC, either.
Told(g, h) ==
  /\ Tells(g, h) /\ Turned(h)
  /\ h.conn = "attached_src" => g.conn = "attached_src"

\* The connection machine moves.
LEMMA ConnTells ==
  ASSUME NEW g, Engines(g), Spoken(g), NEW c \in Conn
  PROVE  Tells(g, [g EXCEPT !.conn = c])
<1> DEFINE h == [g EXCEPT !.conn = c]
<1>1. Around(g, h) /\ h.client = g.client /\ h.tx = g.tx
  BY ConnKeeps
<1> HIDE DEF h
<1>2. Tells(g, h)
  BY <1>1, AlikeTells DEF Around, Alike
<1> QED BY <1>2 DEF h

\* A port without a connection says nothing and owes nothing.
LEMMA RestTells ==
  ASSUME NEW h, InOrder(h), h.conn \in {"detached", "error_recovery"}
  PROVE  /\ h.client = "none" /\ h.tx = Idle
         /\ h.eng["sink"].pe = "discovery" /\ h.eng["source"].pe = "startup"
         /\ \A g : Told(g, h)
<1>1. /\ h.client = "none" /\ h.tx = Idle
      /\ h.eng["sink"].pe = "discovery" /\ h.eng["source"].pe = "startup"
  BY DEF InOrder, ClientIn, Loose, Solo, Rests, Resting, Role
<1>2. Spoken(h)
  BY <1>1 DEF Spoken, Silent, Idle, VcsStates, Role
<1>3. \A g : Draws(g, h) /\ Owes(g, h) /\ Turns(g, h)
  BY <1>1 DEF Draws, Owes, Turns, Explicit, SinkLevel, Owing
<1> QED BY <1>1, <1>2, <1>3 DEF Told, Tells, Turned

\* The old source, off its supply, hands the layer to the sink engine.
LEMMA BeginSwapToSinkTells ==
  ASSUME NoVconnSwap, NEW g, InOrder(g), Spoken(g), g.client = "source",
         g.eng["source"].pe = "swap_assert_rd"
  PROVE  Told(g, BeginSwapToSink(g))
<1> DEFINE moved == [g EXCEPT !.conn = "standby_to_snk"]
           there == takeLayer(moved, "sink")
           waits == Process(there, "sink", "swap_wait_source_on", None, FALSE)
           h == detached(waits)
<1>1. Around(g, moved) /\ moved.conn = "standby_to_snk" /\ moved.tx = g.tx
  <2>1. "standby_to_snk" \in Conn
    BY DEF Conn
  <2> QED BY <2>1, ConnKeeps DEF InOrder
<1>2. h = BeginSwapToSink(g)
  BY DEF BeginSwapToSink
<1> HIDE DEF moved
<1>3. /\ Around(moved, there) /\ there.conn = moved.conn /\ there.client = "sink"
      /\ there.tx = moved.tx
  BY <1>1, TakeKeeps DEF Around, Role
<1> HIDE DEF there
<1>4. Silent(g)
  BY DEF Spoken, Speaks, Telling, Silent
<1>5. Tells(g, there)
  <2>1. there.eng = g.eng /\ Silent(there)
    BY <1>1, <1>3, <1>4 DEF Around, Silent
  <2>2. Spoken(there)
    BY <2>1, SilentSpeaks DEF Spoken
  <2> QED BY <1>3, <2>1, <2>2 DEF Tells, Draws, Owes, Turns
<1>6. Tells(there, waits) /\ Engines(waits) /\ Same(there, waits, "sink")
  <2>1. Engines(there) /\ ~there.eng["sink"].deaf /\ Spoken(there)
    BY <1>1, <1>3, <1>5 DEF InOrder, Solo, Rests, Around, Role, Tells
  <2>2. /\ Usual("swap_wait_source_on") /\ "swap_wait_source_on" \notin Clearing
        /\ Plain("swap_wait_source_on") /\ "sink" \in Role
    BY DEF Usual, Clearing, Plain, Role
  <2> QED BY <2>1, <2>2, PlainTells
<1> HIDE DEF waits
<1>7. Retired(waits, h, "source")
  BY <1>6, SourceRetires
<1> HIDE DEF h
<1>8. Tells(waits, h)
  <2>1. waits.client # "source" /\ Spoken(waits) /\ "source" \in Role
    BY <1>3, <1>6 DEF Same, Tells, Role
  <2> QED BY <1>7, <2>1, RetiredTells
<1>9. h.conn = "standby_to_snk"
  BY <1>1, <1>3, <1>6, <1>7 DEF Same, Retired
<1>10. Tells(g, h)
  <2>1. Tells(g, waits)
    BY <1>5, <1>6, TellsOn
  <2> QED BY <1>8, <2>1, TellsOn
<1> QED BY <1>2, <1>9, <1>10 DEF Told, Turned

\* The new sink continues in Attached.SNK.
LEMMA CompleteToSinkTells ==
  ASSUME NoVconnSwap, NEW g, InOrder(g), Spoken(g), g.client = "sink",
         ~g.eng["sink"].deaf
  PROVE  Told(g, CompleteToSink(g))
<1> DEFINE moved == [g EXCEPT !.conn = "attached_snk"]
           told == AnnounceData(moved)
           there == sinkTxChanged(told, g.txok)
           h == Process(Process(there, "sink", "swap_done", None, FALSE),
                        "sink", "vbus_present", None, FALSE)
<1>1. /\ Around(g, moved) /\ moved.conn = "attached_snk" /\ Tells(g, moved)
      /\ ~moved.eng["sink"].deaf
  <2>1. "attached_snk" \in Conn
    BY DEF Conn
  <2> HIDE DEF moved
  <2>2. Around(g, moved) /\ moved.conn = "attached_snk" /\ Tells(g, moved)
    BY <2>1, ConnKeeps, ConnTells DEF InOrder, moved
  <2> QED BY <2>2 DEF Around
<1>2. CompleteToSink(g) = h
  BY DEF CompleteToSink
<1> HIDE DEF moved
<1>3. Announced(moved, told) /\ Tells(moved, told)
  BY <1>1, AnnounceKeeps, AnnounceTells DEF Around, Tells
<1> HIDE DEF told
<1>4. Fired(told, there) /\ Tells(told, there)
  <2>1. g.txok \in BOOLEAN
    BY PortFields DEF InOrder, Engines
  <2> QED BY <1>3, <2>1, SinkTxKeeps, SinkTxTells DEF Announced, Tells
<1> HIDE DEF there
<1>5. Engines(there) /\ ~there.eng["sink"].deaf /\ there.conn = "attached_snk"
      /\ Spoken(there)
  BY <1>1, <1>3, <1>4 DEF Announced, Fired, Tells, Role
<1>6. /\ Usual("swap_done") /\ "swap_done" \notin Clearing /\ Plain("swap_done")
      /\ Usual("vbus_present") /\ "vbus_present" \notin Clearing /\ Plain("vbus_present")
  BY DEF Usual, Clearing, Plain
<1>7. Tells(there, h) /\ h.conn = there.conn
  BY <1>5, <1>6, TwoPlainTells
<1> HIDE DEF h
<1>8. Tells(g, h)
  <2>1. Tells(g, told)
    BY <1>1, <1>3, TellsOn
  <2>2. Tells(g, there)
    BY <1>4, <2>1, TellsOn
  <2> QED BY <1>7, <2>2, TellsOn
<1> QED BY <1>2, <1>5, <1>7, <1>8 DEF Told, Turned

\* The sink goes through its default level.
LEMMA SinkHardResetTells ==
  ASSUME NoVconnSwap, NEW g, InOrder(g), Spoken(g), ~g.eng["sink"].deaf,
         g.eng["sink"].pe = "transition_to_default"
  PROVE  Told(g, SinkAfterHardReset(g))
<1> DEFINE moved == [g EXCEPT !.conn = "hard_reset_snk"]
           window == IF g.conn = "attached_snk" THEN moved ELSE g
           h == Process(Process(window, "sink", "default_level_reached", None, FALSE),
                        "sink", "started", None, FALSE)
<1>1. Around(g, moved) /\ moved.conn = "hard_reset_snk" /\ Tells(g, moved)
  <2>1. "hard_reset_snk" \in Conn
    BY DEF Conn
  <2> QED BY <2>1, ConnKeeps, ConnTells DEF InOrder
<1>2. /\ Tells(g, window) /\ Engines(window) /\ window.eng = g.eng
      /\ window.conn = "attached_src" => g.conn = "attached_src"
  <2>1. Tells(g, g)
    BY AlikeTells DEF Alike
  <2> QED BY <1>1, <2>1 DEF Around, InOrder
<1>3. SinkAfterHardReset(g) = h
  BY DEF SinkAfterHardReset
<1> HIDE DEF window
<1>4. /\ Usual("default_level_reached") /\ "default_level_reached" \notin Clearing
      /\ Plain("default_level_reached")
      /\ Usual("started") /\ "started" \notin Clearing /\ Plain("started")
  BY DEF Usual, Clearing, Plain
<1>5. Tells(window, h) /\ h.conn = window.conn
  <2>1. Spoken(window) /\ ~window.eng["sink"].deaf
    BY <1>2 DEF Tells
  <2> QED BY <1>2, <1>4, <2>1, TwoPlainTells
<1> HIDE DEF h
<1>6. Tells(g, h)
  BY <1>2, <1>5, TellsOn
<1>7. Turned(h)
  BY <1>6 DEF Tells, Turns, Turned
<1> QED BY <1>2, <1>3, <1>5, <1>6, <1>7 DEF Told

\* What an engine directs the connection machine to do changes nothing of what
\* is owed, where the sink is not about to turn.
LEMMA DirectedTells ==
  ASSUME NoVconnSwap, NEW f, NEW g, InOrder(g), Spoken(g), Turned(g)
  PROVE  Told(g, Directed(f, g))
<1> DEFINE entered(r) == IF g.eng[r].pe = f.eng[r].pe THEN "none" ELSE g.eng[r].pe
           snk == entered("sink")
           src == entered("source")
           h == Directed(f, g)
<1>1. g.client = ClientIn(g.conn)
  BY DEF InOrder
<1>2. g.client # "sink" => snk \in {"none", "discovery"}
  BY DEF InOrder, Solo, Rests, Resting, Role
<1>3. snk \notin DeafStates \cup {"none"} => ~g.eng["sink"].deaf
  BY DEF InOrder, Engines, Deafened, Role
<1>4. Told(g, g)
  <2>1. Tells(g, g)
    BY AlikeTells DEF Alike
  <2> QED BY <2>1 DEF Told
<1>5. CASE snk = "swap_transition_to_off" /\ g.conn = "attached_snk"
  <2> DEFINE k == [g EXCEPT !.conn = "standby_to_src"]
  <2>1. "standby_to_src" \in Conn /\ h = k
    BY <1>5 DEF Conn, Directed
  <2>2. Tells(g, k) /\ k.eng = g.eng /\ k.conn = "standby_to_src"
    BY <2>1, ConnTells, ConnKeeps DEF InOrder, Around
  <2> HIDE DEF k
  <2> QED BY <1>5, <2>1, <2>2 DEF Told, Turned
<1>6. CASE ~(snk = "swap_transition_to_off" /\ g.conn = "attached_snk")
  <2>0. ~(snk = "swap_assert_rp" /\ g.conn = "standby_to_src")
    BY DEF Turned
  <2>1. CASE src = "swap_assert_rd" /\ g.conn = "attached_src"
    <3>1. g.client = "source"
      BY <1>1, <2>1 DEF ClientIn
    <3>2. h = BeginSwapToSink(g)
      BY <1>6, <2>0, <2>1 DEF Directed
    <3> QED BY <2>1, <3>1, <3>2, BeginSwapToSinkTells
  <2>2. CASE /\ ~(src = "swap_assert_rd" /\ g.conn = "attached_src")
             /\ snk = "swap_source_on_seen" /\ g.conn = "standby_to_snk"
    <3>1. g.client = "sink" /\ ~g.eng["sink"].deaf
      BY <1>2, <1>3, <2>2 DEF DeafStates
    <3>2. h = CompleteToSink(g)
      BY <1>6, <2>0, <2>2 DEF Directed
    <3> QED BY <3>1, <3>2, CompleteToSinkTells
  <2>3. CASE /\ ~(src = "swap_assert_rd" /\ g.conn = "attached_src")
             /\ ~(snk = "swap_source_on_seen" /\ g.conn = "standby_to_snk")
    <3>1. CASE snk = "transition_to_default"
      <4>1. ~g.eng["sink"].deaf
        BY <1>3, <3>1 DEF DeafStates
      <4>2. h = SinkAfterHardReset(g)
        BY <1>6, <2>0, <2>3, <3>1 DEF Directed
      <4> QED BY <3>1, <4>1, <4>2, SinkHardResetTells
    <3>2. CASE snk # "transition_to_default"
      <4>1. h \in {Disconnect(g, "error_recovery"), g}
        BY <1>6, <2>0, <2>3, <3>2 DEF Directed
      <4>2. InOrder(Disconnect(g, "error_recovery"))
            /\ Disconnect(g, "error_recovery").conn = "error_recovery"
        BY DisconnectKeeps
      <4>3. Told(g, Disconnect(g, "error_recovery"))
        BY <4>2, RestTells
      <4> QED BY <1>4, <4>1, <4>3
    <3> QED BY <3>1, <3>2
  <2> QED BY <2>1, <2>2, <2>3
<1> QED BY <1>5, <1>6

\* The old sink comes to rest and the source engine, which owes its PS_RDY now,
\* takes the layer.
LEMMA CompleteToSourceTells ==
  ASSUME NoVconnSwap, NEW g, InOrder(g), Spoken(g), g.client = "sink",
         g.eng["sink"].pe = "swap_assert_rp"
  PROVE  LET h == CompleteToSource(g)
         IN Spoken(h) /\ h.conn = "attached_src"
<1> DEFINE moved == [g EXCEPT !.conn = "attached_src"]
           there == AnnounceData(moved)
           left == vbusRemoved(there)
           taken == takeLayer(left, "source")
           h == Process(taken, "source", "attached_swap", None, FALSE)
<1>1. /\ Around(g, moved) /\ moved.conn = "attached_src" /\ moved.client = g.client
      /\ moved.tx = g.tx
  <2>1. "attached_src" \in Conn
    BY DEF Conn
  <2> QED BY <2>1, ConnKeeps DEF InOrder
<1>2. h = CompleteToSource(g)
  BY DEF CompleteToSource
<1> HIDE DEF moved
<1>3. Announced(moved, there)
  BY <1>1, AnnounceKeeps DEF Around
<1> HIDE DEF there
<1>4. Retired(there, left, "sink")
  BY <1>3, SinkRetires DEF Announced
<1> HIDE DEF left
<1>5. /\ Around(left, taken) /\ taken.conn = left.conn /\ taken.client = "source"
      /\ taken.tx = left.tx
  BY <1>4, TakeKeeps DEF Retired, Role
<1> HIDE DEF taken
<1>6. Silent(g)
  BY DEF Spoken, Speaks, Silent
<1>7. Silent(taken) /\ taken.conn = "attached_src"
  BY <1>1, <1>3, <1>4, <1>5, <1>6 DEF Silent, Announced, Retired
<1>8. /\ taken.eng["sink"].pe = "discovery" /\ taken.eng["source"].pe = "startup"
      /\ ~taken.eng["source"].deaf
  BY <1>1, <1>3, <1>4, <1>5
     DEF InOrder, Solo, Around, Announced, Retired, Rests, Resting, Role
<1>9. Spoken(taken)
  <2>1. \A r \in Role : taken.eng[r].pe \notin VcsStates
    BY <1>8 DEF VcsStates, Role
  <2> QED BY <1>7, <2>1, SilentSpeaks
<1>10. StepTold(taken, h, "source", "attached_swap") /\ Same(taken, h, "source")
  <2>1. /\ Engines(taken) /\ "source" \in Role /\ None \in Terms \cup {None}
        /\ "attached_swap" # "send_vconn_swap" /\ Heard(taken, "source", "attached_swap")
        /\ "attached_swap" \notin {"capabilities_evaluated", "source_capabilities"}
    BY <1>5 DEF Around, Role, Heard, Clearing
  <2> QED BY <1>8, <1>9, <2>1, ProcessTells, ProcessKeeps
<1> HIDE DEF h
<1>11. Spoken(h) /\ h.conn = "attached_src"
  BY <1>7, <1>10 DEF StepTold, Same
<1> QED BY <1>2, <1>11

\* The PS_RDY of the old source reaches the sink which is to take its place.
Swaps(g, r, e) ==
  r = "sink" /\ e = "ps_rdy" /\ g.eng["sink"].pe = "swap_transition_to_off"

\* What a handler does at the live engine, by the kind of its event.
HandleTold(g, h, r, e) ==
  /\ Spoken(h) /\ Turned(h)
  /\ (r = "sink" /\ e \in {"ps_rdy", "reject"}) \/ Draws(g, h)
  /\ (r = "source" /\ e = "request") \/ Swaps(g, r, e) \/ Owes(g, h)
  /\ Swaps(g, r, e) \/ (Turns(g, h) /\ (h.conn = "attached_src" => g.conn = "attached_src"))

\* An event at the live engine, with everything it sets in motion.
LEMMA HandleTells ==
  ASSUME NoVconnSwap, NEW g, InOrder(g), Spoken(g), Turned(g),
         NEW r \in Role, r = g.client, NEW e, e \notin {"send_vconn_swap", "attached_swap"},
         e \in Clearing => Silent(g), NEW x \in Terms \cup {None}, NEW yes,
         e \in {"capabilities_evaluated", "source_capabilities"} => x \in Terms,
         g.eng[r].deaf => e \in QuietEvents
  PROVE  HandleTold(g, Handle(g, r, e, x, yes), r, e)
<1> DEFINE k == Process(g, r, e, x, yes)
           h == Directed(g, k)
<1>1. InOrder(k) /\ Same(g, k, r)
  BY LiveProcess
<1>2. StepTold(g, k, r, e)
  <2>1. Engines(g) /\ Heard(g, r, e) /\ e # "send_vconn_swap"
    BY DEF InOrder, Heard
  <2> QED BY <2>1, ProcessTells
<1>3. Handle(g, r, e, x, yes) = h
  BY DEF Handle
<1> HIDE DEF k
<1>4. CASE Turned(k)
  <2>1. Told(k, h)
    BY <1>1, <1>2, <1>4, DirectedTells DEF StepTold
  <2> HIDE DEF h
  <2>2. Tells(k, h) /\ Turned(h) /\ (h.conn = "attached_src" => k.conn = "attached_src")
    BY <2>1 DEF Told
  <2>3. \/ r = "sink" /\ e \in {"ps_rdy", "reject"}
        \/ Draws(g, h)
    BY <1>2, <2>2, TellsOn DEF StepTold, Tells
  <2>4. \/ r = "source" /\ e = "request"
        \/ Owes(g, h)
    BY <1>2, <2>2, TellsOn DEF StepTold, Tells
  <2>5. Swaps(g, r, e) \/ Turns(g, h)
    BY <1>2, <2>2, TellsOn DEF StepTold, Tells, Swaps
  <2> QED BY <1>1, <1>3, <2>2, <2>3, <2>4, <2>5 DEF HandleTold, Same, Tells
<1>5. CASE ~Turned(k)
  <2>1. k.eng["sink"].pe = "swap_assert_rp" /\ k.conn = "standby_to_src"
    BY <1>5 DEF Turned
  <2>2. Swaps(g, r, e)
    <3>1. ~Turns(g, k)
      BY <1>1, <2>1 DEF Turned, Turns, Same
    <3> QED BY <1>2, <3>1 DEF StepTold, Swaps
  <2>3. k.client = "sink"
    BY <1>1, <2>2 DEF Swaps, Same
  <2>4. h = CompleteToSource(k)
    <3>1. g.eng["sink"].pe # k.eng["sink"].pe
      BY <2>1, <2>2 DEF Swaps
    <3> QED BY <2>1, <3>1 DEF Directed
  <2> HIDE DEF h
  <2>5. Spoken(h) /\ h.conn = "attached_src"
    <3>1. Spoken(k)
      BY <1>2 DEF StepTold
    <3> QED BY <1>1, <2>1, <2>3, <2>4, <3>1, CompleteToSourceTells
  <2> QED BY <1>3, <2>2, <2>5 DEF HandleTold, Turned, Swaps
<1> QED BY <1>4, <1>5

\* The usual event.
LEMMA UsualTells ==
  ASSUME NoVconnSwap, NEW g, InOrder(g), Spoken(g), Turned(g), g.client # "none",
         NEW e, Usual(e), Plain(e), e \in Clearing => Silent(g),
         g.eng[g.client].deaf => e \in QuietEvents
  PROVE  Told(g, Handle(g, g.client, e, None, FALSE))
<1> DEFINE r == g.client
           h == Handle(g, r, e, None, FALSE)
<1>1. r \in Role /\ None \in Terms \cup {None}
  BY PortFields DEF InOrder, Engines
<1>2. /\ e \notin {"send_vconn_swap", "attached_swap"}
      /\ e \notin {"capabilities_evaluated", "source_capabilities"}
  BY DEF Usual, Plain
<1> HIDE DEF r
<1>3. HandleTold(g, h, r, e)
  BY <1>1, <1>2, HandleTells DEF r
<1> HIDE DEF h
<1>4. Told(g, h)
  BY <1>3 DEF HandleTold, Usual, Swaps, Told, Tells
<1> QED BY <1>4 DEF h, r

-----------------------------------------------------------------------------
(***************************************************************************)
(* The handlers, from the port whose transmission, if any, has ended.      *)
(***************************************************************************)
\* The port between two handlers.
Orderly(g) == InOrder(g) /\ Spoken(g) /\ Turned(g)

\* What was under way is over.
LEMMA SentTells ==
  ASSUME NEW g, Orderly(g), g.client # "none"
  PROVE  LET sent == [g EXCEPT !.tx = Idle]
         IN /\ Orderly(sent) /\ Silent(sent) /\ Told(g, sent)
            /\ sent.client = g.client /\ sent.conn = g.conn /\ sent.eng = g.eng
            /\ sent.tx = Idle
<1> DEFINE sent == [g EXCEPT !.tx = Idle]
<1>1. Idle \in TxType /\ Typed(g)
  BY DEF Orderly, InOrder, Engines, Idle, TxType
<1>2. InOrder(sent) /\ sent.client = g.client /\ sent.eng = g.eng
  BY <1>1, LiveTx DEF Orderly
<1>3. sent.conn = g.conn /\ sent.tx = Idle
  BY <1>1 DEF Typed
<1> HIDE DEF sent
<1>4. Silent(sent)
  BY <1>3 DEF Silent, Idle
<1>5. Spoken(sent)
  BY <1>2, <1>4, SilentSpeaks DEF Orderly, Spoken
<1>6. Draws(g, sent) /\ Owes(g, sent) /\ Turns(g, sent) /\ Turned(sent)
  BY <1>2, <1>3 DEF Draws, Owes, Turns, Turned, Orderly, Idle
<1>7. Orderly(sent) /\ Told(g, sent)
  BY <1>2, <1>3, <1>5, <1>6 DEF Orderly, Told, Tells
<1> QED BY <1>2, <1>3, <1>4, <1>7 DEF sent

\* The live engine's context written: what it says stays what it was.
LEMMA ContextTold ==
  ASSUME NEW g, Orderly(g), NEW r \in Role,
         NEW en, en.pe = g.eng[r].pe
  PROVE  LET h == [g EXCEPT !.eng[r] = en]
         IN Told(g, h) /\ h.tx = g.tx /\ h.client = g.client /\ h.eng[r] = en
<1> DEFINE h == [g EXCEPT !.eng[r] = en]
<1>1. Typed(g)
  BY DEF Orderly, InOrder, Engines
<1>2. /\ h.client = g.client /\ h.conn = g.conn /\ h.tx = g.tx /\ h.eng[r] = en
      /\ \A q \in Role \ {r} : h.eng[q] = g.eng[q]
  BY <1>1 DEF Typed
<1> HIDE DEF h
<1>3. Alike(g, h)
  BY <1>2 DEF Alike
<1>4. Tells(g, h)
  BY <1>3, AlikeTells DEF Orderly
<1>5. Told(g, h)
  BY <1>2, <1>4 DEF Told, Tells, Turns, Turned, Orderly
<1> QED BY <1>2, <1>5 DEF h

\* The relation of two steps in a row.
LEMMA ToldOn ==
  ASSUME NEW g, NEW k, NEW h, Told(g, k), Told(k, h)
  PROVE  Told(g, h)
  BY TellsOn DEF Told

\* A transmission confirmed, or lost.
LEMMA TransmittedTells ==
  ASSUME NoVconnSwap, NEW g, Orderly(g), g.client # "none"
  PROVE  LET sent == [g EXCEPT !.tx = Idle]
         IN Told(sent, TxDone(g)) /\ Told(sent, TxError(g))
<1> DEFINE r == g.client
           sent == [g EXCEPT !.tx = Idle]
           en == [sent.eng[r] EXCEPT !.connected = TRUE]
           known == [sent EXCEPT !.eng[r] = en]
<1>1. r \in Role
  BY PortFields DEF Orderly, InOrder, Engines
<1>2. Orderly(sent) /\ Silent(sent) /\ sent.client = r /\ sent.eng = g.eng
  BY SentTells
<1> HIDE DEF sent
<1>3. Told(sent, known)
  <2>1. sent.eng[r] \in EngineType(SinkStates \cup SourceStates)
    BY <1>1, <1>2, PortFields DEF Orderly, InOrder, Engines
  <2>2. en.pe = sent.eng[r].pe
    BY <2>1 DEF EngineType
  <2> HIDE DEF en
  <2> QED BY <1>1, <1>2, <2>2, ContextTold
<1>4. /\ Usual("message_sent") /\ Plain("message_sent") /\ "message_sent" \in QuietEvents
      /\ Usual("protocol_error") /\ Plain("protocol_error")
      /\ "protocol_error" \in QuietEvents
  BY DEF Usual, Plain, QuietEvents
<1>5. /\ Told(sent, Handle(sent, r, "message_sent", None, FALSE))
      /\ Told(sent, Handle(sent, r, "protocol_error", None, FALSE))
  BY <1>1, <1>2, <1>4, UsualTells DEF Orderly
<1>6. TxDone(g) \in {known, Handle(sent, r, "message_sent", None, FALSE)}
  <2>1. known = [sent EXCEPT !.eng[r].connected = TRUE]
    BY <1>1, <1>2 DEF Orderly, InOrder, Engines, Typed
  <2> QED BY <2>1 DEF TxDone, sent
<1>7. TxError(g) = Handle(sent, r, "protocol_error", None, FALSE)
  BY DEF TxError, sent
<1> QED BY <1>3, <1>5, <1>6, <1>7 DEF sent

\* A hard reset heard, or signalled.
LEMMA ResetTells ==
  ASSUME NoVconnSwap, NEW g, Orderly(g), g.client # "none"
  PROVE  LET sent == [g EXCEPT !.tx = Idle]
         IN Told(sent, HardResetHeard(g)) /\ Told(sent, HardResetSent(g))
<1> DEFINE r == g.client
           sent == [g EXCEPT !.tx = Idle]
           en == [sent.eng[r] EXCEPT !.deaf = FALSE]
           hearing == [sent EXCEPT !.eng[r] = en]
<1>1. r \in Role /\ Typed(g)
  BY PortFields DEF Orderly, InOrder, Engines
<1>2. Orderly(sent) /\ Silent(sent) /\ sent.client = r /\ sent.eng = g.eng
  BY SentTells
<1>3. [g EXCEPT !.tx = Idle, !.eng[r].deaf = FALSE] = hearing
  BY <1>1 DEF Typed
<1> HIDE DEF sent
<1>4. /\ Orderly(hearing) /\ hearing.client = r /\ ~hearing.eng[r].deaf
      /\ Told(sent, hearing) /\ Silent(hearing)
  <2>1. sent.eng[r] \in EngineType(SinkStates \cup SourceStates)
    BY <1>1, <1>2, PortFields DEF Orderly, InOrder, Engines
  <2>2. /\ en \in EngineType(SinkStates \cup SourceStates)
        /\ en.pe = sent.eng[r].pe /\ en.explicit = sent.eng[r].explicit
        /\ en.pending = sent.eng[r].pending /\ en.terms = sent.eng[r].terms
        /\ ~en.deaf /\ en.parked = sent.eng[r].parked
    BY <2>1 DEF EngineType
  <2>3. r = "source" => sent.eng[r].parked = "none"
    BY <1>2 DEF Orderly, InOrder, Engines
  <2> HIDE DEF en
  <2>4. InOrder(hearing) /\ hearing.client = sent.client /\ hearing.eng[r] = en
    BY <1>1, <1>2, <2>2, <2>3, LiveContext DEF Orderly
  <2>5. Told(sent, hearing) /\ hearing.tx = sent.tx
    BY <1>1, <1>2, <2>2, ContextTold
  <2> HIDE DEF hearing
  <2> QED BY <1>2, <2>2, <2>4, <2>5 DEF Orderly, Told, Tells, Silent
<1> HIDE DEF hearing
<1>5. /\ Usual("hard_reset_received") /\ Plain("hard_reset_received")
      /\ Usual("hard_reset_complete") /\ Plain("hard_reset_complete")
  BY DEF Usual, Plain
<1>6. /\ Told(hearing, Handle(hearing, r, "hard_reset_received", None, FALSE))
      /\ Told(hearing, Handle(hearing, r, "hard_reset_complete", None, FALSE))
  BY <1>1, <1>4, <1>5, UsualTells DEF Orderly
<1>7. /\ Told(sent, Handle(hearing, r, "hard_reset_received", None, FALSE))
      /\ Told(sent, Handle(hearing, r, "hard_reset_complete", None, FALSE))
  BY <1>4, <1>6, ToldOn
<1> QED BY <1>3, <1>7 DEF HardResetHeard, HardResetSent, sent

\* An engine's timer runs out.
LEMMA TimeoutTells ==
  ASSUME NoVconnSwap, NEW g, Orderly(g), NEW r \in Role, g.eng[r].pe \in Timed(r)
  PROVE  Told(g, PeTimeout(g, r))
<1>1. Resting(r) \notin Timed(r)
  BY DEF Resting, Timed, SinkTimed, SourceTimed, SharedTimed
<1>2. r = g.client /\ g.client # "none"
  BY <1>1 DEF Orderly, InOrder, Solo, Rests, Role
<1>3. /\ Usual("timeout") /\ Plain("timeout") /\ "timeout" \notin Clearing
      /\ "timeout" \in QuietEvents
  BY DEF Usual, Plain, Clearing, QuietEvents
<1>4. Told(g, Handle(g, g.client, "timeout", None, FALSE))
  BY <1>2, <1>3, UsualTells DEF Orderly
<1> QED BY <1>2, <1>4 DEF PeTimeout

\* tVCONNSourceTimeout.
LEMMA VconnTimeoutTells ==
  ASSUME NoVconnSwap, NEW g, Orderly(g), g.vconn = "wait"
  PROVE  Told(g, VconnTimeout(g))
<1> DEFINE v == VconnNext(g.vconn, "timeout")
           h == [g EXCEPT !.vconn = v]
<1>1. g.client # "none" /\ Typed(g)
  BY DEF Orderly, InOrder, Engines, Loose
<1>2. v \in VconnState
  BY DEF VconnNext, VconnState
<1> HIDE DEF v
<1>3. InOrder(h) /\ h.client = g.client /\ h.eng = g.eng
  BY <1>1, <1>2, LiveVconn DEF Orderly
<1>4. VconnTimeout(g) = Handle(h, g.client, "hard_reset_request", None, FALSE)
  BY DEF VconnTimeout, v
<1>5. h.tx = g.tx /\ h.conn = g.conn
  BY <1>1 DEF Typed
<1> HIDE DEF h
<1>6. Told(g, h)
  <2>1. Tells(g, h)
    BY <1>3, <1>5, AlikeTells DEF Alike, Orderly
  <2> QED BY <1>3, <1>5, <2>1 DEF Told, Turned, Orderly
<1>7. Told(h, Handle(h, h.client, "hard_reset_request", None, FALSE))
  <2>1. /\ Usual("hard_reset_request") /\ Plain("hard_reset_request")
        /\ "hard_reset_request" \notin Clearing /\ "hard_reset_request" \in QuietEvents
    BY DEF Usual, Plain, Clearing, QuietEvents
  <2>2. Spoken(h) /\ Turned(h)
    BY <1>6 DEF Told, Tells
  <2> QED BY <1>1, <1>3, <2>1, <2>2, UsualTells
<1> QED BY <1>3, <1>4, <1>6, <1>7, ToldOn

\* The supply settles.
LEMMA SupplyTells ==
  ASSUME NoVconnSwap, NEW g, Orderly(g)
  PROVE  Told(g, SupplySettled(g))
<1> DEFINE supply == [g.supply EXCEPT !.pending = FALSE]
           seen == [g EXCEPT !.supply = supply]
<1>1. Typed(g) /\ g.supply \in SupplyType
  BY PortFields DEF Orderly, InOrder, Engines
<1>2. supply \in SupplyType
  BY <1>1 DEF SupplyType
<1>3. seen = [g EXCEPT !.supply.pending = FALSE]
  BY <1>1 DEF Typed
<1> HIDE DEF supply
<1>4. /\ seen.power = g.power /\ seen.rp = g.rp /\ seen.eng = g.eng /\ seen.tx = g.tx
      /\ seen.conn = g.conn /\ seen.client = g.client /\ seen.vconn = g.vconn
  BY <1>1 DEF Typed
<1>5. Typed(seen)
  BY <1>1, <1>2 DEF Typed, SupplyType
<1>6. SupplySettled(g) = Handle(seen, "source", "supply_settled", None, FALSE)
  BY <1>3 DEF SupplySettled
<1> HIDE DEF seen
<1>7. InOrder(seen)
  <2>1. Around(g, seen)
    BY <1>4, <1>5, AroundKeeps DEF Orderly, InOrder
  <2> QED BY <1>4, <2>1 DEF Orderly, InOrder, Around, Solo, Rests, Loose
<1>8. Told(g, seen) /\ Orderly(seen)
  <2>1. Tells(g, seen)
    BY <1>4, AlikeTells DEF Alike, Orderly
  <2> QED BY <1>4, <1>7, <2>1 DEF Told, Tells, Turned, Orderly
<1>9. CASE g.client = "source"
  <2>1. /\ Usual("supply_settled") /\ Plain("supply_settled")
        /\ "supply_settled" \notin Clearing /\ "supply_settled" \in QuietEvents
    BY DEF Usual, Plain, Clearing, QuietEvents
  <2>2. Told(seen, Handle(seen, seen.client, "supply_settled", None, FALSE))
    BY <1>4, <1>8, <1>9, <2>1, UsualTells DEF Orderly
  <2> QED BY <1>4, <1>6, <1>8, <1>9, <2>2, ToldOn
<1>10. CASE g.client # "source"
  <2> DEFINE e == "supply_settled"
             h == Step(seen, "source", e, None, FALSE)
  <2>1. seen.eng["source"].pe = "startup" /\ "source" \in Role
    BY <1>4, <1>10 DEF Orderly, InOrder, Solo, Rests, Resting, Role
  <2>2. NoRow("source", seen.eng["source"].pe, e)
    BY <2>1, SourceTable DEF Table, SourceFits, NoRow
  <2>3. h = seen
    <3> HIDE DEF e
    <3> QED BY <1>5, <2>1, <2>2, NoStep
  <2>4. Emits(seen, h, "source", FALSE) = "none"
    BY <2>3 DEF Emits
  <2>5. Step(seen, "source", "none", None, FALSE) = seen
    BY <1>5, <2>1, NoneMovesNothing
  <2>6. Process(seen, "source", e, None, FALSE) = seen
    BY <2>3, <2>4, <2>5 DEF Process, Follow
  <2>7. SupplySettled(g) = Directed(seen, seen)
    BY <1>6, <2>6 DEF Handle
  <2>8. Told(seen, Directed(seen, seen))
    BY <1>8, DirectedTells DEF Orderly
  <2> QED BY <1>8, <2>7, <2>8, ToldOn
<1> QED BY <1>9, <1>10

\* The sink sees Rp.
LEMMA RpSeenTells ==
  ASSUME NoVconnSwap, NEW g, Orderly(g), g.conn = "attached_snk", NEW ok \in BOOLEAN
  PROVE  Told(g, RpSeen(g, ok))
<1> DEFINE h == sinkTxChanged(g, ok)
<1>1. Fired(g, h) /\ Tells(g, h)
  BY SinkTxKeeps, SinkTxTells DEF Orderly, InOrder
<1> HIDE DEF h
<1>2. InOrder(h)
  BY <1>1 DEF Orderly, InOrder, Fired, Solo, Rests, Loose, ClientIn, Role
<1>3. Told(g, h)
  BY <1>1 DEF Told, Tells, Turned, Fired
<1>4. Told(h, Directed(g, h))
  BY <1>2, <1>3, DirectedTells DEF Told, Tells
<1> QED BY <1>3, <1>4, ToldOn DEF RpSeen, h

\* The application asks for a swap.
LEMMA AskTells ==
  ASSUME NoVconnSwap, NEW g, Orderly(g), g.client # "none",
         NEW seq \in {"pr_swap", "dr_swap"}
  PROVE  Told(g, AskSwap(g, seq))
<1> DEFINE r == g.client
           en == [g.eng["sink"] EXCEPT !.parked = seq]
           parked == [g EXCEPT !.eng["sink"] = en]
           e == IF r = "sink" \/ ~Rev3 THEN Swap(seq)
                ELSE IF seq = "pr_swap" THEN "begin_pr_swap" ELSE "begin_dr_swap"
<1>1. Told(g, parked)
  <2>1. g.eng["sink"] \in EngineType(SinkStates \cup SourceStates) /\ "sink" \in Role
    BY PortFields DEF Orderly, InOrder, Engines, Role
  <2>2. en.pe = g.eng["sink"].pe
    BY <2>1 DEF EngineType
  <2> HIDE DEF en
  <2> QED BY <2>1, <2>2, ContextTold
<1>2. Usual(e) /\ Plain(e) /\ e \notin Clearing /\ e \in QuietEvents
  BY DEF Swap, Usual, Plain, Clearing, QuietEvents
<1> HIDE DEF e
<1>3. Told(g, Handle(g, r, e, None, FALSE))
  BY <1>2, UsualTells DEF Orderly
<1>4. AskSwap(g, seq) \in {g, parked, Handle(g, r, e, None, FALSE)}
  <2>1. parked = [g EXCEPT !.eng["sink"].parked = seq]
    BY DEF Orderly, InOrder, Engines, Typed
  <2> QED BY <2>1 DEF AskSwap, e
<1>5. Told(g, g)
  <2>1. Tells(g, g)
    BY AlikeTells DEF Alike, Orderly
  <2> QED BY <2>1 DEF Told, Orderly
<1> QED BY <1>1, <1>3, <1>4, <1>5

\* VBUS in the window of a hard reset.
LEMMA WindowTells ==
  ASSUME NoVconnSwap, NEW g, Orderly(g), NEW ok \in BOOLEAN
  PROVE  /\ g.conn = "hard_reset_snk" => Told(g, WindowVbusGone(g))
         /\ g.conn = "hard_reset_recover_snk" => Told(g, WindowVbusBack(g, ok))
<1>1. Engines(g) /\ Spoken(g)
  BY DEF Orderly, InOrder
<1>2. Told(g, WindowVbusGone(g))
  <2> DEFINE h == [g EXCEPT !.conn = "hard_reset_recover_snk"]
  <2>1. "hard_reset_recover_snk" \in Conn /\ h = WindowVbusGone(g)
    BY DEF Conn, WindowVbusGone
  <2>2. Tells(g, h) /\ h.conn = "hard_reset_recover_snk"
    BY <1>1, <2>1, ConnTells, ConnKeeps
  <2> HIDE DEF h
  <2> QED BY <2>1, <2>2 DEF Told, Turned
<1>3. ASSUME g.conn = "hard_reset_recover_snk" PROVE Told(g, WindowVbusBack(g, ok))
  <2> DEFINE moved == [g EXCEPT !.conn = "attached_snk"]
             there == AnnounceData(moved)
             seen == sinkTxChanged(there, ok)
             taken == takeLayer(seen, "sink")
             h == Process(taken, "sink", "vbus_present", None, FALSE)
  <2>1. Around(g, moved) /\ Tells(g, moved) /\ moved.conn = "attached_snk"
        /\ moved.client = "sink"
    <3>1. "attached_snk" \in Conn /\ g.client = "sink"
      BY <1>3 DEF Conn, ClientIn, Orderly, InOrder
    <3> QED BY <1>1, <3>1, ConnTells, ConnKeeps
  <2>2. h = WindowVbusBack(g, ok)
    BY DEF WindowVbusBack, vbusPresent
  <2> HIDE DEF moved
  <2>3. Announced(moved, there) /\ Tells(moved, there)
    BY <2>1, AnnounceKeeps, AnnounceTells DEF Around, Tells
  <2> HIDE DEF there
  <2>4. Fired(there, seen) /\ Tells(there, seen)
    BY <2>3, SinkTxKeeps, SinkTxTells DEF Announced, Tells
  <2> HIDE DEF seen
  <2>5. Around(seen, taken) /\ Tells(seen, taken) /\ taken.conn = "attached_snk"
    <3>1. seen.client = "sink" /\ seen.conn = "attached_snk" /\ Engines(seen)
      BY <2>1, <2>3, <2>4 DEF Announced, Fired
    <3>2. /\ Around(seen, taken) /\ taken.conn = seen.conn /\ taken.client = "sink"
          /\ taken.tx = seen.tx
      BY <3>1, TakeKeeps DEF Role
    <3> HIDE DEF taken
    <3>3. Alike(seen, taken)
      BY <3>1, <3>2 DEF Alike, Around
    <3> QED BY <2>4, <3>1, <3>2, <3>3, AlikeTells DEF Tells
  <2> HIDE DEF taken
  <2>6. Tells(taken, h) /\ Same(taken, h, "sink")
    <3>1. /\ Usual("vbus_present") /\ "vbus_present" \notin Clearing
          /\ Plain("vbus_present") /\ "vbus_present" \in QuietEvents /\ "sink" \in Role
      BY DEF Usual, Clearing, Plain, QuietEvents, Role
    <3> QED BY <2>5, <3>1, PlainTells DEF Around, Tells
  <2> HIDE DEF h
  <2>7. Tells(g, h) /\ h.conn = "attached_snk"
    <3>1. Tells(g, there)
      BY <2>1, <2>3, TellsOn
    <3>2. Tells(g, seen)
      BY <2>4, <3>1, TellsOn
    <3>3. Tells(g, taken)
      BY <2>5, <3>2, TellsOn
    <3> QED BY <2>5, <2>6, <3>3, TellsOn DEF Same
  <2> QED BY <2>2, <2>7 DEF Told, Turned
<1> QED BY <1>2, <1>3

\* A fresh attach owes nothing yet.
LEMMA AttachedTells ==
  ASSUME NoVconnSwap, NEW g, Orderly(g), g.client = "none", NEW r \in Role,
         NEW ok \in BOOLEAN, NEW ra \in BOOLEAN
  PROVE  LET h == Attached(g, r, ok, ra)
         IN /\ Tells(g, h) /\ Turned(h)
            /\ h.conn = IF r = "sink" THEN "attached_snk" ELSE "attached_src"
<1> DEFINE conn == IF r = "sink" THEN "attached_snk" ELSE "attached_src"
           role == defaultDataRole(r)
           moved == [g EXCEPT !.conn = conn]
           placed == [moved EXCEPT !.data = role]
           there == AnnounceData(placed)
           vconn == IF ra /\ "vconn" \in Features
                    THEN VconnNext(g.vconn, "attached_source_ra") ELSE g.vconn
<1>1. conn \in Conn /\ role \in DataRole
  BY DEF Conn, DataRole, defaultDataRole
<1>2. placed = [g EXCEPT !.conn = conn, !.data = role]
  OBVIOUS
<1>3. Engines(g) /\ Rests(g, "sink") /\ Rests(g, "source") /\ g.tx = Idle
  BY DEF Orderly, InOrder, Solo, Loose, Role
<1>4. Around(g, placed) /\ placed.conn = conn /\ placed.tx = Idle /\ placed.client = "none"
  <2>1. Typed(g)
    BY <1>3 DEF Engines
  <2>2. /\ placed.power = g.power /\ placed.rp = g.rp /\ placed.eng = g.eng
        /\ placed.conn = conn /\ placed.tx = g.tx /\ placed.client = g.client
    BY <2>1 DEF Typed
  <2>3. Typed(placed)
    BY <1>1, <2>1 DEF Typed
  <2> HIDE DEF placed, conn
  <2> QED BY <1>3, <2>2, <2>3, AroundKeeps
<1>5. Announced(placed, there)
  BY <1>4, AnnounceKeeps DEF Around
<1>6. Attached(g, r, ok, ra) =
        IF r = "sink" THEN vbusPresent(sinkTxChanged(there, ok))
        ELSE Process(takeLayer([there EXCEPT !.vconn = vconn], "source"),
                     "source", "attached", None, FALSE)
  BY <1>2 DEF Attached
<1>7. (conn = "attached_snk" <=> r = "sink") /\ (conn = "attached_src" <=> r = "source")
  BY DEF Role
<1> HIDE DEF there, conn, placed, vconn
<1>8. /\ Rests(there, "sink") /\ Rests(there, "source") /\ there.conn = conn
      /\ Engines(there) /\ there.tx = Idle /\ there.client = "none"
      /\ \A q \in Role : there.eng[q].pe = g.eng[q].pe
  BY <1>3, <1>4, <1>5 DEF Around, Announced, Rests, Role
<1>9. Tells(g, there)
  <2>1. Alike(g, there)
    BY <1>3, <1>8 DEF Alike
  <2> QED BY <2>1, AlikeTells DEF Orderly
<1>10. CASE r = "sink"
  <2> DEFINE seen == sinkTxChanged(there, ok)
             taken == takeLayer(seen, "sink")
             h == Process(taken, "sink", "vbus_present", None, FALSE)
  <2>1. Fired(there, seen) /\ Tells(there, seen)
    BY <1>8, <1>9, SinkTxKeeps, SinkTxTells DEF Tells
  <2>2. Attached(g, r, ok, ra) = h
    BY <1>6, <1>10 DEF vbusPresent
  <2> HIDE DEF seen
  <2>3. /\ Around(seen, taken) /\ taken.client = "sink" /\ taken.conn = seen.conn
        /\ taken.tx = seen.tx
    BY <2>1, TakeKeeps DEF Fired, Role
  <2> HIDE DEF taken
  <2>4. Tells(seen, taken)
    <3>1. Silent(seen) /\ \A q \in Role : seen.eng[q].pe \notin VcsStates
      BY <1>8, <2>1 DEF Tells, Spoken, Fired, Role
    <3>2. Spoken(taken)
      BY <2>3, <3>1, SilentSpeaks DEF Around, Silent
    <3> QED BY <2>3, <3>2 DEF Tells, Draws, Owes, Turns, Around
  <2>5. ~taken.eng["sink"].deaf /\ "sink" \in Role
    BY <1>8, <2>1, <2>3 DEF Around, Fired, Rests, Role
  <2>6. Usual("vbus_present") /\ "vbus_present" \notin Clearing /\ Plain("vbus_present")
    BY DEF Usual, Clearing, Plain
  <2>7. Tells(taken, h) /\ Same(taken, h, "sink")
    BY <2>3, <2>4, <2>5, <2>6, PlainTells DEF Around, Tells
  <2> HIDE DEF h
  <2>8. Tells(g, h)
    <3>1. Tells(g, seen)
      BY <1>9, <2>1, TellsOn
    <3>2. Tells(g, taken)
      BY <2>4, <3>1, TellsOn
    <3> QED BY <2>7, <3>2, TellsOn
  <2>9. h.conn = "attached_snk"
    BY <1>7, <1>8, <1>10, <2>1, <2>3, <2>7 DEF Fired, Same
  <2> QED BY <1>10, <2>2, <2>8, <2>9 DEF Turned
<1>11. CASE r = "source"
  <2> DEFINE powered == [there EXCEPT !.vconn = vconn]
             taken == takeLayer(powered, "source")
             h == Process(taken, "source", "attached", None, FALSE)
  <2>1. Attached(g, r, ok, ra) = h
    BY <1>6, <1>11
  <2>2. vconn \in VconnState /\ Typed(there) /\ there.tx \in TxType
    <3>1. g.vconn \in VconnState
      BY <1>3, PortFields DEF Engines
    <3>2. VconnNext(g.vconn, "attached_source_ra") \in VconnState
      BY <3>1 DEF VconnNext, VconnState
    <3> QED BY <1>8, <3>1, <3>2, PortFields DEF Engines, vconn
  <2>3. powered = Layer(there, there.tx, vconn)
    BY <2>2 DEF Typed, Layer
  <2> HIDE DEF powered
  <2>4. Around(there, powered) /\ powered.conn = there.conn /\ powered.tx = there.tx
    BY <1>8, <2>2, <2>3, LayerKeeps
  <2>5. /\ Around(powered, taken) /\ taken.client = "source" /\ taken.conn = powered.conn
        /\ taken.tx = powered.tx
    BY <2>4, TakeKeeps DEF Around, Role
  <2> HIDE DEF taken
  <2>6. taken.eng = there.eng /\ taken.tx = Idle
    BY <1>8, <2>4, <2>5 DEF Around
  <2>7. Tells(there, taken)
    <3>1. Silent(taken) /\ \A q \in Role : taken.eng[q].pe \notin VcsStates
      BY <1>9, <2>6 DEF Tells, Spoken, Silent, Idle
    <3>2. Spoken(taken)
      BY <3>1, SilentSpeaks
    <3> QED BY <2>6, <3>1, <3>2 DEF Tells, Draws, Owes, Turns, Silent
  <2>8. ~taken.eng["source"].deaf /\ "source" \in Role
    BY <1>8, <2>6 DEF Rests, Role
  <2>9. Usual("attached") /\ "attached" \notin Clearing /\ Plain("attached")
    BY DEF Usual, Clearing, Plain
  <2>10. Tells(taken, h) /\ Same(taken, h, "source")
    BY <2>5, <2>7, <2>8, <2>9, PlainTells DEF Around, Tells
  <2> HIDE DEF h
  <2>11. Tells(g, h)
    <3>1. Tells(g, taken)
      BY <1>9, <2>7, TellsOn
    <3> QED BY <2>10, <3>1, TellsOn
  <2>12. h.conn = "attached_src"
    BY <1>7, <1>8, <1>11, <2>4, <2>5, <2>10 DEF Same
  <2> QED BY <1>11, <2>1, <2>11, <2>12 DEF Turned
<1> QED BY <1>10, <1>11 DEF Role

\* The message lets the sink out of the old source's way.
Yields(g, m) ==
  m.type = "ps_rdy" /\ g.client = "sink" /\ g.eng["sink"].pe = "swap_transition_to_off"

\* What a message does, by its kind.
ReceivedTold(g, h, m) ==
  /\ Spoken(h) /\ Turned(h)
  /\ m.type \in {"ps_rdy", "reject"} \/ Draws(g, h)
  /\ m.type = "request" \/ Yields(g, m) \/ Owes(g, h)
  /\ Yields(g, m) \/ (h.conn = "attached_src" => g.conn = "attached_src")

\* A message the layer delivers, whatever the policy says to it.
LEMMA ReceivedTells ==
  ASSUME NoVconnSwap, NEW g, Orderly(g), g.client # "none", g.tx # HardReset,
         NEW m \in TxType, NEW x \in Terms, NEW yes
  PROVE  LET sent == [g EXCEPT !.tx = Idle]
         IN ReceivedTold(sent, Received(g, m, x, yes), m)
<1> DEFINE r == g.client
           sent == [g EXCEPT !.tx = Idle]
           en == g.eng[r]
           deafened == [en EXCEPT !.deaf = TRUE]
           deaf == [sent EXCEPT !.eng[r] = deafened]
           y == IF m.type = "request" THEN m.terms ELSE x
           e == EventOf(g, r, m.type)
           h == Handle(sent, r, e, y, yes)
<1>1. /\ Typed(g) /\ r \in Role /\ en \in EngineType(SinkStates \cup SourceStates)
  BY PortFields DEF Orderly, InOrder, Engines
<1>2. Orderly(sent) /\ Silent(sent) /\ sent.client = r /\ sent.eng = g.eng
  BY SentTells
<1>3. /\ y \in Terms \cup {None}
      /\ e \in {"capabilities_evaluated", "source_capabilities"} => y \in Terms
      /\ e \notin {"send_vconn_swap", "attached_swap"}
      /\ e \in {"ps_rdy", "reject", "request"} => e = m.type
      /\ e = "request" => r = "source"
  BY DEF TxType, EventOf
<1>4. Received(g, m, x, yes) =
        IF en.deaf THEN sent
        ELSE IF m.type = "bist_test_data" /\ At5VContract(en) /\ en.pe = "ready"
        THEN deaf
        ELSE h
  <2>1. [sent EXCEPT !.eng[r].deaf = TRUE] = deaf
    BY <1>1 DEF Typed
  <2>2. [g EXCEPT !.tx = IF g.tx = HardReset THEN g.tx ELSE Idle] = sent
    OBVIOUS
  <2> QED BY <2>1, <2>2 DEF Received
<1> HIDE DEF sent, e, y
<1>5. Told(sent, sent)
  <2>1. Tells(sent, sent)
    BY <1>2, AlikeTells DEF Alike, Orderly
  <2> QED BY <1>2, <2>1 DEF Told, Orderly
<1>6. Told(sent, deaf)
  <2>1. deafened.pe = en.pe
    BY <1>1 DEF EngineType
  <2> HIDE DEF deafened
  <2> QED BY <1>1, <1>2, <2>1, ContextTold
<1>7. \A k : Told(sent, k) => ReceivedTold(sent, k, m)
  BY DEF Told, Tells, ReceivedTold
<1>8. CASE ~en.deaf
  <2>1. HandleTold(sent, h, r, e)
    <3>1. InOrder(sent) /\ Spoken(sent) /\ Turned(sent) /\ r = sent.client
          /\ ~sent.eng[r].deaf
      BY <1>2, <1>8 DEF Orderly
    <3> HIDE DEF r
    <3> QED BY <1>1, <1>2, <1>3, <3>1, HandleTells
  <2> HIDE DEF h
  <2>2. Swaps(sent, r, e) => Yields(sent, m)
    BY <1>2, <1>3 DEF Swaps, Yields
  <2>3. ReceivedTold(sent, h, m)
    BY <1>3, <2>1, <2>2 DEF HandleTold, ReceivedTold
  <2>4. ReceivedTold(sent, deaf, m)
    BY <1>6, <1>7
  <2> HIDE DEF deaf, r, en
  <2> QED BY <1>4, <1>8, <2>3, <2>4 DEF sent, r, en
<1> QED BY <1>4, <1>5, <1>7, <1>8 DEF sent

-----------------------------------------------------------------------------
(***************************************************************************)
(* The two ports together.                                                 *)
(***************************************************************************)
\* The partner of q is to hear a PS_RDY for what it was promised.
OwesPsRdy(q) ==
  \/ ports[q].eng["source"].pe \in Owing
  \/ ports[q].client = "source" /\ ports[q].tx.type = "ps_rdy" /\ ~heard[q]

\* The inductive invariant: a sink which shows a contract is owed nothing.
PairOwes ==
  /\ PairInOrder
  /\ \A p \in Port : Orderly(ports[p])
  /\ \A p \in Port : Explicit(ports[p].eng["sink"].pe) => ~OwesPsRdy(Peer(p))
  /\ NeverBothDrive

\* The partner's partner.
LEMMA Peers ==
  ASSUME NEW p \in Port
  PROVE  /\ Peer(p) \in Port /\ Peer(p) # p /\ Peer(Peer(p)) = p
         /\ \A q \in Port : q # p => q = Peer(p)
  BY PairAssumption DEF Port, Peer

\* Where nobody comes to show a contract, to owe or to source, all is well.
LEMMA OwesNoMore ==
  ASSUME PairOwes, PairInOrder',
         \A p \in Port : Spoken(ports'[p]) /\ Turned(ports'[p]),
         \A p \in Port : Draws(ports[p], ports'[p]),
         \A p \in Port : OwesPsRdy(p)' => OwesPsRdy(p),
         \A p \in Port : ports'[p].conn = "attached_src" => ports[p].conn = "attached_src"
  PROVE  PairOwes'
<1>1. \A p \in Port : Orderly(ports'[p])
  BY DEF Orderly, PairInOrder
<1>2. \A p \in Port : Explicit(ports'[p].eng["sink"].pe) => ~OwesPsRdy(Peer(p))'
  BY Peers DEF PairOwes, Draws
<1>3. NeverBothDrive'
  BY DEF PairOwes, NeverBothDrive, Sourcing, Port
<1> QED BY <1>1, <1>2, <1>3 DEF PairOwes

\* A port whose transmission is over handles what comes next.
LEMMA OverTellsPair ==
  ASSUME PairOwes, PairInOrder', NEW p \in Port, NEW g,
         ports' = [ports EXCEPT ![p] = g], heard[Peer(p)] => heard'[Peer(p)],
         Told([ports[p] EXCEPT !.tx = Idle], g)
  PROVE  PairOwes'
<1> DEFINE sent == [ports[p] EXCEPT !.tx = Idle]
<1>1. /\ ports'[p] = g /\ \A q \in Port \ {p} : ports'[q] = ports[q]
      /\ \A q \in Port : Orderly(ports[q])
  BY DEF PairOwes, PairInOrder
<1>2. /\ sent.eng = ports[p].eng /\ sent.conn = ports[p].conn /\ sent.tx.type = "idle"
      /\ sent.client = ports[p].client
  BY <1>1 DEF Orderly, InOrder, Engines, Typed, Idle
<1> HIDE DEF sent
<1>3. Spoken(g) /\ Turned(g) /\ Draws(sent, g) /\ Owes(sent, g)
      /\ (g.conn = "attached_src" => sent.conn = "attached_src")
  BY DEF Told, Tells, sent
<1>4. OwesPsRdy(p)' => OwesPsRdy(p)
  <2>1. g.client = "source" /\ g.tx.type = "ps_rdy" =>
          ports[p].eng["source"].pe \in Owing
    BY <1>2, <1>3 DEF Owes
  <2>2. g.eng["source"].pe \in Owing => ports[p].eng["source"].pe \in Owing
    BY <1>2, <1>3 DEF Owes
  <2> QED BY <1>1, <2>1, <2>2 DEF OwesPsRdy
<1>5. \A q \in Port \ {p} : OwesPsRdy(q)' => OwesPsRdy(q)
  BY <1>1, Peers DEF OwesPsRdy
<1>6. \A q \in Port : Spoken(ports'[q]) /\ Turned(ports'[q])
  BY <1>1, <1>3 DEF Orderly
<1>7. \A q \in Port : Draws(ports[q], ports'[q])
  BY <1>1, <1>2, <1>3 DEF Draws
<1>8. \A q \in Port : ports'[q].conn = "attached_src" => ports[q].conn = "attached_src"
  BY <1>1, <1>2, <1>3
<1> QED BY <1>4, <1>5, <1>6, <1>7, <1>8, OwesNoMore

\* A port handles what is not an outcome: what it transmits stays as unheard.
LEMMA BecomesTells ==
  ASSUME PairOwes, PairInOrder', NEW p \in Port, NEW g, Becomes(p, g), Told(ports[p], g)
  PROVE  PairOwes'
<1>1. /\ ports'[p] = g /\ \A q \in Port \ {p} : ports'[q] = ports[q]
      /\ \A q \in Port : Orderly(ports[q])
      /\ heard'[p] = (heard[p] /\ g.tx = ports[p].tx)
      /\ \A q \in Port \ {p} : heard'[q] = heard[q]
  BY DEF PairOwes, PairInOrder, Becomes
<1>2. /\ Spoken(g) /\ Turned(g) /\ Draws(ports[p], g) /\ Owes(ports[p], g)
      /\ g.conn = "attached_src" => ports[p].conn = "attached_src"
  BY DEF Told, Tells
<1>3. OwesPsRdy(p)' => OwesPsRdy(p)
  <2>1. ASSUME g.client = "source", g.tx.type = "ps_rdy", ~heard'[p]
        PROVE  OwesPsRdy(p)
    <3>1. CASE ports[p].eng["source"].pe \in Owing
      BY <3>1 DEF OwesPsRdy
    <3>2. CASE ports[p].client = "source" /\ g.tx = ports[p].tx
      <4>1. ~heard[p]
        BY <1>1, <2>1, <3>2
      <4> QED BY <2>1, <3>2, <4>1 DEF OwesPsRdy
    <3> QED BY <1>2, <2>1, <3>1, <3>2 DEF Owes
  <2>2. g.eng["source"].pe \in Owing => ports[p].eng["source"].pe \in Owing
    BY <1>2 DEF Owes
  <2> QED BY <1>1, <2>1, <2>2 DEF OwesPsRdy
<1>4. \A q \in Port \ {p} : OwesPsRdy(q)' => OwesPsRdy(q)
  BY <1>1 DEF OwesPsRdy
<1>5. \A q \in Port : Spoken(ports'[q]) /\ Turned(ports'[q])
  BY <1>1, <1>2 DEF Orderly
<1>6. \A q \in Port : Draws(ports[q], ports'[q])
  BY <1>1, <1>2 DEF Draws
<1>7. \A q \in Port : ports'[q].conn = "attached_src" => ports[q].conn = "attached_src"
  BY <1>1, <1>2
<1> QED BY <1>3, <1>4, <1>5, <1>6, <1>7, OwesNoMore

\* A message: the PS_RDY a sink hears is the last it was owed, and the one
\* which makes it the source comes from a port which sources no more.
LEMMA DeliverTells ==
  ASSUME NoVconnSwap, PairOwes, PairInOrder', NEW p \in Port, Deliver(p)
  PROVE  PairOwes'
<1> DEFINE q == Peer(p)
           m == ports[p].tx
           sent == [ports[q] EXCEPT !.tx = Idle]
<1>1. /\ q \in Port /\ q # p /\ Peer(q) = p /\ \A r \in Port : r = p \/ r = q
  BY Peers
<1>2. Orderly(ports[p]) /\ Orderly(ports[q]) /\ DOMAIN ports = Port
  BY <1>1 DEF PairOwes, PairInOrder
<1>3. /\ ports[q].client # "none" /\ ports[q].tx # HardReset /\ ~heard[p]
      /\ m \in TxType
  BY <1>2, PortFields DEF Deliver, live, Orderly, InOrder, Engines
<1>4. PICK x \in Terms, yes \in BOOLEAN :
        /\ ports' = [ports EXCEPT ![q] = Received(ports[q], m, x, yes)]
        /\ heard' = [r \in Port |-> r = p]
  BY DEF Deliver
<1> DEFINE g == Received(ports[q], m, x, yes)
<1>5. ReceivedTold(sent, g, m)
  BY <1>2, <1>3, ReceivedTells
<1>6. /\ sent.eng = ports[q].eng /\ sent.conn = ports[q].conn /\ sent.tx.type = "idle"
      /\ sent.client = ports[q].client
  BY <1>2 DEF Orderly, InOrder, Engines, Typed, Idle
<1> HIDE DEF g, sent
<1>7. /\ ports'[q] = g /\ ports'[p] = ports[p] /\ heard'[p]
  BY <1>1, <1>2, <1>4 DEF g
<1> HIDE DEF q, m
<1>8. ports[p].client # "source" => ports[p].eng["source"].pe = "startup"
  BY <1>2 DEF Orderly, InOrder, Solo, Rests, Resting, Role
<1>9. m.type \in {"request", "ps_rdy", "reject"} =>
        /\ ports[p].client \in Role
        /\ Speaks(ports[p].client, ports[p].eng[ports[p].client].pe, m.type)
  BY <1>2 DEF Orderly, Spoken, Silent, m
<1>10. m.type \in {"ps_rdy", "reject"} => ports[p].eng["source"].pe \notin Owing
  BY <1>8, <1>9 DEF Speaks, Role, Telling, Owing
<1>11. Yields(sent, m) =>
         ports[p].client = "sink" /\ ports[p].eng["sink"].pe = "swap_wait_source_on"
  <2> SUFFICES ASSUME Yields(sent, m)
               PROVE  ports[p].client = "sink"
                      /\ ports[p].eng["sink"].pe = "swap_wait_source_on"
    OBVIOUS
  <2>1. Explicit(ports[q].eng["sink"].pe) /\ m.type = "ps_rdy"
    BY <1>6 DEF Yields, Explicit, SinkLevel
  <2>2. ~OwesPsRdy(p)
    BY <1>1, <2>1 DEF PairOwes
  <2>3. ports[p].client # "source"
    BY <1>3, <2>1, <2>2 DEF OwesPsRdy, m
  <2> QED BY <1>9, <2>1, <2>3 DEF Speaks, Role
<1>12. Explicit(g.eng["sink"].pe) => ~OwesPsRdy(p)'
  <2>1. OwesPsRdy(p)' => ports[p].eng["source"].pe \in Owing
    BY <1>7 DEF OwesPsRdy
  <2>2. CASE m.type \in {"ps_rdy", "reject"}
    BY <1>10, <2>1, <2>2
  <2>3. CASE m.type \notin {"ps_rdy", "reject"}
    <3>1. Explicit(g.eng["sink"].pe) => Explicit(ports[q].eng["sink"].pe)
      BY <1>5, <1>6, <2>3 DEF ReceivedTold, Draws
    <3>2. Explicit(ports[q].eng["sink"].pe) => ~OwesPsRdy(p)
      BY <1>1 DEF PairOwes
    <3> QED BY <2>1, <3>1, <3>2 DEF OwesPsRdy
  <2> QED BY <2>2, <2>3
<1>13. Explicit(ports[p].eng["sink"].pe) => ~OwesPsRdy(q)'
  <2>1. CASE m.type = "request"
    <3>1. ports[p].eng["sink"].pe = "select_capability"
      BY <1>9, <2>1 DEF Speaks
    <3> QED BY <3>1 DEF Explicit, SinkLevel
  <2>2. CASE Yields(sent, m)
    BY <1>11, <2>2 DEF Explicit, SinkLevel
  <2>3. CASE m.type # "request" /\ ~Yields(sent, m)
    <3>1. Owes(sent, g)
      BY <1>5, <2>3 DEF ReceivedTold
    <3>2. OwesPsRdy(q)' => ports[q].eng["source"].pe \in Owing
      <4>1. g.client = "source" /\ g.tx.type = "ps_rdy" => sent.eng["source"].pe \in Owing
        BY <1>6, <3>1 DEF Owes
      <4>2. g.eng["source"].pe \in Owing => sent.eng["source"].pe \in Owing
        BY <3>1 DEF Owes
      <4> QED BY <1>6, <1>7, <4>1, <4>2 DEF OwesPsRdy
    <3>3. Explicit(ports[p].eng["sink"].pe) => ~OwesPsRdy(q)
      BY DEF PairOwes, q
    <3> QED BY <3>2, <3>3 DEF OwesPsRdy
  <2> QED BY <2>1, <2>2, <2>3
<1>14. ~(g.conn = "attached_src" /\ ports[p].conn = "attached_src")
  <2>1. CASE Yields(sent, m)
    BY <1>2, <1>11, <2>1 DEF Orderly, InOrder, ClientIn
  <2>2. CASE ~Yields(sent, m)
    <3>1. g.conn = "attached_src" => ports[q].conn = "attached_src"
      BY <1>5, <1>6, <2>2 DEF ReceivedTold
    <3>2. ~(ports[q].conn = "attached_src" /\ ports[p].conn = "attached_src")
      BY <1>1 DEF PairOwes, NeverBothDrive, Sourcing, Port
    <3> QED BY <3>1, <3>2
  <2> QED BY <2>1, <2>2
<1>15. NeverBothDrive'
  BY <1>1, <1>7, <1>14 DEF NeverBothDrive, Sourcing, Port
<1>16. \A r \in Port : Orderly(ports'[r])
  BY <1>1, <1>2, <1>5, <1>7 DEF Orderly, ReceivedTold, PairInOrder
<1>17. \A r \in Port : Explicit(ports'[r].eng["sink"].pe) => ~OwesPsRdy(Peer(r))'
  <2>1. Explicit(ports'[q].eng["sink"].pe) => ~OwesPsRdy(Peer(q))'
    BY <1>1, <1>7, <1>12
  <2>2. Explicit(ports'[p].eng["sink"].pe) => ~OwesPsRdy(Peer(p))'
    BY <1>7, <1>13 DEF q
  <2> QED BY <1>1, <2>1, <2>2
<1> QED BY <1>15, <1>16, <1>17 DEF PairOwes

\* A transmission ends, a hard reset is heard.
LEMMA OutcomeTells ==
  ASSUME NoVconnSwap, PairOwes, PairInOrder', NEW p \in Port,
         Confirm(p) \/ Fail(p) \/ Signal(p) \/ Signalled(p)
  PROVE  PairOwes'
<1> DEFINE q == Peer(p)
<1>1. /\ q \in Port /\ q # p /\ Peer(q) = p /\ PairInOrder
      /\ \A r \in Port : Orderly(ports[r])
  BY Peers DEF PairOwes
<1>2. CASE Confirm(p) \/ Fail(p)
  <2>1. ports[p].client # "none"
    BY <1>1, <1>2, Lives DEF Confirm, Fail, Transmitting
  <2>2. /\ Told([ports[p] EXCEPT !.tx = Idle], TxDone(ports[p]))
        /\ Told([ports[p] EXCEPT !.tx = Idle], TxError(ports[p]))
    BY <1>1, <2>1, TransmittedTells
  <2>3. heard[q] => heard'[q]
    BY <1>1, <1>2 DEF Confirm, Fail, Becomes, PairInOrder
  <2> QED BY <1>2, <2>2, <2>3, OverTellsPair DEF Confirm, Fail, Becomes
<1>3. CASE Signal(p)
  <2>1. /\ ports[q].client # "none" /\ heard'[p]
        /\ ports' = [ports EXCEPT ![q] = HardResetHeard(ports[q])]
    BY <1>3 DEF Signal, live
  <2>2. Told([ports[q] EXCEPT !.tx = Idle], HardResetHeard(ports[q]))
    BY <1>1, <2>1, ResetTells
  <2> QED BY <1>1, <2>1, <2>2, OverTellsPair
<1>4. CASE Signalled(p)
  <2>1. ports[p].client # "none"
    BY <1>1, <1>4, Lives DEF Signalled, HardReset, Idle
  <2>2. Told([ports[p] EXCEPT !.tx = Idle], HardResetSent(ports[p]))
    BY <1>1, <2>1, ResetTells
  <2>3. heard[q] => heard'[q]
    BY <1>1, <1>4 DEF Signalled, Becomes, PairInOrder
  <2> QED BY <1>4, <2>2, <2>3, OverTellsPair DEF Signalled, Becomes
<1> QED BY <1>2, <1>3, <1>4

\* The detach leaves a port at rest.
LEMMA DetachedTells ==
  ASSUME PairInOrder, NEW p \in Port
  PROVE  LET h == Detached(ports[p])
         IN Told(ports[p], h) /\ InOrder(h) /\ h.conn = "detached"
<1>1. InOrder(Disconnect(ports[p], "detached"))
      /\ Disconnect(ports[p], "detached").conn = "detached"
  BY DisconnectKeeps DEF PairInOrder
<1>2. Told(ports[p], Disconnect(ports[p], "detached"))
  BY <1>1, RestTells
<1> QED BY <1>1, <1>2 DEF Detached

\* The supply, VBUS, CC and Rp.
LEMMA LineTells ==
  ASSUME NoVconnSwap, PairOwes, PairInOrder', NEW p \in Port,
         Settle(p) \/ VbusChanged(p) \/ CcOpen(p) \/ SeeRp(p) \/ RecoveryOver(p)
  PROVE  PairOwes'
<1> DEFINE g == ports[p]
<1>1. Orderly(g) /\ PairInOrder /\ SinkTxOk(p) \in BOOLEAN
  BY DEF PairOwes, SinkTxOk, Sourcing
<1>2. Told(g, Detached(g))
  BY <1>1, DetachedTells
<1>3. CASE Settle(p)
  <2>1. Told(g, SupplySettled(g))
    BY <1>1, SupplyTells
  <2> QED BY <1>3, <2>1, BecomesTells DEF Settle
<1>4. CASE VbusChanged(p)
  <2>1. /\ g.conn = "hard_reset_snk" => Told(g, WindowVbusGone(g))
        /\ g.conn = "hard_reset_recover_snk" => Told(g, WindowVbusBack(g, SinkTxOk(p)))
    BY <1>1, WindowTells
  <2> QED BY <1>2, <1>4, <2>1, BecomesTells DEF VbusChanged
<1>5. CASE CcOpen(p)
  BY <1>2, <1>5, BecomesTells DEF CcOpen
<1>6. CASE SeeRp(p)
  <2>1. Told(g, RpSeen(g, SinkTxOk(p)))
    BY <1>1, <1>6, RpSeenTells DEF SeeRp
  <2> QED BY <1>6, <2>1, BecomesTells DEF SeeRp
<1>7. CASE RecoveryOver(p)
  <2> DEFINE h == [g EXCEPT !.conn = "detached"]
  <2>1. InOrder(h) /\ h.conn = "detached"
    BY <1>1, <1>7, RecoveryKeeps DEF RecoveryOver, Orderly, InOrder, Engines, Typed
  <2>2. Told(g, h)
    BY <2>1, RestTells
  <2> QED BY <1>7, <2>2, BecomesTells DEF RecoveryOver
<1> QED BY <1>3, <1>4, <1>5, <1>6, <1>7

\* The attach makes one source, the plug pulled none.
LEMMA PlugTells ==
  ASSUME NoVconnSwap, PairOwes, PairInOrder', Unplug \/ \E p \in Port : Attach(p)
  PROVE  PairOwes'
<1>1. PairInOrder /\ \A r \in Port : Orderly(ports[r])
  BY DEF PairOwes
<1>2. CASE Unplug
  <2>1. \A r \in Port : InOrder(ports'[r]) /\ ports'[r].conn \in {"detached", "error_recovery"}
    <3>1. \A r \in Port : Detached(ports[r]).conn = "detached"
      BY <1>1, DetachedTells
    <3> QED BY <1>2, <3>1 DEF Unplug, PairInOrder
  <2>2. \A r \in Port : Told(ports[r], ports'[r]) /\ ports'[r].eng["sink"].pe = "discovery"
    BY <2>1, RestTells
  <2>3. \A r \in Port : Orderly(ports'[r])
    BY <2>1, <2>2 DEF Told, Tells, Orderly
  <2>4. \A r \in Port : ~Explicit(ports'[r].eng["sink"].pe)
    BY <2>2 DEF Explicit, SinkLevel
  <2>5. NeverBothDrive'
    BY <2>1 DEF NeverBothDrive, Sourcing, Port
  <2> QED BY <2>3, <2>4, <2>5 DEF PairOwes
<1>3. ASSUME NEW p \in Port, Attach(p)
      PROVE  PairOwes'
  <2> DEFINE role(r) == IF r = p THEN "source" ELSE "sink"
  <2>1. \A r \in Port : /\ ports[r].conn = "detached" /\ InOrder(ports[r])
                        /\ ports[r].client = "none" /\ role(r) \in Role
    BY <1>3 DEF Attach, PairInOrder, PairOwes, InOrder, ClientIn, Role
  <2>2. ports' = [r \in Port |-> Attached(ports[r], role(r), FALSE, Ra)]
    BY <1>3 DEF Attach
  <2>3. \A r \in Port : role(r) = "source" <=> r = p
    OBVIOUS
  <2> HIDE DEF role
  <2>4. \A r \in Port :
          /\ Tells(ports[r], ports'[r]) /\ Turned(ports'[r])
          /\ ports'[r].conn = IF role(r) = "sink" THEN "attached_snk" ELSE "attached_src"
    <3> TAKE r \in Port
    <3>1. ports'[r] = Attached(ports[r], role(r), FALSE, Ra)
      BY <2>2
    <3>2. LET h == Attached(ports[r], role(r), FALSE, Ra)
          IN /\ Tells(ports[r], h) /\ Turned(h)
             /\ h.conn = IF role(r) = "sink" THEN "attached_snk" ELSE "attached_src"
      BY <1>1, <2>1, RaAssumption, AttachedTells
    <3> QED BY <3>1, <3>2
  <2>5. \A r \in Port : ports'[r].conn = "attached_src" => r = p
    BY <2>1, <2>3, <2>4 DEF Role
  <2>6. \A r \in Port : Orderly(ports'[r])
    BY <2>4 DEF Orderly, Tells, PairInOrder
  <2>7. \A r \in Port : ~Explicit(ports'[r].eng["sink"].pe)
    <3>1. \A r \in Port : ~Explicit(ports[r].eng["sink"].pe)
      BY <2>1, RestTells DEF Explicit, SinkLevel
    <3> QED BY <2>4, <3>1 DEF Tells, Draws
  <2>8. NeverBothDrive'
    BY <2>5, PairAssumption DEF NeverBothDrive, Sourcing, Port
  <2> QED BY <2>6, <2>7, <2>8 DEF PairOwes
<1> QED BY <1>2, <1>3

\* The timers.
LEMMA TimerTells ==
  ASSUME NoVconnSwap, PairOwes, PairInOrder', NEW p \in Port,
         PeTimer(p) \/ VconnTimer(p) \/ ConnTimer(p)
  PROVE  PairOwes'
<1>1. Orderly(ports[p]) /\ PairInOrder
  BY DEF PairOwes
<1>2. CASE PeTimer(p)
  <2>1. PICK r \in Role : ports[p].eng[r].pe \in Timed(r)
                          /\ Becomes(p, PeTimeout(ports[p], r))
    BY <1>2 DEF PeTimer
  <2>2. Told(ports[p], PeTimeout(ports[p], r))
    BY <1>1, <2>1, TimeoutTells
  <2> QED BY <2>1, <2>2, BecomesTells
<1>3. CASE VconnTimer(p)
  <2>1. Told(ports[p], VconnTimeout(ports[p]))
    BY <1>1, <1>3, VconnTimeoutTells DEF VconnTimer
  <2> QED BY <1>3, <2>1, BecomesTells DEF VconnTimer
<1>4. CASE ConnTimer(p)
  <2>1. Told(ports[p], Detached(ports[p]))
    BY <1>1, DetachedTells
  <2> QED BY <1>4, <2>1, BecomesTells DEF ConnTimer
<1> QED BY <1>2, <1>3, <1>4

\* The application asks for a swap, which is no VCONN_Swap.
LEMMA AskingTells ==
  ASSUME NoVconnSwap, PairOwes, PairInOrder', NEW p \in Port, Ask(p)
  PROVE  PairOwes'
<1>1. Orderly(ports[p]) /\ ports[p].client # "none"
  BY DEF PairOwes, Ask, live
<1>2. PICK seq \in {"pr_swap", "dr_swap"} : Becomes(p, AskSwap(ports[p], seq))
  BY DEF Ask, NoVconnSwap
<1>3. Told(ports[p], AskSwap(ports[p], seq))
  BY <1>1, AskTells
<1> QED BY <1>2, <1>3, BecomesTells

-----------------------------------------------------------------------------
\* Every step leaves the two ports in order.
LEMMA PairOrderKept ==
  ASSUME PairInOrder, [Next]_vars
  PROVE  PairInOrder'
<1>1. CASE Unplug
  BY <1>1, PlugKeeps
<1>2. ASSUME NEW p \in Port, Progress(p) PROVE PairInOrder'
  BY <1>2, DeliverKeeps, OutcomeKeeps, SignalKeeps, LineKeeps, PlugKeeps, TimerKeeps
     DEF Progress
<1>3. ASSUME NEW p \in Port, Ask(p) PROVE PairInOrder'
  BY <1>3, AskingKeeps
<1>4. CASE UNCHANGED vars
  BY <1>4 DEF vars, PairInOrder
<1> QED BY <1>1, <1>2, <1>3, <1>4 DEF Next

\* The two ports are in order whatever they exchange, whatever is lost on the
\* way and whoever asks for what.
THEOREM PairStaysInOrder == Spec => []PairInOrder
<1>1. Init => PairInOrder
  BY NewPortInOrder, BudgetAssumption DEF Init, PairInOrder
<1>2. PairInOrder /\ [Next]_vars => PairInOrder'
  BY PairOrderKept
<1> QED BY <1>1, <1>2, PTL DEF Spec

\* The sink is left with its termination to turn: a PR_Swap agreed upon inside a
\* hard reset's window, or in the standby of the swap before, which the connection
\* machine cannot follow.
HeldBack(g) == g.eng["sink"].pe = "swap_assert_rp" /\ g.conn # "standby_to_src"

\* Neither port is halfway but for that.
PairThrough == \A p \in Port : Through(ports[p])

\* A port which becomes one that is not halfway, beside one that is not.
LEMMA BecomesThrough ==
  ASSUME PairInOrder, PairThrough, NEW p \in Port, NEW g, Through(g), Becomes(p, g)
  PROVE  PairThrough'
  BY DEF Becomes, PairInOrder, PairThrough

\* The wire: a message heard, its outcome, the signal.
LEMMA WireThrough ==
  ASSUME PairInOrder, PairThrough, NEW p \in Port,
         Deliver(p) \/ Confirm(p) \/ Fail(p) \/ Signal(p) \/ Signalled(p)
  PROVE  PairThrough'
<1> DEFINE q == Peer(p)
<1>1. q \in Port
  BY DEF Peer, Port
<1>2. \A r \in Port : InOrder(ports[r]) /\ Through(ports[r])
  BY DEF PairInOrder, PairThrough
<1>3. CASE Deliver(p)
  <2>1. ports[p].tx \in TxType
    BY PortFields DEF PairInOrder, InOrder, Engines
  <2>2. PICK x \in Terms, yes \in BOOLEAN :
          ports' = [ports EXCEPT ![q] = Received(ports[q], ports[p].tx, x, yes)]
    BY <1>3 DEF Deliver
  <2>3. Through(Received(ports[q], ports[p].tx, x, yes))
    BY <1>1, <1>2, <1>3, <2>1, ReceivedThrough DEF Deliver, live
  <2> QED BY <1>2, <2>2, <2>3 DEF PairInOrder, PairThrough
<1>4. CASE Confirm(p) \/ Fail(p)
  <2>1. ports[p].client # "none"
    BY <1>4, Lives DEF Confirm, Fail, Transmitting
  <2>2. Through(TxDone(ports[p])) /\ Through(TxError(ports[p]))
    BY <1>2, <2>1, TransmittedThrough
  <2>3. CASE Confirm(p)
    BY <2>2, <2>3, BecomesThrough DEF Confirm
  <2>4. CASE Fail(p)
    BY <1>2, <2>2, <2>4 DEF Fail, PairInOrder, PairThrough
  <2> QED BY <1>4, <2>3, <2>4
<1>5. CASE Signal(p)
  <2>1. Through(HardResetHeard(ports[q]))
    BY <1>1, <1>2, <1>5, ResetThrough DEF Signal, live
  <2> QED BY <1>2, <1>5, <2>1 DEF Signal, PairInOrder, PairThrough
<1>6. CASE Signalled(p)
  <2>1. ports[p].client # "none"
    BY <1>6, Lives DEF Signalled, Idle, HardReset
  <2>2. Through(HardResetSent(ports[p]))
    BY <1>2, <2>1, ResetThrough
  <2> QED BY <1>6, <2>2, BecomesThrough DEF Signalled
<1> QED BY <1>3, <1>4, <1>5, <1>6

\* The supply, VBUS, CC, Rp and the attachment.
LEMMA LinesThrough ==
  ASSUME PairInOrder, PairThrough, NEW p \in Port,
         \/ Settle(p) \/ VbusChanged(p) \/ CcOpen(p) \/ SeeRp(p) \/ RecoveryOver(p)
         \/ Attach(p) \/ Unplug
  PROVE  PairThrough'
<1> DEFINE g == ports[p]
<1>1. \A r \in Port : InOrder(ports[r]) /\ Through(ports[r])
  BY DEF PairInOrder, PairThrough
<1>2. SinkTxOk(p) \in BOOLEAN
  BY DEF SinkTxOk, Sourcing
<1>3. \A r \in Port : Through(Detached(ports[r]))
  <2>1. \A r \in Port : Through(Disconnect(ports[r], "detached"))
    BY <1>1, DisconnectThrough
  <2> QED BY <2>1 DEF Detached
<1>4. CASE Settle(p)
  <2>1. Through(SupplySettled(g))
    BY <1>1, SupplyThrough
  <2> QED BY <1>4, <2>1, BecomesThrough DEF Settle
<1>5. CASE VbusChanged(p)
  <2>1. g.conn = "hard_reset_snk" => Through(WindowVbusGone(g))
    BY <1>1, WindowOpensThrough
  <2>2. g.conn = "hard_reset_recover_snk" => Through(WindowVbusBack(g, SinkTxOk(p)))
    BY <1>1, <1>2, WindowThrough
  <2> QED BY <1>3, <1>5, <2>1, <2>2, BecomesThrough DEF VbusChanged
<1>6. CASE CcOpen(p)
  BY <1>3, <1>6, BecomesThrough DEF CcOpen
<1>7. CASE SeeRp(p)
  <2>1. Through(RpSeen(g, SinkTxOk(p)))
    BY <1>1, <1>2, <1>7, SeeRpThrough DEF SeeRp
  <2> QED BY <1>7, <2>1, BecomesThrough DEF SeeRp
<1>8. CASE RecoveryOver(p)
  <2>1. Through([g EXCEPT !.conn = "detached"])
    BY <1>1, <1>8, RecoveryThrough DEF RecoveryOver
  <2> QED BY <1>8, <2>1, BecomesThrough DEF RecoveryOver
<1>9. CASE Attach(p)
  <2> DEFINE role(r) == IF r = p THEN "source" ELSE "sink"
  <2>1. \A r \in Port : ports[r].client = "none"
    BY <1>1, <1>9 DEF Attach, InOrder, ClientIn
  <2>2. \A r \in Port : role(r) \in Role
    BY DEF Role
  <2>3. ports' = [r \in Port |-> Attached(ports[r], role(r), FALSE, Ra)]
    BY <1>9 DEF Attach
  <2> HIDE DEF role
  <2>4. \A r \in Port : Through(Attached(ports[r], role(r), FALSE, Ra))
    BY <1>1, <2>1, <2>2, RaAssumption, AttachedThrough
  <2> QED BY <2>3, <2>4 DEF PairThrough
<1>10. CASE Unplug
  BY <1>1, <1>3, <1>10 DEF Unplug, PairThrough
<1> QED BY <1>4, <1>5, <1>6, <1>7, <1>8, <1>9, <1>10

\* The timers and the applications.
LEMMA TimesThrough ==
  ASSUME PairInOrder, PairThrough, NEW p \in Port,
         PeTimer(p) \/ VconnTimer(p) \/ ConnTimer(p) \/ Ask(p)
  PROVE  PairThrough'
<1> DEFINE g == ports[p]
<1>1. InOrder(g) /\ Through(g)
  BY DEF PairInOrder, PairThrough
<1>2. CASE PeTimer(p)
  <2>1. PICK r \in Role : g.eng[r].pe \in Timed(r) /\ Becomes(p, PeTimeout(g, r))
    BY <1>2 DEF PeTimer
  <2>2. Through(PeTimeout(g, r))
    BY <1>1, <2>1, TimeoutThrough
  <2> QED BY <2>1, <2>2, BecomesThrough
<1>3. CASE VconnTimer(p)
  <2>1. Through(VconnTimeout(g))
    BY <1>1, <1>3, VconnTimeoutThrough DEF VconnTimer
  <2> QED BY <1>3, <2>1, BecomesThrough DEF VconnTimer
<1>4. CASE ConnTimer(p)
  <2>1. Through(Disconnect(g, "detached"))
    BY <1>1, DisconnectThrough
  <2> QED BY <1>4, <2>1, BecomesThrough DEF ConnTimer, Detached
<1>5. CASE Ask(p)
  <2>1. g.client # "none"
    BY <1>5 DEF Ask, live
  <2>2. /\ \A seq \in {"pr_swap", "dr_swap"} : Through(AskSwap(g, seq))
        /\ Through(AskVconnSwap(g))
    BY <1>1, <2>1, AskThrough
  <2> QED BY <1>5, <2>2, BecomesThrough DEF Ask
<1> QED BY <1>2, <1>3, <1>4, <1>5

\* Whatever the two ports exchange and however often it is lost, no engine comes to
\* rest halfway through a swap, a reset or an answer, but for the termination flip
\* which the connection machine cannot follow.
THEOREM NothingHeld ==
  Spec => [](NothingInTransit \/ \E p \in Port : HeldBack(ports[p]))
<1>1. Init => PairInOrder /\ PairThrough
  BY NewPortInOrder, NewPortThrough, BudgetAssumption DEF Init, PairInOrder, PairThrough
<1>2. PairInOrder /\ PairThrough /\ [Next]_vars => (PairInOrder /\ PairThrough)'
  <2> SUFFICES ASSUME PairInOrder, PairThrough, [Next]_vars
               PROVE  PairInOrder' /\ PairThrough'
    OBVIOUS
  <2>1. CASE Unplug
    <3>1. A \in Port
      BY DEF Port
    <3> QED BY <2>1, <3>1, LinesThrough, PairOrderKept
  <2>2. ASSUME NEW p \in Port, Progress(p) \/ Ask(p) PROVE PairThrough'
    BY <2>2, WireThrough, LinesThrough, TimesThrough DEF Progress
  <2>3. CASE UNCHANGED vars
    BY <2>3, PairOrderKept DEF vars, PairThrough
  <2> QED BY <2>1, <2>2, <2>3, PairOrderKept DEF Next
<1>3. PairThrough => NothingInTransit \/ \E p \in Port : HeldBack(ports[p])
  <2>1. "swap_assert_rp" \notin Transit("source")
    BY DEF Transit
  <2> QED BY <2>1 DEF PairThrough, Through, NothingInTransit, HeldBack, Role
<1> QED BY <1>1, <1>2, <1>3, PTL DEF Spec

\* Two ports which do not swap VCONN never drive VBUS against each other: an
\* attached sink takes the source's place by the PS_RDY of a source which has
\* left it, however many messages and hard resets are lost, whichever timer is
\* ahead of its turn and whoever refuses what.
THEOREM NoTwoSources == NoVconnSwap => (Spec => []NeverBothDrive)
<1> SUFFICES ASSUME NoVconnSwap PROVE Spec => []NeverBothDrive
  OBVIOUS
<1>1. Init => PairOwes
  <2> SUFFICES ASSUME Init PROVE PairOwes
    OBVIOUS
  <2>1. PairInOrder /\ \A p \in Port : ports[p] = NewPort
    BY NewPortInOrder, BudgetAssumption DEF Init, PairInOrder
  <2>2. InOrder(NewPort) /\ NewPort.conn = "detached"
    BY NewPortInOrder DEF NewPort
  <2>3. /\ NewPort.eng["sink"].pe = "discovery"
        /\ Spoken(NewPort) /\ Turned(NewPort)
    BY <2>2, RestTells DEF Told, Tells
  <2>4. ~Explicit("discovery")
    BY DEF Explicit, SinkLevel
  <2>5. NeverBothDrive
    BY <2>1, <2>2 DEF NeverBothDrive, Sourcing, Port
  <2> QED BY <2>1, <2>2, <2>3, <2>4, <2>5 DEF PairOwes, Orderly
<1>2. PairOwes /\ [Next]_vars => PairOwes'
  <2> SUFFICES ASSUME PairOwes, [Next]_vars PROVE PairOwes'
    OBVIOUS
  <2>1. PairInOrder'
    BY PairOrderKept DEF PairOwes
  <2>2. CASE Unplug
    BY <2>1, <2>2, PlugTells
  <2>3. ASSUME NEW p \in Port, Progress(p) PROVE PairOwes'
    BY <2>1, <2>3, DeliverTells, OutcomeTells, LineTells, PlugTells, TimerTells
       DEF Progress
  <2>4. ASSUME NEW p \in Port, Ask(p) PROVE PairOwes'
    BY <2>1, <2>4, AskingTells
  <2>5. CASE UNCHANGED vars
    <3>1. \A q \in Port : Orderly(ports'[q]) /\ (OwesPsRdy(q)' <=> OwesPsRdy(q))
      BY <2>5 DEF vars, PairOwes, OwesPsRdy
    <3>2. NeverBothDrive'
      BY <2>5 DEF vars, PairOwes, NeverBothDrive, Sourcing
    <3> QED BY <2>1, <2>5, <3>1, <3>2, Peers DEF vars, PairOwes
  <2> QED BY <2>2, <2>3, <2>4, <2>5 DEF Next
<1>3. PairOwes => NeverBothDrive
  BY DEF PairOwes
<1> QED BY <1>1, <1>2, <1>3, PTL DEF Spec

\* The mark of a preempted message stays a Boolean.
LEMMA MarkTyped ==
  ASSUME preempted \in BOOLEAN, [Next]_vars
  PROVE  preempted' \in BOOLEAN
<1>1. /\ Faultless => preempted' \in BOOLEAN
      /\ \A kind : Fault(kind) => preempted' \in BOOLEAN
  BY DEF Faultless, Fault
<1>2. ASSUME NEW p \in Port, Progress(p) PROVE preempted' \in BOOLEAN
  <2>1. CASE Deliver(p) \/ Confirm(p) \/ Fail(p) \/ Signal(p) \/ Signalled(p)
    BY <1>1, <2>1 DEF Deliver, Confirm, Fail, Signal, Signalled
  <2>2. CASE Settle(p) \/ VbusChanged(p) \/ CcOpen(p) \/ SeeRp(p) \/ RecoveryOver(p) \/ Attach(p)
    BY <1>1, <2>2 DEF Settle, VbusChanged, CcOpen, SeeRp, RecoveryOver, Attach
  <2>3. CASE PeTimer(p) \/ VconnTimer(p) \/ ConnTimer(p)
    BY <1>1, <2>3 DEF PeTimer, VconnTimer, ConnTimer, Expires
  <2> QED BY <1>2, <2>1, <2>2, <2>3 DEF Progress
<1>3. ASSUME NEW p \in Port, Ask(p) PROVE preempted' \in BOOLEAN
  BY <1>1, <1>3 DEF Ask
<1>4. Unplug => preempted' \in BOOLEAN
  BY <1>1 DEF Unplug
<1> QED BY <1>2, <1>3, <1>4 DEF Next, vars

\* The domains of the variables, each port's engines in states of their own
\* tables, and the budget.
THEOREM ContractTypeCorrect == Spec => []TypeOK
<1> DEFINE Inv == PairInOrder /\ preempted \in BOOLEAN
<1>1. Init => Inv
  BY NewPortInOrder, BudgetAssumption DEF Init, PairInOrder
<1>2. Inv /\ [Next]_vars => Inv'
  BY PairOrderKept, MarkTyped
<1>3. Inv => TypeOK
  BY DEF PairInOrder, InOrder, Engines, TypeOK
<1> QED BY <1>1, <1>2, <1>3, PTL DEF Spec
=============================================================================
