------------------------------- MODULE PdLink -------------------------------
(***************************************************************************)
(* Two ports' protocol layers on one cable: the layers of ProtocolLayer,   *)
(* the PHYs they drive as include/usbc/interface/PdPhy.hpp contracts them, *)
(* the wire, which may lose a message or its GoodCRC, and clients that     *)
(* transmit, reset and detach when they like.                              *)
(*                                                                         *)
(* PHY and wire are external to the code: what is here is the contract.    *)
(***************************************************************************)
EXTENDS ProtocolLayer

CONSTANTS
  ClientResets,   \* what each port's client does beyond transmitting
  LateOutcomes,   \* TRUE: a PHY may report after the layer's timer expired
  MaxEvents       \* bound: callbacks a PHY queues for its layer

ASSUME ClientResetsAssumption ==
  ClientResets \in [Port -> SUBSET {"soft_reset", "hard_reset", "detach"}]
ASSUME LateOutcomesAssumption == LateOutcomes \in BOOLEAN
ASSUME MaxEventsAssumption == MaxEvents \in Nat

HoldsMessage(p) == job[p].kind = "message"
HoldsHardReset(p) == job[p].kind = "hard_reset"

\* what p's PHY reports at the end of a transmission: a contracted outcome,
\* or nothing when the attempt just went unanswered
Report(o) == {<<>>, <<Transmitted(o)>>}

\* the PHYs queue more callbacks
Queue(more) ==
  /\ \A p \in Port : Len(events[p]) + Len(more[p]) <= MaxEvents
  /\ events' = [p \in Port |-> events[p] \o more[p]]

-----------------------------------------------------------------------------
(* The PHYs and the wire.                                                  *)

\* the message reaches the partner, whose own pending one it discards; the
\* GoodCRC comes back, or is lost and the attempt failed or, with a PHY that
\* retransmits, goes on
PhyReceive(p) ==
  LET q == Peer(p)
      pre == IF HoldsMessage(q) THEN <<Transmitted("discarded")>> ELSE <<>>
      arrival == Append(pre, Received(job[p].message))
      freed == [job EXCEPT ![p] = Nothing, ![q] = Nothing]
      goesOn == [job EXCEPT ![q] = Nothing]
  IN  /\ HoldsMessage(p) /\ detecting[q] /\ ~HoldsHardReset(q)
      /\ \/ \E r \in {<<Transmitted("success")>>} \cup Report("failed") :
              /\ Queue([x \in Port |-> IF x = p THEN r ELSE arrival])
              /\ job' = freed
         \/ /\ WhoRetransmits = "phy"
            /\ job[p].message.n \notin heard[q]  \* bound: one more copy
            /\ Queue([x \in Port |-> IF x = p THEN <<>> ELSE arrival])
            /\ job' = goesOn
      /\ heard' = [heard EXCEPT ![q] = @ \cup {job[p].message.n}]
      /\ UNCHANGED <<layerVars, detecting, sent, since, done, delivered, last>>

\* the message is lost
PhyLose(p) ==
  /\ HoldsMessage(p)
  /\ \E r \in Report("failed") :
       Queue([x \in Port |-> IF x = p THEN r ELSE <<>>])
  /\ job' = [job EXCEPT ![p] = Nothing]
  /\ UNCHANGED <<layerVars, detecting, historyVars>>

\* the hard reset goes out over whatever the partner was transmitting; the
\* partner may miss it, the confirmation may not come
PhySignal(p) ==
  LET q == Peer(p)
  IN  /\ HoldsHardReset(p)
      /\ \E r \in Report("success"),
            h \in {<<>>} \cup (IF detecting[q] THEN {<<HardResetReceived>>}
                                               ELSE {}) :
           /\ Queue([x \in Port |-> IF x = p THEN r ELSE h])
           /\ job' = IF h # <<>> /\ HoldsMessage(q)
                       THEN [job EXCEPT ![p] = Nothing, ![q] = Nothing]
                       ELSE [job EXCEPT ![p] = Nothing]
      /\ UNCHANGED <<layerVars, detecting, sent, since, done, delivered, last,
                     heard>>

PhyStep(p) == PhyReceive(p) \/ PhyLose(p) \/ PhySignal(p)

\* both ends detached: the cable is plugged in again
NewCable ==
  /\ \A p \in Port : ~Attached(p)
  /\ \E p \in Port : connection[p] = "gone"
  /\ connection' = [p \in Port |-> "awaited"]
  /\ UNCHANGED <<tx, context, retry, txCounter, rxId, revision, phyVars,
                 historyVars>>

\* a PHY "reports one outcome per message" "well within" the layer's timer:
\* the timer runs out once it reported all it will, unless outcomes are late
Expires(p) ==
  \/ LateOutcomes
  \/ /\ job[p] = Nothing
     /\ \A i \in 1 .. Len(events[p]) : events[p][i].kind # "transmitted"

Timeout(p) ==
  Expires(p) /\ (PhyResponseTimeout(p) \/ HardResetCompleteTimeout(p))

-----------------------------------------------------------------------------
Init == InitLayer

Client(p) ==
  \/ Attach(p) \/ Transmit(p)
  \/ "detach" \in ClientResets[p] /\ Detach(p)
  \/ "soft_reset" \in ClientResets[p] /\ SendSoftReset(p)
  \/ "hard_reset" \in ClientResets[p] /\ TransmitHardReset(p)

Next ==
  \/ \E p \in Port : Client(p) \/ Timeout(p) \/ OnCallback(p) \/ PhyStep(p)
  \/ NewCable

Spec == Init /\ [][Next]_vars

(***************************************************************************)
(* The PHY works off what it was given, the driver delivers its callbacks  *)
(* and a running timer expires.  Clients promise nothing.                  *)
(***************************************************************************)
Fairness ==
  \A p \in Port :
    WF_vars(PhyStep(p)) /\ WF_vars(OnCallback(p)) /\ WF_vars(Timeout(p))

FairSpec == Spec /\ Fairness

-----------------------------------------------------------------------------
(* Properties.                                                             *)

\* Every variable of the layers and PHYs keeps its type.
TypeOK ==
  /\ tx \in [Port -> TxState]
  /\ context \in [Port -> Message]
  /\ retry \in [Port -> 0 .. 3]
  /\ txCounter \in [Port -> MessageId]
  /\ rxId \in [Port -> MessageId \cup {NoId}]
  /\ revision \in [Port -> {2, 3}]
  /\ connection \in [Port -> {"awaited", "attached", "gone"}]
  /\ job \in [Port -> Job]
  /\ events \in [Port -> Seq(Event)]
  /\ detecting \in [Port -> BOOLEAN]
  /\ sent \in [Port -> Nat]
  /\ since \in [Port -> Nat]
  /\ done \in [Port -> SUBSET Nat]
  /\ delivered \in [Port -> Seq(Nat)]
  /\ last \in [Port -> Nat]
  /\ heard \in [Port -> SUBSET Nat]

\* Between two restarts of the MessageIDs a client is handed the partner's
\* messages in the order they were submitted, each at most once, however
\* often the wire or a retransmission repeats them (onReceived, rx_id_).
DeliveredInOrder ==
  \A p \in Port : \A i, j \in DOMAIN delivered[p] :
    i < j => delivered[p][i] < delivered[p][j]

\* What makes it so.  The partner's messages on their way to a client are one
\* stream, oldest first: the one last handed over, those in the callbacks, the
\* one its PHY holds, the one its layer has in flight.  Along it the numbers
\* never fall, equal numbers mean the very same message, and the stored
\* MessageID is that of the message last handed over, so a repetition of it
\* is recognised.
Precedes(m1, m2) == m1.n <= m2.n /\ (m1.n = m2.n => m1 = m2)
HandedOver(d, r, m) ==
  d # <<>> => d[Len(d)] <= m.n /\ (d[Len(d)] = m.n => m.id = r)
Increasing(d) == \A i, j \in DOMAIN d : i < j => d[i] < d[j]
Arrival(e, i) == i \in DOMAIN e /\ e[i].kind = "received"

Stream(c, jb, e, d, r) ==
  /\ Increasing(d)
  /\ HandedOver(d, r, c)
  /\ jb.kind = "message" => Precedes(jb.message, c)
                            /\ HandedOver(d, r, jb.message)
  /\ \A i \in DOMAIN e : Arrival(e, i) =>
       /\ HandedOver(d, r, e[i].message)
       /\ Precedes(e[i].message, c)
       /\ jb.kind = "message" => Precedes(e[i].message, jb.message)
       /\ \A j \in DOMAIN e :
            i < j /\ Arrival(e, j) => Precedes(e[i].message, e[j].message)

StreamsInOrder ==
  \A p \in Port :
    /\ context[p].n = sent[p]
    /\ Stream(context[p], job[p], events[Peer(p)], delivered[Peer(p)],
              rxId[Peer(p)])

\* The first message a port submits after a hard reset, sent or heard, goes
\* out with MessageID 0, whatever was in flight at the reset and however late
\* its outcome comes (resetAll; giveUp and onTxDone count a MessageID each).
RestartsAtZero ==
  \A p \in Port : context[p].n = since[p] + 1 => context[p].id = 0

\* the head of p's callbacks is a message p's layer now takes
Takes(p) ==
  /\ Attached(p) /\ events[p] # <<>>
  /\ Head(events[p]).kind = "received"
  /\ events'[p] = Tail(events[p])
Taken(p) == Head(events[p]).message

\* the layer does nothing about the message: it is dropped
Drops(p) == Takes(p) /\ UNCHANGED <<rxId, delivered, last, tx, txCounter>>

\* Without resets a message that is no retransmission is dropped only when
\* the MessageIDs wrapped around in between: IdCount messages from the one
\* handed over last, all the ones between them lost.
DropsOnlyRepeatsOrWraps ==
  [][\A p \in Port :
       Drops(p) => \/ Taken(p).n = last[p]
                   \/ Taken(p).n >= last[p] + IdCount]_vars

\* What the client gave the layer is concluded, by an outcome or by the
\* layer's timers: it accepts the next message (tx_ready).  A client that
\* asks for hard resets for ever keeps restarting HardResetCompleteTimer; the
\* engines count theirs.
EveryTransmissionConcludes ==
  \A p \in Port :
    <>[][~TransmitHardReset(p)]_vars => (~TxReady(p) ~> TxReady(p))

\* The layers promise what MessageDelivery states.
Promise == INSTANCE MessageDelivery WITH
  Ports <- Port,
  MaxSent <- MaxMessages,
  pending <- [p \in Port |-> IF tx[p] = "wait_for_phy_response"
                               THEN context[p].n ELSE 0],
  answered <- [p \in Port |-> heard[Peer(p)]]
KeepsPromise == Promise!Spec
=============================================================================
