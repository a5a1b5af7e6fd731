---------------------------- MODULE PdLinkProofs ----------------------------
(***************************************************************************)
(* What TLAPS proves of PdLink, for any IdCount, any bounds, either form   *)
(* of retransmission, any client behaviour and PHYs however late: the type *)
(* invariant, and that messages are delivered in order and at most once.   *)
(* As long as nobody detaches MessageIDs restart at zero; as long as nobody*)
(* resets a layer only repeats are dropped, or numbers that wrapped; and   *)
(* with outcomes in time the two layers implement MessageDelivery.         *)
(***************************************************************************)
EXTENDS PdLink, SequenceTheorems, TLAPS

\* The assumptions on the constants, together.
Assumptions ==
  /\ A # B
  /\ IdCount \in Nat \ {0, 1}
  /\ WhoRetransmits \in {"protocol_layer", "phy"}
  /\ FirstRevision \in [Port -> {2, 3}]
  /\ MaxMessages \in [Port -> Nat]

\* They are those ProtocolLayer states.
LEMMA AssumptionsHold == Assumptions
BY PortAssumption, IdCountAssumption, RetransmitsAssumption,
   RevisionAssumption, MaxMessagesAssumption DEF Assumptions, Port

\* A port's peer is the other port.
LEMMA PeerIsOther ==
  ASSUME NEW p \in Port
  PROVE  Peer(p) \in Port /\ Peer(p) # p /\ Peer(Peer(p)) = p
BY AssumptionsHold DEF Assumptions, Peer, Port

\* The values the layers and PHYs make have their types.
LEMMA ValueTypes ==
  /\ NoMessage \in Message
  /\ Nothing \in Job /\ HardReset \in Job
  /\ \A m \in Message : Carrying(m) \in Job /\ Received(m) \in Event
  /\ \A o \in Outcome : Transmitted(o) \in Event
  /\ HardResetReceived \in Event
BY AssumptionsHold
   DEF Assumptions, NoMessage, Message, MessageId, Nothing, HardReset, Job, Carrying,
       Received, Event, Outcome, Transmitted, HardResetReceived

-----------------------------------------------------------------------------
(* Type correctness.                                                       *)

\* The initial state is typed.
LEMMA TypeInit == Init => TypeOK
BY AssumptionsHold, ValueTypes
   DEF Assumptions, Init, InitLayer, TypeOK, TxState, MessageId, NoId

\* Handing over a transmission keeps the jobs typed.
LEMMA HandOverType ==
  ASSUME TypeOK, NEW p \in Port, NEW j \in Job, HandOver(p, j)
  PROVE  job' \in [Port -> Job]
BY DEF TypeOK, HandOver

\* A request keeps what it writes typed.
LEMMA RequestType ==
  ASSUME TypeOK, NEW p \in Port, NEW soft \in BOOLEAN, NEW id \in MessageId,
         NEW rev \in {2, 3}, Request(p, soft, id, rev)
  PROVE  /\ sent' \in [Port -> Nat]
         /\ tx' \in [Port -> TxState]
         /\ context' \in [Port -> Message]
         /\ retry' \in [Port -> 0 .. 3]
         /\ job' \in [Port -> Job]
<1> DEFINE m == [n |-> sent[p] + 1, id |-> id, revision |-> rev, soft |-> soft]
<1>1. m \in Message
  BY DEF TypeOK, Message
<1>2. Carrying(m) \in Job
  BY <1>1, ValueTypes
<1>3. job' \in [Port -> Job]
  BY <1>2, HandOverType DEF Request
<1>4. context' = [context EXCEPT ![p] = m]
  BY DEF Request
<1>5. context' \in [Port -> Message]
  BY <1>1, <1>4 DEF TypeOK
<1> QED
  BY <1>3, <1>5 DEF Request, TypeOK, TxState

\* Restarting the MessageIDs keeps them typed.
LEMMA ForgetIdsType ==
  ASSUME TypeOK, NEW p \in Port, ForgetIds(p)
  PROVE  /\ txCounter' \in [Port -> MessageId]
         /\ rxId' \in [Port -> MessageId \cup {NoId}]
         /\ delivered' \in [Port -> Seq(Nat)]
BY AssumptionsHold DEF Assumptions, TypeOK, ForgetIds, MessageId

\* So does forgetting the partner.
LEMMA ForgetPartnerType ==
  ASSUME TypeOK, NEW p \in Port, ForgetPartner(p)
  PROVE  /\ txCounter' \in [Port -> MessageId]
         /\ rxId' \in [Port -> MessageId \cup {NoId}]
         /\ delivered' \in [Port -> Seq(Nat)]
         /\ revision' \in [Port -> {2, 3}]
         /\ last' \in [Port -> Nat]
BY ForgetIdsType, AssumptionsHold DEF Assumptions, TypeOK, ForgetPartner

\* The MessageIDCounter wraps within its range.
LEMMA IncrementType ==
  ASSUME TypeOK, NEW p \in Port, Increment(p)
  PROVE  txCounter' \in [Port -> MessageId]
<1>1. \A i \in Nat : (i + 1) % IdCount \in MessageId
  BY AssumptionsHold DEF Assumptions, MessageId
<1> QED
  BY <1>1 DEF TypeOK, Increment, MessageId

\* One port's actions keep every variable typed.
LEMMA TypeClient ==
  ASSUME TypeOK, NEW p \in Port, Client(p)
  PROVE  TypeOK'
<1> USE DEF phyVars, historyVars
<1>1. CASE Attach(p)
  BY <1>1 DEF Attach, TypeOK
<1>2. CASE Transmit(p)
  BY <1>2, RequestType DEF Transmit, TypeOK
<1>3. CASE Detach(p)
  BY <1>3, ForgetPartnerType DEF Detach, TypeOK
<1>4. CASE SendSoftReset(p)
  <2>1. CASE TxReady(p) /\ Request(p, TRUE, 0, revision[p])
    <3>1. 0 \in MessageId /\ revision[p] \in {2, 3}
      BY AssumptionsHold DEF TypeOK, MessageId, Assumptions
    <3>2. /\ sent' \in [Port -> Nat]
          /\ tx' \in [Port -> TxState]
          /\ context' \in [Port -> Message]
          /\ retry' \in [Port -> 0 .. 3]
          /\ job' \in [Port -> Job]
      BY <2>1, <3>1, RequestType
    <3> QED
      BY <1>4, <3>2, ForgetIdsType DEF SendSoftReset, TypeOK
  <2>2. CASE UNCHANGED <<sent, tx, context, retry, job>>
    BY <1>4, <2>2, ForgetIdsType DEF SendSoftReset, TypeOK
  <2> QED
    BY <1>4, <2>1, <2>2 DEF SendSoftReset, RequestIfReady
<1>5. CASE TransmitHardReset(p)
  BY <1>5, ForgetPartnerType, HandOverType, ValueTypes
     DEF TransmitHardReset, MarkHardReset, TypeOK, TxState
<1> QED
  BY <1>1, <1>2, <1>3, <1>4, <1>5 DEF Client

\* A failed attempt keeps what it writes typed.
LEMMA AttemptFailedType ==
  ASSUME TypeOK, NEW p \in Port, AttemptFailed(p)
  PROVE  /\ tx' \in [Port -> TxState]
         /\ retry' \in [Port -> 0 .. 3]
         /\ txCounter' \in [Port -> MessageId]
         /\ job' \in [Port -> Job]
<1>1. CASE RetriesLeft(p) /\ retry' = [retry EXCEPT ![p] = @ + 1]
           /\ HandOver(p, Carrying(context[p])) /\ UNCHANGED <<tx, txCounter>>
  <2>1. retry[p] + 1 \in 0 .. 3
    <3>1. retry[p] \in 0 .. 3
      BY DEF TypeOK
    <3>2. retry[p] < 2 \/ retry[p] < 3
      BY <1>1 DEF RetriesLeft, RetryLimit
    <3> QED
      BY <3>1, <3>2
  <2>2. Carrying(context[p]) \in Job
    BY ValueTypes DEF TypeOK
  <2> QED
    BY <1>1, <2>1, <2>2, HandOverType DEF TypeOK
<1>2. CASE ~RetriesLeft(p) /\ tx' = [tx EXCEPT ![p] = "transmission_error"]
           /\ Increment(p) /\ UNCHANGED <<retry, job>>
  BY <1>2, IncrementType DEF TypeOK, TxState
<1> QED
  BY <1>1, <1>2 DEF AttemptFailed

\* The layer's timers keep every variable typed.
LEMMA TypeTimeout ==
  ASSUME TypeOK, NEW p \in Port, Timeout(p)
  PROVE  TypeOK'
<1>1. CASE PhyResponseTimeout(p)
  BY <1>1, AttemptFailedType DEF PhyResponseTimeout, TypeOK, historyVars
<1>2. CASE HardResetCompleteTimeout(p)
  BY <1>2, ForgetIdsType
     DEF HardResetCompleteTimeout, HardResetSent, TypeOK, TxState, phyVars
<1> QED
  BY <1>1, <1>2 DEF Timeout

\* A callback taken leaves the callbacks typed; the one taken was typed.
LEMMA CallbackType ==
  ASSUME TypeOK, NEW p \in Port, events[p] # <<>>,
         events' = [events EXCEPT ![p] = Tail(@)]
  PROVE  events' \in [Port -> Seq(Event)] /\ Head(events[p]) \in Event
BY DEF TypeOK

\* A message that arrives is typed.
LEMMA ArrivingType ==
  ASSUME TypeOK, NEW p \in Port
  PROVE  Arriving(p) \in Message /\ LowestCommon(p) \in {2, 3}
<1>1. Arriving(p) \in Message
  <2>1. events[p] # <<>> => Head(events[p]) \in Event
    BY DEF TypeOK
  <2> QED
    BY <2>1, ValueTypes DEF Arriving, Event
<1> QED
  BY <1>1 DEF LowestCommon, Message, TypeOK

\* The PHY's callbacks keep every variable typed.
LEMMA TypeOnCallback ==
  ASSUME TypeOK, NEW p \in Port, OnCallback(p)
  PROVE  TypeOK'
<1>1. events' \in [Port -> Seq(Event)]
  BY CallbackType
     DEF OnCallback, Unheard, OnTransmittedSuccess, OnTransmittedDiscarded,
         OnTransmittedFailed, OnReceivedDuplicate, OnReceivedNew,
         OnReceivedSoftReset, OnHardResetReceived, Callback, Arrives
<1> USE <1>1 DEF historyVars, layerVars, Callback
<1>2. CASE Unheard(p)
  BY <1>2 DEF Unheard, TypeOK
<1>3. CASE OnTransmittedSuccess(p)
  <2>1. /\ txCounter' \in [Port -> MessageId]
        /\ rxId' \in [Port -> MessageId \cup {NoId}]
        /\ delivered' \in [Port -> Seq(Nat)]
        /\ done' \in [Port -> SUBSET Nat]
    <3>1. CASE tx[p] = "wait_for_phy_response"
      <4>1. context[p].n \in Nat
        BY DEF TypeOK, Message
      <4>2. /\ Increment(p)
            /\ done' = [done EXCEPT ![p] = @ \cup {context[p].n}]
            /\ UNCHANGED <<rxId, delivered>>
        BY <1>3, <3>1 DEF OnTransmittedSuccess, TxReady
      <4>3. done' \in [Port -> SUBSET Nat]
        BY <4>1, <4>2 DEF TypeOK
      <4> QED
        BY <4>2, <4>3, IncrementType DEF TypeOK
    <3>2. CASE tx[p] = "wait_for_hard_reset_complete"
      BY <1>3, <3>2, ForgetIdsType
         DEF OnTransmittedSuccess, HardResetSent, TypeOK, TxReady
    <3>3. CASE TxReady(p)
      BY <1>3, <3>3 DEF OnTransmittedSuccess, TypeOK, TxReady
    <3> QED
      BY <1>3, <3>1, <3>2, <3>3 DEF OnTransmittedSuccess
  <2> QED
    BY <1>3, <2>1 DEF OnTransmittedSuccess, TypeOK, TxState
<1>4. CASE OnTransmittedDiscarded(p)
  BY <1>4, IncrementType DEF OnTransmittedDiscarded, TypeOK, TxState
<1>5. CASE OnTransmittedFailed(p)
  BY <1>5, AttemptFailedType DEF OnTransmittedFailed, TypeOK
<1>6. CASE OnReceivedDuplicate(p)
  BY <1>6 DEF OnReceivedDuplicate, Arrives, TypeOK
<1>7. CASE OnReceivedNew(p)
  <2>1. Arriving(p).id \in MessageId /\ Arriving(p).n \in Nat
    BY ArrivingType DEF Message
  <2> QED
    <3>1. delivered' \in [Port -> Seq(Nat)]
      BY <1>7, <2>1 DEF OnReceivedNew, IsRetransmission, StoreId, TypeOK
    <3>2. rxId' \in [Port -> MessageId \cup {NoId}] /\ last' \in [Port -> Nat]
      BY <1>7, <2>1 DEF OnReceivedNew, IsRetransmission, StoreId, TypeOK
    <3>3. revision' \in [Port -> {2, 3}]
      BY <1>7, ArrivingType DEF OnReceivedNew, IsRetransmission, StoreId, TypeOK
    <3> QED
      BY <1>7, <3>1, <3>2, <3>3 DEF OnReceivedNew, IsRetransmission, StoreId, Arrives, TypeOK
<1>8. CASE OnReceivedSoftReset(p)
  <2>1. Arriving(p).n \in Nat
    BY ArrivingType DEF Message
  <2>2. CASE TxReady(p) /\ Request(p, FALSE, 0, LowestCommon(p))
    <3>1. 0 \in MessageId
      BY AssumptionsHold DEF MessageId, Assumptions
    <3>2. /\ sent' \in [Port -> Nat]
          /\ tx' \in [Port -> TxState]
          /\ context' \in [Port -> Message]
          /\ retry' \in [Port -> 0 .. 3]
          /\ job' \in [Port -> Job]
      BY <2>2, <3>1, ArrivingType, RequestType
    <3>3. last' \in [Port -> Nat] /\ revision' \in [Port -> {2, 3}]
      BY <1>8, <2>1, ArrivingType DEF OnReceivedSoftReset, TypeOK
    <3> QED
      BY <1>8, <3>2, <3>3, ForgetIdsType DEF OnReceivedSoftReset, Arrives, TypeOK
  <2>3. CASE UNCHANGED <<sent, tx, context, retry, job>>
    BY <1>8, <2>1, <2>3, ForgetIdsType, ArrivingType
       DEF OnReceivedSoftReset, Arrives, TypeOK
  <2> QED
    BY <1>8, <2>2, <2>3 DEF OnReceivedSoftReset, RequestIfReady
<1>9. CASE OnHardResetReceived(p)
  BY <1>9, ForgetPartnerType DEF OnHardResetReceived, MarkHardReset, TypeOK,
                                      TxState
<1> QED
  BY <1>2, <1>3, <1>4, <1>5, <1>6, <1>7, <1>8, <1>9 DEF OnCallback

\* What a PHY reports is typed.
LEMMA ReportType ==
  ASSUME NEW o \in Outcome, NEW r \in Report(o)
  PROVE  r \in Seq(Event)
<1>1. Transmitted(o) \in Event
  BY ValueTypes
<1>2. r = <<>> \/ r = <<Transmitted(o)>>
  BY DEF Report
<1>3. CASE r = <<>>
  BY <1>3
<1>4. CASE r = <<Transmitted(o)>>
  BY <1>1, <1>4
<1> QED
  BY <1>2, <1>3, <1>4

\* Queueing typed callbacks leaves the callbacks typed.
LEMMA QueueType ==
  ASSUME TypeOK, NEW more \in [Port -> Seq(Event)], Queue(more)
  PROVE  events' \in [Port -> Seq(Event)]
BY DEF TypeOK, Queue

\* The PHYs and the wire keep every variable typed.
LEMMA TypePhyStep ==
  ASSUME TypeOK, NEW p \in Port, PhyStep(p)
  PROVE  TypeOK'
<1> USE DEF historyVars, layerVars
<1>0. Peer(p) \in Port
  BY PeerIsOther
<1>1. CASE PhyReceive(p)
  <2>1. job[p].message \in Message /\ job[p].message.n \in Nat
    BY DEF TypeOK, Job, Message
  <2> DEFINE pre == IF HoldsMessage(Peer(p)) THEN <<Transmitted("discarded")>>
                                            ELSE <<>>
             arrival == Append(pre, Received(job[p].message))
  <2>2. \A o \in Outcome : <<Transmitted(o)>> \in Seq(Event)
    BY ValueTypes
  <2>3. arrival \in Seq(Event)
    BY <2>1, <2>2, ValueTypes DEF Outcome
  <2>4. events' \in [Port -> Seq(Event)]
    <3>1. PICK r \in {<<Transmitted("success")>>} \cup Report("failed") :
            Queue([x \in Port |-> IF x = p THEN r ELSE arrival])
      BY <1>1 DEF PhyReceive, Report
    <3>2. r \in Seq(Event)
      <4>1. "success" \in Outcome /\ "failed" \in Outcome
        BY DEF Outcome
      <4>2. CASE r = <<Transmitted("success")>>
        BY <2>2, <4>1, <4>2
      <4>3. CASE r \in Report("failed")
        BY <4>1, <4>3, ReportType
      <4> QED
        BY <3>1, <4>2, <4>3
    <3>3. [x \in Port |-> IF x = p THEN r ELSE arrival] \in [Port -> Seq(Event)]
      BY <2>3, <3>2
    <3> QED
      BY <3>1, <3>3, QueueType
  <2>5. job' \in [Port -> Job]
    BY <1>0, <1>1, ValueTypes DEF PhyReceive, TypeOK
  <2>6. heard' \in [Port -> SUBSET Nat]
    BY <1>0, <1>1, <2>1 DEF PhyReceive, TypeOK
  <2> QED
    BY <1>1, <2>4, <2>5, <2>6 DEF PhyReceive, TypeOK
<1>2. CASE PhyLose(p)
  <2>1. events' \in [Port -> Seq(Event)]
    <3>1. PICK r \in Report("failed") :
            Queue([x \in Port |-> IF x = p THEN r ELSE <<>>])
      BY <1>2 DEF PhyLose
    <3>2. r \in Seq(Event)
      BY ReportType DEF Outcome
    <3>3. <<>> \in Seq(Event)
      OBVIOUS
    <3>4. [x \in Port |-> IF x = p THEN r ELSE <<>>] \in [Port -> Seq(Event)]
      BY <3>2, <3>3
    <3> QED
      BY <3>1, <3>4, QueueType
  <2> QED
    BY <1>2, <2>1, ValueTypes DEF PhyLose, TypeOK
<1>3. CASE PhySignal(p)
  <2>1. PICK r \in Report("success"),
             h \in {<<>>} \cup (IF detecting[Peer(p)] THEN {<<HardResetReceived>>}
                                                     ELSE {}) :
          /\ Queue([x \in Port |-> IF x = p THEN r ELSE h])
          /\ job' = IF h # <<>> /\ HoldsMessage(Peer(p))
                      THEN [job EXCEPT ![p] = Nothing, ![Peer(p)] = Nothing]
                      ELSE [job EXCEPT ![p] = Nothing]
    BY <1>3 DEF PhySignal
  <2>2. r \in Seq(Event)
    BY ReportType DEF Outcome
  <2>3. events' \in [Port -> Seq(Event)]
    <3>1. h = <<>> \/ h = <<HardResetReceived>>
      OBVIOUS
    <3>2. <<>> \in Seq(Event) /\ <<HardResetReceived>> \in Seq(Event)
      BY ValueTypes
    <3>3. [x \in Port |-> IF x = p THEN r ELSE h] \in [Port -> Seq(Event)]
      BY <2>2, <3>1, <3>2
    <3> QED
      BY <2>1, <3>3, QueueType
  <2>4. job' \in [Port -> Job]
    BY <1>0, <2>1, ValueTypes DEF TypeOK
  <2> QED
    BY <1>3, <2>3, <2>4 DEF PhySignal, TypeOK
<1> QED
  BY <1>1, <1>2, <1>3 DEF PhyStep

\* Every step keeps every variable typed.
LEMMA TypeNext == TypeOK /\ [Next]_vars => TypeOK'
<1> SUFFICES ASSUME TypeOK, [Next]_vars PROVE TypeOK'
  OBVIOUS
<1>1. CASE NewCable
  BY <1>1 DEF NewCable, TypeOK, phyVars, historyVars
<1>2. CASE UNCHANGED vars
  BY <1>2 DEF TypeOK, vars, layerVars, phyVars, historyVars
<1> QED
  BY <1>1, <1>2, TypeClient, TypeTimeout, TypeOnCallback, TypePhyStep DEF Next

\* The types of PdLink hold in every reachable state.
THEOREM TypeCorrect == Spec => []TypeOK
BY TypeInit, TypeNext, PTL DEF Spec

-----------------------------------------------------------------------------
(* The stream of messages between a layer's transmit side and the partner's *)
(* client: c is in flight, jb at the PHY, e the callbacks, d delivered and  *)
(* r the stored MessageID.  What each kind of step does to it.              *)

\* The types of a stream's parts.
StreamType(c, jb, e, d, r) ==
  /\ c \in Message /\ jb \in Job /\ e \in Seq(Event) /\ d \in Seq(Nat)
  /\ r \in MessageId \cup {NoId}

\* Restarting the receiver's MessageIDs leaves a stream, whatever is stored.
LEMMA StreamForget ==
  ASSUME NEW c, NEW jb, NEW e, NEW d, NEW r, NEW s,
         Stream(c, jb, e, d, r)
  PROVE  Stream(c, jb, e, <<>>, s)
BY DEF Stream, Increasing, HandedOver

\* The PHY may drop what it held, or turn to a hard reset.
LEMMA StreamRelease ==
  ASSUME NEW c, NEW jb, NEW k, NEW e, NEW d, NEW r,
         Stream(c, jb, e, d, r), k.kind # "message"
  PROVE  Stream(c, k, e, d, r)
BY DEF Stream

\* The PHY may be handed the message in flight (again).
LEMMA StreamHandOver ==
  ASSUME NEW c \in Message, NEW jb, NEW e, NEW d, NEW r,
         Stream(c, jb, e, d, r)
  PROVE  Stream(c, Carrying(c), e, d, r)
BY DEF Stream, Carrying, Precedes, Message

\* A later message may be put in flight.
LEMMA StreamRequest ==
  ASSUME NEW c, NEW c2, NEW jb, NEW e, NEW d, NEW r,
         StreamType(c, jb, e, d, r), c2 \in Message, c2.n > c.n,
         Stream(c, jb, e, d, r)
  PROVE  Stream(c2, jb, e, d, r)
<1>1. \A m \in Message : Precedes(m, c) => Precedes(m, c2)
  BY DEF StreamType, Precedes, Message
<1>2. HandedOver(d, r, c2)
  <2>1. CASE d = <<>>
    BY <2>1 DEF HandedOver
  <2>2. CASE d # <<>>
    <3>1. d[Len(d)] \in Nat /\ d[Len(d)] <= c.n
      BY <2>2 DEF StreamType, Stream, HandedOver
    <3> QED
      BY <3>1 DEF HandedOver, StreamType, Message
  <2> QED
    BY <2>1, <2>2
<1>3. \A i \in DOMAIN e : e[i].message \in Message
  <2>1. \A i \in DOMAIN e : e[i] \in Event
    BY DEF StreamType
  <2> QED
    BY <2>1 DEF Event
<1>4. jb.message \in Message
  BY DEF StreamType, Job
<1> QED
  BY <1>1, <1>2, <1>3, <1>4 DEF Stream

\* The oldest callback may be taken, its message dropped.
LEMMA StreamPop ==
  ASSUME NEW c, NEW jb, NEW e, NEW d, NEW r,
         StreamType(c, jb, e, d, r), e # <<>>, Stream(c, jb, e, d, r)
  PROVE  Stream(c, jb, Tail(e), d, r)
<1>1. \A i \in DOMAIN Tail(e) : i + 1 \in DOMAIN e /\ Tail(e)[i] = e[i + 1]
  BY DEF StreamType
<1>2. \A i, j \in DOMAIN Tail(e) : i < j => i + 1 < j + 1
  BY DEF StreamType
<1> QED
  BY <1>1, <1>2 DEF Stream, Arrival

\* The oldest message may be handed over unless the stored MessageID is its
\* own.
LEMMA StreamDeliver ==
  ASSUME NEW c, NEW jb, NEW e, NEW d, NEW r,
         StreamType(c, jb, e, d, r), e # <<>>, Stream(c, jb, e, d, r),
         Head(e).kind = "received", Head(e).message.id # r
  PROVE  Stream(c, jb, Tail(e), Append(d, Head(e).message.n), Head(e).message.id)
<1> DEFINE m == Head(e).message
           d2 == Append(d, m.n)
<1>1. m \in Message /\ m = e[1].message /\ Arrival(e, 1) /\ m.n \in Nat
  <2>1. e[1] \in Event /\ Head(e) = e[1] /\ 1 \in DOMAIN e
    BY DEF StreamType
  <2>2. m \in Message
    BY <2>1 DEF Event
  <2> QED
    BY <2>1, <2>2 DEF Arrival, Message
<1>2. Stream(c, jb, Tail(e), d, r)
  BY StreamPop
<1>3. HandedOver(d, r, m)
  BY <1>1 DEF Stream
<1>4. d # <<>> => d[Len(d)] < m.n
  BY <1>1, <1>3 DEF HandedOver, StreamType
<1>5. Increasing(d2)
  <2>1. \A i \in 1 .. Len(d) : d[i] < m.n
    <3> SUFFICES ASSUME NEW i \in 1 .. Len(d) PROVE d[i] < m.n
      OBVIOUS
    <3>1. d # <<>> /\ Len(d) \in 1 .. Len(d) /\ d[i] \in Nat /\ d[Len(d)] \in Nat
      BY DEF StreamType
    <3>2. d[i] <= d[Len(d)]
      <4>1. CASE i = Len(d)
        BY <3>1, <4>1
      <4>2. CASE i # Len(d)
        BY <3>1, <4>2 DEF Stream, Increasing
      <4> QED
        BY <4>1, <4>2
    <3> QED
      BY <1>1, <1>4, <3>1, <3>2
  <2>2. DOMAIN d = 1 .. Len(d) /\ DOMAIN d2 = 1 .. Len(d) + 1
        /\ \A i \in 1 .. Len(d) : d2[i] = d[i]
        /\ d2[Len(d) + 1] = m.n /\ Len(d) \in Nat
    BY <1>1 DEF StreamType
  <2>3. ASSUME NEW i \in DOMAIN d2, NEW j \in DOMAIN d2, i < j
        PROVE  d2[i] < d2[j]
    <3>1. i \in 1 .. Len(d)
      BY <2>2, <2>3
    <3>2. CASE j = Len(d) + 1
      BY <2>1, <2>2, <3>1, <3>2
    <3>3. CASE j \in 1 .. Len(d)
      BY <2>2, <2>3, <3>1, <3>3 DEF Stream, Increasing
    <3> QED
      BY <2>2, <3>2, <3>3
  <2> QED
    BY <2>3 DEF Increasing
<1>6. ASSUME NEW k, Precedes(m, k)
      PROVE  HandedOver(d2, m.id, k)
  <2>1. d2[Len(d2)] = m.n
    BY <1>1 DEF StreamType
  <2> QED
    BY <1>6, <2>1 DEF HandedOver, Precedes
<1>7. Precedes(m, c) /\ (jb.kind = "message" => Precedes(m, jb.message))
  BY <1>1 DEF Stream, Arrival
<1>8. \A i \in DOMAIN Tail(e) :
        Arrival(Tail(e), i) => Precedes(m, Tail(e)[i].message)
  <2>1. \A i \in DOMAIN Tail(e) :
          i + 1 \in DOMAIN e /\ Tail(e)[i] = e[i + 1] /\ 1 < i + 1
    BY DEF StreamType
  <2> QED
    BY <1>1, <2>1 DEF Stream, Arrival
<1> QED
  BY <1>2, <1>5, <1>6, <1>7, <1>8 DEF Stream

\* A callback that is no received message may be queued.
LEMMA StreamQueueOther ==
  ASSUME NEW c, NEW jb, NEW e, NEW d, NEW r, NEW x \in Event,
         StreamType(c, jb, e, d, r), Stream(c, jb, e, d, r),
         x.kind # "received"
  PROVE  Stream(c, jb, Append(e, x), d, r)
<1>1. \A i \in DOMAIN Append(e, x) :
        Arrival(Append(e, x), i) => Arrival(e, i) /\ Append(e, x)[i] = e[i]
  BY DEF StreamType, Arrival
<1> QED
  BY <1>1 DEF Stream, Arrival

\* The message the PHY holds may arrive.
LEMMA StreamQueueReceived ==
  ASSUME NEW c, NEW jb, NEW e, NEW d, NEW r,
         StreamType(c, jb, e, d, r), Stream(c, jb, e, d, r),
         jb.kind = "message"
  PROVE  Stream(c, jb, Append(e, Received(jb.message)), d, r)
<1> DEFINE e2 == Append(e, Received(jb.message))
<1>1. /\ DOMAIN e = 1 .. Len(e) /\ DOMAIN e2 = 1 .. Len(e) + 1
      /\ \A i \in 1 .. Len(e) : e2[i] = e[i]
      /\ e2[Len(e) + 1].message = jb.message /\ Len(e) \in Nat
  BY DEF StreamType, Received
<1>2. ASSUME NEW i \in DOMAIN e2, Arrival(e2, i)
      PROVE  /\ HandedOver(d, r, e2[i].message)
             /\ Precedes(e2[i].message, c)
             /\ Precedes(e2[i].message, jb.message)
  <2>1. CASE i = Len(e) + 1
    <3>1. Precedes(jb.message, jb.message)
      BY DEF StreamType, Job, Message, Precedes
    <3> QED
      BY <1>1, <2>1, <3>1 DEF Stream
  <2>2. CASE i \in 1 .. Len(e)
    BY <1>1, <1>2, <2>2 DEF Stream, Arrival
  <2> QED
    BY <1>1, <2>1, <2>2
<1>3. ASSUME NEW i \in DOMAIN e2, NEW j \in DOMAIN e2, i < j,
             Arrival(e2, i), Arrival(e2, j)
      PROVE  Precedes(e2[i].message, e2[j].message)
  <2>1. i \in 1 .. Len(e)
    BY <1>1, <1>3
  <2>2. CASE j = Len(e) + 1
    BY <1>1, <1>2, <1>3, <2>2
  <2>3. CASE j \in 1 .. Len(e)
    BY <1>1, <1>3, <2>1, <2>3 DEF Stream, Arrival
  <2> QED
    BY <1>1, <2>2, <2>3
<1> QED
  BY <1>2, <1>3 DEF Stream

-----------------------------------------------------------------------------
(* The steps.  A step of port p's layer touches two streams: its own, at    *)
(* the transmitting end, and its peer's, at the receiving end.              *)

\* p's own stream survives the step, what the peer does not touch aside.
Sends(p) ==
  /\ context'[p].n = sent'[p]
  /\ Stream(context'[p], job'[p], events[Peer(p)], delivered[Peer(p)],
            rxId[Peer(p)])

\* The peer's stream survives what p does at its receiving end.
Receives(p) ==
  Stream(context[Peer(p)], job[Peer(p)], events'[p], delivered'[p], rxId'[p])

\* The step is p's alone.
PeerUntouched(p) ==
  LET q == Peer(p)
  IN  /\ context'[q] = context[q] /\ sent'[q] = sent[q] /\ job'[q] = job[q]
      /\ events'[q] = events[q] /\ delivered'[q] = delivered[q]
      /\ rxId'[q] = rxId[q]

\* A step that keeps both ends keeps all streams.
LEMMA BothEnds ==
  ASSUME NEW p \in Port, StreamsInOrder, PeerUntouched(p), Sends(p), Receives(p)
  PROVE  StreamsInOrder'
<1>1. SUFFICES ASSUME NEW x \in Port
               PROVE  /\ context'[x].n = sent'[x]
                      /\ Stream(context'[x], job'[x], events'[Peer(x)],
                                delivered'[Peer(x)], rxId'[Peer(x)])
  BY DEF StreamsInOrder
<1>2. CASE x = p
  BY <1>2 DEF Sends, PeerUntouched
<1>3. CASE x = Peer(p)
  <2>1. Peer(x) = p
    BY <1>3, PeerIsOther
  <2> QED
    BY <1>3, <2>1 DEF Receives, PeerUntouched, StreamsInOrder
<1> QED
  BY <1>2, <1>3, PeerIsOther DEF Port, Peer

\* The streams are typed.
LEMMA StreamsTyped ==
  ASSUME TypeOK, NEW p \in Port
  PROVE  StreamType(context[p], job[p], events[Peer(p)], delivered[Peer(p)],
                    rxId[Peer(p)])
BY PeerIsOther DEF TypeOK, StreamType

\* A step that leaves p's transmitting end alone keeps its stream.
LEMMA SendsNothing ==
  ASSUME NEW p \in Port, StreamsInOrder, UNCHANGED <<context, sent, job>>
  PROVE  Sends(p)
BY DEF StreamsInOrder, Sends

\* One that leaves p's receiving end alone keeps the peer's.
LEMMA ReceivesNothing ==
  ASSUME NEW p \in Port, StreamsInOrder, UNCHANGED <<events, delivered, rxId>>
  PROVE  Receives(p)
BY PeerIsOther DEF StreamsInOrder, Receives

\* A request puts a later message in flight and in the PHY.
LEMMA SendsRequest ==
  ASSUME NEW p \in Port, TypeOK, StreamsInOrder, NEW soft \in BOOLEAN,
         NEW id \in MessageId, NEW rev \in {2, 3}, Request(p, soft, id, rev)
  PROVE  Sends(p)
<1> DEFINE m == [n |-> sent[p] + 1, id |-> id, revision |-> rev, soft |-> soft]
           e == events[Peer(p)]
           d == delivered[Peer(p)]
           r == rxId[Peer(p)]
<1>1. m \in Message /\ m.n > context[p].n
  BY DEF TypeOK, Message, StreamsInOrder
<1>2. context' = [context EXCEPT ![p] = m] /\ sent' = [sent EXCEPT ![p] = @ + 1]
      /\ HandOver(p, Carrying(m))
  BY DEF Request
<1>3. context'[p] = m /\ sent'[p] = m.n
  BY <1>2 DEF TypeOK
<1>4. Stream(m, job[p], e, d, r)
  BY <1>1, StreamsTyped, StreamRequest DEF StreamsInOrder
<1>5. Stream(m, Carrying(m), e, d, r)
  BY <1>1, <1>4, StreamHandOver
<1>6. job'[p] = Carrying(m) \/ job'[p] = job[p]
  BY <1>2 DEF HandOver, TypeOK
<1> QED
  BY <1>3, <1>4, <1>5, <1>6 DEF Sends

\* So does one that is made only when the layer is ready.
LEMMA SendsRequestIfReady ==
  ASSUME NEW p \in Port, TypeOK, StreamsInOrder, NEW soft \in BOOLEAN,
         NEW id \in MessageId, NEW rev \in {2, 3},
         RequestIfReady(p, soft, id, rev)
  PROVE  Sends(p)
<1>1. CASE Request(p, soft, id, rev)
  BY <1>1, SendsRequest
<1>2. CASE UNCHANGED <<sent, tx, context, retry, job>>
  BY <1>2, SendsNothing
<1> QED
  BY <1>1, <1>2 DEF RequestIfReady

\* A retransmission hands over the message in flight again.
LEMMA SendsAttempt ==
  ASSUME NEW p \in Port, TypeOK, StreamsInOrder, AttemptFailed(p),
         UNCHANGED <<context, sent>>
  PROVE  Sends(p)
<1>1. context[p] \in Message
  BY DEF TypeOK
<1>2. Stream(context[p], Carrying(context[p]), events[Peer(p)],
             delivered[Peer(p)], rxId[Peer(p)])
  BY <1>1, StreamHandOver DEF StreamsInOrder
<1>3. job'[p] = Carrying(context[p]) \/ job'[p] = job[p]
  BY DEF AttemptFailed, HandOver, TypeOK
<1> QED
  BY <1>2, <1>3 DEF Sends, StreamsInOrder

\* A restart of p's MessageIDs forgets what was delivered.
LEMMA ReceivesForget ==
  ASSUME NEW p \in Port, TypeOK, StreamsInOrder, ForgetIds(p), UNCHANGED events
  PROVE  Receives(p)
<1>1. delivered'[p] = <<>>
  BY DEF TypeOK, ForgetIds
<1>2. Stream(context[Peer(p)], job[Peer(p)], events[p], delivered[p], rxId[p])
  BY PeerIsOther DEF StreamsInOrder
<1> QED
  BY <1>1, <1>2, StreamForget DEF Receives

\* The peer's stream after p's next callback is taken.
LEMMA Popped ==
  ASSUME NEW p \in Port, TypeOK, StreamsInOrder, events[p] # <<>>,
         events' = [events EXCEPT ![p] = Tail(@)]
  PROVE  /\ events'[p] = Tail(events[p])
         /\ Stream(context[Peer(p)], job[Peer(p)], events'[p], delivered[p], rxId[p])
<1>1. events'[p] = Tail(events[p])
  BY DEF TypeOK
<1>2. /\ Stream(context[Peer(p)], job[Peer(p)], events[p], delivered[p], rxId[p])
      /\ StreamType(context[Peer(p)], job[Peer(p)], events[p], delivered[p], rxId[p])
  BY PeerIsOther, StreamsTyped DEF StreamsInOrder
<1> QED
  BY <1>1, <1>2, StreamPop

\* A callback taken without a message handed over.
LEMMA ReceivesPop ==
  ASSUME NEW p \in Port, TypeOK, StreamsInOrder, events[p] # <<>>,
         events' = [events EXCEPT ![p] = Tail(@)],
         UNCHANGED <<delivered, rxId>> \/ ForgetIds(p)
  PROVE  Receives(p)
<1>1. CASE UNCHANGED <<delivered, rxId>>
  BY <1>1, Popped DEF Receives
<1>2. CASE ForgetIds(p)
  <2>1. delivered'[p] = <<>>
    BY <1>2 DEF TypeOK, ForgetIds
  <2>2. Stream(context[Peer(p)], job[Peer(p)], events'[p], delivered[p], rxId[p])
    BY Popped
  <2>3. Stream(context[Peer(p)], job[Peer(p)], events'[p], <<>>, rxId'[p])
    BY <2>2, StreamForget
  <2> QED
    BY <2>1, <2>3 DEF Receives
<1> QED
  BY <1>1, <1>2

\* What a client's call does to the streams.
LEMMA StreamsClient ==
  ASSUME TypeOK, StreamsInOrder, NEW p \in Port, Client(p)
  PROVE  StreamsInOrder'
<1> USE DEF phyVars, historyVars
<1>0. Peer(p) \in Port /\ Peer(p) # p
  BY PeerIsOther
<1>1. CASE Attach(p)
  BY <1>1 DEF Attach, StreamsInOrder
<1>2. CASE Transmit(p)
  <2>1. Sends(p)
    BY <1>2, SendsRequest DEF Transmit, TypeOK
  <2>2. Receives(p)
    BY <1>2, ReceivesNothing DEF Transmit
  <2>3. PeerUntouched(p)
    BY <1>0, <1>2 DEF Transmit, Request, HandOver, PeerUntouched, TypeOK
  <2> QED
    BY <2>1, <2>2, <2>3, BothEnds
<1>3. CASE Detach(p)
  <2>1. Sends(p)
    BY <1>3, SendsNothing DEF Detach
  <2>2. Receives(p)
    BY <1>3, ReceivesForget DEF Detach, ForgetPartner
  <2>3. PeerUntouched(p)
    BY <1>0, <1>3 DEF Detach, ForgetPartner, ForgetIds, PeerUntouched, TypeOK
  <2> QED
    BY <2>1, <2>2, <2>3, BothEnds
<1>4. CASE SendSoftReset(p)
  <2>1. Sends(p)
    <3>1. 0 \in MessageId /\ revision[p] \in {2, 3}
      BY AssumptionsHold DEF Assumptions, MessageId, TypeOK
    <3> QED
      BY <1>4, <3>1, SendsRequestIfReady DEF SendSoftReset
  <2>2. Receives(p)
    BY <1>4, ReceivesForget DEF SendSoftReset
  <2>3. PeerUntouched(p)
    BY <1>0, <1>4
       DEF SendSoftReset, RequestIfReady, Request, HandOver, ForgetIds,
           PeerUntouched, TypeOK
  <2> QED
    BY <2>1, <2>2, <2>3, BothEnds
<1>5. CASE TransmitHardReset(p)
  <2>1. Sends(p)
    <3>1. job'[p] = HardReset \/ job'[p] = job[p]
      BY <1>5 DEF TransmitHardReset, HandOver, TypeOK
    <3>2. HardReset.kind # "message"
      BY DEF HardReset
    <3>3. Stream(context[p], HardReset, events[Peer(p)], delivered[Peer(p)],
                 rxId[Peer(p)])
      BY <3>2, StreamRelease DEF StreamsInOrder
    <3> QED
      BY <1>5, <3>1, <3>3 DEF TransmitHardReset, Sends, StreamsInOrder
  <2>2. Receives(p)
    BY <1>5, ReceivesForget DEF TransmitHardReset, ForgetPartner
  <2>3. PeerUntouched(p)
    BY <1>0, <1>5
       DEF TransmitHardReset, HandOver, ForgetPartner, ForgetIds,
           PeerUntouched, TypeOK
  <2> QED
    BY <2>1, <2>2, <2>3, BothEnds
<1> QED
  BY <1>1, <1>2, <1>3, <1>4, <1>5 DEF Client

\* What a timer does to the streams.
LEMMA StreamsTimeout ==
  ASSUME TypeOK, StreamsInOrder, NEW p \in Port, Timeout(p)
  PROVE  StreamsInOrder'
<1> USE DEF phyVars, historyVars
<1>0. Peer(p) \in Port /\ Peer(p) # p
  BY PeerIsOther
<1>1. CASE PhyResponseTimeout(p)
  <2>1. Sends(p)
    BY <1>1, SendsAttempt DEF PhyResponseTimeout
  <2>2. Receives(p)
    BY <1>1, ReceivesNothing DEF PhyResponseTimeout
  <2>3. PeerUntouched(p)
    BY <1>0, <1>1
       DEF PhyResponseTimeout, AttemptFailed, HandOver, PeerUntouched, TypeOK
  <2> QED
    BY <2>1, <2>2, <2>3, BothEnds
<1>2. CASE HardResetCompleteTimeout(p)
  <2>1. Sends(p)
    BY <1>2, SendsNothing DEF HardResetCompleteTimeout
  <2>2. Receives(p)
    BY <1>2, ReceivesForget, ReceivesNothing
       DEF HardResetCompleteTimeout, HardResetSent
  <2>3. PeerUntouched(p)
    BY <1>0, <1>2
       DEF HardResetCompleteTimeout, HardResetSent, ForgetIds, PeerUntouched,
           TypeOK
  <2> QED
    BY <2>1, <2>2, <2>3, BothEnds
<1> QED
  BY <1>1, <1>2 DEF Timeout

\* What a callback does to the streams.
LEMMA StreamsOnCallback ==
  ASSUME TypeOK, StreamsInOrder, NEW p \in Port, OnCallback(p)
  PROVE  StreamsInOrder'
<1> USE DEF layerVars, historyVars
<1>0. Peer(p) \in Port /\ Peer(p) # p
  BY PeerIsOther
<1>a. events[p] # <<>> /\ events' = [events EXCEPT ![p] = Tail(@)]
  BY DEF OnCallback, Unheard, OnTransmittedSuccess, OnTransmittedDiscarded,
         OnTransmittedFailed, OnReceivedDuplicate, OnReceivedNew,
         OnReceivedSoftReset, OnHardResetReceived, Callback, Arrives
<1>b. events'[Peer(p)] = events[Peer(p)]
  BY <1>0, <1>a DEF TypeOK
<1>1. ASSUME UNCHANGED <<context, sent, job>>,
             UNCHANGED <<delivered, rxId>> \/ ForgetIds(p)
      PROVE  StreamsInOrder'
  <2>1. Sends(p) /\ Receives(p)
    BY <1>1, <1>a, SendsNothing, ReceivesPop
  <2>2. PeerUntouched(p)
    BY <1>0, <1>1, <1>b DEF PeerUntouched, ForgetIds, TypeOK
  <2> QED
    BY <2>1, <2>2, BothEnds
<1>2. CASE Unheard(p)
  BY <1>1, <1>2 DEF Unheard
<1>3. CASE OnTransmittedSuccess(p)
  <2>1. UNCHANGED <<context, sent, job>>
    BY <1>3 DEF OnTransmittedSuccess
  <2>2. UNCHANGED <<delivered, rxId>> \/ ForgetIds(p)
    BY <1>3 DEF OnTransmittedSuccess, HardResetSent
  <2> QED
    BY <1>1, <2>1, <2>2
<1>4. CASE OnTransmittedDiscarded(p)
  BY <1>1, <1>4 DEF OnTransmittedDiscarded
<1>5. CASE OnTransmittedFailed(p)
  <2>1. CASE tx[p] # "wait_for_phy_response"
    BY <1>1, <1>5, <2>1 DEF OnTransmittedFailed
  <2>2. CASE AttemptFailed(p)
    <3>1. Sends(p)
      BY <1>5, <2>2, SendsAttempt DEF OnTransmittedFailed
    <3>2. Receives(p)
      BY <1>5, <1>a, ReceivesPop DEF OnTransmittedFailed
    <3>3. PeerUntouched(p)
      BY <1>0, <1>5, <1>b, <2>2
         DEF OnTransmittedFailed, AttemptFailed, HandOver, PeerUntouched, TypeOK
    <3> QED
      BY <3>1, <3>2, <3>3, BothEnds
  <2> QED
    BY <1>5, <2>1, <2>2 DEF OnTransmittedFailed
<1>6. CASE OnReceivedDuplicate(p)
  BY <1>1, <1>6 DEF OnReceivedDuplicate
<1>7. CASE OnReceivedNew(p)
  <2> DEFINE m == Arriving(p)
             q == Peer(p)
  <2>1. Head(events[p]).kind = "received" /\ m = Head(events[p]).message
        /\ m \in Message /\ m.id # rxId[p]
    BY <1>7, ArrivingType
       DEF OnReceivedNew, IsRetransmission, StoreId, Arrives, Callback, Received, Arriving
  <2>2. delivered'[p] = Append(delivered[p], m.n) /\ rxId'[p] = m.id
    BY <1>7 DEF OnReceivedNew, IsRetransmission, StoreId, TypeOK
  <2>3. events'[p] = Tail(events[p])
    BY <1>a DEF TypeOK
  <2>4. /\ Stream(context[q], job[q], events[p], delivered[p], rxId[p])
        /\ StreamType(context[q], job[q], events[p], delivered[p], rxId[p])
    BY <1>0, PeerIsOther, StreamsTyped DEF StreamsInOrder
  <2>5. Receives(p)
    BY <1>a, <2>1, <2>2, <2>3, <2>4, StreamDeliver DEF Receives
  <2>6. Sends(p)
    BY <1>7, SendsNothing DEF OnReceivedNew
  <2>7. PeerUntouched(p)
    BY <1>0, <1>7, <1>b DEF OnReceivedNew, IsRetransmission, StoreId, PeerUntouched, TypeOK
  <2> QED
    BY <2>5, <2>6, <2>7, BothEnds
<1>8. CASE OnReceivedSoftReset(p)
  <2>1. Sends(p)
    <3>1. 0 \in MessageId
      BY AssumptionsHold DEF Assumptions, MessageId
    <3> QED
      BY <1>8, <3>1, ArrivingType, SendsRequestIfReady DEF OnReceivedSoftReset
  <2>2. Receives(p)
    BY <1>8, <1>a, ReceivesPop DEF OnReceivedSoftReset
  <2>3. PeerUntouched(p)
    BY <1>0, <1>8, <1>b
       DEF OnReceivedSoftReset, RequestIfReady, Request, HandOver, ForgetIds,
           PeerUntouched, TypeOK
  <2> QED
    BY <2>1, <2>2, <2>3, BothEnds
<1>9. CASE OnHardResetReceived(p)
  BY <1>1, <1>9 DEF OnHardResetReceived, ForgetPartner
<1> QED
  BY <1>2, <1>3, <1>4, <1>5, <1>6, <1>7, <1>8, <1>9 DEF OnCallback

-----------------------------------------------------------------------------
(* The PHYs.                                                                *)

\* Reports that are no received messages leave a stream one.
LEMMA StreamReport ==
  ASSUME NEW c, NEW jb, NEW e, NEW d, NEW r, NEW x \in Event, NEW more,
         StreamType(c, jb, e, d, r), Stream(c, jb, e, d, r),
         x.kind # "received", more = <<>> \/ more = <<x>>
  PROVE  Stream(c, jb, e \o more, d, r)
<1>1. e \o <<>> = e /\ e \o <<x>> = Append(e, x)
  BY AppendIsConcat, ConcatEmptySeq DEF StreamType
<1>2. Stream(c, jb, Append(e, x), d, r)
  BY StreamQueueOther
<1> QED
  BY <1>1, <1>2

\* The outcomes and the hard reset are no received messages.
LEMMA ReportKinds ==
  /\ \A o \in Outcome : Transmitted(o) \in Event
                        /\ Transmitted(o).kind # "received"
  /\ HardResetReceived \in Event /\ HardResetReceived.kind # "received"
  /\ Nothing \in Job /\ Nothing.kind # "message"
  /\ "success" \in Outcome /\ "failed" \in Outcome /\ "discarded" \in Outcome
BY ValueTypes DEF Transmitted, HardResetReceived, Outcome, Nothing

\* The message in flight arrives with what its arrival discarded.
LEMMA StreamArrives ==
  ASSUME NEW c, NEW jb, NEW e, NEW d, NEW r, NEW pre,
         StreamType(c, jb, e, d, r), Stream(c, jb, e, d, r),
         jb.kind = "message",
         pre = <<>> \/ pre = <<Transmitted("discarded")>>
  PROVE  Stream(c, jb, e \o Append(pre, Received(jb.message)), d, r)
<1> DEFINE y == Received(jb.message)
<1>1. Transmitted("discarded") \in Event /\ y \in Event
      /\ Transmitted("discarded").kind # "received"
  BY ReportKinds, ValueTypes DEF StreamType, Job
<1>2. e \in Seq(Event) /\ pre \in Seq(Event)
  <2>1. <<>> \in Seq(Event) /\ <<Transmitted("discarded")>> \in Seq(Event)
    BY <1>1
  <2> QED
    BY <2>1 DEF StreamType
<1>3. e \o Append(pre, y) = Append(e \o pre, y)
  <2>1. Append(pre, y) = pre \o <<y>> /\ <<y>> \in Seq(Event)
    BY <1>1, <1>2, AppendIsConcat
  <2>2. e \o pre \in Seq(Event)
    BY <1>2, ConcatProperties
  <2>3. Append(e \o pre, y) = (e \o pre) \o <<y>>
    BY <1>1, <2>2, AppendIsConcat
  <2> QED
    BY <1>2, <2>1, <2>3, ConcatAssociative
<1>4. Stream(c, jb, e \o pre, d, r)
  BY <1>1, StreamReport
<1>5. StreamType(c, jb, e \o pre, d, r)
  BY <1>2, ConcatProperties DEF StreamType
<1> QED
  BY <1>3, <1>4, <1>5, StreamQueueReceived

\* The two streams of a cable, for a step of both PHYs.
LEMMA BothStreams ==
  ASSUME NEW p \in Port, StreamsInOrder,
         UNCHANGED <<context, sent, delivered, rxId>>,
         Stream(context[p], job'[p], events'[Peer(p)], delivered[Peer(p)],
                rxId[Peer(p)]),
         Stream(context[Peer(p)], job'[Peer(p)], events'[p], delivered[p],
                rxId[p])
  PROVE  StreamsInOrder'
<1>1. SUFFICES ASSUME NEW x \in Port
               PROVE  /\ context'[x].n = sent'[x]
                      /\ Stream(context'[x], job'[x], events'[Peer(x)],
                                delivered'[Peer(x)], rxId'[Peer(x)])
  BY DEF StreamsInOrder
<1>2. context'[x].n = sent'[x]
  BY DEF StreamsInOrder
<1>3. CASE x = p
  BY <1>2, <1>3
<1>4. CASE x = Peer(p)
  BY <1>2, <1>4, PeerIsOther
<1> QED
  BY <1>3, <1>4, PeerIsOther DEF Port, Peer

\* What the PHYs and the wire do to the streams.
LEMMA StreamsPhyStep ==
  ASSUME TypeOK, StreamsInOrder, NEW p \in Port, PhyStep(p)
  PROVE  StreamsInOrder'
<1> DEFINE q == Peer(p)
<1> USE DEF layerVars, historyVars
<1>0. q \in Port /\ q # p
  BY PeerIsOther
<1>a. /\ Stream(context[p], job[p], events[q], delivered[q], rxId[q])
      /\ StreamType(context[p], job[p], events[q], delivered[q], rxId[q])
  BY StreamsTyped DEF StreamsInOrder
<1>b. /\ Stream(context[q], job[q], events[p], delivered[p], rxId[p])
      /\ StreamType(context[q], job[q], events[p], delivered[p], rxId[p])
  BY <1>0, PeerIsOther, StreamsTyped DEF StreamsInOrder
<1>1. CASE PhyReceive(p)
  <2> DEFINE pre == IF HoldsMessage(q) THEN <<Transmitted("discarded")>>
                                      ELSE <<>>
             arrival == Append(pre, Received(job[p].message))
  <2>1. PICK r : /\ \/ r = <<Transmitted("success")>>
                    \/ r = <<Transmitted("failed")>>
                    \/ r = <<>>
                 /\ Queue([x \in Port |-> IF x = p THEN r ELSE arrival])
    BY <1>1 DEF PhyReceive, Report
  <2>2. events'[q] = events[q] \o arrival
    BY <1>0, <2>1 DEF Queue
  <2>3. events'[p] = events[p] \o r
    BY <2>1 DEF Queue
  <2>4. Stream(context[p], job[p], events'[q], delivered[q], rxId[q])
    BY <1>1, <1>a, <2>2, StreamArrives DEF PhyReceive, HoldsMessage
  <2>5. job'[p] = Nothing \/ job'[p] = job[p]
    BY <1>0, <1>1 DEF PhyReceive, TypeOK
  <2>6. Stream(context[p], job'[p], events'[q], delivered[q], rxId[q])
    BY <2>4, <2>5, ReportKinds, StreamRelease
  <2>7. Stream(context[q], job[q], events'[p], delivered[p], rxId[p])
    BY <1>b, <2>1, <2>3, ReportKinds, StreamReport
  <2>8. job'[q] = Nothing
    BY <1>0, <1>1 DEF PhyReceive, TypeOK
  <2>9. Stream(context[q], job'[q], events'[p], delivered[p], rxId[p])
    BY <2>7, <2>8, ReportKinds, StreamRelease
  <2> QED
    BY <1>1, <2>6, <2>9, BothStreams DEF PhyReceive
<1>2. CASE PhyLose(p)
  <2>1. PICK r \in Report("failed") :
          Queue([x \in Port |-> IF x = p THEN r ELSE <<>>])
    BY <1>2 DEF PhyLose
  <2>2. events'[q] = events[q] \o <<>> /\ events'[p] = events[p] \o r
    BY <1>0, <2>1 DEF Queue
  <2>3. job'[p] = Nothing /\ job'[q] = job[q]
    BY <1>0, <1>2 DEF PhyLose, TypeOK
  <2>4. Stream(context[p], job'[p], events'[q], delivered[q], rxId[q])
    <3>1. Stream(context[p], job[p], events'[q], delivered[q], rxId[q])
      BY <1>a, <2>2, ReportKinds, StreamReport
    <3> QED
      BY <2>3, <3>1, ReportKinds, StreamRelease
  <2>5. Stream(context[q], job'[q], events'[p], delivered[p], rxId[p])
    BY <1>b, <2>1, <2>2, <2>3, ReportKinds, StreamReport DEF Report
  <2> QED
    BY <1>2, <2>4, <2>5, BothStreams DEF PhyLose
<1>3. CASE PhySignal(p)
  <2>1. PICK r \in Report("success"),
             h \in {<<>>} \cup (IF detecting[q] THEN {<<HardResetReceived>>}
                                               ELSE {}) :
          /\ Queue([x \in Port |-> IF x = p THEN r ELSE h])
          /\ job' = IF h # <<>> /\ HoldsMessage(q)
                      THEN [job EXCEPT ![p] = Nothing, ![q] = Nothing]
                      ELSE [job EXCEPT ![p] = Nothing]
    BY <1>3 DEF PhySignal
  <2>2. events'[q] = events[q] \o h /\ events'[p] = events[p] \o r
    BY <1>0, <2>1 DEF Queue
  <2>3. job'[p] = Nothing /\ job'[q] \in {job[q], Nothing}
    BY <1>0, <2>1 DEF TypeOK
  <2>4. Stream(context[p], job'[p], events'[q], delivered[q], rxId[q])
    <3>1. h = <<>> \/ h = <<HardResetReceived>>
      BY <2>1
    <3>2. Stream(context[p], job[p], events'[q], delivered[q], rxId[q])
      BY <1>a, <2>2, <3>1, ReportKinds, StreamReport
    <3> QED
      BY <2>3, <3>2, ReportKinds, StreamRelease
  <2>5. Stream(context[q], job'[q], events'[p], delivered[p], rxId[p])
    <3>1. Stream(context[q], job[q], events'[p], delivered[p], rxId[p])
      BY <1>b, <2>1, <2>2, ReportKinds, StreamReport DEF Report
    <3> QED
      BY <2>3, <3>1, ReportKinds, StreamRelease
  <2> QED
    BY <1>3, <2>4, <2>5, BothStreams DEF PhySignal
<1> QED
  BY <1>1, <1>2, <1>3 DEF PhyStep

-----------------------------------------------------------------------------
(* The invariant.                                                           *)

\* Nothing is on its way at first.
LEMMA StreamsInit == Init => StreamsInOrder
BY AssumptionsHold, PeerIsOther
   DEF Assumptions, Init, InitLayer, StreamsInOrder, Stream, Arrival,
       HandedOver, Increasing, NoMessage, Nothing

\* Every step keeps the streams in order.
LEMMA StreamsNext == TypeOK /\ StreamsInOrder /\ [Next]_vars => StreamsInOrder'
<1> SUFFICES ASSUME TypeOK, StreamsInOrder, [Next]_vars PROVE StreamsInOrder'
  OBVIOUS
<1>1. CASE NewCable
  BY <1>1 DEF NewCable, StreamsInOrder, phyVars, historyVars
<1>2. CASE UNCHANGED vars
  BY <1>2 DEF StreamsInOrder, vars, layerVars, phyVars, historyVars
<1> QED
  BY <1>1, <1>2, StreamsClient, StreamsTimeout, StreamsOnCallback,
     StreamsPhyStep DEF Next

\* The streams are in order in every reachable state.
THEOREM StreamsStayInOrder == Spec => []StreamsInOrder
BY TypeInit, TypeNext, StreamsInit, StreamsNext, PTL DEF Spec

\* So clients are handed messages in order, each at most once: the duplicate
\* rejection does its work however often messages are repeated, whatever is
\* reset on the way and however late the outcomes come.
THEOREM InOrder == Spec => []DeliveredInOrder
<1>1. StreamsInOrder => DeliveredInOrder
  <2> SUFFICES ASSUME StreamsInOrder, NEW p \in Port
               PROVE  \A i, j \in DOMAIN delivered[p] :
                        i < j => delivered[p][i] < delivered[p][j]
    BY DEF DeliveredInOrder
  <2>1. Increasing(delivered[p])
    BY PeerIsOther DEF StreamsInOrder, Stream
  <2> QED
    BY <2>1 DEF Increasing
<1> QED
  BY <1>1, StreamsStayInOrder, PTL
-----------------------------------------------------------------------------
(* The MessageIDCounter after a hard reset.                                 *)

\* A port that submitted nothing since its last hard reset has no message in
\* flight that an outcome or a timer could count a MessageID for; so its first
\* one is stamped with the 0 the reset left behind.  No detach changes that:
\* it finds nothing of the old connection in flight either.
Restarted ==
  \A p \in Port :
    /\ since[p] <= sent[p]
    /\ context[p].n <= sent[p]
    /\ tx[p] = "wait_for_phy_response" => since[p] < sent[p]
    /\ sent[p] = since[p] => txCounter[p] = 0
    /\ context[p].n = since[p] + 1 => context[p].id = 0

\* At first nothing is in flight.
LEMMA RestartedInit == Init => Restarted
BY DEF Init, InitLayer, Restarted, NoMessage

\* A message requested is one more than were submitted before, and stamped
\* with the MessageIDCounter or, in a soft reset, with 0.
LEMMA RequestRestarted ==
  ASSUME TypeOK, Restarted, NEW p \in Port, NEW soft, NEW id, NEW rev,
         RequestIfReady(p, soft, id, rev), UNCHANGED since,
         txCounter' = txCounter \/ ForgetIds(p),
         id = 0 \/ id = txCounter[p]
  PROVE  Restarted'
<1>1. CASE Request(p, soft, id, rev)
  <2>1. /\ sent' = [sent EXCEPT ![p] = @ + 1]
        /\ tx' = [tx EXCEPT ![p] = "wait_for_phy_response"]
        /\ context' = [context EXCEPT ![p] =
             [n |-> sent[p] + 1, id |-> id, revision |-> rev, soft |-> soft]]
    BY <1>1 DEF Request
  <2>2. \A x \in Port : x # p => txCounter'[x] = txCounter[x]
    BY DEF ForgetIds, TypeOK
  <2>3. context'[p].n = sent[p] + 1 /\ context'[p].id = id
    BY <2>1 DEF TypeOK
  <2> QED
    BY <2>1, <2>2, <2>3 DEF TypeOK, Restarted
<1>2. CASE UNCHANGED <<sent, tx, context, retry, job>>
  BY <1>2, AssumptionsHold DEF Assumptions, TypeOK, Restarted, ForgetIds
<1> QED
  BY <1>1, <1>2 DEF RequestIfReady

\* A hard reset starts the count over; with the message in flight gone as
\* well, that is a restart.
LEMMA HardResetRestarted ==
  ASSUME TypeOK, Restarted, NEW p \in Port, ForgetPartner(p), MarkHardReset(p),
         UNCHANGED <<sent, context>>,
         NEW s, s # "wait_for_phy_response", tx' = [tx EXCEPT ![p] = s]
  PROVE  Restarted'
<1>1. context[p] \in Message /\ sent[p] \in Nat
  BY DEF TypeOK
<1>2. context[p].n # sent[p] + 1
  BY <1>1 DEF Restarted, Message
<1> QED
  BY <1>2 DEF TypeOK, Restarted, ForgetPartner, MarkHardReset, ForgetIds

\* An attempt counts a MessageID only for a message in flight.
LEMMA AttemptRestarted ==
  ASSUME TypeOK, Restarted, NEW p \in Port, AttemptFailed(p),
         tx[p] = "wait_for_phy_response", UNCHANGED <<sent, since, context>>
  PROVE  Restarted'
BY DEF TypeOK, Restarted, AttemptFailed, Increment

\* The MessageIDs of a port may start over at any time.
LEMMA CounterRestarted ==
  ASSUME TypeOK, Restarted, NEW p \in Port, UNCHANGED <<sent, since, context>>,
         ForgetIds(p) \/ UNCHANGED txCounter,
         NEW s, s # "wait_for_phy_response",
         UNCHANGED tx \/ tx' = [tx EXCEPT ![p] = s]
  PROVE  Restarted'
BY DEF TypeOK, Restarted, ForgetIds

\* Every step keeps it so.
LEMMA RestartedNext == TypeOK /\ Restarted /\ [Next]_vars => Restarted'
<1> SUFFICES ASSUME TypeOK, Restarted, [Next]_vars
             PROVE  Restarted'
  OBVIOUS
<1> USE DEF historyVars
<1>1. ASSUME UNCHANGED <<sent, since, context, tx, txCounter>>
      PROVE  Restarted'
  BY <1>1 DEF Restarted
<1>2. ASSUME NEW p \in Port, Client(p)
      PROVE  Restarted'
  <2>1. CASE Attach(p)
    BY <1>1, <2>1 DEF Attach
  <2>2. CASE Transmit(p)
    <3>1. RequestIfReady(p, FALSE, txCounter[p], revision[p])
      BY <2>2 DEF Transmit, RequestIfReady
    <3> QED
      BY <2>2, <3>1, RequestRestarted DEF Transmit
  <2>3. CASE SendSoftReset(p)
    <3>1. RequestIfReady(p, TRUE, 0, revision[p]) /\ ForgetIds(p)
          /\ UNCHANGED since
      BY <2>3 DEF SendSoftReset
    <3> QED
      BY <3>1, RequestRestarted
  <2>4. CASE TransmitHardReset(p)
    BY <2>4, HardResetRestarted DEF TransmitHardReset
  <2>5. CASE Detach(p)
    BY <2>5 DEF Detach, ForgetPartner, ForgetIds, Restarted, TypeOK
  <2> QED
    BY <1>2, <2>1, <2>2, <2>3, <2>4, <2>5 DEF Client
<1>3. ASSUME NEW p \in Port, Timeout(p)
      PROVE  Restarted'
  <2>1. CASE PhyResponseTimeout(p)
    BY <2>1, AttemptRestarted DEF PhyResponseTimeout
  <2>2. CASE HardResetCompleteTimeout(p)
    BY <2>2, CounterRestarted DEF HardResetCompleteTimeout, HardResetSent
  <2> QED
    BY <1>3, <2>1, <2>2 DEF Timeout
<1>4. ASSUME NEW p \in Port, OnCallback(p)
      PROVE  Restarted'
  <2>1. CASE Unheard(p)
    BY <1>1, <2>1 DEF Unheard, layerVars
  <2>2. CASE OnTransmittedSuccess(p)
    <3>1. CASE tx[p] = "wait_for_phy_response"
      BY <2>2, <3>1 DEF OnTransmittedSuccess, TxReady, Increment, Restarted, TypeOK
    <3>2. CASE tx[p] # "wait_for_phy_response"
      <4>1. UNCHANGED <<sent, since, context>>
            /\ (ForgetIds(p) \/ UNCHANGED txCounter)
        BY <2>2, <3>2 DEF OnTransmittedSuccess, HardResetSent
      <4>2. UNCHANGED tx \/ tx' = [tx EXCEPT ![p] = "wait_for_message_request"]
        BY <2>2, <3>2 DEF OnTransmittedSuccess, TypeOK
      <4> QED
        BY <4>1, <4>2, CounterRestarted
    <3> QED
      BY <3>1, <3>2
  <2>3. CASE OnTransmittedDiscarded(p)
    BY <2>3 DEF OnTransmittedDiscarded, Increment, Restarted, TypeOK
  <2>4. CASE OnTransmittedFailed(p)
    BY <1>1, <2>4, AttemptRestarted DEF OnTransmittedFailed
  <2>5. CASE OnReceivedDuplicate(p)
    BY <1>1, <2>5 DEF OnReceivedDuplicate, layerVars
  <2>6. CASE OnReceivedNew(p)
    BY <1>1, <2>6 DEF OnReceivedNew
  <2>7. CASE OnReceivedSoftReset(p)
    <3>1. RequestIfReady(p, FALSE, 0, LowestCommon(p)) /\ ForgetIds(p)
          /\ UNCHANGED since
      BY <2>7 DEF OnReceivedSoftReset
    <3> QED
      BY <3>1, RequestRestarted
  <2>8. CASE OnHardResetReceived(p)
    BY <2>8, HardResetRestarted DEF OnHardResetReceived
  <2> QED
    BY <1>4, <2>1, <2>2, <2>3, <2>4, <2>5, <2>6, <2>7, <2>8 DEF OnCallback
<1>5. ASSUME NEW p \in Port, PhyStep(p)
      PROVE  Restarted'
  BY <1>1, <1>5 DEF PhyStep, PhyReceive, PhyLose, PhySignal, layerVars
<1>6. CASE NewCable
  BY <1>1, <1>6 DEF NewCable
<1>7. CASE UNCHANGED vars
  BY <1>1, <1>7 DEF vars, layerVars
<1> QED
  BY <1>2, <1>3, <1>4, <1>5, <1>6, <1>7 DEF Next

\* The first message a port submits after a hard reset, sent or heard, goes out
\* with MessageID 0 (resetAll), whatever was in flight, whatever else is reset
\* in between and whether or not the port was detached meanwhile.
THEOREM RestartsFromZero == Spec => []RestartsAtZero
<1>1. Restarted => RestartsAtZero
  BY DEF Restarted, RestartsAtZero
<1> QED
  BY <1>1, RestartedInit, RestartedNext, TypeInit, TypeNext, PTL DEF Spec
-----------------------------------------------------------------------------
(* The MessageIDs without resets: the number of a message tells its ID.     *)

\* A number is known by its round and its residue.
LEMMA ResidueOf ==
  ASSUME NEW K \in Nat \ {0, 1}, NEW q \in Nat, NEW s \in 0 .. K - 1
  PROVE  (K * q + s) % K = s
OBVIOUS

\* Counting one further on is counting modulo the IDs.
LEMMA ResidueNext ==
  ASSUME NEW K \in Nat \ {0, 1}, NEW a \in Nat
  PROVE  ((a % K) + 1) % K = (a + 1) % K
<1>1. PICK q \in Nat, r \in 0 .. K - 1 : a = K * q + r /\ r = a % K
  <2>1. a = K * (a \div K) + (a % K) /\ a \div K \in Nat /\ a % K \in 0 .. K - 1
    OBVIOUS
  <2> QED
    BY <2>1
<1>2. CASE r + 1 < K
  <2>1. (r + 1) % K = r + 1
    BY <1>1, <1>2
  <2>2. (K * q + (r + 1)) % K = r + 1
    <3>1. r + 1 \in 0 .. K - 1
      BY <1>2
    <3> QED
      BY <3>1, ResidueOf, Zenon
  <2>3. a + 1 = K * q + (r + 1)
    BY <1>1
  <2> QED
    BY <1>1, <2>1, <2>2, <2>3
<1>3. CASE r + 1 = K
  <2>1. K % K = 0
    OBVIOUS
  <2>2. a + 1 = K * (q + 1) + 0
    BY <1>1, <1>3
  <2>3. (K * (q + 1) + 0) % K = 0
    BY <1>1
  <2> QED
    BY <1>1, <1>3, <2>1, <2>2, <2>3
<1> QED
  BY <1>1, <1>2, <1>3

\* Of two numbers with the same residue one is the other or a round further.
LEMMA ResidueRound ==
  ASSUME NEW K \in Nat \ {0, 1}, NEW a \in Nat, NEW b \in Nat,
         b <= a, a % K = b % K
  PROVE  a = b \/ a >= b + K
<1>1. PICK qa \in Nat, qb \in Nat, r \in 0 .. K - 1 :
        a = K * qa + r /\ b = K * qb + r
  <2>1. a = K * (a \div K) + (a % K) /\ a \div K \in Nat /\ a % K \in 0 .. K - 1
    OBVIOUS
  <2>2. b = K * (b \div K) + (b % K) /\ b \div K \in Nat
    OBVIOUS
  <2> QED
    BY <2>1, <2>2
<1>2. K * qa \in Int /\ K * qb \in Int
  OBVIOUS
<1>3. CASE qa > qb
  <2>1. K * qa >= K * qb + K
    BY <1>3
  <2> QED
    BY <1>1, <1>2, <2>1
<1>4. CASE qa < qb
  <2>1. K * qb >= K * qa + K
    BY <1>4
  <2> QED
    BY <1>1, <1>2, <2>1
<1> QED
  BY <1>1, <1>3, <1>4

\* No client resets or detaches.
NobodyResets == \A p \in Port : ClientResets[p] = {}

\* The MessageID of the n-th message of a port that never reset its layer.
IdOf(n) == (n - 1) % IdCount
Numbered(m) == m.n > 0 /\ ~m.soft /\ m.id = IdOf(m.n)
NumberedJob(j) ==
  j.kind # "hard_reset" /\ (j.kind = "message" => Numbered(j.message))
NumberedEvents(e) ==
  \A i \in DOMAIN e : /\ e[i].kind # "hard_reset_received"
                      /\ Arrival(e, i) => Numbered(e[i].message)

\* The MessageIDCounter counts the messages concluded, modulo the IDs; the
\* stored MessageID is that of the message last handed over.
CountedTx(p) ==
  \/ /\ tx[p] = "wait_for_phy_response"
     /\ Numbered(context[p]) /\ txCounter[p] = IdOf(sent[p])
  \/ TxReady(p) /\ txCounter[p] = sent[p] % IdCount
CountedRx(p) ==
  \/ rxId[p] = NoId
  \/ /\ rxId[p] = IdOf(last[p]) /\ last[p] > 0
     /\ delivered[p] # <<>> /\ delivered[p][Len(delivered[p])] = last[p]
CountedAt(p) ==
  /\ connection[p] # "gone"
  /\ NumberedJob(job[p]) /\ NumberedEvents(events[p])
  /\ CountedTx(p) /\ CountedRx(p)
Counted == \A p \in Port : CountedAt(p)

\* What the MessageIDs of consecutive messages are.
LEMMA IdFacts ==
  /\ \A n \in Nat : n > 0 => IdOf(n) \in MessageId /\ (IdOf(n) + 1) % IdCount = n % IdCount
  /\ \A n \in Nat : IdOf(n + 1) = n % IdCount
  /\ \A m, n \in Nat :
       n > 0 /\ n <= m /\ IdOf(m) = IdOf(n) => m = n \/ m >= n + IdCount
<1> USE DEF IdOf, MessageId
<1>1. IdCount \in Nat \ {0, 1}
  BY AssumptionsHold DEF Assumptions
<1>2. ASSUME NEW n \in Nat, n > 0
      PROVE  IdOf(n) \in MessageId /\ (IdOf(n) + 1) % IdCount = n % IdCount
  <2>1. n - 1 \in Nat /\ (n - 1) + 1 = n
    BY <1>2
  <2>2. (n - 1) % IdCount \in 0 .. IdCount - 1
    BY <1>1, <2>1
  <2>3. (((n - 1) % IdCount) + 1) % IdCount = ((n - 1) + 1) % IdCount
    BY <1>1, <2>1, ResidueNext
  <2> QED
    BY <2>1, <2>2, <2>3
<1>3. ASSUME NEW m \in Nat, NEW n \in Nat, n > 0, n <= m, IdOf(m) = IdOf(n)
      PROVE  m = n \/ m >= n + IdCount
  <2>1. m - 1 \in Nat /\ n - 1 \in Nat /\ n - 1 <= m - 1
    BY <1>3
  <2>2. m - 1 = n - 1 \/ m - 1 >= (n - 1) + IdCount
    BY <1>1, <1>3, <2>1, ResidueRound
  <2> QED
    BY <1>1, <1>3, <2>2
<1>4. \A n \in Nat : (n + 1) - 1 = n
  OBVIOUS
<1> QED
  BY <1>2, <1>3, <1>4

\* At first nothing is counted.
LEMMA CountedInit == Init => Counted
<1>1. 0 % IdCount = 0
  BY AssumptionsHold DEF Assumptions
<1> QED
  BY <1>1 DEF Init, InitLayer, Counted, CountedAt, CountedTx, CountedRx, TxReady,
              NumberedJob, NumberedEvents, Nothing

\* A step that leaves the other port alone keeps the count if it does at p.
LEMMA CountedHere ==
  ASSUME Counted, NEW p \in Port, CountedAt(p)',
         \A x \in Port \ {p} :
           /\ connection'[x] = connection[x] /\ job'[x] = job[x]
           /\ events'[x] = events[x] /\ tx'[x] = tx[x]
           /\ context'[x] = context[x] /\ txCounter'[x] = txCounter[x]
           /\ sent'[x] = sent[x] /\ rxId'[x] = rxId[x] /\ last'[x] = last[x]
           /\ delivered'[x] = delivered[x]
  PROVE  Counted'
BY DEF Counted, CountedAt, CountedTx, CountedRx, TxReady, NumberedJob,
       NumberedEvents

\* Without resets a client only attaches and transmits.
LEMMA CountedClient ==
  ASSUME TypeOK, Counted, NobodyResets, NEW p \in Port, Client(p)
  PROVE  Counted'
<1>1. CASE Attach(p)
  BY <1>1 DEF Attach, Counted, CountedAt, CountedTx, CountedRx, TxReady,
              TypeOK, historyVars
<1>2. CASE Transmit(p)
  <2> DEFINE m == [n |-> sent[p] + 1, id |-> txCounter[p],
                   revision |-> revision[p], soft |-> FALSE]
  <2>1. /\ TxReady(p) /\ HandOver(p, Carrying(m))
        /\ sent' = [sent EXCEPT ![p] = @ + 1]
        /\ tx' = [tx EXCEPT ![p] = "wait_for_phy_response"]
        /\ context' = [context EXCEPT ![p] = m]
        /\ UNCHANGED <<connection, events, txCounter, rxId, last, delivered>>
    BY <1>2 DEF Transmit, Request
  <2>2. txCounter[p] = sent[p] % IdCount /\ sent[p] \in Nat
    BY <2>1 DEF Counted, CountedAt, CountedTx, TxReady, TypeOK
  <2>3. txCounter[p] = IdOf(sent[p] + 1)
    BY <2>2, IdFacts
  <2>4. Numbered(m)
    BY <2>2, <2>3 DEF Numbered
  <2>5. job'[p] = Carrying(m) \/ job'[p] = job[p]
    BY <2>1 DEF HandOver, TypeOK
  <2>6. NumberedJob(job'[p])
    <3>1. NumberedJob(job[p])
      BY DEF Counted, CountedAt
    <3>2. NumberedJob(Carrying(m))
      BY <2>4 DEF NumberedJob, Carrying
    <3> QED
      BY <2>5, <3>1, <3>2
  <2>7. CountedTx(p)'
    BY <2>1, <2>3, <2>4 DEF CountedTx, TypeOK
  <2>8. CountedAt(p)'
    BY <2>1, <2>6, <2>7 DEF Counted, CountedAt, CountedRx
  <2> QED
    BY <2>1, <2>8, CountedHere DEF HandOver, TypeOK
<1> QED
  BY <1>1, <1>2 DEF Client, NobodyResets

\* An attempt that failed hands the message over again or counts it.
LEMMA AttemptCounted ==
  ASSUME TypeOK, Counted, StreamsInOrder, NEW p \in Port, AttemptFailed(p),
         tx[p] = "wait_for_phy_response", UNCHANGED <<context, sent>>
  PROVE  NumberedJob(job'[p]) /\ CountedTx(p)'
<1>1. Numbered(context[p]) /\ txCounter[p] = IdOf(sent[p]) /\ sent[p] > 0
      /\ sent[p] \in Nat
  BY DEF Counted, CountedAt, CountedTx, TxReady, StreamsInOrder, Numbered, TypeOK
<1>2. CASE HandOver(p, Carrying(context[p])) /\ UNCHANGED <<tx, txCounter>>
  BY <1>1, <1>2
     DEF HandOver, NumberedJob, Carrying, Counted, CountedAt, CountedTx, TypeOK
<1>3. CASE /\ tx' = [tx EXCEPT ![p] = "transmission_error"]
           /\ Increment(p) /\ UNCHANGED job
  <2>1. txCounter'[p] = (IdOf(sent[p]) + 1) % IdCount
    BY <1>1, <1>3 DEF Increment, TypeOK
  <2>2. txCounter'[p] = sent[p] % IdCount
    BY <1>1, <2>1, IdFacts
  <2> QED
    BY <1>3, <2>2 DEF Counted, CountedAt, CountedTx, TxReady, TypeOK
<1> QED
  BY <1>2, <1>3 DEF AttemptFailed

\* A timer runs out for a message.
LEMMA CountedTimeout ==
  ASSUME TypeOK, Counted, StreamsInOrder, NEW p \in Port, Timeout(p)
  PROVE  Counted'
<1>1. PhyResponseTimeout(p)
  BY DEF Timeout, HardResetCompleteTimeout, Counted, CountedAt, CountedTx, TxReady
<1>2. NumberedJob(job'[p]) /\ CountedTx(p)'
  BY <1>1, AttemptCounted DEF PhyResponseTimeout, historyVars
<1>3. CountedAt(p)'
  BY <1>1, <1>2
     DEF PhyResponseTimeout, historyVars, Counted, CountedAt, CountedRx
<1> QED
  BY <1>1, <1>3, CountedHere
     DEF PhyResponseTimeout, historyVars, AttemptFailed, HandOver, Increment,
         TypeOK

\* Queues of callbacks stay numbered when one is taken or others are added.
LEMMA NumberedTail ==
  ASSUME NEW e \in Seq(Event), e # <<>>, NumberedEvents(e)
  PROVE  /\ NumberedEvents(Tail(e))
         /\ Head(e).kind # "hard_reset_received"
         /\ Head(e).kind = "received" => Numbered(Head(e).message)
<1>1. \A i \in DOMAIN Tail(e) : i + 1 \in DOMAIN e /\ Tail(e)[i] = e[i + 1]
  OBVIOUS
<1>2. 1 \in DOMAIN e /\ Head(e) = e[1]
  OBVIOUS
<1> QED
  BY <1>1, <1>2 DEF NumberedEvents, Arrival

LEMMA NumberedConcat ==
  ASSUME NEW e \in Seq(Event), NEW f \in Seq(Event),
         NumberedEvents(e), NumberedEvents(f)
  PROVE  NumberedEvents(e \o f)
<1>1. \A i \in DOMAIN (e \o f) :
        \/ i \in DOMAIN e /\ (e \o f)[i] = e[i]
        \/ \E j \in DOMAIN f : (e \o f)[i] = f[j]
  BY ConcatProperties
<1> QED
  BY <1>1 DEF NumberedEvents, Arrival

\* What a callback taken leaves behind, and what it was.
LEMMA CountedPop ==
  ASSUME TypeOK, Counted, NEW p \in Port, events[p] # <<>>,
         events' = [events EXCEPT ![p] = Tail(@)]
  PROVE  /\ NumberedEvents(events'[p])
         /\ Head(events[p]).kind # "hard_reset_received"
         /\ Head(events[p]).kind = "received" => Numbered(Head(events[p]).message)
<1>1. events[p] \in Seq(Event) /\ NumberedEvents(events[p])
      /\ events'[p] = Tail(events[p])
  BY DEF TypeOK, Counted, CountedAt
<1> QED
  BY <1>1, NumberedTail

\* The callbacks keep the count.
LEMMA CountedOnCallback ==
  ASSUME TypeOK, Counted, StreamsInOrder, NEW p \in Port, OnCallback(p)
  PROVE  Counted'
<1> USE DEF historyVars, layerVars
<1>1. events[p] # <<>> /\ events' = [events EXCEPT ![p] = Tail(@)]
  BY DEF OnCallback, Unheard, OnTransmittedSuccess, OnTransmittedDiscarded,
         OnTransmittedFailed, OnReceivedDuplicate, OnReceivedNew,
         OnReceivedSoftReset, OnHardResetReceived, Callback, Arrives
<1>2. /\ NumberedEvents(events'[p])
      /\ Head(events[p]).kind # "hard_reset_received"
      /\ Head(events[p]).kind = "received" => Numbered(Head(events[p]).message)
  BY <1>1, CountedPop
<1>3. /\ connection[p] # "gone" /\ NumberedJob(job[p])
      /\ CountedTx(p) /\ CountedRx(p)
  BY DEF Counted, CountedAt
<1>4. ASSUME UNCHANGED <<connection, job, tx, context, txCounter, sent, rxId,
                         last, delivered>>
      PROVE  Counted'
  <2>1. CountedAt(p)'
    BY <1>2, <1>3, <1>4 DEF CountedAt, CountedTx, CountedRx, TxReady
  <2> QED
    BY <1>1, <1>4, <2>1, CountedHere DEF TypeOK
<1>5. ASSUME tx[p] = "wait_for_phy_response", Increment(p),
             tx' = [tx EXCEPT ![p] = "wait_for_message_request"],
             UNCHANGED <<connection, job, context, sent, rxId, last, delivered>>
      PROVE  Counted'
  <2>1. txCounter[p] = IdOf(sent[p]) /\ sent[p] > 0 /\ sent[p] \in Nat
    BY <1>3, <1>5 DEF CountedTx, TxReady, StreamsInOrder, Numbered, TypeOK
  <2>2. txCounter'[p] = sent[p] % IdCount
    BY <1>5, <2>1, IdFacts DEF Increment, TypeOK
  <2>3. CountedAt(p)'
    BY <1>2, <1>3, <1>5, <2>2 DEF CountedAt, CountedTx, CountedRx, TxReady, TypeOK
  <2> QED
    BY <1>1, <1>5, <2>3, CountedHere DEF TypeOK, Increment
<1>6. CASE Unheard(p)
  BY <1>4, <1>6 DEF Unheard
<1>7. CASE OnTransmittedSuccess(p)
  <2>1. CASE tx[p] = "wait_for_phy_response"
    BY <1>5, <1>7, <2>1 DEF OnTransmittedSuccess, TxReady
  <2>2. CASE TxReady(p)
    <3>1. tx' = tx
      BY <1>7, <2>2 DEF OnTransmittedSuccess, TxReady, TypeOK
    <3> QED
      BY <1>4, <1>7, <2>2, <3>1 DEF OnTransmittedSuccess, TxReady
  <2> QED
    BY <1>3, <2>1, <2>2 DEF CountedTx
<1>8. CASE OnTransmittedDiscarded(p)
  BY <1>4, <1>5, <1>8 DEF OnTransmittedDiscarded
<1>9. CASE OnTransmittedFailed(p)
  <2>1. CASE tx[p] = "wait_for_phy_response" /\ AttemptFailed(p)
    <3>1. NumberedJob(job'[p]) /\ CountedTx(p)'
      BY <1>9, <2>1, AttemptCounted DEF OnTransmittedFailed
    <3>2. CountedAt(p)'
      BY <1>2, <1>3, <1>9, <3>1 DEF OnTransmittedFailed, CountedAt, CountedRx
    <3> QED
      BY <1>1, <1>9, <2>1, <3>2, CountedHere
         DEF OnTransmittedFailed, AttemptFailed, HandOver, Increment, TypeOK
  <2>2. CASE tx[p] # "wait_for_phy_response"
    BY <1>4, <1>9, <2>2 DEF OnTransmittedFailed
  <2> QED
    BY <1>9, <2>1, <2>2 DEF OnTransmittedFailed
<1>10. CASE OnReceivedDuplicate(p)
  BY <1>4, <1>10 DEF OnReceivedDuplicate
<1>11. CASE OnReceivedNew(p)
  <2>1. Numbered(Arriving(p)) /\ Arriving(p) \in Message
    BY <1>1, <1>2, <1>11, ArrivingType
       DEF OnReceivedNew, Arrives, Callback, Received, Arriving
  <2>2. /\ rxId'[p] = Arriving(p).id /\ last'[p] = Arriving(p).n
        /\ delivered'[p] = Append(delivered[p], Arriving(p).n)
    BY <1>11 DEF OnReceivedNew, IsRetransmission, StoreId, TypeOK
  <2>3. delivered'[p] # <<>> /\ delivered'[p][Len(delivered'[p])] = Arriving(p).n
    BY <2>1, <2>2 DEF TypeOK, Message
  <2>4. CountedRx(p)'
    BY <2>1, <2>2, <2>3 DEF CountedRx, Numbered
  <2>5. CountedAt(p)'
    BY <1>2, <1>3, <1>11, <2>4 DEF OnReceivedNew, CountedAt, CountedTx, TxReady
  <2> QED
    BY <1>1, <1>11, <2>5, CountedHere DEF OnReceivedNew, StoreId, TypeOK
<1>12. ~OnReceivedSoftReset(p)
  <2>1. SUFFICES ASSUME OnReceivedSoftReset(p) PROVE FALSE
    OBVIOUS
  <2>2. Arriving(p).soft /\ Head(events[p]).kind = "received"
        /\ Arriving(p) = Head(events[p]).message
    BY <1>1, <2>1 DEF OnReceivedSoftReset, Arrives, Callback, Received, Arriving
  <2> QED
    BY <1>2, <2>2 DEF Numbered
<1>13. ~OnHardResetReceived(p)
  BY <1>2 DEF OnHardResetReceived, Callback, HardResetReceived
<1> QED
  BY <1>6, <1>7, <1>8, <1>9, <1>10, <1>11, <1>12, <1>13 DEF OnCallback

\* What the PHYs queue and hold keeps its numbers.
LEMMA CountedPhyStep ==
  ASSUME TypeOK, Counted, NEW p \in Port, PhyStep(p)
  PROVE  Counted'
<1> DEFINE q == Peer(p)
<1> USE DEF historyVars, layerVars
<1>0. q \in Port /\ q # p
  BY PeerIsOther
<1>1. \A o \in Outcome : <<Transmitted(o)>> \in Seq(Event)
                         /\ NumberedEvents(<<Transmitted(o)>>)
  BY ValueTypes DEF NumberedEvents, Arrival, Transmitted
<1>2. <<>> \in Seq(Event) /\ NumberedEvents(<<>>)
  BY DEF NumberedEvents
<1>3. \A r \in {<<Transmitted("success")>>} \cup Report("failed") :
        r \in Seq(Event) /\ NumberedEvents(r)
  BY <1>1, <1>2 DEF Report, Outcome
<1>4. ASSUME NEW more \in [Port -> Seq(Event)], Queue(more),
             \A x \in Port : NumberedEvents(more[x]),
             \A x \in Port : job'[x] \in {job[x], Nothing},
             UNCHANGED <<connection, tx, context, txCounter, sent, rxId, last,
                         delivered>>
      PROVE  Counted'
  <2> SUFFICES ASSUME NEW x \in Port PROVE CountedAt(x)'
    BY DEF Counted
  <2>1. NumberedEvents(events'[x])
    <3>1. events[x] \in Seq(Event) /\ more[x] \in Seq(Event)
          /\ NumberedEvents(events[x]) /\ NumberedEvents(more[x])
          /\ events'[x] = events[x] \o more[x]
      BY <1>4 DEF TypeOK, Counted, CountedAt, Queue
    <3> QED
      BY <3>1, NumberedConcat
  <2>2. NumberedJob(job'[x])
    <3>1. NumberedJob(job[x]) /\ NumberedJob(Nothing)
      BY DEF Counted, CountedAt, NumberedJob, Nothing
    <3> QED
      BY <1>4, <3>1
  <2> QED
    BY <1>4, <2>1, <2>2 DEF Counted, CountedAt, CountedTx, CountedRx, TxReady
<1>5. CASE PhyReceive(p)
  <2> DEFINE pre == IF HoldsMessage(q) THEN <<Transmitted("discarded")>> ELSE <<>>
             arrival == Append(pre, Received(job[p].message))
  <2>1. job[p].message \in Message /\ Numbered(job[p].message)
    BY <1>5 DEF TypeOK, Job, Counted, CountedAt, NumberedJob, PhyReceive,
                HoldsMessage
  <2>2. pre \in Seq(Event) /\ NumberedEvents(pre)
    BY <1>1, <1>2 DEF Outcome
  <2>3. <<Received(job[p].message)>> \in Seq(Event)
        /\ NumberedEvents(<<Received(job[p].message)>>)
    BY <2>1, ValueTypes DEF NumberedEvents, Arrival, Received
  <2>4. arrival = pre \o <<Received(job[p].message)>>
    BY <2>1, <2>2, ValueTypes, AppendIsConcat
  <2>5. arrival \in Seq(Event) /\ NumberedEvents(arrival)
    <3>1. pre \o <<Received(job[p].message)>> \in Seq(Event)
      BY <2>2, <2>3, ConcatProperties
    <3> QED
      BY <2>2, <2>3, <2>4, <3>1, NumberedConcat
  <2>6. PICK r \in {<<Transmitted("success")>>} \cup Report("failed") :
          Queue([x \in Port |-> IF x = p THEN r ELSE arrival])
    BY <1>5 DEF PhyReceive, Report
  <2>7. /\ [x \in Port |-> IF x = p THEN r ELSE arrival] \in [Port -> Seq(Event)]
        /\ \A x \in Port :
             NumberedEvents([y \in Port |-> IF y = p THEN r ELSE arrival][x])
    BY <1>3, <2>5
  <2>8. \A x \in Port : job'[x] \in {job[x], Nothing}
    BY <1>0, <1>5 DEF PhyReceive, TypeOK
  <2> QED
    BY <1>4, <1>5, <2>6, <2>7, <2>8 DEF PhyReceive
<1>6. CASE PhyLose(p)
  <2>1. PICK r \in Report("failed") :
          Queue([x \in Port |-> IF x = p THEN r ELSE <<>>])
    BY <1>6 DEF PhyLose
  <2>2. /\ [x \in Port |-> IF x = p THEN r ELSE <<>>] \in [Port -> Seq(Event)]
        /\ \A x \in Port :
             NumberedEvents([y \in Port |-> IF y = p THEN r ELSE <<>>][x])
    BY <1>2, <1>3
  <2>3. \A x \in Port : job'[x] \in {job[x], Nothing}
    BY <1>6 DEF PhyLose, TypeOK
  <2> QED
    BY <1>4, <1>6, <2>1, <2>2, <2>3 DEF PhyLose
<1>7. ~PhySignal(p)
  BY DEF PhySignal, HoldsHardReset, Counted, CountedAt, NumberedJob
<1> QED
  BY <1>5, <1>6, <1>7 DEF PhyStep

\* Every step keeps the count.
LEMMA CountedNext ==
  NobodyResets /\ TypeOK /\ StreamsInOrder /\ Counted /\ [Next]_vars => Counted'
<1> SUFFICES ASSUME NobodyResets, TypeOK, StreamsInOrder, Counted, [Next]_vars
             PROVE  Counted'
  OBVIOUS
<1>1. ~NewCable
  BY DEF NewCable, Counted, CountedAt
<1>2. CASE UNCHANGED vars
  BY <1>2 DEF vars, layerVars, phyVars, historyVars, Counted, CountedAt,
              CountedTx, CountedRx, TxReady
<1> QED
  BY <1>1, <1>2, CountedClient, CountedTimeout, CountedOnCallback,
     CountedPhyStep DEF Next

\* Whatever the PHYs do, they queue callbacks.
LEMMA PhyQueues ==
  ASSUME TypeOK, NEW p \in Port, PhyStep(p)
  PROVE  \E more \in [Port -> Seq(Event)] : Queue(more)
<1>1. /\ \A o \in Outcome : <<Transmitted(o)>> \in Seq(Event)
      /\ <<HardResetReceived>> \in Seq(Event) /\ <<>> \in Seq(Event)
  BY ValueTypes
<1>2. \A o \in Outcome : \A r \in Report(o) : r \in Seq(Event)
  BY <1>1 DEF Report
<1>3. CASE PhyReceive(p)
  <2> DEFINE pre == IF HoldsMessage(Peer(p)) THEN <<Transmitted("discarded")>>
                                            ELSE <<>>
             arrival == Append(pre, Received(job[p].message))
  <2>1. job[p].message \in Message
    BY DEF TypeOK, Job
  <2>2. arrival \in Seq(Event)
    BY <1>1, <2>1, ValueTypes DEF Outcome
  <2>3. PICK r \in {<<Transmitted("success")>>} \cup Report("failed") :
          Queue([x \in Port |-> IF x = p THEN r ELSE arrival])
    BY <1>3 DEF PhyReceive, Report
  <2>4. r \in Seq(Event)
    BY <1>1, <1>2 DEF Outcome
  <2>5. [x \in Port |-> IF x = p THEN r ELSE arrival] \in [Port -> Seq(Event)]
    BY <2>2, <2>4
  <2> QED
    BY <2>3, <2>5
<1>4. CASE PhyLose(p)
  <2>1. PICK r \in Report("failed") :
          Queue([x \in Port |-> IF x = p THEN r ELSE <<>>])
    BY <1>4 DEF PhyLose
  <2>2. [x \in Port |-> IF x = p THEN r ELSE <<>>] \in [Port -> Seq(Event)]
    BY <1>1, <1>2 DEF Outcome
  <2> QED
    BY <2>1, <2>2
<1>5. CASE PhySignal(p)
  <2>1. PICK r \in Report("success"), h \in {<<>>, <<HardResetReceived>>} :
          Queue([x \in Port |-> IF x = p THEN r ELSE h])
    BY <1>5 DEF PhySignal
  <2>2. [x \in Port |-> IF x = p THEN r ELSE h] \in [Port -> Seq(Event)]
    BY <1>1, <1>2 DEF Outcome
  <2> QED
    BY <2>1, <2>2
<1> QED
  BY <1>3, <1>4, <1>5 DEF PhyStep

\* A callback taken is taken by a handler of its port.
LEMMA PoppedBy ==
  ASSUME TypeOK, [Next]_vars, NEW p \in Port, events[p] # <<>>,
         events'[p] = Tail(events[p])
  PROVE  OnCallback(p)
<1> USE DEF layerVars, phyVars, historyVars
<1>1. events[p] \in Seq(Event) /\ events'[p] # events[p]
      /\ Len(events'[p]) = Len(events[p]) - 1
  <2>1. events[p] \in Seq(Event)
    BY DEF TypeOK
  <2>2. Len(Tail(events[p])) = Len(events[p]) - 1 /\ Len(events[p]) \in Nat
    BY <2>1
  <2>3. \A k \in Nat : k - 1 # k
    OBVIOUS
  <2> QED
    BY <2>1, <2>2, <2>3, Zenon
<1>2. ASSUME NEW x \in Port, PhyStep(x)
      PROVE  FALSE
  <2>1. PICK more \in [Port -> Seq(Event)] : Queue(more)
    BY <1>2, PhyQueues
  <2>2. events'[p] = events[p] \o more[p] /\ more[p] \in Seq(Event)
    BY <2>1 DEF Queue
  <2>3. Len(events[p] \o more[p]) = Len(events[p]) + Len(more[p])
        /\ Len(more[p]) \in Nat /\ Len(events[p]) \in Nat
    BY <1>1, <2>2
  <2>4. \A k, l \in Nat : k - 1 # k + l
    OBVIOUS
  <2> QED
    BY <1>1, <2>2, <2>3, <2>4, Zenon
<1>3. ASSUME NEW x \in Port, OnCallback(x)
      PROVE  x = p
  <2>1. events' = [events EXCEPT ![x] = Tail(@)]
    BY <1>3 DEF OnCallback, Unheard, OnTransmittedSuccess, OnTransmittedDiscarded,
         OnTransmittedFailed, OnReceivedDuplicate, OnReceivedNew,
         OnReceivedSoftReset, OnHardResetReceived, Callback, Arrives
  <2> QED
    BY <1>1, <2>1 DEF TypeOK
<1>4. ASSUME NEW x \in Port, Client(x) \/ Timeout(x)
      PROVE  FALSE
  BY <1>1, <1>4
     DEF Client, Attach, Transmit, Detach, SendSoftReset, TransmitHardReset,
         Timeout, PhyResponseTimeout, HardResetCompleteTimeout
<1>5. ~NewCable /\ ~UNCHANGED vars
  BY <1>1 DEF NewCable, vars
<1> QED
  BY <1>2, <1>3, <1>4, <1>5 DEF Next

\* A message that is dropped is one the layer took for a retransmission.
LEMMA DropIsRepeat ==
  ASSUME TypeOK, Counted, [Next]_vars, NEW p \in Port, Drops(p)
  PROVE  /\ rxId[p] = Taken(p).id /\ Taken(p) \in Message
         /\ Numbered(Taken(p)) /\ Arrival(events[p], 1)
         /\ Taken(p) = events[p][1].message
<1>1. /\ Attached(p) /\ events[p] # <<>> /\ Head(events[p]).kind = "received"
      /\ events'[p] = Tail(events[p]) /\ UNCHANGED <<delivered, rxId>>
  BY DEF Drops, Takes
<1>2. OnCallback(p)
  BY <1>1, PoppedBy
<1>3. events[p] \in Seq(Event) /\ NumberedEvents(events[p])
  BY DEF TypeOK, Counted, CountedAt
<1>4. Head(events[p]) = events[p][1] /\ 1 \in DOMAIN events[p]
      /\ events[p][1] \in Event
  BY <1>1, <1>3
<1>5. Numbered(Taken(p)) /\ Arrival(events[p], 1) /\ Taken(p) = events[p][1].message
      /\ Taken(p) \in Message
  BY <1>1, <1>3, <1>4 DEF NumberedEvents, Arrival, Taken, Event
<1>6. Arriving(p) = Taken(p)
  BY <1>1 DEF Arriving, Taken
<1>7. ~OnReceivedSoftReset(p)
  BY <1>5, <1>6 DEF OnReceivedSoftReset, Numbered
<1>8. ~OnReceivedNew(p)
  <2>1. Append(delivered[p], Arriving(p).n) # delivered[p]
    BY <1>5, <1>6 DEF TypeOK, Message
  <2> QED
    BY <1>1, <2>1 DEF OnReceivedNew, TypeOK
<1>9. OnReceivedDuplicate(p)
  BY <1>1, <1>2, <1>7, <1>8
     DEF OnCallback, Unheard, OnTransmittedSuccess, OnTransmittedDiscarded,
         OnTransmittedFailed, OnHardResetReceived, Callback, Transmitted,
         HardResetReceived
<1> QED
  BY <1>5, <1>6, <1>9 DEF OnReceivedDuplicate, IsRetransmission

\* Without resets a message is dropped only when it repeats the one handed
\* over last or the MessageIDs wrapped around since (onReceived, rx_id_).
THEOREM DropsRepeatsOrWraps == NobodyResets => (Spec => DropsOnlyRepeatsOrWraps)
<1>1. SUFFICES ASSUME NobodyResets
               PROVE  Spec => DropsOnlyRepeatsOrWraps
  OBVIOUS
<1>2. Counted /\ TypeOK /\ StreamsInOrder /\ [Next]_vars => Counted'
  BY <1>1, CountedNext
<1>3. Spec => []Counted
  BY <1>2, CountedInit, TypeCorrect, StreamsStayInOrder, PTL DEF Spec
<1>4. ASSUME Counted, TypeOK, StreamsInOrder, [Next]_vars, NEW p \in Port, Drops(p)
      PROVE  Taken(p).n = last[p] \/ Taken(p).n >= last[p] + IdCount
  <2> DEFINE m == Taken(p)
  <2>1. /\ rxId[p] = m.id /\ m \in Message /\ Numbered(m)
        /\ Arrival(events[p], 1) /\ m = events[p][1].message
    BY <1>4, DropIsRepeat
  <2>2. HandedOver(delivered[p], rxId[p], m)
    BY <1>4, <2>1, PeerIsOther DEF StreamsInOrder, Stream, Arrival
  <2>3. m.n \in Nat /\ m.n > 0 /\ m.id \in MessageId /\ m.id = IdOf(m.n)
    BY <2>1 DEF Message, Numbered
  <2>4. rxId[p] # NoId
    BY <2>1, <2>3, AssumptionsHold DEF MessageId, NoId, Assumptions
  <2>5. rxId[p] = IdOf(last[p]) /\ last[p] > 0 /\ last[p] <= m.n
    BY <1>4, <2>2, <2>4 DEF Counted, CountedAt, CountedRx, HandedOver
  <2> QED
    BY <1>4, <2>1, <2>3, <2>5, IdFacts DEF TypeOK
<1>5. Counted /\ TypeOK /\ StreamsInOrder /\ [Next]_vars
        => [\A p \in Port : Drops(p) => \/ Taken(p).n = last[p]
                                        \/ Taken(p).n >= last[p] + IdCount]_vars
  BY <1>4
<1> QED
  BY <1>3, <1>5, TypeCorrect, StreamsStayInOrder, PTL
     DEF Spec, DropsOnlyRepeatsOrWraps

-----------------------------------------------------------------------------
(* The promise of MessageDelivery.                                          *)

\* PHYs report within the layer's timers, and no client hard resets: a late
\* outcome, or one left over from before a hard reset, is taken for that of
\* the message in flight by then.
OutcomesInTime ==
  LateOutcomes = FALSE /\ \A p \in Port : "hard_reset" \notin ClientResets[p]

\* A PHY owes its layer one outcome: while it holds the message in flight none
\* is on its way, then at most one; a layer that is ready is owed none.
NoOutcome(e) == \A i \in DOMAIN e : e[i].kind # "transmitted"
OneOutcome(e) ==
  \A i, j \in DOMAIN e :
    e[i].kind = "transmitted" /\ e[j].kind = "transmitted" => i = j

\* A success says the partner's PHY answered the message in flight, n; what
\* is received was answered.
HonestQueue(e, n, answered, own) ==
  \A i \in DOMAIN e :
    /\ e[i].kind # "hard_reset_received"
    /\ e[i] = Transmitted("success") => n \in answered
    /\ Arrival(e, i) => e[i].message.n \in own

KeptAt(p) ==
  /\ tx[p] # "wait_for_hard_reset_complete"
  /\ tx[p] = "wait_for_phy_response" => context[p].n > 0
  /\ OneOutcome(events[p])
  /\ \/ job[p] = Nothing
     \/ job[p] = Carrying(context[p]) /\ NoOutcome(events[p])
  /\ TxReady(p) => job[p] = Nothing /\ NoOutcome(events[p])
  /\ HonestQueue(events[p], context[p].n, heard[Peer(p)], heard[p])
  /\ heard[Peer(p)] \subseteq 1 .. sent[p]
Kept == \A p \in Port : KeptAt(p)

\* At first nothing is owed.
LEMMA KeptInit == Init => Kept
BY PeerIsOther
   DEF Init, InitLayer, Kept, KeptAt, TxReady, OneOutcome, NoOutcome, HonestQueue

\* A step that leaves the other port alone keeps the promise if p does.
LEMMA KeptHere ==
  ASSUME Kept, NEW p \in Port, KeptAt(p)', UNCHANGED heard,
         \A x \in Port \ {p} :
           /\ job'[x] = job[x] /\ events'[x] = events[x] /\ tx'[x] = tx[x]
           /\ context'[x] = context[x] /\ sent'[x] = sent[x]
  PROVE  Kept'
BY DEF Kept, KeptAt, TxReady

\* Part of the callbacks owe no more than all of them.
LEMMA HonestPart ==
  ASSUME NEW e, NEW f, NEW n, NEW m, NEW answered, NEW own,
         HonestQueue(e, n, answered, own), m = n \/ NoOutcome(e),
         \A i \in DOMAIN f : \E j \in DOMAIN e : f[i] = e[j]
  PROVE  HonestQueue(f, m, answered, own)
BY DEF HonestQueue, NoOutcome, Arrival, Transmitted

\* A callback taken.
LEMMA OutcomesTail ==
  ASSUME NEW e \in Seq(Event), e # <<>>, OneOutcome(e)
  PROVE  /\ OneOutcome(Tail(e))
         /\ NoOutcome(e) \/ Head(e).kind = "transmitted" => NoOutcome(Tail(e))
         /\ \A i \in DOMAIN Tail(e) : \E j \in DOMAIN e : Tail(e)[i] = e[j]
         /\ NoOutcome(e) => Head(e).kind # "transmitted"
<1>1. \A i \in DOMAIN Tail(e) :
        i + 1 \in DOMAIN e /\ Tail(e)[i] = e[i + 1] /\ i + 1 # 1
  OBVIOUS
<1>2. 1 \in DOMAIN e /\ Head(e) = e[1]
  OBVIOUS
<1>3. \A i, j \in DOMAIN Tail(e) : i + 1 = j + 1 => i = j
  OBVIOUS
<1>4. OneOutcome(Tail(e))
  BY <1>1, <1>3 DEF OneOutcome
<1>5. NoOutcome(e) \/ Head(e).kind = "transmitted" => NoOutcome(Tail(e))
  BY <1>1, <1>2 DEF OneOutcome, NoOutcome
<1> QED
  BY <1>1, <1>2, <1>4, <1>5 DEF NoOutcome

LEMMA HonestTail ==
  ASSUME NEW e \in Seq(Event), e # <<>>, NEW n, NEW answered, NEW own,
         HonestQueue(e, n, answered, own)
  PROVE  HonestQueue(Tail(e), n, answered, own)
<1>1. \A i \in DOMAIN Tail(e) : \E j \in DOMAIN e : Tail(e)[i] = e[j]
  OBVIOUS
<1> QED
  BY <1>1, HonestPart

\* A callback queued.
LEMMA OutcomesAppend ==
  ASSUME NEW e \in Seq(Event), NEW x \in Event
  PROVE  /\ x.kind # "transmitted" /\ OneOutcome(e) => OneOutcome(Append(e, x))
         /\ x.kind # "transmitted" /\ NoOutcome(e) => NoOutcome(Append(e, x))
         /\ NoOutcome(e) => OneOutcome(Append(e, x))
<1>1. /\ DOMAIN e = 1 .. Len(e) /\ DOMAIN Append(e, x) = 1 .. Len(e) + 1
      /\ \A i \in 1 .. Len(e) : Append(e, x)[i] = e[i]
      /\ Append(e, x)[Len(e) + 1] = x /\ Len(e) \in Nat
      /\ \A i \in 1 .. Len(e) + 1 : i \in 1 .. Len(e) \/ i = Len(e) + 1
  OBVIOUS
<1> QED
  BY <1>1 DEF OneOutcome, NoOutcome

LEMMA HonestAppend ==
  ASSUME NEW e \in Seq(Event), NEW x \in Event, NEW n, NEW answered, NEW own,
         NEW answered2, NEW own2,
         HonestQueue(e, n, answered, own),
         answered \subseteq answered2, own \subseteq own2,
         x.kind # "hard_reset_received",
         x = Transmitted("success") => n \in answered2,
         x.kind = "received" => x.message.n \in own2
  PROVE  HonestQueue(Append(e, x), n, answered2, own2)
<1>1. /\ DOMAIN e = 1 .. Len(e) /\ DOMAIN Append(e, x) = 1 .. Len(e) + 1
      /\ \A i \in 1 .. Len(e) : Append(e, x)[i] = e[i]
      /\ Append(e, x)[Len(e) + 1] = x /\ Len(e) \in Nat
      /\ \A i \in 1 .. Len(e) + 1 : i \in 1 .. Len(e) \/ i = Len(e) + 1
  OBVIOUS
<1> QED
  BY <1>1 DEF HonestQueue, Arrival

\* A request puts a message in flight that nothing was answered of yet.
LEMMA KeptRequest ==
  ASSUME TypeOK, Kept, NEW p \in Port, TxReady(p), NEW soft, NEW id, NEW rev,
         Request(p, soft, id, rev), UNCHANGED heard,
         events' = events \/ (events[p] # <<>>
                              /\ events' = [events EXCEPT ![p] = Tail(@)])
  PROVE  Kept'
<1> DEFINE m == [n |-> sent[p] + 1, id |-> id, revision |-> rev, soft |-> soft]
<1>1. job[p] = Nothing /\ NoOutcome(events[p]) /\ OneOutcome(events[p])
      /\ HonestQueue(events[p], context[p].n, heard[Peer(p)], heard[p])
      /\ heard[Peer(p)] \subseteq 1 .. sent[p] /\ events[p] \in Seq(Event)
  BY DEF Kept, KeptAt, TypeOK
<1>2. /\ job'[p] = Carrying(m) /\ context'[p] = m
      /\ tx'[p] = "wait_for_phy_response" /\ sent'[p] = sent[p] + 1
  BY <1>1 DEF Request, HandOver, TypeOK
<1>3. NoOutcome(events'[p]) /\ OneOutcome(events'[p])
      /\ \A i \in DOMAIN events'[p] : \E j \in DOMAIN events[p] :
           events'[p][i] = events[p][j]
  <2>1. CASE events' = events
    BY <1>1, <2>1
  <2>2. CASE events[p] # <<>> /\ events' = [events EXCEPT ![p] = Tail(@)]
    <3>1. events'[p] = Tail(events[p])
      BY <2>2 DEF TypeOK
    <3> QED
      BY <1>1, <2>2, <3>1, OutcomesTail
  <2> QED
    BY <2>1, <2>2
<1>4. HonestQueue(events'[p], m.n, heard[Peer(p)], heard[p])
  BY <1>1, <1>3, HonestPart
<1>5. m.n > 0 /\ heard[Peer(p)] \subseteq 1 .. sent[p] + 1
  BY <1>1 DEF TypeOK
<1>6. KeptAt(p)'
  BY <1>2, <1>3, <1>4, <1>5 DEF KeptAt, TxReady
<1> QED
  BY <1>6, KeptHere DEF Request, HandOver, TypeOK

\* A callback taken that changes nothing about the transmission.
LEMMA KeptPop ==
  ASSUME TypeOK, Kept, NEW p \in Port, events[p] # <<>>,
         events' = [events EXCEPT ![p] = Tail(@)],
         UNCHANGED <<tx, context, job, sent, heard>>
  PROVE  Kept'
<1>1. events[p] \in Seq(Event) /\ events'[p] = Tail(events[p]) /\ KeptAt(p)
  BY DEF TypeOK, Kept
<1>2. /\ OneOutcome(events'[p]) /\ (NoOutcome(events[p]) => NoOutcome(events'[p]))
      /\ HonestQueue(events'[p], context[p].n, heard[Peer(p)], heard[p])
  BY <1>1, OutcomesTail, HonestTail DEF KeptAt
<1>3. KeptAt(p)'
  BY <1>1, <1>2 DEF KeptAt, TxReady
<1> QED
  BY <1>3, KeptHere DEF TypeOK

\* The outcome of the message in flight is the only one.
LEMMA OutcomeTaken ==
  ASSUME TypeOK, Kept, NEW p \in Port, events[p] # <<>>,
         Head(events[p]).kind = "transmitted",
         events' = [events EXCEPT ![p] = Tail(@)]
  PROVE  /\ tx[p] = "wait_for_phy_response" /\ job[p] = Nothing
         /\ NoOutcome(events'[p])
         /\ HonestQueue(events'[p], context[p].n, heard[Peer(p)], heard[p])
<1>1. events[p] \in Seq(Event) /\ events'[p] = Tail(events[p]) /\ KeptAt(p)
  BY DEF TypeOK, Kept
<1>2. ~NoOutcome(events[p])
  BY <1>1, OutcomesTail DEF KeptAt
<1>3. tx[p] = "wait_for_phy_response" /\ job[p] = Nothing
  BY <1>1, <1>2 DEF KeptAt, TypeOK, TxState, TxReady
<1>4. NoOutcome(events'[p])
  BY <1>1, OutcomesTail DEF KeptAt
<1>5. HonestQueue(events'[p], context[p].n, heard[Peer(p)], heard[p])
  BY <1>1, HonestTail DEF KeptAt
<1> QED
  BY <1>3, <1>4, <1>5

\* With no outcome owed the layer may conclude the message or hand it over
\* again.
LEMMA KeptConclude ==
  ASSUME TypeOK, Kept, NEW p \in Port, tx[p] = "wait_for_phy_response",
         job[p] = Nothing, NoOutcome(events'[p]),
         HonestQueue(events'[p], context[p].n, heard[Peer(p)], heard[p]),
         UNCHANGED <<context, sent, heard>>,
         \A x \in Port \ {p} : events'[x] = events[x],
         \/ AttemptFailed(p)
         \/ UNCHANGED job /\ tx' = [tx EXCEPT ![p] = "wait_for_message_request"]
  PROVE  Kept'
<1>1. KeptAt(p) /\ OneOutcome(events'[p])
  BY DEF Kept, OneOutcome, NoOutcome
<1>2. CASE /\ job' = [job EXCEPT ![p] = Carrying(context[p])]
           /\ UNCHANGED tx
  <2>1. KeptAt(p)'
    BY <1>1, <1>2 DEF KeptAt, TxReady, TypeOK
  <2> QED
    BY <1>2, <2>1, KeptHere DEF TypeOK
<1>3. CASE /\ UNCHANGED job
           /\ \/ tx' = [tx EXCEPT ![p] = "wait_for_message_request"]
              \/ tx' = [tx EXCEPT ![p] = "transmission_error"]
  <2>1. KeptAt(p)'
    BY <1>1, <1>3 DEF KeptAt, TxReady, TypeOK
  <2> QED
    BY <1>3, <2>1, KeptHere DEF TypeOK
<1> QED
  BY <1>2, <1>3 DEF AttemptFailed, HandOver

\* What a client does keeps the promise.
LEMMA KeptClient ==
  ASSUME TypeOK, Kept, OutcomesInTime, NEW p \in Port, Client(p)
  PROVE  Kept'
<1> USE DEF phyVars, historyVars
<1>1. ASSUME UNCHANGED <<tx, context, job, events, sent, heard>>
      PROVE  Kept'
  BY <1>1 DEF Kept, KeptAt, TxReady
<1>2. CASE Attach(p)
  BY <1>1, <1>2 DEF Attach
<1>3. CASE Transmit(p)
  BY <1>3, KeptRequest DEF Transmit
<1>4. CASE Detach(p)
  BY <1>1, <1>4 DEF Detach
<1>5. CASE SendSoftReset(p)
  BY <1>1, <1>5, KeptRequest DEF SendSoftReset, RequestIfReady
<1> QED
  BY <1>2, <1>3, <1>4, <1>5 DEF Client, OutcomesInTime

\* The timer runs out when no outcome is owed any more.
LEMMA KeptTimeout ==
  ASSUME TypeOK, Kept, OutcomesInTime, NEW p \in Port, Timeout(p)
  PROVE  Kept' /\ PhyResponseTimeout(p)
<1>1. PhyResponseTimeout(p) /\ job[p] = Nothing
      /\ \A i \in 1 .. Len(events[p]) : events[p][i].kind # "transmitted"
  BY DEF Timeout, Expires, OutcomesInTime, HardResetCompleteTimeout, Kept, KeptAt
<1>2. NoOutcome(events[p])
  <2>1. DOMAIN events[p] = 1 .. Len(events[p])
    BY DEF TypeOK
  <2> QED
    BY <1>1, <2>1 DEF NoOutcome
<1> QED
  BY <1>1, <1>2, KeptConclude
     DEF PhyResponseTimeout, historyVars, Kept, KeptAt

\* What a callback does keeps the promise.
LEMMA KeptOnCallback ==
  ASSUME TypeOK, Kept, NEW p \in Port, OnCallback(p)
  PROVE  Kept'
<1> USE DEF historyVars, layerVars
<1>1. events[p] # <<>> /\ events' = [events EXCEPT ![p] = Tail(@)]
  BY DEF OnCallback, Unheard, OnTransmittedSuccess, OnTransmittedDiscarded,
         OnTransmittedFailed, OnReceivedDuplicate, OnReceivedNew,
         OnReceivedSoftReset, OnHardResetReceived, Callback, Arrives
<1>2. CASE Unheard(p) \/ OnReceivedDuplicate(p) \/ OnReceivedNew(p)
  BY <1>1, <1>2, KeptPop DEF Unheard, OnReceivedDuplicate, OnReceivedNew
<1>3. ASSUME Head(events[p]).kind = "transmitted", UNCHANGED <<context, sent, heard>>,
             tx[p] = "wait_for_phy_response" =>
               \/ AttemptFailed(p)
               \/ UNCHANGED job /\ tx' = [tx EXCEPT ![p] = "wait_for_message_request"]
      PROVE  Kept'
  <2>1. \A x \in Port \ {p} : events'[x] = events[x]
    BY <1>1 DEF TypeOK
  <2> QED
    BY <1>1, <1>3, <2>1, OutcomeTaken, KeptConclude
<1>4. CASE OnTransmittedSuccess(p)
  <2>1. tx[p] = "wait_for_phy_response"
          => tx' = [tx EXCEPT ![p] = "wait_for_message_request"]
    BY <1>4 DEF OnTransmittedSuccess, TypeOK
  <2> QED
    BY <1>3, <1>4, <2>1 DEF OnTransmittedSuccess, Callback, Transmitted
<1>5. CASE OnTransmittedDiscarded(p)
  BY <1>3, <1>5 DEF OnTransmittedDiscarded, Callback, Transmitted
<1>6. CASE OnTransmittedFailed(p)
  BY <1>3, <1>6 DEF OnTransmittedFailed, Callback, Transmitted
<1>7. CASE OnReceivedSoftReset(p)
  BY <1>1, <1>7, KeptPop, KeptRequest DEF OnReceivedSoftReset, RequestIfReady
<1>8. ~OnHardResetReceived(p)
  <2>1. Head(events[p]).kind # "hard_reset_received"
    <3>1. events[p] \in Seq(Event)
          /\ HonestQueue(events[p], context[p].n, heard[Peer(p)], heard[p])
      BY DEF TypeOK, Kept, KeptAt
    <3>2. 1 \in DOMAIN events[p] /\ Head(events[p]) = events[p][1]
      BY <1>1, <3>1
    <3> QED
      BY <3>1, <3>2 DEF HonestQueue
  <2> QED
    BY <2>1 DEF OnHardResetReceived, Callback, HardResetReceived
<1> QED
  BY <1>2, <1>4, <1>5, <1>6, <1>7, <1>8 DEF OnCallback


\* What the PHYs do keeps the promise.
LEMMA KeptPhyStep ==
  ASSUME TypeOK, Kept, StreamsInOrder, NEW p \in Port, PhyStep(p)
  PROVE  Kept' /\ ~PhySignal(p)
<1> DEFINE q == Peer(p)
<1> USE DEF historyVars, layerVars
<1>0. q \in Port /\ q # p /\ Peer(q) = p
      /\ \A x \in Port : x = p \/ x = q
  BY PeerIsOther DEF Port, Peer
<1>1. KeptAt(p) /\ KeptAt(q) /\ events[p] \in Seq(Event) /\ events[q] \in Seq(Event)
  BY <1>0 DEF Kept, TypeOK
<1>2. ~PhySignal(p)
  BY <1>1 DEF PhySignal, HoldsHardReset, KeptAt, Nothing, Carrying
<1>3. ASSUME HoldsMessage(p)
      PROVE  /\ tx[p] = "wait_for_phy_response" /\ job[p] = Carrying(context[p])
             /\ NoOutcome(events[p])
             /\ job[p].message = context[p] /\ context[p].n \in 1 .. sent[p]
  <2>1. job[p] = Carrying(context[p]) /\ NoOutcome(events[p]) /\ ~TxReady(p)
    BY <1>1, <1>3 DEF KeptAt, HoldsMessage, Nothing
  <2>2. tx[p] = "wait_for_phy_response" /\ context[p].n > 0
    BY <1>1, <2>1 DEF KeptAt, TxReady, TypeOK, TxState
  <2>3. context[p].n \in 1 .. sent[p]
    BY <2>2 DEF StreamsInOrder, TypeOK
  <2> QED
    BY <2>1, <2>2, <2>3 DEF Carrying
<1>4. ASSUME NEW r, r = <<>> \/ (\E o \in Outcome : r = <<Transmitted(o)>>),
             HoldsMessage(p), NEW answered,
             heard[q] \subseteq answered, answered \subseteq 1 .. sent[p],
             r = <<Transmitted("success")>> => context[p].n \in answered
      PROVE  /\ OneOutcome(events[p] \o r)
             /\ HonestQueue(events[p] \o r, context[p].n, answered, heard[p])
  <2>1. CASE r = <<>>
    <3>1. events[p] \o r = events[p]
      BY <1>1, <2>1
    <3> QED
      BY <1>1, <1>4, <3>1 DEF KeptAt, HonestQueue
  <2>2. ASSUME NEW o \in Outcome, r = <<Transmitted(o)>>
        PROVE  /\ OneOutcome(events[p] \o r)
               /\ HonestQueue(events[p] \o r, context[p].n, answered, heard[p])
    <3>1. events[p] \o r = Append(events[p], Transmitted(o))
          /\ Transmitted(o) \in Event /\ Transmitted(o).kind = "transmitted"
      BY <1>1, <2>2, ValueTypes, AppendIsConcat DEF Transmitted
    <3>2. OneOutcome(events[p] \o r)
      BY <1>1, <1>3, <1>4, <3>1, OutcomesAppend
    <3>3. HonestQueue(Append(events[p], Transmitted(o)), context[p].n, answered,
                      heard[p])
      BY <1>1, <1>4, <2>2, <3>1, HonestAppend DEF KeptAt
    <3> QED
      BY <3>1, <3>2, <3>3
  <2> QED
    BY <1>4, <2>1, <2>2
<1>5. CASE PhyReceive(p)
  <2> DEFINE pre == IF HoldsMessage(q) THEN <<Transmitted("discarded")>> ELSE <<>>
             y == Received(job[p].message)
             arrival == Append(pre, y)
             n == context[p].n
  <2>1. /\ tx[p] = "wait_for_phy_response" /\ job[p] = Carrying(context[p])
        /\ NoOutcome(events[p]) /\ job[p].message = context[p]
        /\ n \in 1 .. sent[p] /\ HoldsMessage(p)
    BY <1>3, <1>5 DEF PhyReceive
  <2>2. /\ heard'[q] = heard[q] \cup {n} /\ heard'[p] = heard[p]
        /\ UNCHANGED <<tx, context, sent>>
    BY <1>0, <1>5, <2>1 DEF PhyReceive, TypeOK
  <2>3. PICK r : /\ r = <<>> \/ (\E o \in Outcome : r = <<Transmitted(o)>>)
                 /\ Queue([x \in Port |-> IF x = p THEN r ELSE arrival])
                 /\ job'[p] = Nothing \/ (job'[p] = job[p] /\ r = <<>>)
                 /\ job'[q] = Nothing
    BY <1>0, <1>5 DEF PhyReceive, Report, Outcome, TypeOK
  <2>4. events'[p] = events[p] \o r /\ events'[q] = events[q] \o arrival
    BY <1>0, <2>3 DEF Queue
  <2>5. KeptAt(p)'
    <3>1. heard'[q] \subseteq 1 .. sent[p] /\ heard[q] \subseteq heard'[q]
          /\ n \in heard'[q]
      BY <1>1, <2>1, <2>2 DEF KeptAt
    <3>2. OneOutcome(events'[p]) /\ HonestQueue(events'[p], n, heard'[q], heard[p])
      BY <1>4, <2>1, <2>3, <2>4, <3>1
    <3>3. \/ job'[p] = Nothing
          \/ job'[p] = Carrying(context[p]) /\ NoOutcome(events'[p])
      <4>1. r = <<>> => events'[p] = events[p]
        BY <1>1, <2>4
      <4> QED
        BY <2>1, <2>3, <4>1
    <3> QED
      BY <1>1, <2>1, <2>2, <3>1, <3>2, <3>3 DEF KeptAt, TxReady
  <2>6. KeptAt(q)'
    <3> DEFINE e == events[q] \o pre
    <3>1. y \in Event /\ y.kind = "received" /\ y.message.n = n
          /\ Transmitted("discarded") \in Event
          /\ Transmitted("discarded").kind = "transmitted"
          /\ Transmitted("discarded") # Transmitted("success")
      <4>1. context[p] \in Message
        BY DEF TypeOK
      <4> QED
        BY <2>1, <4>1, ValueTypes DEF Received, Transmitted, Outcome
    <3>2. /\ e \in Seq(Event) /\ OneOutcome(e)
          /\ HonestQueue(e, context[q].n, heard[p], heard[q])
          /\ TxReady(q) => NoOutcome(e)
      <4>1. CASE HoldsMessage(q)
        <5>1. e = Append(events[q], Transmitted("discarded"))
          BY <1>1, <3>1, <4>1, AppendIsConcat
        <5>2. NoOutcome(events[q]) /\ ~TxReady(q)
          BY <1>1, <4>1 DEF KeptAt, HoldsMessage, Nothing
        <5>3. OneOutcome(e)
          BY <1>1, <3>1, <5>1, <5>2, OutcomesAppend
        <5>4. HonestQueue(events[q], context[q].n, heard[p], heard[q])
          BY <1>0, <1>1 DEF KeptAt
        <5>5. HonestQueue(e, context[q].n, heard[p], heard[q])
          BY <1>1, <3>1, <5>1, <5>4, HonestAppend
        <5>6. e \in Seq(Event)
          BY <1>1, <3>1, <5>1
        <5> QED
          BY <5>2, <5>3, <5>5, <5>6
      <4>2. CASE ~HoldsMessage(q)
        <5>1. e = events[q]
          BY <1>1, <4>2
        <5> QED
          BY <1>0, <1>1, <5>1 DEF KeptAt
      <4> QED
        BY <4>1, <4>2
    <3>3. events'[q] = Append(e, y)
      <4>1. pre \in Seq(Event) /\ arrival = pre \o <<y>> /\ <<y>> \in Seq(Event)
        BY <3>1, AppendIsConcat
      <4>2. Append(e, y) = e \o <<y>>
        BY <3>1, <3>2, AppendIsConcat
      <4>3. (events[q] \o pre) \o <<y>> = events[q] \o (pre \o <<y>>)
        <5>1. \A s, t, u \in Seq(Event) : (s \o t) \o u = s \o (t \o u)
          BY ConcatAssociative
        <5> HIDE DEF pre, y, q
        <5> QED
          BY <1>1, <4>1, <5>1
      <4> QED
        BY <2>4, <4>1, <4>2, <4>3
    <3>4. OneOutcome(events'[q]) /\ (TxReady(q) => NoOutcome(events'[q]))
      BY <3>1, <3>2, <3>3, OutcomesAppend
    <3>5. HonestQueue(events'[q], context[q].n, heard[p], heard'[q])
      <4>1. y # Transmitted("success") /\ y.kind # "hard_reset_received"
        BY <3>1 DEF Received, Transmitted
      <4>2. heard[q] \subseteq heard'[q] /\ n \in heard'[q]
        BY <2>2
      <4> HIDE DEF e, y, n
      <4> QED
        BY <3>1, <3>2, <3>3, <4>1, <4>2, HonestAppend
    <3>6. TxReady(q)' <=> TxReady(q)
      BY <2>2 DEF TxReady
    <3> QED
      BY <1>0, <1>1, <2>2, <2>3, <3>4, <3>5, <3>6 DEF KeptAt
  <2> QED
    BY <1>0, <1>2, <2>5, <2>6 DEF Kept
<1>6. CASE PhyLose(p)
  <2>1. /\ tx[p] = "wait_for_phy_response" /\ HoldsMessage(p)
        /\ UNCHANGED <<tx, context, sent, heard>>
    BY <1>3, <1>6 DEF PhyLose
  <2>2. PICK r : /\ r = <<>> \/ r = <<Transmitted("failed")>>
                 /\ Queue([x \in Port |-> IF x = p THEN r ELSE <<>>])
                 /\ job' = [job EXCEPT ![p] = Nothing]
    BY <1>6 DEF PhyLose, Report
  <2>3. events'[p] = events[p] \o r /\ events'[q] = events[q]
        /\ job'[p] = Nothing /\ job'[q] = job[q]
    BY <1>0, <1>1, <2>2, SMTT(30) DEF Queue, TypeOK
  <2>4. r # <<Transmitted("success")>>
    BY <2>2 DEF Transmitted
  <2>5. heard[q] \subseteq 1 .. sent[p]
    BY <1>1 DEF KeptAt
  <2>6. OneOutcome(events'[p])
        /\ HonestQueue(events'[p], context[p].n, heard[q], heard[p])
    BY <1>4, <2>1, <2>2, <2>3, <2>4, <2>5 DEF Outcome
  <2>7. KeptAt(p)'
    BY <1>1, <2>1, <2>3, <2>6 DEF KeptAt, TxReady
  <2>8. KeptAt(q)'
    BY <1>0, <1>1, <2>1, <2>3 DEF KeptAt, TxReady
  <2> QED
    BY <1>0, <1>2, <2>7, <2>8 DEF Kept
<1> QED
  BY <1>2, <1>5, <1>6 DEF PhyStep

\* Every step keeps the promise.
LEMMA KeptNext ==
  OutcomesInTime /\ TypeOK /\ StreamsInOrder /\ Kept /\ [Next]_vars => Kept'
<1> SUFFICES ASSUME OutcomesInTime, TypeOK, StreamsInOrder, Kept, [Next]_vars
             PROVE  Kept'
  OBVIOUS
<1>1. CASE NewCable \/ UNCHANGED vars
  BY <1>1 DEF NewCable, vars, layerVars, phyVars, historyVars, Kept, KeptAt,
              TxReady
<1> QED
  BY <1>1, KeptClient, KeptTimeout, KeptOnCallback, KeptPhyStep DEF Next

-----------------------------------------------------------------------------
(* Every step of the link is one of MessageDelivery, or none of it.         *)

\* What Promise takes for a port's message in flight.
InFlight(p) == IF tx[p] = "wait_for_phy_response" THEN context[p].n ELSE 0

\* A step that shows none of the promise's state.
LEMMA StepHidden ==
  ASSUME UNCHANGED <<sent, heard, done, delivered>>,
         \A x \in Port : InFlight(x)' = InFlight(x)
  PROVE  UNCHANGED Promise!vars
BY DEF Promise!vars, InFlight

\* The pending message changes at one port.
LEMMA PendingChange ==
  ASSUME NEW p \in Port, NEW v, InFlight(p)' = v,
         \A x \in Port \ {p} : InFlight(x)' = InFlight(x)
  PROVE  [x \in Port |-> InFlight(x)]' = [[x \in Port |-> InFlight(x)] EXCEPT ![p] = v]
OBVIOUS

\* A message given to the layer is submitted.
LEMMA StepSubmits ==
  ASSUME TypeOK, NEW p \in Port, TxReady(p), NEW soft, NEW id, NEW rev,
         Request(p, soft, id, rev)
  PROVE  Promise!Begins(p)
<1> DEFINE m == [n |-> sent[p] + 1, id |-> id, revision |-> rev, soft |-> soft]
<1>1. /\ sent[p] < MaxMessages[p] /\ sent' = [sent EXCEPT ![p] = @ + 1]
      /\ tx' = [tx EXCEPT ![p] = "wait_for_phy_response"]
      /\ context' = [context EXCEPT ![p] = m]
  BY DEF Request
<1>2. InFlight(p) = 0 /\ InFlight(p)' = sent[p] + 1
  BY <1>1 DEF InFlight, TxReady, TypeOK
<1>3. \A x \in Port \ {p} : InFlight(x)' = InFlight(x)
  BY <1>1 DEF InFlight, TypeOK
<1>4. [x \in Port |-> InFlight(x)]'
        = [[x \in Port |-> InFlight(x)] EXCEPT ![p] = sent[p] + 1]
  BY <1>2, <1>3, PendingChange
<1> QED
  BY <1>1, <1>2, <1>4 DEF Promise!Begins, InFlight

\* A restart of p's MessageIDs is a reset of the promise, with or without a
\* message of its own.
LEMMA StepResets ==
  ASSUME TypeOK, NEW p \in Port, ForgetIds(p), UNCHANGED <<heard, done>>,
         NEW soft, NEW id, NEW rev, RequestIfReady(p, soft, id, rev)
  PROVE  Promise!Reset(p)
<1>1. delivered' = [delivered EXCEPT ![p] = <<>>]
  BY DEF ForgetIds
<1>2. CASE TxReady(p) /\ Request(p, soft, id, rev)
  BY <1>1, <1>2, StepSubmits DEF Promise!Reset
<1>3. CASE UNCHANGED <<sent, tx, context, retry, job>>
  BY <1>1, <1>3 DEF Promise!Reset
<1> QED
  BY <1>2, <1>3 DEF RequestIfReady

\* A message given up leaves the promise without a confirmation.
LEMMA StepAbandons ==
  ASSUME TypeOK, NEW p \in Port, tx[p] = "wait_for_phy_response",
         \/ AttemptFailed(p)
         \/ tx' = [tx EXCEPT ![p] = "wait_for_message_request"],
         UNCHANGED <<context, sent, heard, done, delivered>>
  PROVE  Promise!Abandon(p) \/ UNCHANGED Promise!vars
<1>1. CASE UNCHANGED tx
  BY <1>1, StepHidden DEF InFlight
<1>2. CASE \/ tx' = [tx EXCEPT ![p] = "wait_for_message_request"]
           \/ tx' = [tx EXCEPT ![p] = "transmission_error"]
  <2>1. InFlight(p)' = 0 /\ \A x \in Port \ {p} : InFlight(x)' = InFlight(x)
    BY <1>2 DEF InFlight, TypeOK
  <2>2. [x \in Port |-> InFlight(x)]'
          = [[x \in Port |-> InFlight(x)] EXCEPT ![p] = 0]
    BY <2>1, PendingChange
  <2> QED
    BY <2>2 DEF Promise!Abandon, InFlight
<1> QED
  BY <1>1, <1>2 DEF AttemptFailed

\* The clients' steps.
LEMMA PromiseClient ==
  ASSUME TypeOK, OutcomesInTime, NEW p \in Port, Client(p)
  PROVE  Promise!Next \/ UNCHANGED Promise!vars
<1> USE DEF phyVars, historyVars
<1>1. CASE Attach(p)
  BY <1>1, StepHidden DEF Attach, InFlight
<1>2. CASE Transmit(p)
  BY <1>2, StepSubmits DEF Transmit, Promise!Submit, Promise!Next
<1>3. CASE Detach(p)
  BY <1>3 DEF Detach, ForgetPartner, ForgetIds, Promise!Reset, Promise!Next
<1>4. CASE SendSoftReset(p)
  BY <1>4, StepResets DEF SendSoftReset, Promise!Next
<1> QED
  BY <1>1, <1>2, <1>3, <1>4 DEF Client, OutcomesInTime

\* The timer.
LEMMA PromiseTimeout ==
  ASSUME TypeOK, Kept, OutcomesInTime, NEW p \in Port, Timeout(p)
  PROVE  Promise!Next \/ UNCHANGED Promise!vars
<1>1. PhyResponseTimeout(p)
  BY KeptTimeout
<1> QED
  BY <1>1, StepAbandons DEF PhyResponseTimeout, historyVars, Promise!Next

\* A message handed over is newer than all before, and was answered.
LEMMA PromiseDelivers ==
  ASSUME TypeOK, Kept, StreamsInOrder, NEW p \in Port, OnReceivedNew(p)
  PROVE  Promise!Deliver(p)
<1> DEFINE q == Peer(p)
           m == Arriving(p)
           d == delivered[p]
<1>1. /\ events[p] # <<>> /\ Head(events[p]).kind = "received"
      /\ m = Head(events[p]).message
      /\ m.id # rxId[p] /\ delivered' = [delivered EXCEPT ![p] = Append(@, m.n)]
      /\ UNCHANGED <<tx, context, sent, done, heard>>
  BY DEF OnReceivedNew, Arrives, Callback, Received, Arriving, IsRetransmission
<1>2. events[p] \in Seq(Event) /\ m \in Message /\ d \in Seq(Nat)
  BY ArrivingType DEF TypeOK
<1>3. 1 \in DOMAIN events[p] /\ Head(events[p]) = events[p][1]
  BY <1>1, <1>2
<1>4. Arrival(events[p], 1) /\ m = events[p][1].message
  BY <1>1, <1>3 DEF Arrival
<1>5. HonestQueue(events[p], context[p].n, heard[q], heard[p])
  BY DEF Kept, KeptAt
<1>6. m.n \in heard[p]
  BY <1>3, <1>4, <1>5 DEF HonestQueue
<1>7. m.n \in Nat /\ m.n > 0
  <2>1. q \in Port /\ Peer(q) = p
    BY PeerIsOther
  <2>2. heard[p] \subseteq 1 .. sent[q]
    BY <2>1 DEF Kept, KeptAt
  <2> QED
    BY <1>6, <2>2
<1>8. HandedOver(d, rxId[p], m)
  <2>1. q \in Port /\ Peer(q) = p
    BY PeerIsOther
  <2> QED
    BY <1>3, <1>4, <2>1 DEF StreamsInOrder, Stream
<1>9. m.n > Promise!Newest(p)
  <2>1. CASE d = <<>>
    BY <1>7, <2>1 DEF Promise!Newest
  <2>2. CASE d # <<>>
    <3>1. d[Len(d)] \in Nat
      BY <1>2, <2>2
    <3>2. d[Len(d)] < m.n
      BY <1>1, <1>7, <1>8, <2>2, <3>1 DEF HandedOver
    <3> QED
      BY <2>2, <3>1, <3>2 DEF Promise!Newest
  <2> QED
    BY <2>1, <2>2
<1>10. q \in Port \ {p} /\ [x \in Port |-> heard[Peer(x)]][q] = heard[p]
  BY PeerIsOther
<1> QED
  BY <1>1, <1>6, <1>9, <1>10 DEF Promise!Deliver

\* The callbacks.
LEMMA PromiseOnCallback ==
  ASSUME TypeOK, Kept, StreamsInOrder, NEW p \in Port, OnCallback(p)
  PROVE  Promise!Next \/ UNCHANGED Promise!vars
<1> USE DEF historyVars, layerVars
<1>1. events[p] # <<>> /\ events' = [events EXCEPT ![p] = Tail(@)]
  BY DEF OnCallback, Unheard, OnTransmittedSuccess, OnTransmittedDiscarded,
         OnTransmittedFailed, OnReceivedDuplicate, OnReceivedNew,
         OnReceivedSoftReset, OnHardResetReceived, Callback, Arrives
<1>2. CASE Unheard(p) \/ OnReceivedDuplicate(p)
  BY <1>2, StepHidden DEF Unheard, OnReceivedDuplicate, InFlight
<1>3. CASE OnTransmittedSuccess(p)
  <2> DEFINE n == context[p].n
  <2>1. /\ Head(events[p]) = Transmitted("success")
        /\ UNCHANGED <<context, sent, heard>>
    BY <1>3 DEF OnTransmittedSuccess, Callback
  <2>2. tx[p] = "wait_for_phy_response"
    <3>1. Head(events[p]).kind = "transmitted"
      BY <2>1 DEF Transmitted
    <3> QED
      BY <1>1, <3>1, OutcomeTaken
  <2>3. /\ done' = [done EXCEPT ![p] = @ \cup {n}]
        /\ tx' = [tx EXCEPT ![p] = "wait_for_message_request"]
        /\ UNCHANGED delivered
    BY <1>3, <2>2 DEF OnTransmittedSuccess, TxReady, TypeOK
  <2>4. n \in heard[Peer(p)] /\ n > 0
    <3>1. events[p] \in Seq(Event)
          /\ HonestQueue(events[p], n, heard[Peer(p)], heard[p])
      BY DEF TypeOK, Kept, KeptAt
    <3>2. 1 \in DOMAIN events[p] /\ Head(events[p]) = events[p][1]
      BY <1>1, <3>1
    <3> QED
      BY <2>1, <2>2, <3>1, <3>2 DEF HonestQueue, Kept, KeptAt
  <2>5. /\ InFlight(p) = n /\ InFlight(p)' = 0
        /\ \A x \in Port \ {p} : InFlight(x)' = InFlight(x)
    BY <2>1, <2>2, <2>3 DEF InFlight, TypeOK
  <2>6. [x \in Port |-> InFlight(x)]'
          = [[x \in Port |-> InFlight(x)] EXCEPT ![p] = 0]
    BY <2>5, PendingChange
  <2>7. n # 0
    BY <2>4 DEF TypeOK, Message
  <2>8. Promise!Confirm(p)
    BY <2>1, <2>3, <2>4, <2>5, <2>6, <2>7 DEF Promise!Confirm, InFlight
  <2> QED
    BY <2>8 DEF Promise!Next
<1>4. CASE OnTransmittedDiscarded(p)
  <2>1. tx[p] = "wait_for_phy_response"
    <3>1. Head(events[p]).kind = "transmitted"
      BY <1>4 DEF OnTransmittedDiscarded, Callback, Transmitted
    <3> QED
      BY <1>1, <3>1, OutcomeTaken
  <2> QED
    BY <1>4, <2>1, StepAbandons DEF OnTransmittedDiscarded, Promise!Next
<1>5. CASE OnTransmittedFailed(p)
  <2>1. tx[p] = "wait_for_phy_response"
    <3>1. Head(events[p]).kind = "transmitted"
      BY <1>5 DEF OnTransmittedFailed, Callback, Transmitted
    <3> QED
      BY <1>1, <3>1, OutcomeTaken
  <2> QED
    BY <1>5, <2>1, StepAbandons DEF OnTransmittedFailed, Promise!Next
<1>6. CASE OnReceivedNew(p)
  BY <1>6, PromiseDelivers DEF Promise!Next
<1>7. CASE OnReceivedSoftReset(p)
  BY <1>7, StepResets DEF OnReceivedSoftReset, Promise!Next
<1>8. ~OnHardResetReceived(p)
  <2>1. events[p] \in Seq(Event)
        /\ HonestQueue(events[p], context[p].n, heard[Peer(p)], heard[p])
    BY DEF TypeOK, Kept, KeptAt
  <2>2. 1 \in DOMAIN events[p] /\ Head(events[p]) = events[p][1]
    BY <1>1, <2>1
  <2> QED
    BY <2>1, <2>2 DEF HonestQueue, OnHardResetReceived, Callback, HardResetReceived
<1> QED
  BY <1>2, <1>3, <1>4, <1>5, <1>6, <1>7, <1>8 DEF OnCallback

\* The PHYs answer messages.
LEMMA PromisePhyStep ==
  ASSUME TypeOK, Kept, StreamsInOrder, NEW p \in Port, PhyStep(p)
  PROVE  Promise!Next \/ UNCHANGED Promise!vars
<1> USE DEF historyVars, layerVars
<1>1. ~PhySignal(p)
  BY KeptPhyStep
<1>2. CASE PhyLose(p)
  BY <1>2, StepHidden DEF PhyLose, InFlight
<1>3. CASE PhyReceive(p)
  <2> DEFINE q == Peer(p)
             n == job[p].message.n
  <2>0. q \in Port /\ q # p /\ \A x \in Port : Peer(x) = q <=> x = p
    BY AssumptionsHold DEF Assumptions, Port, Peer
  <2>1. /\ heard' = [heard EXCEPT ![q] = @ \cup {n}]
        /\ UNCHANGED <<tx, context, sent, done, delivered>>
    BY <1>3 DEF PhyReceive
  <2>2. n \in 1 .. sent[p]
    <3>1. job[p] = Carrying(context[p]) /\ ~TxReady(p)
      BY <1>3 DEF Kept, KeptAt, PhyReceive, HoldsMessage, Nothing
    <3>2. context[p].n > 0 /\ context[p].n = sent[p]
      BY <3>1 DEF Kept, KeptAt, TxReady, TypeOK, TxState, StreamsInOrder
    <3> QED
      BY <3>1, <3>2 DEF Carrying, TypeOK
  <2>3. [x \in Port |-> heard[Peer(x)]]'
          = [[x \in Port |-> heard[Peer(x)]] EXCEPT ![p] = @ \cup {n}]
    <3>1. \A x \in Port : heard'[Peer(x)]
             = IF x = p THEN heard[Peer(x)] \cup {n} ELSE heard[Peer(x)]
      BY <2>0, <2>1, PeerIsOther DEF TypeOK
    <3> QED
      BY <3>1
  <2>4. Promise!Answer(p)
    BY <2>1, <2>2, <2>3 DEF Promise!Answer
  <2> QED
    BY <2>4 DEF Promise!Next
<1> QED
  BY <1>1, <1>2, <1>3 DEF PhyStep

\* The layers, with their MessageIDs, retries and timers, keep the promise
\* MessageDelivery states: in order, at most once until a reset, done only
\* when answered, as long as outcomes come in time and nobody hard resets.
THEOREM ImplementsPromise == OutcomesInTime => (Spec => KeepsPromise)
<1>1. SUFFICES ASSUME OutcomesInTime PROVE Spec => KeepsPromise
  OBVIOUS
<1>2. Kept /\ TypeOK /\ StreamsInOrder /\ [Next]_vars => Kept'
  BY <1>1, KeptNext
<1>3. Spec => []Kept
  BY <1>2, KeptInit, TypeCorrect, StreamsStayInOrder, PTL DEF Spec
<1>4. Init => Promise!Init
  BY PeerIsOther DEF Init, InitLayer, Promise!Init
<1>5. Kept /\ TypeOK /\ StreamsInOrder /\ [Next]_vars => [Promise!Next]_(Promise!vars)
  <2> SUFFICES ASSUME Kept, TypeOK, StreamsInOrder, [Next]_vars
               PROVE  Promise!Next \/ UNCHANGED Promise!vars
    OBVIOUS
  <2>1. CASE NewCable \/ UNCHANGED vars
    BY <2>1, StepHidden
       DEF NewCable, vars, layerVars, phyVars, historyVars, InFlight
  <2> QED
    BY <1>1, <2>1, PromiseClient, PromiseTimeout, PromiseOnCallback,
       PromisePhyStep DEF Next
<1> QED
  BY <1>3, <1>4, <1>5, TypeCorrect, StreamsStayInOrder, PTL
     DEF Spec, KeepsPromise, Promise!Spec
=============================================================================
