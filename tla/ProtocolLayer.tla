--------------------------- MODULE ProtocolLayer ---------------------------
(***************************************************************************)
(* The USB PD protocol layer of the two ports of a connection              *)
(* (include/usbc/layer/ProtocolLayer.hpp): the transmit machine of         *)
(* include/usbc/state/ProtocolLayer.hpp, the duplicate rejection on        *)
(* receive, and the MessageID and revision lifecycle across resets.        *)
(*                                                                         *)
(* The layer reaches its PHY through `job`, the transmission handed over,  *)
(* and the PHY reaches the layer through `events`, its callbacks in the    *)
(* order the driver makes them.  PdLink supplies the PHYs, the wire and    *)
(* the clients.                                                            *)
(*                                                                         *)
(* One SOP* type is modelled, SOP: it is the only one the layer listens    *)
(* for (claimPhy), and the counters of the types are independent.          *)
(***************************************************************************)
EXTENDS Naturals, Sequences

CONSTANTS
  A, B,               \* the two ports of the connection
  IdCount,            \* MessageIDs there are; 8 in the code
  WhoRetransmits,     \* "protocol_layer" or "phy" (usbc::retransmission)
  FirstRevision,      \* the revision a port starts at; 3 in the code
  MaxMessages         \* bound: messages the client of each port submits

ASSUME PortAssumption == A # B
ASSUME IdCountAssumption == IdCount \in Nat \ {0, 1}
ASSUME RetransmitsAssumption == WhoRetransmits \in {"protocol_layer", "phy"}
ASSUME RevisionAssumption == FirstRevision \in [{A, B} -> {2, 3}]
ASSUME MaxMessagesAssumption == MaxMessages \in [{A, B} -> Nat]

Port == {A, B}
Peer(p) == IF p = A THEN B ELSE A

VARIABLES
  tx,          \* the transmit machine's state
  context,     \* tx_context.message: the message in flight
  retry,       \* tx_context.retry_counter
  txCounter,   \* MessageIDCounter
  rxId,        \* the stored MessageID of the last message received, or NoId
  revision,    \* the negotiated revision
  connection,  \* the PD connection: "awaited", "attached" or "gone"
  job,         \* what the PHY was last told to transmit and still holds
  events,      \* the PHY's callbacks not yet delivered to the layer
  detecting    \* the PHY receives and answers GoodCRC

(***************************************************************************)
(* History, read by no guard of the layer: how many messages the client    *)
(* submitted, by when, which of them it heard confirmed, what was handed   *)
(* to it and which messages of the partner its PHY answered.               *)
(***************************************************************************)
VARIABLES
  sent,        \* messages submitted
  since,       \* messages submitted when the last hard reset was sent or heard
  done,        \* messages reported onTxDone
  delivered,   \* messages handed to onMessage since the MessageIDs restarted
  last,        \* the last message handed to onMessage by this partner, or 0
  heard        \* messages of the partner this port's PHY answered

layerVars == <<tx, context, retry, txCounter, rxId, revision, connection>>
phyVars == <<job, events, detecting>>
historyVars == <<sent, since, done, delivered, last, heard>>
vars == <<layerVars, phyVars, historyVars>>

TxState == {"wait_for_message_request", "wait_for_phy_response",
            "transmission_error", "wait_for_hard_reset_complete"}

MessageId == 0 .. IdCount - 1
NoId == IdCount

(***************************************************************************)
(* A message is known by its number: the n-th its port submitted.  `soft`  *)
(* marks the Soft_Reset.                                                   *)
(***************************************************************************)
Message == [n : Nat, id : MessageId, revision : {2, 3}, soft : BOOLEAN]
NoMessage == [n |-> 0, id |-> 0, revision |-> 3, soft |-> FALSE]

Job == [kind : {"none", "message", "hard_reset"}, message : Message]
Nothing == [kind |-> "none", message |-> NoMessage]
HardReset == [kind |-> "hard_reset", message |-> NoMessage]
Carrying(m) == [kind |-> "message", message |-> m]

Outcome == {"success", "discarded", "failed"}
Event == [kind : {"received", "transmitted", "hard_reset_received"},
          outcome : Outcome \cup {"none"}, message : Message]
Received(m) == [kind |-> "received", outcome |-> "none", message |-> m]
Transmitted(o) == [kind |-> "transmitted", outcome |-> o, message |-> NoMessage]
HardResetReceived ==
  [kind |-> "hard_reset_received", outcome |-> "none", message |-> NoMessage]

InitLayer ==
  /\ tx = [p \in Port |-> "wait_for_message_request"]
  /\ context = [p \in Port |-> NoMessage]
  /\ retry = [p \in Port |-> 0]
  /\ txCounter = [p \in Port |-> 0]
  /\ rxId = [p \in Port |-> NoId]
  /\ revision = FirstRevision
  /\ connection = [p \in Port |-> "awaited"]
  /\ job = [p \in Port |-> Nothing]
  /\ events = [p \in Port |-> <<>>]
  /\ detecting = [p \in Port |-> FALSE]
  /\ sent = [p \in Port |-> 0]
  /\ since = [p \in Port |-> 0]
  /\ done = [p \in Port |-> {}]
  /\ delivered = [p \in Port |-> <<>>]
  /\ last = [p \in Port |-> 0]
  /\ heard = [p \in Port |-> {}]

-----------------------------------------------------------------------------
(* The parts the handlers are made of.                                     *)

Attached(p) == connection[p] = "attached"

TxReady(p) == tx[p] \in {"wait_for_message_request", "transmission_error"}

\* mutants of Increment: no wrap-around; never counted
IncrementUnwrapped(p) == txCounter' = [txCounter EXCEPT ![p] = @ + 1]
IncrementForgotten(p) == UNCHANGED txCounter

Increment(p) == txCounter' = [txCounter EXCEPT ![p] = (@ + 1) % IdCount]

RetryLimit(p) == IF revision[p] = 3 THEN 2 ELSE 3

RetriesLeft(p) ==
  WhoRetransmits = "protocol_layer" /\ retry[p] < RetryLimit(p)

\* mutant of ForgetIds: only the receiving half starts over
ForgetReceivedId(p) ==
  /\ rxId' = [rxId EXCEPT ![p] = NoId]
  /\ delivered' = [delivered EXCEPT ![p] = <<>>]
  /\ UNCHANGED txCounter

\* reset(sop): the MessageID lifecycle starts over, the revision stays
ForgetIds(p) ==
  /\ txCounter' = [txCounter EXCEPT ![p] = 0]
  /\ rxId' = [rxId EXCEPT ![p] = NoId]
  /\ delivered' = [delivered EXCEPT ![p] = <<>>]

\* resetAll(): the hard reset and the detach forget the revision as well
ForgetPartner(p) ==
  /\ ForgetIds(p)
  /\ revision' = [revision EXCEPT ![p] = FirstRevision[p]]
  /\ last' = [last EXCEPT ![p] = 0]

\* a hard reset, sent or heard, is marked in the history
MarkHardReset(p) == since' = [since EXCEPT ![p] = sent[p]]

\* the PHY takes a transmission in the place of what it held; busy, it may
\* refuse instead, which the layer passes over
HandOver(p, j) ==
  \/ job' = [job EXCEPT ![p] = j]
  \/ job[p] # Nothing /\ UNCHANGED job

\* tx_request: into wait_for_phy_response with the stamped message, whose
\* entry hands it to the PHY; `id` is the MessageIDCounter and `rev` the
\* negotiated revision it is stamped with
Request(p, soft, id, rev) ==
  LET m == [n |-> sent[p] + 1, id |-> id, revision |-> rev, soft |-> soft]
  IN  /\ sent[p] < MaxMessages[p]
      /\ sent' = [sent EXCEPT ![p] = @ + 1]
      /\ tx' = [tx EXCEPT ![p] = "wait_for_phy_response"]
      /\ context' = [context EXCEPT ![p] = m]
      /\ retry' = [retry EXCEPT ![p] = 0]
      /\ HandOver(p, Carrying(m))

\* transmit() while a message or a hard reset is in flight is refused, and
\* the engines' layer port drops the refusal
RequestIfReady(p, soft, id, rev) ==
  \/ TxReady(p) /\ Request(p, soft, id, rev)
  \/ ~TxReady(p) /\ UNCHANGED <<sent, tx, context, retry, job>>

-----------------------------------------------------------------------------
(* The client's and the connection machine's calls.                        *)

\* the PD connection's entry: the layer registers its callbacks, the role's
\* engine goes live and sets itself as the client.  The CC debounce before
\* an attach outlasts every timer a former connection left running
Attach(p) ==
  /\ connection[p] = "awaited"
  /\ TxReady(p) /\ job[p] = Nothing /\ events[p] = <<>>
  /\ connection' = [connection EXCEPT ![p] = "attached"]
  /\ detecting' = [detecting EXCEPT ![p] = TRUE]
  /\ UNCHANGED <<tx, context, retry, txCounter, rxId, revision, job, events,
                 historyVars>>

\* the connection's exit, the one real detach: callbacks cleared, partner
\* forgotten, the engine retires; the transmit machine is left to its timer
\* and the PHY to its receive detection
Detach(p) ==
  /\ connection[p] = "attached"
  /\ connection' = [connection EXCEPT ![p] = "gone"]
  /\ ForgetPartner(p)
  /\ UNCHANGED <<tx, context, retry, phyVars, sent, since, done, heard>>

Transmit(p) ==
  /\ Attached(p) /\ TxReady(p)
  /\ Request(p, FALSE, txCounter[p], revision[p])
  /\ UNCHANGED <<txCounter, rxId, revision, connection, events, detecting,
                 since, done, delivered, last, heard>>

\* a state with prl::reset_action and the Soft_Reset it sends: the reset
\* comes first, so the message goes out with MessageID 0
SendSoftReset(p) ==
  /\ Attached(p)
  /\ ForgetIds(p)
  /\ RequestIfReady(p, TRUE, 0, revision[p])
  /\ UNCHANGED <<revision, connection, events, detecting, since, done, last,
                 heard>>

TransmitHardReset(p) ==
  /\ Attached(p)
  /\ HandOver(p, HardReset)
  /\ tx' = [tx EXCEPT ![p] = "wait_for_hard_reset_complete"]
  /\ ForgetPartner(p) /\ MarkHardReset(p)
  /\ UNCHANGED <<context, retry, connection, events, detecting, sent, done,
                 heard>>

-----------------------------------------------------------------------------
(* Timeouts and the PHY's callbacks.                                       *)

\* the failed attempt, reported by the PHY or by CRCReceiveTimer: one more
\* with the same message while RetryCounter allows, else
\* transmission_error, where giveUp() counts the MessageID
AttemptFailed(p) ==
  \/ /\ RetriesLeft(p)
     /\ retry' = [retry EXCEPT ![p] = @ + 1]
     /\ HandOver(p, Carrying(context[p]))
     /\ UNCHANGED <<tx, txCounter>>
  \/ /\ ~RetriesLeft(p)
     /\ tx' = [tx EXCEPT ![p] = "transmission_error"]
     /\ Increment(p)
     /\ UNCHANGED <<retry, job>>

\* CRCReceiveTimer, or the bound on a PHY that reports no outcome
PhyResponseTimeout(p) ==
  /\ tx[p] = "wait_for_phy_response"
  /\ AttemptFailed(p)
  /\ UNCHANGED <<context, rxId, revision, connection, events, detecting,
                 historyVars>>

\* leaving wait_for_hard_reset_complete reports onHardResetSent: the engine
\* in its hard reset state ends up resetting the layer; one that a Soft_Reset
\* took out of that state, or a retired one, does not
HardResetSent(p) ==
  \/ Attached(p) /\ ForgetIds(p)
  \/ UNCHANGED <<txCounter, rxId, delivered>>

\* mutant of HardResetCompleteTimeout: the state without its timer
NoHardResetCompleteTimer(p) == FALSE

HardResetCompleteTimeout(p) ==
  /\ tx[p] = "wait_for_hard_reset_complete"
  /\ tx' = [tx EXCEPT ![p] = "wait_for_message_request"]
  /\ HardResetSent(p)
  /\ UNCHANGED <<context, retry, revision, connection, phyVars, sent, since,
                 done, last, heard>>

\* the driver makes the callback at the head of its queue
Callback(p, event) ==
  /\ events[p] # <<>> /\ Head(events[p]) = event
  /\ events' = [events EXCEPT ![p] = Tail(@)]
  /\ UNCHANGED detecting

\* without registered callbacks nobody hears the PHY
Unheard(p) ==
  /\ ~Attached(p)
  /\ events[p] # <<>>
  /\ events' = [events EXCEPT ![p] = Tail(@)]
  /\ UNCHANGED <<layerVars, job, detecting, historyVars>>

OnTransmittedSuccess(p) ==
  /\ Attached(p) /\ Callback(p, Transmitted("success"))
  /\ \/ /\ tx[p] = "wait_for_phy_response"
        /\ Increment(p)
        /\ done' = [done EXCEPT ![p] = @ \cup {context[p].n}]
        /\ UNCHANGED <<rxId, delivered>>
     \/ /\ tx[p] = "wait_for_hard_reset_complete"
        /\ HardResetSent(p)
        /\ UNCHANGED done
     \/ TxReady(p) /\ UNCHANGED <<txCounter, rxId, delivered, done>>
  \* a spurious report in transmission_error leaves the machine where it is
  /\ tx' = [tx EXCEPT ![p] = IF @ = "transmission_error" THEN @
                             ELSE "wait_for_message_request"]
  /\ UNCHANGED <<context, retry, revision, connection, job, sent, since, last,
                 heard>>

\* mutant of OnTransmittedDiscarded: reported like a success
OnTransmittedDiscardedAsDone(p) ==
  /\ Attached(p) /\ Callback(p, Transmitted("discarded"))
  /\ tx[p] = "wait_for_phy_response"
  /\ Increment(p)
  /\ tx' = [tx EXCEPT ![p] = "wait_for_message_request"]
  /\ done' = [done EXCEPT ![p] = @ \cup {context[p].n}]
  /\ UNCHANGED <<context, retry, rxId, revision, connection, job, sent, since,
                 delivered, last, heard>>

OnTransmittedDiscarded(p) ==
  /\ Attached(p) /\ Callback(p, Transmitted("discarded"))
  /\ \/ /\ tx[p] = "wait_for_phy_response"
        /\ Increment(p)
        /\ tx' = [tx EXCEPT ![p] = "wait_for_message_request"]
     \/ /\ tx[p] # "wait_for_phy_response"
        /\ UNCHANGED <<txCounter, tx>>
  /\ UNCHANGED <<context, retry, rxId, revision, connection, job,
                 historyVars>>

OnTransmittedFailed(p) ==
  /\ Attached(p) /\ Callback(p, Transmitted("failed"))
  /\ \/ tx[p] = "wait_for_phy_response" /\ AttemptFailed(p)
     \/ /\ tx[p] # "wait_for_phy_response"
        /\ UNCHANGED <<tx, retry, txCounter, job>>
  /\ UNCHANGED <<context, rxId, revision, connection, historyVars>>

\* the callback is a received message
Arrives(p, m) == Attached(p) /\ Callback(p, Received(m))
Arriving(p) == IF events[p] = <<>> THEN NoMessage ELSE Head(events[p]).message

\* mutant of IsRetransmission: duplicates pass
NothingIsRetransmission(p) == FALSE

\* a message whose MessageID is the stored one counts as a retransmission
IsRetransmission(p) == rxId[p] = Arriving(p).id

StoreId(p) == rxId' = [rxId EXCEPT ![p] = Arriving(p).id]

OnReceivedDuplicate(p) ==
  /\ Arrives(p, Arriving(p))
  /\ IsRetransmission(p)
  /\ UNCHANGED <<layerVars, job, historyVars>>

LowestCommon(p) ==
  IF Arriving(p).revision < revision[p] THEN Arriving(p).revision
                                        ELSE revision[p]

\* a new message reaches the client
OnReceivedNew(p) ==
  /\ Arrives(p, Arriving(p))
  /\ ~IsRetransmission(p)
  /\ ~Arriving(p).soft
  /\ StoreId(p)
  /\ revision' = [revision EXCEPT ![p] = LowestCommon(p)]
  /\ delivered' = [delivered EXCEPT ![p] = Append(@, Arriving(p).n)]
  /\ last' = [last EXCEPT ![p] = Arriving(p).n]
  /\ UNCHANGED <<tx, context, retry, txCounter, connection, job, sent, since,
                 done, heard>>

\* a Soft_Reset reaches the engine, whose soft reset state resets the layer,
\* the MessageID just stored included, and sends the Accept from within the
\* callback
OnReceivedSoftReset(p) ==
  /\ Arrives(p, Arriving(p))
  /\ ~IsRetransmission(p)
  /\ Arriving(p).soft
  /\ revision' = [revision EXCEPT ![p] = LowestCommon(p)]
  /\ ForgetIds(p)
  /\ RequestIfReady(p, FALSE, 0, LowestCommon(p))
  /\ last' = [last EXCEPT ![p] = Arriving(p).n]
  /\ UNCHANGED <<connection, since, done, heard>>

OnHardResetReceived(p) ==
  /\ Attached(p) /\ Callback(p, HardResetReceived)
  /\ tx' = [tx EXCEPT ![p] = "wait_for_message_request"]
  /\ ForgetPartner(p) /\ MarkHardReset(p)
  /\ UNCHANGED <<context, retry, connection, job, sent, done, heard>>

\* the callbacks of the PHY
OnCallback(p) ==
  \/ Unheard(p)
  \/ OnTransmittedSuccess(p) \/ OnTransmittedDiscarded(p)
  \/ OnTransmittedFailed(p)
  \/ OnReceivedDuplicate(p) \/ OnReceivedNew(p) \/ OnReceivedSoftReset(p)
  \/ OnHardResetReceived(p)
=============================================================================
