--------------------------- MODULE MessageDelivery ---------------------------
(***************************************************************************)
(* What the protocol layers of a connection promise their clients, with no *)
(* MessageID, retry or timer in sight: a port has one message in flight; a *)
(* message is handed over in the order of submission, at most once until   *)
(* a reset, and only if the PHY answered it; it is reported done only if   *)
(* it was answered.  The `done` report and the handing over do not wait    *)
(* for each other.                                                         *)
(***************************************************************************)
EXTENDS Naturals, Sequences

CONSTANTS
  Ports,     \* the ports
  MaxSent    \* how many messages each submits

VARIABLES
  sent,       \* messages submitted
  pending,    \* the one in flight, or 0
  answered,   \* messages of the port answered by some other port's PHY
  done,       \* messages reported done
  delivered   \* messages handed to the port since its last reset

vars == <<sent, pending, answered, done, delivered>>

Init ==
  /\ sent = [p \in Ports |-> 0]
  /\ pending = [p \in Ports |-> 0]
  /\ answered = [p \in Ports |-> {}]
  /\ done = [p \in Ports |-> {}]
  /\ delivered = [p \in Ports |-> <<>>]

Begins(p) ==
  /\ pending[p] = 0 /\ sent[p] < MaxSent[p]
  /\ sent' = [sent EXCEPT ![p] = @ + 1]
  /\ pending' = [pending EXCEPT ![p] = sent[p] + 1]

Submit(p) == Begins(p) /\ UNCHANGED <<answered, done, delivered>>

Answer(p) ==
  \E n \in 1 .. sent[p] :
    /\ answered' = [answered EXCEPT ![p] = @ \cup {n}]
    /\ UNCHANGED <<sent, pending, done, delivered>>

Newest(p) == IF delivered[p] = <<>> THEN 0 ELSE delivered[p][Len(delivered[p])]

Deliver(p) ==
  \E q \in Ports \ {p} : \E n \in answered[q] :
    /\ n > Newest(p)
    /\ delivered' = [delivered EXCEPT ![p] = Append(@, n)]
    /\ UNCHANGED <<sent, pending, answered, done>>

Confirm(p) ==
  /\ pending[p] # 0 /\ pending[p] \in answered[p]
  /\ done' = [done EXCEPT ![p] = @ \cup {pending[p]}]
  /\ pending' = [pending EXCEPT ![p] = 0]
  /\ UNCHANGED <<sent, answered, delivered>>

\* without a confirmation: discarded, or the retries spent
Abandon(p) ==
  /\ pending' = [pending EXCEPT ![p] = 0]
  /\ UNCHANGED <<sent, answered, done, delivered>>

\* a reset may abandon the message in flight or submit one of its own
Reset(p) ==
  /\ delivered' = [delivered EXCEPT ![p] = <<>>]
  /\ \/ Begins(p)
     \/ UNCHANGED sent /\ pending' \in {pending, [pending EXCEPT ![p] = 0]}
  /\ UNCHANGED <<answered, done>>

Next ==
  \E p \in Ports :
    \/ Submit(p) \/ Answer(p) \/ Deliver(p) \/ Confirm(p) \/ Abandon(p)
    \/ Reset(p)

Spec == Init /\ [][Next]_vars
=============================================================================
