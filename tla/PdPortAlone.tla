---------------------------- MODULE PdPortAlone ----------------------------
(***************************************************************************)
(* One port against an open environment: the partner, the cable, the       *)
(* timers, the supply and the application call its handlers in any order,  *)
(* with any message and any answer of the policy.                          *)
(***************************************************************************)
EXTENDS PdPort

VARIABLE port

Live == port.client # "none"

\* When the environment may call each handler.
Attach ==
  /\ port.conn = "detached"
  /\ \E r \in Role, ok \in BOOLEAN, ra \in BOOLEAN : port' = Attached(port, r, ok, ra)

Detach == port.conn \notin {"detached", "error_recovery"} /\ port' = Detached(port)

RecoveryOver == port.conn = "error_recovery" /\ port' = [port EXCEPT !.conn = "detached"]

Window ==
  \/ port.conn = "hard_reset_snk" /\ port' = WindowVbusGone(port)
  \/ /\ port.conn = "hard_reset_recover_snk"
     /\ \E ok \in BOOLEAN : port' = WindowVbusBack(port, ok)

Receive ==
  /\ Live
  /\ \E m \in Message, x \in Terms, yes \in BOOLEAN : port' = Received(port, m, x, yes)

Transmitted ==
  /\ Live /\ port.tx \notin {Idle, HardReset}
  /\ port' \in {TxDone(port), TxError(port)}

Reset ==
  \/ Live /\ port' = HardResetHeard(port)
  \/ port.tx = HardReset /\ port' = HardResetSent(port)

Timeout ==
  \/ \E r \in Role : port.eng[r].pe \in Timed(r) /\ port' = PeTimeout(port, r)
  \/ port.vconn = "wait" /\ port' = VconnTimeout(port)

Supply == port.supply.pending /\ port' = SupplySettled(port)

SeeRp ==
  /\ port.conn = "attached_snk"
  /\ \E ok \in BOOLEAN : port' = RpSeen(port, ok)

Ask ==
  /\ Live
  /\ \/ \E seq \in {"pr_swap", "dr_swap"} \cap Features : port' = AskSwap(port, seq)
     \/ "vconn" \in Features /\ port' = AskVconnSwap(port)

PortInit == port = NewPort

PortNext ==
  \/ Attach \/ Detach \/ RecoveryOver \/ Window \/ Receive \/ Transmitted
  \/ Reset \/ Timeout \/ Supply \/ SeeRp \/ Ask

PortSpec == PortInit /\ [][PortNext]_port

(***************************************************************************)
(* What is to hold of one port, whatever the partner does.                 *)
(***************************************************************************)
\* Every variable stays in its domain.
PortTypeOK == Typed(port)

\* The engines never work against each other on the one layer: whoever is not
\* its client rests, with nothing left of the connection it served - across
\* attach, detach, resets and every half of a PR_Swap.
OneEngineAtWork ==
  \A r \in Role : port.client # r =>
    /\ port.eng[r].pe = Resting(r)
    /\ ~port.eng[r].explicit /\ ~port.eng[r].deaf /\ port.eng[r].parked = "none"

\* The live engine is the one the connection machine's state calls for; mid
\* PR_Swap that is the sink's on both sides.
ClientFitsConnection ==
  port.client = CASE port.conn \in {"detached", "error_recovery"} -> "none"
                  [] port.conn = "attached_src" -> "source"
                  [] OTHER -> "sink"

\* BIST test data mode, in which a port hears nothing but a hard reset, never
\* outlives the vSafe5V contract under which it was entered.
DeafOnlyUnderContract ==
  \A r \in Role : port.eng[r].deaf => port.client = r /\ At5VContract(port.eng[r])

\* The collision-avoidance Rp is shown under an explicit contract only, and a
\* source back in Ready never leaves its sink told to be silent.
RpFitsLevel ==
  /\ port.rp # "advertised" =>
       Rev3 /\ port.client = "source"
            /\ SourceLevel(port.eng["source"].pe) = "explicit_contract"
  /\ port.eng["source"].pe = "ready" => port.rp # "ng"

\* In Ready the sink's load is limited to the contract it holds, whichever
\* way it came there - a first contract, a rejected request, a swap refused.
ReadyUnderContract ==
  LET en == port.eng["sink"]
  IN en.pe = "ready" =>
       /\ en.terms \in Terms /\ en.explicit
       /\ port.power["sink"].limit = en.terms /\ port.power["sink"].active

\* A handler returns with no engine in transit, whoever it had to hand on to.
\* The one direction which the connection machine may be unable to follow is
\* the termination flip: of a PR_Swap which a Soft_Reset made possible inside
\* a hard reset's window, or in the standby of the swap before.
NothingLeftHalfway ==
  \A r \in Role : port.eng[r].pe \in Transit(r) =>
    port.eng[r].pe = "swap_assert_rp" /\ port.conn # "standby_to_src"
=============================================================================
