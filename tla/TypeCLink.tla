----------------------------- MODULE TypeCLink -----------------------------
(***************************************************************************)
(* Two Type-C ports on a cable.  TypeC's open environment becomes the      *)
(* line the ports' own pulls make, VBUS as their switches drive it,        *)
(* drivers that report both, and policy engines that direct a role swap    *)
(* or a hard reset the way the two ends of one do (PdDrp.hpp,              *)
(* connection_directions).                                                 *)
(*                                                                         *)
(* A tick is the resolution of the drivers: what a driver has to report it *)
(* reports before the next one.  VBUS follows the switches within          *)
(* VbusLag ticks.                                                          *)
(***************************************************************************)
EXTENDS TypeC

CONSTANTS
  A, B,          \* the ports
  VbusLag,       \* ticks VBUS may rest on its way to where it is driven
  Gap,           \* ticks a cable stays out at least
  MaxPlugs,      \* bound: times the cable is plugged in
  MaxDirected,   \* bound: role swaps, hard resets and error recoveries begun
  Begun,         \* which of them the engines begin
  Locked,        \* the ports whose role lock says no at first
  Lockable       \* the ports whose application moves the role lock

ASSUME LinkAssumption ==
  /\ A # B /\ Port = {A, B}
  /\ {VbusLag, MaxPlugs, MaxDirected} \subseteq Nat
  /\ Gap \in Ticks
  /\ Begun \subseteq {"swap", "hard_reset", "error_recovery"}
  /\ Locked \subseteq Port /\ Lockable \subseteq Port

Peer(p) == IF p = A THEN B ELSE A

VARIABLES
  apart,     \* ticks since the cable was pulled, or Off while it is in
  pin,       \* the pin of each port the CC wire is on
  lag,       \* ticks VBUS has rested away from where it is driven
  supply,    \* what the source's engine has its supply do
  plugs,     \* times plugged in
  directed   \* swaps and resets begun

env == <<apart, pin, lag, supply, plugs, directed>>
linkVars == <<vars, env>>

In == apart = Off

\* what the port's CC driver measures
Line(p) ==
  IF In /\ {Pull(state[p]), Pull(state[Peer(p)])} = {"rp", "rd"}
  THEN [sees |-> Pull(state[Peer(p)]), pins |-> {pin[p]}]
  ELSE OpenLine

\* VBUS: one conductor while the cable is in; a supply wins over a discharge
Bus(p) == IF In THEN Port ELSE {p}
Driven(p) ==
  IF \E q \in Bus(p) : Path(state[q]) = "safe5v" /\ supply[q] = "on" THEN 2 ELSE 0
Resting == \E p \in Port : vbus[p] # Driven(p)
Step(v, to) == IF v < to THEN v + 1 ELSE v - 1

\* an engine that loses its Attached.SRC lets go of the supply
SupplyFollows ==
  supply' = [p \in Port |-> IF state'[p] = "attached_src" THEN supply[p] ELSE "on"]
RestOfEnv == UNCHANGED <<apart, pin, lag, plugs, directed>>

-----------------------------------------------------------------------------
LinkStart(p) == Start(p) /\ SupplyFollows /\ RestOfEnv
LinkDetected(p) == Detected(p) /\ SupplyFollows /\ RestOfEnv
LinkDebounced(p) == Debounced(p) /\ SupplyFollows /\ RestOfEnv
LinkTimeout(p) == Timeout(p) /\ SupplyFollows /\ RestOfEnv
LinkVbusReport(p) == VbusReport(p) /\ SupplyFollows /\ RestOfEnv
LinkReport(p) == Report(p, Line(p)) /\ SupplyFollows /\ RestOfEnv
LinkLock(p) == p \in Lockable /\ Lock(p) /\ SupplyFollows /\ RestOfEnv

\* a driver has something to tell
Owes(p) ==
  /\ state[p] # "disabled"
  /\ \/ ~(watcher[p].reported /\ watcher[p].status = Line(p))
     \/ told[p] # "off" /\ told[p] # Reading(p)

LinkTick ==
  /\ \A p \in Port : ~Owes(p)
  /\ Resting => lag < VbusLag
  /\ Tick
  /\ lag' = IF Resting THEN lag + 1 ELSE 0
  /\ apart' = IF apart \in 0..(Gap - 1) THEN apart + 1 ELSE apart
  /\ UNCHANGED <<pin, supply, plugs, directed>>

Settle ==
  /\ \E p \in Port :
       /\ vbus[p] # Driven(p)
       /\ vbus' = [q \in Port |-> IF q \in Bus(p) THEN Step(vbus[q], Driven(q)) ELSE vbus[q]]
  /\ lag' = 0
  /\ UNCHANGED <<state, attachment, timer, watcher, told, allowed>>
  /\ UNCHANGED <<apart, pin, supply, plugs, directed>>

Pulled ==
  /\ In
  /\ apart' = 0
  /\ UNCHANGED vars /\ UNCHANGED <<pin, lag, supply, plugs, directed>>

\* assumption: the cable stays out until both ends could notice, and meets
\* no charge of its last connection
PluggedIn ==
  /\ apart = Gap /\ plugs < MaxPlugs
  /\ \A p \in Port : vbus[p] = 0 /\ Driven(p) = 0
  /\ apart' = Off /\ plugs' = plugs + 1
  /\ pin' \in [Port -> Pin]
  /\ UNCHANGED vars /\ UNCHANGED <<lag, supply, directed>>

-----------------------------------------------------------------------------
(* The engines.  What they agree on needs the cable; that a message of      *)
(* theirs is lost is a step that does not come.                             *)

Begins(what) == what \in Begun /\ directed < MaxDirected /\ directed' = directed + 1
Agreed(sink) == /\ In
                /\ state[sink] = "attached_snk" /\ state[Peer(sink)] = "attached_src"
                /\ vbus[sink] = 2 /\ supply[Peer(sink)] = "on"
Undirected == UNCHANGED <<apart, pin, lag, plugs>>

\* enter_swap_standby at the sink
BeginSwap(sink) ==
  /\ IsDrp(sink) /\ IsDrp(Peer(sink)) /\ allowed[sink]
  /\ Agreed(sink) /\ Begins("swap")
  /\ Direct(sink, "swap_to_source") /\ SupplyFollows /\ Undirected

\* hard_reset_window at the sink
BeginHardReset(sink) ==
  /\ Agreed(sink) /\ Begins("hard_reset")
  /\ Direct(sink, "hard_reset") /\ SupplyFollows /\ Undirected

\* request_error_recovery
BeginErrorRecovery(p) ==
  /\ state[p] \in Connected /\ Begins("error_recovery")
  /\ Direct(p, "error_recovery") /\ SupplyFollows /\ Undirected

\* the source's engine turns its supply off, for either of the first two
Cut(source) ==
  /\ In /\ state[source] = "attached_src" /\ supply[source] = "on"
  /\ \/ state[Peer(source)] = "swap_standby_to_src"
        /\ supply' = [supply EXCEPT ![source] = "off_to_swap"]
     \/ state[Peer(source)] = "hard_reset_snk"
        /\ supply' = [supply EXCEPT ![source] = "off_to_reset"]
  /\ UNCHANGED vars /\ UNCHANGED <<apart, pin, lag, plugs, directed>>

\* the supply settled and tSrcRecover is over, which is time enough for the
\* sink's driver to see VBUS gone
Restore(source) ==
  /\ supply[source] = "off_to_reset" /\ vbus[source] = 0
  /\ state[Peer(source)] # "hard_reset_snk"
  /\ supply' = [supply EXCEPT ![source] = "on"]
  /\ UNCHANGED vars /\ UNCHANGED <<apart, pin, lag, plugs, directed>>

\* assert_new_role at the old source, its supply settled at 0 V
AssertRd(source) ==
  /\ supply[source] = "off_to_swap" /\ vbus[source] = 0
  /\ Direct(source, "swap_to_sink") /\ SupplyFollows /\ RestOfEnv

\* assert_new_role at the old sink, on the old source's PS_RDY
AssertRp(sink) ==
  /\ In
  /\ state[sink] = "swap_standby_to_src" /\ state[Peer(sink)] = "swap_standby_to_snk"
  /\ Direct(sink, "swap_complete") /\ SupplyFollows /\ RestOfEnv

\* swap_completed, on the new source's PS_RDY
SwapCompleted(source) ==
  /\ In
  /\ state[source] = "swap_standby_to_snk" /\ state[Peer(source)] = "attached_src"
  /\ vbus[source] = 2
  /\ Direct(source, "swap_complete") /\ SupplyFollows /\ RestOfEnv

Engine(p) ==
  \/ BeginSwap(p) \/ BeginHardReset(p) \/ BeginErrorRecovery(p)
  \/ Cut(p) \/ Restore(p) \/ AssertRd(p) \/ AssertRp(p) \/ SwapCompleted(p)

PortWork(p) ==
  \/ LinkStart(p) \/ LinkDetected(p) \/ LinkDebounced(p) \/ LinkTimeout(p)
  \/ LinkVbusReport(p) \/ LinkReport(p)

LinkInit ==
  /\ Init /\ (\A p \in Port : allowed[p] <=> p \notin Locked)
  /\ apart = Gap
  /\ pin = [p \in Port |-> "cc1"]
  /\ lag = 0 /\ plugs = 0 /\ directed = 0
  /\ supply = [p \in Port |-> "on"]

LinkNext ==
  \/ \E p \in Port : PortWork(p) \/ Engine(p) \/ LinkLock(p)
  \/ LinkTick \/ Settle \/ Pulled \/ PluggedIn

\* ports that were started run, time passes and the engine of a source
\* brings its supply back; nothing says anyone swaps, resets or plugs
LinkFairness ==
  /\ WF_linkVars(LinkTick) /\ WF_linkVars(Settle)
  /\ \A p \in Port : WF_linkVars(PortWork(p))
                     /\ WF_linkVars(Restore(p)) /\ WF_linkVars(AssertRd(p))

LinkSpec == LinkInit /\ [][LinkNext]_linkVars /\ LinkFairness

-----------------------------------------------------------------------------
LinkTypeOK ==
  /\ TypeOK
  /\ apart \in {Off} \cup 0..Gap
  /\ pin \in [Port -> Pin]
  /\ lag \in 0..VbusLag
  /\ supply \in [Port -> {"on", "off_to_swap", "off_to_reset"}]
  /\ plugs \in 0..MaxPlugs
  /\ directed \in 0..MaxDirected

\* Never do both ends drive VBUS: through Try.SRC, role swaps that stop half
\* way, resets and replugs, a port applies power only when the other's
\* switch is off.
NeverTwoSources == In => \E p \in Port : Path(state[p]) # "safe5v"

\* Both ends of a cable hold its true orientation while they are attached to
\* each other, also after a replug the other way round.
TruePlug ==
  \A p \in Port :
    In /\ state[p] \in Attached /\ state[Peer(p)] \in Attached /\ ~Owes(p)
      => attachment[p].orientation = pin[p]

\* Ports attached to each other stay: no debounce, wall or toggle of theirs
\* ends a connection that nobody pulled or directed away.
Together ==
  In /\ \E p \in Port : state[p] = "attached_snk" /\ state[Peer(p)] = "attached_src"
Stays ==
  [][Together /\ vbus[A] = 2 /\ apart' = apart /\ directed' = directed /\ supply = [p \in Port |-> "on"]
       => Together']_linkVars

\* A cable left in ends with the two ports attached in opposite roles,
\* whatever was pulled, swapped, reset or lost before.  The one way not to get
\* there is what RemovalEnds is about: a port waits for VBUS to fall which the
\* other, powering the Rd it presents, holds up.
HeldUp == \E p \in Port : state[p] = "removing_vbus" /\ state[Peer(p)] = "attached_src"
Connects == <>[]In => <>[](Together \/ HeldUp)

\* A port that removes VBUS gets it removed: state/TypeCDrp.hpp:302, the
\* state after it detects a source that presented Rp meanwhile.
RemovalEnds == \A p \in Port : state[p] = "removing_vbus" ~> state[p] # "removing_vbus"

\* The preference decides a connection: a port that prefers to source does,
\* when its partner prefers nothing, and is connected to a sink, or to a port
\* that waits for ever for the VBUS it holds up (HeldUp).  Before it is
\* plugged in again the cable stays out (Gap) until the port has left the Try
\* states of the connection before, in which it may meet a source.
PreferenceWins ==
  \A p \in Port :
    Table[p] = "drp_source" /\ Table[Peer(p)] = "drp_none" /\ <>[]In
      => <>[](state[p] = "attached_src" /\ (state[Peer(p)] = "attached_snk" \/ HeldUp))

\* A cable pulled for good is noticed by both ends.
Disconnects == <>[](~In) => <>[](\A p \in Port : state[p] \notin Connected)
=============================================================================
