-------------------------- MODULE TypeCLinkProofs --------------------------
(* Theorems about TypeCLink: two ports on a cable are two ports of TypeC,   *)
(* never do both of them drive VBUS, and what they hold of the plug is      *)
(* true, for any two tables, any times and any cable, resets and swaps; the *)
(* last if a cable stays out as long as a port may take to notice.          *)
EXTENDS TypeCLink, TypeCProofs

\* There are two ports, each the other's peer.
LEMMA Ports == A # B /\ Port = {A, B} /\ \A p \in Port : Peer(p) \in Port /\ Peer(p) # p
BY LinkAssumption DEF Peer

-----------------------------------------------------------------------------
(* The steps on a cable are steps of the ports.                             *)

\* While the cable is in, VBUS is one conductor.
OneConductor == In => vbus[A] = vbus[B]

\* The switches drive VBUS to vSafe5V or vSafe0V.
LEMMA DrivenType == \A p \in Port : Driven(p) \in {0, 2}
BY DEF Driven

\* What a driver measures is what the port's pull lets it see.
LEMMA LineVisible ==
  ASSUME LinkTypeOK, NEW p \in Port
  PROVE  Line(p) \in Visible(state[p])
<1>1. CASE In /\ {Pull(state[p]), Pull(state[Peer(p)])} = {"rp", "rd"}
  <2>1. pin[p] \in Pin
    BY DEF LinkTypeOK
  <2>2. \/ Pull(state[p]) = "rp" /\ Pull(state[Peer(p)]) = "rd"
        \/ Pull(state[p]) = "rd" /\ Pull(state[Peer(p)]) = "rp"
    BY <1>1
  <2>3. Line(p) = [sees |-> Pull(state[Peer(p)]), pins |-> {pin[p]}]
    BY <1>1 DEF Line
  <2> QED
    BY <2>1, <2>2, <2>3 DEF Visible, Status
<1>2. CASE ~(In /\ {Pull(state[p]), Pull(state[Peer(p)])} = {"rp", "rd"})
  BY <1>2 DEF Line, OpenLine, Visible, Status
<1> QED
  BY <1>1, <1>2

\* VBUS settling is VBUS moving at one port or along the cable.
LEMMA SettleMoves ==
  ASSUME LinkTypeOK, OneConductor, Settle
  PROVE  /\ \E ports \in {{p} : p \in Port} \cup {Port} : \E v \in Voltage : Moves(ports, v)
         /\ OneConductor'
<1>1. PICK p \in Port :
        /\ vbus[p] # Driven(p)
        /\ vbus' = [q \in Port |-> IF q \in Bus(p) THEN Step(vbus[q], Driven(q)) ELSE vbus[q]]
  BY DEF Settle
<1>2. UNCHANGED <<state, attachment, timer, watcher, told, allowed, apart>>
  BY DEF Settle
<1> DEFINE v == Step(vbus[p], Driven(p))
<1>3. v \in Voltage
  BY <1>1, DrivenType DEF LinkTypeOK, TypeOK, Voltage, Step
<1>4. CASE In
  <2>1. \A q \in Port : Driven(q) = Driven(p) /\ vbus[q] = vbus[p]
    BY <1>4, Ports DEF Driven, Bus, OneConductor
  <2>2. vbus' = [q \in Port |-> IF q \in Port THEN v ELSE vbus[q]]
    BY <1>1, <1>4, <2>1 DEF Bus
  <2> QED
    BY <1>2, <1>3, <2>2, Ports DEF Moves, OneConductor
<1>5. CASE ~In
  <2>1. vbus' = [q \in Port |-> IF q \in {p} THEN v ELSE vbus[q]]
    BY <1>1, <1>5 DEF Bus
  <2>2. Moves({p}, v)
    BY <1>2, <2>1 DEF Moves
  <2> QED
    BY <1>2, <1>3, <1>5, <2>2 DEF OneConductor, In
<1> QED
  BY <1>4, <1>5

\* What a step on the cable does: a port handles an event, a driver reports
\* the line, or a step that leaves every state and status as it is.
LinkHandles(p, e) ==
  /\ Handles(p, e)
  /\ e # "swap_abort"
  /\ e = "swap_complete" =>
       state[p] # "swap_standby_to_src" \/ state[Peer(p)] = "swap_standby_to_snk"

\* Every step is one of those, or leaves the ports as they are.
LEMMA LinkSteps ==
  ASSUME LinkNext
  PROVE  \/ \E p \in Port : \E e : LinkHandles(p, e)
         \/ \E p \in Port : Report(p, Line(p))
         \/ \E p \in Port : Debounced(p)
         \/ \E p \in Port : Lock(p)
         \/ Tick \/ Settle \/ UNCHANGED vars
<1>1. ASSUME NEW p \in Port, Start(p)
      PROVE  LinkHandles(p, "started")
  BY <1>1 DEF Start, LinkHandles, Handles, VbusEvents
<1>2. ASSUME NEW p \in Port, Detected(p)
      PROVE  LinkHandles(p, "cc_detected")
  BY <1>2 DEF Detected, LinkHandles, Handles, VbusEvents
<1>3. ASSUME NEW p \in Port, Timeout(p)
      PROVE  LinkHandles(p, "timeout")
  BY <1>3 DEF Timeout, Idle, LinkHandles, Handles, VbusEvents
<1>4. ASSUME NEW p \in Port, VbusReport(p)
      PROVE  LinkHandles(p, VbusEvent(Level(state[p]), Reading(p) = "met"))
  BY <1>4, VbusEventIsOne DEF VbusReport, Idle, LinkHandles, Handles, VbusEvents
<1>5. ASSUME NEW p \in Port, NEW e \in Directives \ {"swap_complete", "swap_abort"}, Direct(p, e)
      PROVE  LinkHandles(p, e)
  BY <1>5 DEF Direct, Idle, LinkHandles, Handles, VbusEvents, Directives
<1>6. ASSUME NEW p \in Port, AssertRp(p) \/ SwapCompleted(p)
      PROVE  LinkHandles(p, "swap_complete")
  BY <1>6 DEF AssertRp, SwapCompleted, Direct, Idle, LinkHandles, Handles, VbusEvents
<1>7. ASSUME NEW p \in Port, Engine(p)
      PROVE  UNCHANGED vars \/ \E e : LinkHandles(p, e)
  BY <1>5, <1>6, <1>7 DEF Engine, BeginSwap, BeginHardReset, BeginErrorRecovery, Cut, Restore,
    AssertRd, Directives
<1>8. ASSUME NEW p \in Port, PortWork(p)
      PROVE  Report(p, Line(p)) \/ Debounced(p) \/ \E e : LinkHandles(p, e)
  BY <1>1, <1>2, <1>3, <1>4, <1>8 DEF PortWork, LinkStart, LinkDetected, LinkDebounced,
    LinkTimeout, LinkVbusReport, LinkReport
<1> QED
  BY <1>7, <1>8 DEF LinkNext, LinkLock, LinkTick, Pulled, PluggedIn

\* A step on the cable is a step of TypeC or leaves it alone.
LEMMA LinkStepIsPortStep ==
  ASSUME LinkTypeOK, OneConductor, LinkNext
  PROVE  [Next]_vars
<1>1. ASSUME NEW p \in Port, PortWork(p)
      PROVE  Next
  BY <1>1, LineVisible DEF PortWork, LinkStart, LinkDetected, LinkDebounced,
    LinkTimeout, LinkVbusReport, LinkReport, Next, PortStep
<1>2. ASSUME NEW p \in Port, Engine(p)
      PROVE  [Next]_vars
  <2>1. ASSUME NEW e \in Directives, Direct(p, e)
        PROVE  Next
    BY <2>1 DEF Next
  <2> QED
    BY <1>2, <2>1 DEF Engine, BeginSwap, BeginHardReset, BeginErrorRecovery, Cut, Restore,
      AssertRd, AssertRp, SwapCompleted, Directives
<1>3. ASSUME Settle
      PROVE  Next
  BY <1>3, SettleMoves DEF Next
<1> QED
  BY <1>1, <1>2, <1>3 DEF LinkNext, LinkLock, LinkTick, Pulled, PluggedIn, Next

-----------------------------------------------------------------------------
(* Types, and the cable's ports as ports of TypeC.                          *)

\* The inductive invariant of the types: VBUS settles along the cable as one.
LinkInv == LinkTypeOK /\ OfTable /\ OneConductor

\* The environment's variables keep their types.
LEMMA EnvTypes ==
  ASSUME LinkTypeOK, LinkNext
  PROVE  /\ apart' \in {Off} \cup 0..Gap
         /\ pin' \in [Port -> Pin]
         /\ lag' \in 0..VbusLag
         /\ supply' \in [Port -> {"on", "off_to_swap", "off_to_reset"}]
         /\ plugs' \in 0..MaxPlugs
         /\ directed' \in 0..MaxDirected
<1> USE LinkAssumption DEF LinkTypeOK, Ticks, Off
<1>1. ASSUME NEW p \in Port, PortWork(p) \/ LinkLock(p)
      PROVE  UNCHANGED <<apart, pin, lag, plugs, directed>> /\ SupplyFollows
  BY <1>1 DEF PortWork, LinkStart, LinkDetected, LinkDebounced, LinkTimeout, LinkVbusReport,
    LinkReport, LinkLock, RestOfEnv
<1>2. ASSUME SupplyFollows
      PROVE  supply' \in [Port -> {"on", "off_to_swap", "off_to_reset"}]
  BY <1>2 DEF SupplyFollows
<1>3. ASSUME NEW p \in Port, Engine(p)
      PROVE  /\ UNCHANGED <<apart, pin, lag, plugs>> /\ directed' \in 0..MaxDirected
             /\ supply' \in [Port -> {"on", "off_to_swap", "off_to_reset"}]
  BY <1>2, <1>3 DEF Engine, BeginSwap, BeginHardReset, BeginErrorRecovery, Cut, Restore,
    AssertRd, AssertRp, SwapCompleted, Begins, Undirected, RestOfEnv
<1>4. ASSUME LinkTick
      PROVE  /\ lag' \in 0..VbusLag /\ apart' \in {Off} \cup 0..Gap
             /\ UNCHANGED <<pin, supply, plugs, directed>>
  BY <1>4 DEF LinkTick
<1>5. ASSUME Settle
      PROVE  lag' = 0 /\ UNCHANGED <<apart, pin, supply, plugs, directed>>
  BY <1>5 DEF Settle
<1>6. ASSUME Pulled
      PROVE  apart' = 0 /\ UNCHANGED <<pin, lag, supply, plugs, directed>>
  BY <1>6 DEF Pulled
<1>7. ASSUME PluggedIn
      PROVE  /\ apart' = Off /\ plugs' \in 0..MaxPlugs /\ pin' \in [Port -> Pin]
             /\ UNCHANGED <<lag, supply, directed>>
  BY <1>7 DEF PluggedIn
<1> QED
  BY <1>1, <1>2, <1>3, <1>4, <1>5, <1>6, <1>7 DEF LinkNext

\* VBUS stays one conductor.
LEMMA ConductorStays ==
  ASSUME LinkTypeOK, OneConductor, LinkNext
  PROVE  OneConductor'
<1>1. ASSUME UNCHANGED <<vbus, apart>>
      PROVE  OneConductor'
  BY <1>1 DEF OneConductor, In
<1>2. ASSUME NEW p \in Port, PortWork(p) \/ Engine(p) \/ LinkLock(p)
      PROVE  UNCHANGED <<vbus, apart>>
  BY <1>2 DEF PortWork, LinkStart, LinkDetected, LinkDebounced, LinkTimeout, LinkVbusReport,
    LinkReport, LinkLock, RestOfEnv, Engine, BeginSwap, BeginHardReset, BeginErrorRecovery,
    Cut, Restore, AssertRd, AssertRp, SwapCompleted, Undirected, Start, Detected, Debounced,
    Timeout, VbusReport, Report, Lock, Direct, vars
<1>3. ASSUME LinkTick
      PROVE  OneConductor'
  BY <1>3, LinkAssumption DEF LinkTick, Tick, OneConductor, In, LinkTypeOK, Off, Ticks
<1>4. ASSUME Pulled \/ PluggedIn
      PROVE  OneConductor'
  BY <1>4, Ports DEF Pulled, PluggedIn, OneConductor, In, Off, vars
<1> QED
  BY <1>1, <1>2, <1>3, <1>4, SettleMoves DEF LinkNext

\* The types and the one conductor are inductive.
LEMMA LinkInvStays == LinkInv /\ [LinkNext]_linkVars => LinkInv'
<1> SUFFICES ASSUME LinkInv, [LinkNext]_linkVars
             PROVE  LinkInv'
  OBVIOUS
<1>1. CASE LinkNext
  <2>1. TypeOK' /\ OfTable'
    BY <1>1, LinkStepIsPortStep, TypesStay DEF LinkInv, LinkTypeOK
  <2> QED
    BY <1>1, <2>1, EnvTypes, ConductorStays DEF LinkInv, LinkTypeOK
<1>2. CASE UNCHANGED linkVars
  BY <1>2 DEF LinkInv, LinkTypeOK, TypeOK, OfTable, OneConductor, In, linkVars, env, vars
<1> QED
  BY <1>1, <1>2

\* They hold at the start.
LEMMA LinkInvInit == LinkInit => LinkInv
BY TypesInit, LinkAssumption, Ports DEF LinkInit, Init, LinkInv, LinkTypeOK, OneConductor, Pin,
  Ticks, Off

\* The ports and the cable keep their types.
THEOREM LinkTypeCorrect == LinkSpec => []LinkTypeOK
<1>1. LinkInv => LinkTypeOK
  BY DEF LinkInv
<1> QED
  BY <1>1, LinkInvInit, LinkInvStays, PTL DEF LinkSpec

\* Ports on a cable do nothing a port of TypeC may not: what holds of every
\* port holds of them.
THEOREM PortsOnACable == LinkSpec => Spec
<1>1. LinkInit => Init
  BY DEF LinkInit
<1>2. LinkInv /\ [LinkNext]_linkVars => [Next]_vars
  BY LinkStepIsPortStep DEF LinkInv, linkVars
<1> QED
  BY <1>1, <1>2, LinkInvInit, LinkInvStays, PTL DEF LinkSpec, Spec

-----------------------------------------------------------------------------
(* Never two sources.  A port comes to Attached.SRC on a Rd it detected; a  *)
(* Rd is only ever reported while the other port presents it, when that one *)
(* is no source and holds no Rd report of its own.  So of the two at most   *)
(* one is a source or holds a report that may make it one.                  *)

SeesRd(p) == watcher[p].reported /\ watcher[p].status.sees = "rd"
Claims(p) == state[p] = "attached_src" \/ SeesRd(p)
OneClaims == ~(Claims(A) /\ Claims(B))

\* A port waiting for vSafe0V to attach sees Rd, or has a detection queued.
HeldSeesRd == \A p \in Port : state[p] \in RdHeld /\ ~watcher[p].due => SeesRd(p)

\* A row into Attached.SRC: on a detected Rd, on vSafe0V after one, or by a swap.
LEMMA TargetSource ==
  ASSUME NEW p \in Port, NEW e, NEW s \in Target(p, e), s = "attached_src"
  PROVE  \/ e = "cc_detected" /\ SingleRd(Cc(p))
         \/ e = "vbus_reached_safe0v" /\ state[p] \in RdHeld
         \/ e = "swap_complete" /\ state[p] = "swap_standby_to_src"
         \/ e = "swap_abort"
BY DEF Target, EntryFlow, ErrorRecoveryFlow, SinkAttachFlow, HardResetFlow, SourceAttachFlow,
  ToggleFlow, SwapFlow, TrySrcFlow, TrySnkFlow, Row, On, RdHeld

\* Out of a wait for vSafe0V a row leads on whatever is detected.
LEMMA HeldLeads ==
  ASSUME NEW p \in Port, OfTable, state[p] \in RdHeld
  PROVE  Target(p, "cc_detected") # {}
<1>1. state[p] \in StatesOf(Table[p]) /\ Table[p] \in Tables
  BY TableOf DEF OfTable
<1> QED
  BY <1>1 DEF Target, SourceAttachFlow, TrySnkFlow, Row, On, SinkPresent, SingleRd, IsDrp, Tables,
    StatesOf, SinkStates, SourceStates, DrpStates, TrySrcStates, TrySnkStates, Standby, RdHeld

\* Evaluating a rule leaves the report alone.
LEMMA EvaluatedKeeps ==
  ASSUME NEW w \in Watcher, NEW rule
  PROVE  /\ Evaluated(w, rule).status = w.status /\ Evaluated(w, rule).reported = w.reported
         /\ w.due => Evaluated(w, rule).due
BY DEF Evaluated, Watcher

\* Entering a state keeps the report's status.
LEMMA WatcherOnKeeps ==
  ASSUME NEW p \in Port, watcher[p] \in Watcher, NEW s
  PROVE  /\ WatcherOn(p, s).status = watcher[p].status
         /\ WatcherOn(p, s).reported = StillReported(p, s)
<1> DEFINE w == [watcher[p] EXCEPT !.due = FALSE, !.reported = StillReported(p, s)]
<1>1. StillReported(p, s) \in BOOLEAN
  BY DEF StillReported, Watcher
<1>2. /\ w \in Watcher /\ w.status = watcher[p].status /\ w.reported = StillReported(p, s)
      /\ [w EXCEPT !.pending = Off] \in Watcher
      /\ [w EXCEPT !.pending = Off].status = w.status
      /\ [w EXCEPT !.pending = Off].reported = w.reported
  BY <1>1 DEF Watcher
<1> QED
  BY <1>2, EvaluatedKeeps DEF WatcherOn

\* Handling an event makes no port claim that did not, but for a role swap
\* whose other end is no source and sees no Rd.
LEMMA HandlesClaims ==
  ASSUME LinkInv, DetectionsFitThePull, HeldSeesRd, NEW p \in Port, NEW e, LinkHandles(p, e)
  PROVE  /\ HeldSeesRd'
         /\ Claims(p)' => Claims(p) \/ ~Claims(Peer(p))
         /\ Claims(Peer(p))' = Claims(Peer(p))
<1>1. watcher[p] \in Watcher /\ state \in [Port -> State] /\ watcher \in [Port -> Watcher]
  BY DEF LinkInv, LinkTypeOK, TypeOK
<1>2. \A q \in Port \ {p} : state'[q] = state[q] /\ watcher'[q] = watcher[q]
  BY <1>1 DEF LinkHandles, Handles, Process, Enter
<1>3. e = "cc_detected" => watcher[p].reported
  BY DEF LinkHandles, Handles, DetectionsFitThePull
<1>4. ASSUME NEW s \in Target(p, e), Enter(p, e, s)
      PROVE  /\ s \in RdHeld => SeesRd(p)'
             /\ Claims(p)' => Claims(p) \/ ~Claims(Peer(p))
  <2>1. state'[p] = s /\ watcher'[p] = WatcherOn(p, s)
    BY <1>1, <1>4 DEF Enter
  <2>2. SeesRd(p)' <=> SeesRd(p) /\ StillReported(p, s)
    <3>1. watcher'[p].status = watcher[p].status /\ watcher'[p].reported = StillReported(p, s)
      BY <1>1, <2>1, WatcherOnKeeps
    <3>2. StillReported(p, s) => watcher[p].reported
      BY DEF StillReported
    <3> QED
      BY <3>1, <3>2 DEF SeesRd
  <2>3. SeesRd(p) => Pull(state[p]) = "rp"
    BY DEF SeesRd, DetectionsFitThePull, Visible
  <2>4. s \in RdHeld => SeesRd(p)'
    <3>1. s \in RdHeld => SeesRd(p) /\ Pull(s) = "rp"
      BY <1>3, TargetHeld DEF SeesRd, SingleRd, Cc, RdHeld, Pull, RpStates
    <3> QED
      BY <2>2, <2>3, <3>1 DEF StillReported, SeesRd
  <2>5. s = "attached_src" => Claims(p) \/ ~Claims(Peer(p))
    <3>1. CASE e = "cc_detected" /\ SingleRd(Cc(p))
      BY <1>3, <3>1 DEF Claims, SeesRd, SingleRd, Cc
    <3>2. CASE e = "vbus_reached_safe0v" /\ state[p] \in RdHeld
      BY <3>2 DEF LinkHandles, Handles, HeldSeesRd, Claims
    <3>3. CASE e = "swap_complete" /\ state[p] = "swap_standby_to_src"
      <4>1. state[Peer(p)] = "swap_standby_to_snk"
        BY <3>3 DEF LinkHandles
      <4> QED
        BY <4>1, Ports DEF Claims, SeesRd, DetectionsFitThePull, Visible, Pull, RpStates, RdStates
    <3> QED
      BY <3>1, <3>2, <3>3, TargetSource DEF LinkHandles
  <2> QED
    BY <2>1, <2>2, <2>4, <2>5 DEF Claims
<1>5. ASSUME Target(p, e) = {}, state' = state, watcher' = [watcher EXCEPT ![p].due = FALSE]
      PROVE  /\ state'[p] \in RdHeld => SeesRd(p)'
             /\ Claims(p)' = Claims(p)
  <2>1. watcher'[p].reported = watcher[p].reported /\ watcher'[p].status = watcher[p].status
    BY <1>1, <1>5 DEF Watcher
  <2>2. state[p] \in RdHeld => ~watcher[p].due
    BY <1>5, HeldLeads DEF LinkInv, LinkHandles, Handles, RdHeld
  <2> QED
    BY <1>5, <2>1, <2>2 DEF Claims, SeesRd, HeldSeesRd
<1>6. /\ state'[p] \in RdHeld => SeesRd(p)'
      /\ Claims(p)' => Claims(p) \/ ~Claims(Peer(p))
  <2>1. CASE \E s \in Target(p, e) : Enter(p, e, s)
    <3>1. PICK s \in Target(p, e) : Enter(p, e, s)
      BY <2>1
    <3>2. state'[p] = s
      BY <1>1, <3>1 DEF Enter
    <3> QED
      BY <1>4, <3>1, <3>2
  <2>2. CASE /\ Target(p, e) = {} /\ state' = state
             /\ watcher' = [watcher EXCEPT ![p].due = FALSE]
    BY <1>5, <2>2
  <2> QED
    BY <2>1, <2>2 DEF LinkHandles, Handles, Process
<1>7. Claims(Peer(p))' = Claims(Peer(p))
  BY <1>2, Ports DEF Claims, SeesRd
<1> QED
  BY <1>2, <1>6, <1>7 DEF HeldSeesRd, SeesRd

\* A Rd is reported only while the other port presents it.
LEMMA ReportClaims ==
  ASSUME LinkInv, DetectionsFitThePull, HeldSeesRd, NEW p \in Port, Report(p, Line(p))
  PROVE  /\ HeldSeesRd'
         /\ Claims(p)' => Claims(p) \/ ~Claims(Peer(p))
         /\ Claims(Peer(p))' = Claims(Peer(p))
<1> DEFINE w == [watcher[p] EXCEPT !.status = Line(p), !.reported = TRUE]
           v == Evaluated(w, Rule(state[p]))
<1>1. watcher[p] \in Watcher /\ watcher \in [Port -> Watcher] /\ Line(p) \in Visible(state[p])
  BY LineVisible DEF LinkInv, LinkTypeOK, TypeOK
<1>2. w \in Watcher /\ w.status = Line(p) /\ w.reported
  BY <1>1 DEF Watcher, Visible
<1>3. watcher' = [watcher EXCEPT ![p] = v] /\ state' = state
  BY DEF Report
<1>4. watcher'[p] = v /\ v.status = Line(p) /\ v.reported
  BY <1>1, <1>2, <1>3, EvaluatedKeeps
<1>5. Line(p).sees = "rd" => ~Claims(Peer(p))
  <2>1. Line(p).sees = "rd" => Pull(state[Peer(p)]) = "rd"
    BY DEF Line, OpenLine
  <2>2. Pull(state[Peer(p)]) = "rd" => ~Claims(Peer(p))
    BY Ports DEF Claims, SeesRd, DetectionsFitThePull, Visible, Pull, RpStates
  <2> QED
    BY <2>1, <2>2
<1>6. state[p] \in RdHeld /\ Line(p).sees # "rd" => v.due
  <2>1. state[p] \in RdHeld => Pull(state[p]) = "rp" /\ Rule(state[p]) # NoRule /\ Rule(state[p]).open = 0
    BY TimeAssumption DEF RdHeld, Pull, RpStates, Rule, NoRule, Debounce, Ticks
  <2>2. state[p] \in RdHeld /\ Line(p).sees # "rd" => Line(p).sees = "open"
    BY <1>1, <2>1 DEF Visible
  <2> QED
    BY <1>2, <2>1, <2>2 DEF Evaluated, Watcher
<1>7. \A q \in Port \ {p} : watcher'[q] = watcher[q]
  BY <1>1, <1>3
<1>8. HeldSeesRd'
  BY <1>3, <1>4, <1>6, <1>7 DEF HeldSeesRd, SeesRd
<1>9. Claims(Peer(p))' = Claims(Peer(p))
  BY <1>3, <1>7, Ports DEF Claims, SeesRd
<1> QED
  BY <1>3, <1>4, <1>5, <1>8, <1>9 DEF Claims, SeesRd

\* No other step adds a claim.
LEMMA OtherClaims ==
  ASSUME LinkInv, HeldSeesRd, OneClaims,
         \/ \E p \in Port : Debounced(p)
         \/ \E p \in Port : Lock(p)
         \/ Tick \/ Settle \/ UNCHANGED vars
  PROVE  HeldSeesRd' /\ OneClaims'
<1>1. watcher \in [Port -> Watcher]
  BY DEF LinkInv, LinkTypeOK, TypeOK
<1>2. state' = state
  BY DEF Debounced, Lock, Tick, Settle, vars
<1>3. \A q \in Port : /\ watcher'[q].status = watcher[q].status
                      /\ watcher'[q].reported = watcher[q].reported
                      /\ watcher[q].due => watcher'[q].due
  <2>1. ASSUME NEW p \in Port, Debounced(p), NEW q \in Port
        PROVE  /\ watcher'[q].status = watcher[q].status
               /\ watcher'[q].reported = watcher[q].reported
               /\ watcher[q].due => watcher'[q].due
    <3>1. watcher' = [watcher EXCEPT ![p] = [watcher[p] EXCEPT !.pending = Off, !.due = TRUE]]
      BY <1>1, <2>1 DEF Debounced, Watcher
    <3> QED
      BY <1>1, <3>1 DEF Watcher
  <2>2. CASE \E p \in Port : Debounced(p)
    BY <2>1, <2>2
  <2>3. CASE Tick
    BY <1>1, <2>3 DEF Tick, Watcher
  <2>4. CASE (\E p \in Port : Lock(p)) \/ Settle \/ UNCHANGED vars
    BY <2>4 DEF Lock, Settle, vars
  <2> QED
    BY <2>2, <2>3, <2>4
<1> QED
  BY <1>2, <1>3, Ports DEF HeldSeesRd, OneClaims, Claims, SeesRd

\* Of the two ports at most one claims to be the source.
LEMMA OneClaim == LinkSpec => [](HeldSeesRd /\ OneClaims)
<1> DEFINE Inv == HeldSeesRd /\ OneClaims
<1>1. LinkInit => Inv
  BY Ports DEF LinkInit, Init, HeldSeesRd, OneClaims, Claims, SeesRd, RdHeld
<1>2. LinkInv /\ DetectionsFitThePull /\ Inv /\ [LinkNext]_linkVars => Inv'
  <2> SUFFICES ASSUME LinkInv, DetectionsFitThePull, HeldSeesRd, OneClaims, [LinkNext]_linkVars
               PROVE  HeldSeesRd' /\ OneClaims'
    OBVIOUS
  <2>1. ASSUME NEW p \in Port,
               Claims(p)' => Claims(p) \/ ~Claims(Peer(p)), Claims(Peer(p))' = Claims(Peer(p))
        PROVE  OneClaims'
    BY <2>1, Ports DEF OneClaims, Peer
  <2>2. ASSUME NEW p \in Port, NEW e, LinkHandles(p, e)
        PROVE  HeldSeesRd' /\ OneClaims'
    BY <2>1, <2>2, HandlesClaims
  <2>3. ASSUME NEW p \in Port, Report(p, Line(p))
        PROVE  HeldSeesRd' /\ OneClaims'
    BY <2>1, <2>3, ReportClaims
  <2>4. ASSUME UNCHANGED linkVars
        PROVE  UNCHANGED vars
    BY <2>4 DEF linkVars
  <2> QED
    BY <2>2, <2>3, <2>4, OtherClaims, LinkSteps
<1>3. LinkSpec => []DetectionsFitThePull
  BY PortsOnACable, DetectionsFit, PTL
<1> QED
  BY <1>1, <1>2, <1>3, LinkInvInit, LinkInvStays, PTL DEF LinkSpec

\* Never do both ends drive VBUS.
THEOREM NeverTwo == LinkSpec => []NeverTwoSources
<1>1. OneClaims => NeverTwoSources
  BY Ports DEF OneClaims, Claims, NeverTwoSources, Path, Sourcing, Discharging
<1> QED
  BY <1>1, OneClaim, PTL
-----------------------------------------------------------------------------
(* The true plug.  A cable that stays out long enough outlasts every state  *)
(* that holds a connection or waits on a detection, but for a sink or a     *)
(* Try.SRC on whose VBUS nothing rises: such a port is stale, and before    *)
(* its partner can drive VBUS it has reported the wire as it is now.        *)

\* The cable stays out longer than a detach may take: the debounce and a swap's
\* standby after it, and both halves of a hard reset.
LongGap ==
  /\ Gap > tPDDebounce + tPSSourceOn
  /\ Gap > tPSSourceOff
  /\ Gap > 2 * tHardResetWindow

\* A termination is seen on the pin the wire is on, and not once a driver
\* could tell that the cable is out.
Seen ==
  \A p \in Port :
    /\ watcher[p].reported /\ watcher[p].status.sees # "open" =>
         apart \in {Off, 0} /\ watcher[p].status.pins = {pin[p]}
    /\ state[p] = "disabled" => ~watcher[p].reported

\* The states an open line ends after tPDDebounce.
OpenTimed == {"attached_src"} \cup RpHeld

\* The debounce that ends them runs, and so does the time of those held on the
\* PD layer's word.
EndsRun ==
  \A p \in Port :
    /\ state[p] \in OpenTimed /\ watcher[p].reported /\ watcher[p].status.sees = "open" =>
         watcher[p].due \/ watcher[p].pending \in 0..tPDDebounce
    /\ HoldTime(state[p]) # Off => timer[p] \in 0..HoldTime(state[p])

\* How long they last while the cable is out.
Lasts(s) == CASE s = "swap_standby_to_snk" -> tPDDebounce + tPSSourceOn
              [] s = "swap_standby_to_src" -> tPSSourceOff
              [] s = "hard_reset_snk" -> tHardResetWindow
              [] OTHER -> 2 * tHardResetWindow
Ending ==
  \A p \in Port :
    /\ apart # Off /\ HoldTime(state[p]) # Off => timer[p] + apart <= Lasts(state[p])
    /\ apart \notin {Off, 0} /\ state[p] \in OpenTimed =>
         /\ watcher[p].reported
         /\ apart <= tPDDebounce
         /\ watcher[p].due \/ watcher[p].pending \in 0..(tPDDebounce - apart)
    /\ apart \notin {Off, 0} => state[p] \notin RdHeld

\* A connection, and a detection that waits for VBUS, is of the wire as it is;
\* at rest there is none.
Tries == {"try_src", "try_src_until_safe0v", "try_src_timed_out",
          "try_wait_snk", "try_wait_snk_debounced"}
TryWaits == {"try_wait_snk", "try_wait_snk_debounced"}
HeldTruly ==
  \A p \in Port :
    /\ In /\ state[p] \in Connected \ {"attached_snk"} => attachment[p].orientation = pin[p]
    /\ In /\ state[p] \in RpHeld \cup RdHeld => attachment[p].detected.pins = {pin[p]}
    /\ state[p] \in {"unattached_snk", "attach_wait_snk", "removing_vbus"} =>
         ~SingleRp(attachment[p].detected)

\* What is left of an earlier plugging in.
Stale(p) ==
  \/ state[p] = "attached_snk" /\ attachment[p].orientation # pin[p]
  \/ /\ state[p] \in Tries /\ SingleRp(attachment[p].detected)
     /\ attachment[p].detected.pins # {pin[p]}

\* A port that takes a tick yet to become a source.
FarFromSource(q) ==
  /\ state[q] \notin {"attached_src"} \cup RdHeld
  /\ SeesRd(q) => \/ state[q] \in {"unattached_src", "unattached_wait_src"}
                  \/ ~watcher[q].due /\ watcher[q].pending # 0

\* Nobody drives VBUS to a stale port.
StaleAlone ==
  \A p \in Port :
    In /\ Stale(p) =>
      /\ vbus[p] < 2 /\ FarFromSource(Peer(p))
      /\ state[p] \in TryWaits =>
           ~(watcher[p].reported /\ watcher[p].status.sees = "rp" /\ ~watcher[p].due)

PlugInv == Seen /\ EndsRun /\ Ending /\ HeldTruly /\ StaleAlone

\* A row never leads back to before the start, and into a state an open line
\* ends only on a detected wire or by the last step of a swap.
LEMMA TargetOpenTimed ==
  ASSUME NEW p \in Port, NEW e, NEW s \in Target(p, e)
  PROVE  /\ s # "disabled"
         /\ s \in OpenTimed =>
              \/ e = "cc_detected" /\ (SingleRp(Cc(p)) \/ SingleRd(Cc(p)))
              \/ e = "vbus_reached_safe0v" /\ state[p] \in RdHeld
              \/ e = "swap_complete" /\ state[p] = "swap_standby_to_src"
              \/ e = "swap_abort"
<1>1. s # "disabled"
  BY DEF Target, EntryFlow, ErrorRecoveryFlow, SinkAttachFlow, HardResetFlow, SourceAttachFlow,
    ToggleFlow, SwapFlow, TrySrcFlow, TrySnkFlow, Row, On, TriesSource
<1> QED
  BY <1>1, TargetSource, TargetHeld DEF OpenTimed

\* An open line leads out of these states.
LEMMA OpenLeads ==
  ASSUME NEW p \in Port, OfTable, state[p] \in OpenTimed, Cc(p).sees = "open"
  PROVE  Target(p, "cc_detected") # {}
<1>1. state[p] \in StatesOf(Table[p]) /\ Table[p] \in Tables
  BY TableOf DEF OfTable
<1> QED
  BY <1>1 DEF Target, SourceAttachFlow, SinkAttachFlow, TrySnkFlow, Row, On, SourcePresent,
    SingleRd, IsDrp, Tables, StatesOf, SinkStates, SourceStates, DrpStates, TrySrcStates,
    TrySnkStates, Standby, OpenTimed, RpHeld

\* The states held on the PD layer's word are entered from a connection.
LEMMA TargetTimed ==
  ASSUME NEW p \in Port, NEW e, NEW s \in Target(p, e)
  PROVE  /\ s = "hard_reset_snk" => e = "hard_reset" /\ state[p] = "attached_snk"
         /\ s = "hard_reset_recover_snk" => e = "vbus_removed" /\ state[p] = "hard_reset_snk"
         /\ s = "swap_standby_to_src" => e = "swap_to_source" /\ state[p] = "attached_snk"
         /\ s = "swap_standby_to_snk" => e = "swap_to_sink" /\ state[p] = "attached_src"
BY DEF Target, EntryFlow, ErrorRecoveryFlow, SinkAttachFlow, HardResetFlow, SourceAttachFlow,
  ToggleFlow, SwapFlow, TrySrcFlow, TrySnkFlow, Row, On, TriesSource

\* A row into Attached.SNK.
LEMMA TargetSink ==
  ASSUME NEW p \in Port, NEW e, NEW s \in Target(p, e), s = "attached_snk"
  PROVE  \/ e = "cc_detected" /\ SingleRp(Cc(p))
         \/ e = "vbus_present" /\ state[p] \in RpHeld
         \/ e = "vbus_present" /\ state[p] = "hard_reset_recover_snk"
         \/ /\ e = "vbus_present" \/ (e = "timeout" /\ vbus[p] = 2)
            /\ state[p] \in TryWaits /\ SingleRp(attachment[p].detected)
         \/ e = "swap_complete" /\ state[p] = "swap_standby_to_snk"
         \/ e = "swap_abort"
BY DEF Target, EntryFlow, ErrorRecoveryFlow, SinkAttachFlow, HardResetFlow, SourceAttachFlow,
  ToggleFlow, SwapFlow, TrySrcFlow, TrySnkFlow, Row, On, RpHeld, TryWaits, VbusAtSafe5v

\* Rows into the states of Try.SRC that keep a detection, and into the first
\* wait for a source.
LEMMA TargetTries ==
  ASSUME NEW p \in Port, NEW e, NEW s \in Target(p, e)
  PROVE  /\ s \in Tries => state[p] \in Tries \cup {"attach_wait_snk", "removing_vbus"} \cup RpHeld
         /\ s \in TryWaits /\ state[p] \in TryWaits => e = "timeout"
         /\ s \in TryWaits => state[p] \notin {"attach_wait_snk"} \cup RpHeld
         /\ s = "attach_wait_snk" =>
              \/ state[p] = "unattached_snk"
              \/ e = "cc_detected" /\ SourcePresent(Cc(p)) /\ ~SingleRp(Cc(p))
BY DEF Target, EntryFlow, ErrorRecoveryFlow, SinkAttachFlow, HardResetFlow, SourceAttachFlow,
  ToggleFlow, SwapFlow, TrySrcFlow, TrySnkFlow, Row, On, TriesSource, Tries, TryWaits, RpHeld

\* No row leads from rest to a source at once.
LEMMA TargetFar ==
  ASSUME NEW p \in Port, NEW e, NEW s \in Target(p, e),
         s \in {"attached_src"} \cup RdHeld, e = "cc_detected"
  PROVE  state[p] \notin {"unattached_src", "unattached_wait_src"}
BY DEF Target, EntryFlow, ErrorRecoveryFlow, SinkAttachFlow, HardResetFlow, SourceAttachFlow,
  ToggleFlow, SwapFlow, TrySrcFlow, TrySnkFlow, Row, On, TriesSource, RdHeld

\* The states that present Rp and debounce a Rd, but for the waits at rest.
LEMMA RdDebounced ==
  ASSUME NEW s, Pull(s) = "rp",
         s \notin {"attached_src", "unattached_src", "unattached_wait_src"}
  PROVE  Rule(s) # NoRule /\ Rule(s).termination \in Nat \ {0}
BY TimeAssumption DEF Pull, RpStates, RdStates, Rule, NoRule, Debounce, Ticks

\* What an evaluation makes of the debounce.
LEMMA EvaluatedRuns ==
  ASSUME NEW w \in Watcher, NEW rule, w.reported, rule # NoRule
  PROVE  LET v == Evaluated(w, rule)
             open == w.status.sees = "open"
         IN  /\ open /\ rule.open # 0 => v.pending = rule.open /\ v.due = w.due
             /\ ~open /\ rule.termination # 0 => v.pending = rule.termination /\ v.due = w.due
             /\ ~open /\ rule.termination = 0 => v.due
BY DEF Evaluated, Watcher

\* What entering a state makes of it.
LEMMA WatcherOnRuns ==
  ASSUME NEW p \in Port, watcher[p] \in Watcher, NEW s
  PROVE  /\ Rule(s) = Rule(state[p]) =>
              WatcherOn(p, s).pending = watcher[p].pending /\ ~WatcherOn(p, s).due
         /\ Rule(s) # Rule(state[p]) /\ StillReported(p, s) /\ Rule(s) # NoRule
            /\ watcher[p].status.sees # "open" /\ Rule(s).termination # 0 =>
              WatcherOn(p, s).pending = Rule(s).termination /\ ~WatcherOn(p, s).due
<1> DEFINE w == [watcher[p] EXCEPT !.due = FALSE, !.reported = StillReported(p, s)]
           v == [w EXCEPT !.pending = Off]
<1>1. StillReported(p, s) \in BOOLEAN
  BY DEF StillReported, Watcher
<1>2. /\ w \in Watcher /\ ~w.due /\ w.pending = watcher[p].pending
      /\ v \in Watcher /\ ~v.due /\ v.reported = StillReported(p, s)
      /\ v.status = watcher[p].status
  BY <1>1 DEF Watcher
<1>3. Rule(s) = Rule(state[p]) => WatcherOn(p, s) = w
  BY DEF WatcherOn
<1>4. Rule(s) # Rule(state[p]) => WatcherOn(p, s) = Evaluated(v, Rule(s))
  BY DEF WatcherOn
<1>5. ASSUME StillReported(p, s), Rule(s) # NoRule, v.status.sees # "open", Rule(s).termination # 0
      PROVE  /\ Evaluated(v, Rule(s)).pending = Rule(s).termination
             /\ ~Evaluated(v, Rule(s)).due
  BY <1>2, <1>5, EvaluatedRuns
<1> HIDE DEF w, v
<1> QED
  BY <1>2, <1>3, <1>4, <1>5

-----------------------------------------------------------------------------
(* The steps, with what they do to the plug.                                *)

\* The port p enters s on the event e.
Entered(p, e, s) ==
  /\ s \in Target(p, e)
  /\ state'[p] = s /\ timer'[p] = Duration(p, s)
  /\ attachment'[p] = AttachmentOn(p, e, s)
  /\ watcher'[p] = WatcherOn(p, s)

\* No row takes the event.
Ignored(p, e) ==
  /\ Target(p, e) = {}
  /\ state'[p] = state[p] /\ timer'[p] = timer[p]
  /\ attachment'[p] = Internal(p, e)
  /\ watcher'[p].reported = watcher[p].reported
  /\ watcher'[p].pending = watcher[p].pending
  /\ ~watcher'[p].due

\* A port as it was.
Still(q) ==
  /\ state'[q] = state[q] /\ timer'[q] = timer[q] /\ attachment'[q] = attachment[q]
  /\ watcher'[q] = watcher[q]

\* Handling an event is one of the first two, and the other port's rest.
LEMMA Handled ==
  ASSUME TypeOK, NEW p \in Port, NEW e, Handles(p, e)
  PROVE  /\ (\E s : Entered(p, e, s)) \/ Ignored(p, e)
         /\ watcher'[p].status = watcher[p].status
         /\ \A q \in Port \ {p} : Still(q)
         /\ vbus' = vbus
<1> USE DEF TypeOK
<1>1. CASE \E s \in Target(p, e) : Enter(p, e, s)
  <2>1. PICK s \in Target(p, e) : Enter(p, e, s)
    BY <1>1
  <2>2. Entered(p, e, s) /\ \A q \in Port \ {p} : Still(q)
    BY <2>1 DEF Enter, Entered, Still
  <2>3. WatcherOn(p, s).status = watcher[p].status
    BY WatcherOnKeeps
  <2> QED
    BY <2>2, <2>3 DEF Entered, Handles
<1>2. CASE /\ Target(p, e) = {}
           /\ attachment' = [attachment EXCEPT ![p] = Internal(p, e)]
           /\ watcher' = [watcher EXCEPT ![p].due = FALSE]
           /\ UNCHANGED <<state, timer>>
  <2>1. /\ watcher'[p] = [watcher[p] EXCEPT !.due = FALSE]
        /\ watcher[p] \in Watcher
    BY <1>2
  <2>2. \A q \in Port \ {p} : Still(q)
    BY <1>2 DEF Still
  <2>3. Ignored(p, e) /\ watcher'[p].status = watcher[p].status
    BY <1>2, <2>1 DEF Ignored, Watcher
  <2> QED
    BY <2>2, <2>3 DEF Handles
<1> QED
  BY <1>1, <1>2 DEF Handles, Process

\* What the engines agree on needs the cable, a sink resets or swaps only
\* while it has VBUS, and a timeout is one of a timer that is up.
CableHandles(p, e) ==
  /\ LinkHandles(p, e)
  /\ e \in {"hard_reset", "swap_to_source"} => In /\ vbus[p] = 2
  /\ e = "swap_complete" => In
  /\ e = "timeout" => timer[p] = 0
  /\ UNCHANGED <<apart, pin>>

\* Every step is one of these.
LEMMA CableSteps ==
  ASSUME LinkNext
  PROVE  \/ \E p \in Port : \E e : CableHandles(p, e)
         \/ \E p \in Port : Report(p, Line(p)) /\ UNCHANGED <<apart, pin>>
         \/ \E p \in Port : Debounced(p) /\ UNCHANGED <<apart, pin>>
         \/ LinkTick \/ Settle \/ Pulled \/ PluggedIn
         \/ UNCHANGED <<state, attachment, timer, watcher, vbus, apart, pin>>
<1>1. ASSUME NEW p \in Port, NEW e \in {"started", "cc_detected", "timeout"} \cup VbusEvents,
             LinkHandles(p, e), RestOfEnv, e = "timeout" => timer[p] = 0
      PROVE  CableHandles(p, e)
  BY <1>1 DEF CableHandles, RestOfEnv, VbusEvents
<1>2. ASSUME NEW p \in Port, LinkStart(p)
      PROVE  LinkHandles(p, "started") /\ RestOfEnv
  BY <1>2 DEF LinkStart, Start, LinkHandles, Handles, VbusEvents
<1>3. ASSUME NEW p \in Port, LinkDetected(p)
      PROVE  LinkHandles(p, "cc_detected") /\ RestOfEnv
  BY <1>3 DEF LinkDetected, Detected, LinkHandles, Handles, VbusEvents
<1>4. ASSUME NEW p \in Port, LinkTimeout(p)
      PROVE  LinkHandles(p, "timeout") /\ RestOfEnv /\ timer[p] = 0
  BY <1>4 DEF LinkTimeout, Timeout, Idle, LinkHandles, Handles, VbusEvents
<1>5. ASSUME NEW p \in Port, LinkVbusReport(p)
      PROVE  /\ LinkHandles(p, VbusEvent(Level(state[p]), Reading(p) = "met"))
             /\ VbusEvent(Level(state[p]), Reading(p) = "met") \in VbusEvents
             /\ RestOfEnv
  BY <1>5, VbusEventIsOne DEF LinkVbusReport, VbusReport, Idle, LinkHandles, Handles, VbusEvents
<1>6. ASSUME NEW p \in Port, BeginSwap(p) \/ BeginHardReset(p) \/ BeginErrorRecovery(p)
      PROVE  \E e : CableHandles(p, e)
  <2>1. CASE BeginSwap(p)
    BY <2>1 DEF BeginSwap, Direct, Idle, LinkHandles, Handles, VbusEvents, CableHandles, Agreed,
      Undirected
  <2>2. CASE BeginHardReset(p)
    BY <2>2 DEF BeginHardReset, Direct, Idle, LinkHandles, Handles, VbusEvents, CableHandles,
      Agreed, Undirected
  <2>3. CASE BeginErrorRecovery(p)
    BY <2>3 DEF BeginErrorRecovery, Direct, Idle, LinkHandles, Handles, VbusEvents,
      CableHandles, Undirected
  <2> QED
    BY <1>6, <2>1, <2>2, <2>3
<1>7. ASSUME NEW p \in Port, Cut(p) \/ Restore(p)
      PROVE  UNCHANGED <<state, attachment, timer, watcher, vbus, apart, pin>>
  BY <1>7 DEF Cut, Restore, vars
<1>8. ASSUME NEW p \in Port, AssertRd(p)
      PROVE  CableHandles(p, "swap_to_sink")
  BY <1>8 DEF AssertRd, Direct, Idle, LinkHandles, Handles, VbusEvents, CableHandles, RestOfEnv
<1>9. ASSUME NEW p \in Port, AssertRp(p) \/ SwapCompleted(p)
      PROVE  CableHandles(p, "swap_complete")
  BY <1>9 DEF AssertRp, SwapCompleted, Direct, Idle, LinkHandles, Handles, VbusEvents,
    CableHandles, RestOfEnv
<1>10. ASSUME NEW p \in Port, LinkLock(p)
      PROVE  UNCHANGED <<state, attachment, timer, watcher, vbus, apart, pin>>
  BY <1>10 DEF LinkLock, Lock, RestOfEnv
<1>11. ASSUME NEW p \in Port, LinkReport(p)
      PROVE  Report(p, Line(p)) /\ UNCHANGED <<apart, pin>>
  BY <1>11 DEF LinkReport, RestOfEnv
<1>12. ASSUME NEW p \in Port, LinkDebounced(p)
      PROVE  Debounced(p) /\ UNCHANGED <<apart, pin>>
  BY <1>12 DEF LinkDebounced, RestOfEnv
<1>13. ASSUME NEW p \in Port, PortWork(p)
      PROVE  \/ \E e : CableHandles(p, e)
             \/ Report(p, Line(p)) /\ UNCHANGED <<apart, pin>>
             \/ Debounced(p) /\ UNCHANGED <<apart, pin>>
  BY <1>1, <1>2, <1>3, <1>4, <1>5, <1>11, <1>12, <1>13 DEF PortWork, VbusEvents
<1>14. ASSUME NEW p \in Port, Engine(p)
      PROVE  \/ \E e : CableHandles(p, e)
             \/ UNCHANGED <<state, attachment, timer, watcher, vbus, apart, pin>>
  BY <1>6, <1>7, <1>8, <1>9, <1>14 DEF Engine
<1> QED
  BY <1>10, <1>13, <1>14 DEF LinkNext

\* The report that outlives an event: under the same pull.
LEMMA StaysReported ==
  ASSUME LinkTypeOK, NEW p \in Port, NEW e, NEW s, Entered(p, e, s)
  PROVE  /\ watcher'[p].reported <=> watcher[p].reported /\ Pull(s) = Pull(state[p])
         /\ watcher'[p].status = watcher[p].status
<1>1. watcher[p] \in Watcher
  BY DEF LinkTypeOK, TypeOK
<1>2. watcher'[p] = WatcherOn(p, s)
  BY DEF Entered
<1>3. watcher'[p].reported = StillReported(p, s) /\ watcher'[p].status = watcher[p].status
  BY <1>1, <1>2, WatcherOnKeeps
<1>4. StillReported(p, s) <=> watcher[p].reported /\ Pull(s) = Pull(state[p])
  BY DEF StillReported
<1> QED
  BY <1>3, <1>4

\* What a report of the line leaves.
LEMMA Reported ==
  ASSUME LinkTypeOK, NEW p \in Port, Report(p, Line(p))
  PROVE  LET v == watcher'[p]
             open == Line(p).sees = "open"
             rule == Rule(state[p])
         IN  /\ UNCHANGED <<state, attachment, timer, vbus>>
             /\ \A q \in Port \ {p} : watcher'[q] = watcher[q]
             /\ v.status = Line(p) /\ v.reported
             /\ state[p] # "disabled" /\ ~watcher[p].due
             /\ ~(watcher[p].reported /\ watcher[p].status = Line(p))
             /\ rule # NoRule =>
                  /\ open /\ rule.open # 0 => v.pending = rule.open
                  /\ ~open /\ rule.termination # 0 => v.pending = rule.termination /\ ~v.due
                  /\ ~open /\ rule.termination = 0 => v.due
<1> DEFINE w == [watcher[p] EXCEPT !.status = Line(p), !.reported = TRUE]
           v == Evaluated(w, Rule(state[p]))
<1>1. watcher \in [Port -> Watcher] /\ watcher[p] \in Watcher /\ Line(p) \in Status
  BY LineVisible DEF LinkTypeOK, TypeOK, Visible
<1>2. w \in Watcher /\ w.status = Line(p) /\ w.reported /\ w.due = watcher[p].due
  BY <1>1 DEF Watcher
<1>3. watcher' = [watcher EXCEPT ![p] = v]
  BY DEF Report
<1>4. watcher'[p] = v /\ \A q \in Port \ {p} : watcher'[q] = watcher[q]
  BY <1>1, <1>3
<1>5. v.status = Line(p) /\ v.reported
  BY <1>2, EvaluatedKeeps
<1>6. /\ UNCHANGED <<state, attachment, timer, vbus>>
      /\ state[p] # "disabled" /\ ~watcher[p].due
      /\ ~(watcher[p].reported /\ watcher[p].status = Line(p))
  BY DEF Report, Idle
<1>7. Rule(state[p]) # NoRule =>
        LET rule == Rule(state[p])
            open == w.status.sees = "open"
        IN  /\ open /\ rule.open # 0 => v.pending = rule.open /\ v.due = w.due
            /\ ~open /\ rule.termination # 0 => v.pending = rule.termination /\ v.due = w.due
            /\ ~open /\ rule.termination = 0 => v.due
  BY <1>2, EvaluatedRuns
<1> HIDE DEF v
<1> QED
  BY <1>2, <1>4, <1>5, <1>6, <1>7

\* What the end of a debounce leaves.
LEMMA DebounceOver ==
  ASSUME LinkTypeOK, NEW p \in Port, Debounced(p)
  PROVE  /\ UNCHANGED <<state, attachment, timer, vbus>>
         /\ \A q \in Port \ {p} : watcher'[q] = watcher[q]
         /\ watcher'[p].status = watcher[p].status /\ watcher'[p].reported = watcher[p].reported
         /\ watcher'[p].due
         /\ ~watcher[p].due /\ watcher[p].pending = 0
<1>1. watcher' = [watcher EXCEPT ![p] = [watcher[p] EXCEPT !.pending = Off, !.due = TRUE]]
  BY DEF Debounced, LinkTypeOK, TypeOK, Watcher
<1> QED
  BY <1>1 DEF Debounced, Idle, LinkTypeOK, TypeOK, Watcher

\* What a tick finds, and leaves.
LEMMA Ticked ==
  ASSUME LinkTypeOK, LinkTick, NEW p \in Port
  PROVE  LET w == watcher[p]
             v == watcher'[p]
         IN  /\ UNCHANGED <<state, attachment, vbus, pin>>
             /\ apart' = IF apart \in 0..(Gap - 1) THEN apart + 1 ELSE apart
             /\ ~w.due /\ w.pending # 0 /\ timer[p] # 0
             /\ v.status = w.status /\ v.reported = w.reported /\ ~v.due
             /\ v.pending = Ahead(w.pending) /\ timer'[p] = Ahead(timer[p])
             /\ state[p] # "disabled" =>
                  /\ w.reported /\ w.status = Line(p)
                  /\ told[p] \in {"off", Reading(p)}
<1>1. /\ watcher'[p] = [watcher[p] EXCEPT !.pending = Ahead(@)]
      /\ watcher[p] \in Watcher
  BY DEF LinkTick, Tick, LinkTypeOK, TypeOK
<1>2. state[p] # "disabled" =>
        /\ watcher[p].reported /\ watcher[p].status = Line(p)
        /\ told[p] \in {"off", Reading(p)}
  BY DEF LinkTick, Owes
<1> QED
  BY <1>1, <1>2 DEF LinkTick, Tick, Idle, Watcher

\* A cable that is out shows an open line, one that is in the pin it is on.
LEMMA LineTrue ==
  ASSUME NEW p \in Port
  PROVE  /\ ~In => Line(p) = OpenLine
         /\ Line(p).sees # "open" => In /\ Line(p).pins = {pin[p]}
BY DEF Line, OpenLine

\* What holds of the ports by the theorems above, and the gap.
PlugFacts ==
  /\ LinkInv /\ DetectionsFitThePull /\ ConnectionResolved /\ ReportsOwed /\ HeldSeesRd
  /\ LongGap

\* The numbers are numbers.
LEMMA PlugNumbers ==
  /\ {Gap, tPDDebounce, tCCDebounce, tHardResetWindow, tPSSourceOff, tPSSourceOn} \subseteq Nat \ {0}
  /\ Off \notin Nat /\ Off = -1
  /\ LinkTypeOK => apart \in Nat \cup {Off}
BY LinkAssumption, TimeAssumption DEF Ticks, LinkTypeOK, Off

\* A termination is seen where it is, and only with the cable in.
LEMMA SeenStays ==
  ASSUME PlugFacts, Seen, LinkNext
  PROVE  Seen'
<1> USE DEF LinkInv
<1>1. ASSUME NEW p \in Port, NEW e, CableHandles(p, e)
      PROVE  Seen'
  <2>1. /\ (\E s : Entered(p, e, s)) \/ Ignored(p, e)
        /\ watcher'[p].status = watcher[p].status
        /\ \A q \in Port \ {p} : Still(q)
    BY <1>1, Handled DEF CableHandles, LinkHandles, PlugFacts, LinkTypeOK
  <2>2. watcher'[p].reported => watcher[p].reported
    BY <2>1, StaysReported DEF Ignored, PlugFacts
  <2>3. state'[p] = "disabled" => state[p] = "disabled"
    BY <2>1, TargetOpenTimed DEF Entered, Ignored
  <2> QED
    BY <1>1, <2>1, <2>2, <2>3 DEF Seen, Still, CableHandles
<1>2. ASSUME NEW p \in Port, Report(p, Line(p)), UNCHANGED <<apart, pin>>
      PROVE  Seen'
  BY <1>2, Reported, LineTrue DEF Seen, PlugFacts, In
<1>3. ASSUME NEW p \in Port, Debounced(p), UNCHANGED <<apart, pin>>
      PROVE  Seen'
  BY <1>3, DebounceOver DEF Seen, PlugFacts
<1>4. CASE LinkTick
  <2> SUFFICES ASSUME NEW p \in Port
               PROVE  /\ watcher'[p].reported /\ watcher'[p].status.sees # "open" =>
                           apart' \in {Off, 0} /\ watcher'[p].status.pins = {pin'[p]}
                      /\ state'[p] = "disabled" => ~watcher'[p].reported
    BY DEF Seen
  <2>1. watcher[p].reported => Line(p) = watcher[p].status
    BY <1>4, Ticked DEF PlugFacts, Seen
  <2>2. In => apart' = apart
    BY <1>4, Ticked, PlugNumbers DEF PlugFacts, In
  <2> QED
    BY <1>4, <2>1, <2>2, Ticked, LineTrue DEF PlugFacts, Seen, In
<1>5. CASE Settle
  BY <1>5 DEF Settle, Seen
<1>6. CASE Pulled
  BY <1>6 DEF Pulled, vars, Seen
<1>7. CASE PluggedIn
  BY <1>7, PlugNumbers DEF PluggedIn, vars, Seen
<1>8. CASE UNCHANGED <<state, attachment, timer, watcher, vbus, apart, pin>>
  BY <1>8 DEF Seen
<1> QED
  BY <1>1, <1>2, <1>3, <1>4, <1>5, <1>6, <1>7, <1>8, CableSteps

-----------------------------------------------------------------------------
(* What ends while the cable is out.                                        *)

\* An event that arrives while a detection is queued is that detection's.
LEMMA QueuedFirst ==
  ASSUME NEW p \in Port, NEW e, Handles(p, e), state[p] # "disabled"
  PROVE  watcher[p].due => e = "cc_detected"
BY DEF Handles

\* The states an open line ends are entered on a wire, or under another pull.
LEMMA EnteredOnWire ==
  ASSUME PlugFacts, NEW p \in Port, NEW e, CableHandles(p, e), NEW s, Entered(p, e, s),
         s \in OpenTimed \cup RdHeld
  PROVE  /\ watcher'[p].reported => watcher[p].status.sees # "open"
         /\ \/ e = "swap_complete" /\ state[p] = "swap_standby_to_src" /\ s = "attached_src"
            \/ watcher[p].reported /\ watcher[p].status.sees # "open"
<1>1. e = "cc_detected" => watcher[p].reported
  BY DEF CableHandles, LinkHandles, Handles, PlugFacts, DetectionsFitThePull
<1>2. CASE e = "cc_detected" /\ (SingleRp(Cc(p)) \/ SingleRd(Cc(p)))
  BY <1>1, <1>2 DEF SingleRp, SingleRd, Cc
<1>3. CASE e = "vbus_reached_safe0v" /\ state[p] \in RdHeld
  <2>1. SeesRd(p)
    BY <1>3 DEF PlugFacts, HeldSeesRd, CableHandles, LinkHandles, Handles
  <2> QED
    BY <2>1 DEF SeesRd
<1>4. CASE e = "swap_complete" /\ state[p] = "swap_standby_to_src"
  <2>1. s = "attached_src"
    BY <1>4, TargetHeld DEF Entered, OpenTimed
  <2>2. ~watcher'[p].reported
    BY <1>4, <2>1, StaysReported DEF PlugFacts, LinkInv, Pull, RpStates, RdStates
  <2> QED
    BY <1>4, <2>1, <2>2
<1>5. e # "swap_abort"
  BY DEF CableHandles, LinkHandles
<1> QED
  BY <1>2, <1>3, <1>4, <1>5, TargetOpenTimed, TargetHeld DEF Entered

\* The states held on the PD layer's word are no other kind's, and take the time
\* of their name.
LEMMA HoldTimes ==
  ASSUME NEW s
  PROVE  /\ HoldTime(s) # Off =>
              /\ s \in {"hard_reset_snk", "hard_reset_recover_snk"} \cup Standby
              /\ s \notin OpenTimed \cup RdHeld
              /\ HoldTime(s) \in Nat /\ Lasts(s) \in Nat /\ HoldTime(s) <= Lasts(s)
              /\ \A p \in Port : Duration(p, s) = HoldTime(s)
         /\ s \in {"hard_reset_snk", "hard_reset_recover_snk"} \cup Standby => HoldTime(s) # Off
BY TimeAssumption DEF HoldTime, Lasts, Duration, OpenTimed, RpHeld, RdHeld, Standby, Ticks, Off

\* What ends a connection keeps running.
LEMMA EndsStay ==
  ASSUME PlugFacts, EndsRun, LinkNext
  PROVE  EndsRun'
<1> USE DEF LinkInv
<1> DEFINE Debouncing(p) ==
             state[p] \in OpenTimed /\ watcher[p].reported /\ watcher[p].status.sees = "open" =>
               watcher[p].due \/ watcher[p].pending \in 0..tPDDebounce
           Held(p) == HoldTime(state[p]) # Off => timer[p] \in 0..HoldTime(state[p])
<1>1. EndsRun <=> \A p \in Port : Debouncing(p) /\ Held(p)
  BY DEF EndsRun
<1>2. EndsRun' <=> \A p \in Port : Debouncing(p)' /\ Held(p)'
  BY DEF EndsRun
<1>3. ASSUME NEW p \in Port, NEW e, CableHandles(p, e)
      PROVE  EndsRun'
  <2>1. /\ (\E s : Entered(p, e, s)) \/ Ignored(p, e)
        /\ watcher'[p].status = watcher[p].status
        /\ \A q \in Port \ {p} : Still(q)
    BY <1>3, Handled DEF CableHandles, LinkHandles, PlugFacts, LinkTypeOK
  <2>2. ASSUME NEW s, Entered(p, e, s)
        PROVE  Debouncing(p)' /\ Held(p)'
    <3>1. Debouncing(p)'
      BY <1>3, <2>1, <2>2, EnteredOnWire DEF Entered
    <3>2. Held(p)'
      BY <2>2, HoldTimes DEF Entered
    <3> QED
      BY <3>1, <3>2
  <2>3. ASSUME Ignored(p, e)
        PROVE  Debouncing(p)' /\ Held(p)'
    <3>1. state[p] \in OpenTimed => state[p] # "disabled"
      BY DEF OpenTimed, RpHeld
    <3>2. state[p] \in OpenTimed /\ watcher[p].status.sees = "open" => ~watcher[p].due
      BY <1>3, <2>3, <3>1, QueuedFirst, OpenLeads
         DEF Ignored, CableHandles, LinkHandles, PlugFacts, Cc
    <3> QED
      BY <1>1, <2>1, <2>3, <3>2 DEF Ignored
  <2>4. \A q \in Port \ {p} : Debouncing(q)' /\ Held(q)'
    BY <1>1, <2>1 DEF Still
  <2> HIDE DEF Debouncing, Held
  <2> QED
    BY <1>2, <2>1, <2>2, <2>3, <2>4
<1>4. ASSUME NEW p \in Port, Report(p, Line(p)), UNCHANGED <<apart, pin>>
      PROVE  EndsRun'
  <2>1. state[p] \in OpenTimed =>
          Rule(state[p]) # NoRule /\ Rule(state[p]).open = tPDDebounce
    BY TimeAssumption DEF OpenTimed, RpHeld, Rule, NoRule, Debounce, Ticks
  <2>2. Debouncing(p)' /\ Held(p)'
    BY <1>1, <1>4, <2>1, Reported, PlugNumbers DEF PlugFacts
  <2>3. \A q \in Port \ {p} : Debouncing(q)' /\ Held(q)'
    BY <1>1, <1>4, Reported DEF PlugFacts
  <2> HIDE DEF Debouncing, Held
  <2> QED
    BY <1>2, <2>2, <2>3
<1>5. ASSUME NEW p \in Port, Debounced(p), UNCHANGED <<apart, pin>>
      PROVE  EndsRun'
  BY <1>5, DebounceOver DEF EndsRun, PlugFacts
<1>6. CASE LinkTick
  <2> SUFFICES ASSUME NEW p \in Port
               PROVE  Debouncing(p)' /\ Held(p)'
    BY <1>2
  <2>1. Debouncing(p)'
    BY <1>1, <1>6, Ticked, PlugNumbers DEF PlugFacts, Ahead
  <2>2. Held(p)'
    BY <1>1, <1>6, Ticked, HoldTimes DEF PlugFacts, Ahead
  <2> QED
    BY <2>1, <2>2
<1>7. CASE Settle \/ Pulled \/ PluggedIn
           \/ UNCHANGED <<state, attachment, timer, watcher, vbus, apart, pin>>
  BY <1>7 DEF Settle, Pulled, PluggedIn, vars, EndsRun
<1> HIDE DEF Debouncing, Held
<1> QED
  BY <1>3, <1>4, <1>5, <1>6, <1>7, CableSteps

\* The states that an open line or a time ends do end before the cable can be
\* plugged in again.
LEMMA EndingStays ==
  ASSUME PlugFacts, Seen, EndsRun, Ending, LinkNext
  PROVE  Ending'
<1> USE DEF LinkInv
<1> DEFINE Out == apart \notin {Off, 0}
           Timed(p) == apart # Off /\ HoldTime(state[p]) # Off => timer[p] + apart <= Lasts(state[p])
           Debouncing(p) == Out /\ state[p] \in OpenTimed =>
             /\ watcher[p].reported
             /\ apart <= tPDDebounce
             /\ watcher[p].due \/ watcher[p].pending \in 0..(tPDDebounce - apart)
           Unheld(p) == Out => state[p] \notin RdHeld
           Good(p) == Timed(p) /\ Debouncing(p) /\ Unheld(p)
<1>1. Ending <=> \A p \in Port : Good(p)
  BY DEF Ending
<1>2. Ending' <=> \A p \in Port : Good(p)'
  BY DEF Ending
<1>3. \A p \in Port : Out /\ watcher[p].reported => watcher[p].status = OpenLine
  <2>1. \A p \in Port : watcher[p].status \in Status
    BY DEF PlugFacts, LinkTypeOK, TypeOK, Watcher
  <2> QED
    BY <2>1 DEF Seen, Status, OpenLine
<1>4. apart \in Nat \cup {Off} /\ timer \in [Port -> Nat \cup {Off}]
  BY PlugNumbers DEF PlugFacts, LinkTypeOK, TypeOK
<1>5. ASSUME NEW p \in Port, NEW e, CableHandles(p, e)
      PROVE  Ending'
  <2>1. /\ (\E s : Entered(p, e, s)) \/ Ignored(p, e)
        /\ watcher'[p].status = watcher[p].status
        /\ \A q \in Port \ {p} : Still(q)
        /\ apart' = apart
    BY <1>5, Handled DEF CableHandles, LinkHandles, PlugFacts, LinkTypeOK
  <2>2. ASSUME NEW s, Entered(p, e, s)
        PROVE  Good(p)'
    <3>1. state'[p] = s /\ s \in Target(p, e)
      BY <2>2 DEF Entered
    <3>2. Out => s \notin OpenTimed \cup RdHeld
      <4> SUFFICES ASSUME Out, s \in OpenTimed \cup RdHeld PROVE FALSE
        OBVIOUS
      <4>1. e # "swap_complete"
        BY <1>5, PlugNumbers DEF CableHandles, In
      <4>2. watcher[p].reported /\ watcher[p].status.sees # "open"
        BY <1>5, <2>2, <4>1, EnteredOnWire
      <4> QED
        BY <1>3, <4>2 DEF OpenLine
    <3>3. Timed(p)'
      <4> SUFFICES ASSUME apart # Off, HoldTime(s) # Off
                   PROVE  timer'[p] + apart <= Lasts(s)
        BY <2>1, <3>1
      <4>1. timer'[p] = HoldTime(s)
        BY <2>2, HoldTimes DEF Entered
      <4>2. e \notin {"hard_reset", "swap_to_source"}
        BY <1>5 DEF CableHandles, In
      <4>3. CASE s = "hard_reset_recover_snk"
        <5>1. state[p] = "hard_reset_snk" /\ HoldTime("hard_reset_snk") # Off
          BY <3>1, <4>3, TargetTimed, HoldTimes
        <5>2. timer[p] \in Nat /\ timer[p] + apart <= tHardResetWindow
          BY <1>1, <5>1, PlugNumbers DEF EndsRun, Lasts, HoldTime
        <5> QED
          BY <1>4, <4>1, <4>3, <5>2, PlugNumbers DEF HoldTime, Lasts
      <4>4. CASE s = "swap_standby_to_snk"
        <5>1. state[p] = "attached_src"
          BY <3>1, <4>4, TargetTimed
        <5>2. apart <= tPDDebounce
          BY <1>1, <1>4, <5>1, PlugNumbers DEF OpenTimed
        <5> QED
          BY <1>4, <4>1, <4>4, <5>2, PlugNumbers DEF HoldTime, Lasts
      <4> QED
        BY <3>1, <4>2, <4>3, <4>4, TargetTimed, HoldTimes DEF Standby
    <3> QED
      BY <2>1, <3>1, <3>2, <3>3
  <2>3. ASSUME Ignored(p, e)
        PROVE  Good(p)'
    <3>1. Out /\ state[p] \in OpenTimed => ~watcher[p].due
      <4> SUFFICES ASSUME Out, state[p] \in OpenTimed, watcher[p].due PROVE FALSE
        OBVIOUS
      <4>1. e = "cc_detected"
        BY <1>5, QueuedFirst DEF OpenTimed, RpHeld, CableHandles, LinkHandles
      <4>2. Cc(p).sees = "open"
        BY <1>1, <1>3 DEF Cc, OpenLine
      <4> QED
        BY <2>3, <4>1, <4>2, OpenLeads DEF Ignored, PlugFacts
    <3> QED
      BY <1>1, <2>1, <2>3, <3>1 DEF Ignored
  <2>4. \A q \in Port \ {p} : Good(q)'
    BY <1>1, <2>1 DEF Still
  <2> HIDE DEF Good
  <2> QED
    BY <1>2, <2>1, <2>2, <2>3, <2>4
<1>6. ASSUME NEW p \in Port, Report(p, Line(p)), UNCHANGED <<apart, pin>>
      PROVE  Ending'
  <2>1. Out => Line(p) = OpenLine
    BY LineTrue, PlugNumbers DEF In
  <2>2. Out => state[p] \notin OpenTimed
    BY <1>1, <1>3, <1>6, <2>1, Reported DEF PlugFacts
  <2>3. Good(p)'
    BY <1>1, <1>6, <2>2, Reported DEF PlugFacts
  <2>4. \A q \in Port \ {p} : Good(q)'
    BY <1>1, <1>6, Reported DEF PlugFacts
  <2> HIDE DEF Good
  <2> QED
    BY <1>2, <2>3, <2>4
<1>7. ASSUME NEW p \in Port, Debounced(p), UNCHANGED <<apart, pin>>
      PROVE  Ending'
  BY <1>7, DebounceOver DEF Ending, PlugFacts
<1>8. CASE LinkTick
  <2> SUFFICES ASSUME NEW p \in Port
               PROVE  Good(p)'
    BY <1>2
  <2>1. /\ state'[p] = state[p] /\ ~watcher[p].due /\ watcher[p].pending # 0 /\ timer[p] # 0
        /\ watcher'[p].reported = watcher[p].reported
        /\ watcher'[p].pending = Ahead(watcher[p].pending)
        /\ timer'[p] = Ahead(timer[p])
        /\ apart' = IF apart \in 0..(Gap - 1) THEN apart + 1 ELSE apart
        /\ apart # Off /\ state[p] # "disabled" =>
             watcher[p].reported /\ watcher[p].status = OpenLine
    BY <1>8, Ticked, LineTrue DEF PlugFacts, In
  <2>2. apart # Off => apart' \in {apart, apart + 1} /\ apart' \in Nat \ {0} /\ apart \in Nat
    BY <1>4, <2>1, PlugNumbers
  <2>3. apart = Off => apart' = Off
    BY <2>1, PlugNumbers
  <2>4. Timed(p)'
    <3> SUFFICES ASSUME apart # Off, HoldTime(state[p]) # Off
                 PROVE  timer'[p] + apart' <= Lasts(state[p])
      BY <2>1, <2>3
    <3>1. timer[p] \in Nat /\ timer[p] + apart <= Lasts(state[p]) /\ Lasts(state[p]) \in Nat
      BY <1>1, HoldTimes DEF EndsRun
    <3> QED
      BY <2>1, <2>2, <3>1 DEF Ahead
  <2>5. Unheld(p)'
    <3>1. state[p] \in RdHeld => SeesRd(p) /\ state[p] # "disabled"
      BY <2>1 DEF PlugFacts, HeldSeesRd, RdHeld
    <3> QED
      BY <2>1, <2>3, <3>1 DEF SeesRd, OpenLine
  <2>6. Debouncing(p)'
    <3> SUFFICES ASSUME apart # Off, state[p] \in OpenTimed
                 PROVE  /\ watcher'[p].reported
                        /\ apart' <= tPDDebounce
                        /\ watcher'[p].pending \in 0..(tPDDebounce - apart')
      BY <2>1, <2>3
    <3>1. watcher[p].reported /\ watcher[p].status.sees = "open"
      BY <2>1 DEF OpenTimed, RpHeld, OpenLine
    <3>2. CASE apart = 0
      BY <2>1, <2>2, <3>1, <3>2, PlugNumbers DEF EndsRun, Ahead, PlugFacts, LongGap
    <3>3. CASE apart # 0
      <4>1. apart <= tPDDebounce /\ watcher[p].pending \in 0..(tPDDebounce - apart)
        BY <1>1, <2>1, <3>3
      <4> QED
        BY <2>1, <2>2, <3>1, <4>1, PlugNumbers DEF Ahead
    <3> QED
      BY <3>2, <3>3
  <2> QED
    BY <2>4, <2>5, <2>6
<1>9. CASE Pulled
  <2>1. apart' = 0 /\ UNCHANGED <<state, timer, watcher>>
    BY <1>9 DEF Pulled, vars
  <2>2. ASSUME NEW p \in Port, HoldTime(state[p]) # Off
        PROVE  timer[p] + 0 <= Lasts(state[p])
    BY <2>2, HoldTimes DEF EndsRun
  <2> QED
    BY <2>1, <2>2 DEF Ending
<1>10. CASE PluggedIn
  BY <1>10 DEF PluggedIn, Ending
<1>11. CASE Settle \/ UNCHANGED <<state, attachment, timer, watcher, vbus, apart, pin>>
  BY <1>11 DEF Settle, Ending
<1> HIDE DEF Good
<1> QED
  BY <1>5, <1>6, <1>7, <1>8, <1>9, <1>10, <1>11, CableSteps

-----------------------------------------------------------------------------
(* A connection is of the wire as it is.                                    *)

\* A detection is of the pin the wire is on.
LEMMA SeesPin ==
  ASSUME PlugFacts, Seen, NEW p \in Port, NEW e, Handles(p, e), e = "cc_detected",
         SourcePresent(Cc(p)) \/ SinkPresent(Cc(p))
  PROVE  /\ Cc(p).pins = {pin[p]} /\ Cc(p).pins # Pin
         /\ OrientationOf(Cc(p)) = pin[p]
<1>1. watcher[p].reported /\ Cc(p).sees # "open"
  BY DEF Handles, PlugFacts, DetectionsFitThePull, SourcePresent, SinkPresent, Cc
<1>2. Cc(p).pins = {pin[p]} /\ pin[p] \in Pin
  BY <1>1 DEF Seen, Cc, PlugFacts, LinkInv, LinkTypeOK
<1> QED
  BY <1>2 DEF OrientationOf, Pin

\* A port that goes into a connection, or waits for VBUS on a detection, does so
\* with the pin the wire is on.
LEMMA EnteredTruly ==
  ASSUME PlugFacts, Seen, HeldTruly, StaleAlone, In,
         NEW p \in Port, NEW e, CableHandles(p, e), NEW s, Entered(p, e, s)
  PROVE  /\ s \in Connected => attachment'[p].orientation = pin[p]
         /\ s \in RpHeld \cup RdHeld => attachment'[p].detected.pins = {pin[p]}
<1> DEFINE a == attachment[p]
<1>1. /\ s \in Target(p, e) /\ attachment'[p] = AttachmentOn(p, e, s)
      /\ Handles(p, e) /\ e # "swap_abort"
  BY DEF Entered, CableHandles, LinkHandles
<1>2. a \in Attachment /\ pin[p] \in Pin
  BY DEF PlugFacts, LinkInv, LinkTypeOK, TypeOK
<1>3. ASSUME SingleRp(Cc(p)) \/ SingleRd(Cc(p)), e = "cc_detected"
      PROVE  Cc(p).pins = {pin[p]} /\ OrientationOf(Cc(p)) = pin[p]
  BY <1>1, <1>3, SeesPin DEF SingleRp, SingleRd, SourcePresent, SinkPresent
<1>4. s \in RpHeld \cup RdHeld => attachment'[p].detected.pins = {pin[p]}
  <2>1. s \in RpHeld \cup RdHeld => attachment'[p] = [a EXCEPT !.detected = Cc(p)]
    BY <1>1 DEF AttachmentOn, RpHeld, RdHeld, Resets, Attached
  <2>2. s \in RpHeld \cup RdHeld => Cc(p).pins = {pin[p]}
    BY <1>1, <1>3, TargetHeld
  <2> QED
    BY <1>2, <2>1, <2>2 DEF Attachment
<1>5. ASSUME s \in Attached, Keeps(p, e)
      PROVE  attachment'[p] = a
  BY <1>1, <1>5 DEF AttachmentOn, Attached, Resets
<1>6. ASSUME s \in Attached, e # "cc_detected", ~Keeps(p, e), a.detected.pins = {pin[p]}
      PROVE  attachment'[p].orientation = pin[p]
  <2>1. attachment'[p] = Resolved(s, a.detected)
    BY <1>1, <1>6 DEF AttachmentOn, Attached, Resets
  <2> QED
    BY <1>2, <1>6, <2>1 DEF Resolved, OrientationOf, Pin
<1>7. ASSUME s \in Attached, e = "cc_detected", SingleRp(Cc(p)) \/ SingleRd(Cc(p))
      PROVE  attachment'[p].orientation = pin[p]
  <2>1. attachment'[p] = Resolved(s, Cc(p))
    BY <1>1, <1>7 DEF AttachmentOn, Attached, Resets, Keeps
  <2> QED
    BY <1>3, <1>7, <2>1 DEF Resolved
<1>8. state[p] \in RpHeld \cup TryWaits => ~a.resolved
  BY DEF PlugFacts, ConnectionResolved, RpHeld, TryWaits, Connected, Attached, Standby
<1>9. state[p] \in Connected \ {"attached_snk"} => a.orientation = pin[p]
  BY DEF HeldTruly
<1>10. state[p] \in RpHeld \cup RdHeld => a.detected.pins = {pin[p]}
  BY DEF HeldTruly
<1>11. vbus[p] = 2 => ~Stale(p)
  BY DEF StaleAlone
<1>12. CASE s = "attached_src"
  <2>1. CASE e = "cc_detected" /\ SingleRd(Cc(p))
    BY <1>4, <1>7, <1>12, <2>1 DEF Attached
  <2>2. CASE e = "vbus_reached_safe0v" /\ state[p] \in RdHeld
    BY <1>4, <1>6, <1>10, <1>12, <2>2 DEF Attached, Keeps
  <2>3. CASE e = "swap_complete" /\ state[p] = "swap_standby_to_src"
    BY <1>4, <1>5, <1>9, <1>12, <2>3 DEF Attached, Keeps, Connected, Standby
  <2> QED
    BY <1>1, <1>12, <2>1, <2>2, <2>3, TargetSource
<1>13. CASE s = "attached_snk"
  <2>1. CASE e = "cc_detected" /\ SingleRp(Cc(p))
    BY <1>4, <1>7, <1>13, <2>1 DEF Attached
  <2>2. CASE e = "vbus_present" /\ state[p] \in RpHeld
    BY <1>4, <1>6, <1>8, <1>10, <1>13, <2>2 DEF Attached, Keeps
  <2>3. CASE e = "vbus_present" /\ state[p] = "hard_reset_recover_snk"
    <3>1. a.resolved /\ a.orientation = pin[p]
      BY <1>9, <2>3 DEF PlugFacts, ConnectionResolved, OnOneWire, Connected
    <3> QED
      BY <1>4, <1>5, <1>13, <2>3, <3>1 DEF Attached, Keeps
  <2>4. CASE /\ e = "vbus_present" \/ (e = "timeout" /\ vbus[p] = 2)
             /\ state[p] \in TryWaits /\ SingleRp(a.detected)
    <3>1. vbus[p] = 2
      BY <1>1, <2>4 DEF Handles, VbusEvents, VbusEvent, Level, TryWaits, Reading, Met
    <3>2. a.detected.pins = {pin[p]}
      BY <1>11, <2>4, <3>1 DEF Stale, Tries, TryWaits
    <3> QED
      BY <1>4, <1>6, <1>8, <1>13, <2>4, <3>2 DEF Attached, Keeps
  <2>5. CASE e = "swap_complete" /\ state[p] = "swap_standby_to_snk"
    BY <1>4, <1>5, <1>9, <1>13, <2>5 DEF Attached, Keeps, Connected, Standby
  <2> QED
    BY <1>1, <1>13, <2>1, <2>2, <2>3, <2>4, <2>5, TargetSink
<1>14. CASE s \in Connected \ Attached
  <2>1. attachment'[p] = a
    BY <1>1, <1>14 DEF AttachmentOn, Resets, Connected, Attached, Standby
  <2>2. CASE state[p] = "attached_snk" /\ e \in {"hard_reset", "swap_to_source"}
    BY <1>4, <1>11, <2>1, <2>2 DEF CableHandles, Stale
  <2>3. CASE state[p] \in {"hard_reset_snk", "attached_src"}
    BY <1>4, <1>9, <2>1, <2>3 DEF Connected, Attached
  <2> QED
    BY <1>1, <1>14, <2>2, <2>3, TargetTimed DEF Connected, Attached, Standby
<1> QED
  BY <1>4, <1>12, <1>13, <1>14 DEF Connected, Attached

\* What an event nobody takes leaves of the attachment.
LEMMA IgnoredKeeps ==
  ASSUME LinkTypeOK, NEW p \in Port, NEW e, Ignored(p, e)
  PROVE  /\ attachment'[p].orientation = attachment[p].orientation
         /\ attachment'[p].detected =
              IF state[p] \in TryWaits /\ e = "cc_detected" THEN Cc(p) ELSE attachment[p].detected
<1>1. attachment[p] \in Attachment /\ attachment'[p] = Internal(p, e)
  BY DEF LinkTypeOK, TypeOK, Ignored
<1> QED
  BY <1>1 DEF Internal, Attachment, TryWaits, Attached

\* By the time a cable can be plugged in, only a sink may still hold the last
\* connection, and nobody sees a termination or waits for VBUS on one.
LEMMA PluggedInFinds ==
  ASSUME PlugFacts, Seen, EndsRun, Ending, PluggedIn, NEW p \in Port
  PROVE  /\ state[p] \notin (Connected \ {"attached_snk"}) \cup RpHeld \cup RdHeld
         /\ watcher[p].reported => watcher[p].status.sees = "open"
<1>1. apart = Gap /\ Gap \in Nat \ {0} /\ apart \notin {Off, 0}
  BY PlugNumbers DEF PluggedIn
<1>2. state[p] \notin OpenTimed
  BY <1>1, PlugNumbers DEF Ending, PlugFacts, LongGap
<1>3. ASSUME HoldTime(state[p]) # Off
      PROVE  FALSE
  <2>1. timer[p] \in Nat /\ timer[p] + Gap <= Lasts(state[p])
    BY <1>1, <1>3, HoldTimes DEF EndsRun, Ending
  <2>2. Lasts(state[p]) < Gap
    BY PlugNumbers DEF Lasts, PlugFacts, LongGap
  <2>3. Lasts(state[p]) \in Nat
    BY <1>3, HoldTimes
  <2> QED
    BY <1>1, <2>1, <2>2, <2>3
<1>4. state[p] \notin RdHeld
  BY <1>1 DEF Ending
<1>5. watcher[p].reported => watcher[p].status.sees = "open"
  BY <1>1 DEF Seen
<1> QED
  BY <1>2, <1>3, <1>4, <1>5, HoldTimes DEF OpenTimed, Connected, Attached

\* Connections and detections stay true.
LEMMA HeldTrulyStays ==
  ASSUME PlugFacts, Seen, EndsRun, Ending, HeldTruly, StaleAlone, LinkNext
  PROVE  HeldTruly'
<1> USE DEF LinkInv
<1> DEFINE AtRest == {"unattached_snk", "attach_wait_snk", "removing_vbus"}
           True(p) ==
             /\ In /\ state[p] \in Connected \ {"attached_snk"} => attachment[p].orientation = pin[p]
             /\ In /\ state[p] \in RpHeld \cup RdHeld => attachment[p].detected.pins = {pin[p]}
             /\ state[p] \in AtRest => ~SingleRp(attachment[p].detected)
<1>1. (HeldTruly <=> \A p \in Port : True(p)) /\ (HeldTruly' <=> \A p \in Port : True(p)')
  BY DEF HeldTruly
<1>2. ASSUME NEW p \in Port, NEW e, CableHandles(p, e)
      PROVE  HeldTruly'
  <2>1. /\ (\E s : Entered(p, e, s)) \/ Ignored(p, e)
        /\ \A q \in Port \ {p} : Still(q)
        /\ UNCHANGED <<apart, pin>>
    BY <1>2, Handled DEF CableHandles, LinkHandles, PlugFacts, LinkTypeOK
  <2>2. ASSUME NEW s, Entered(p, e, s)
        PROVE  True(p)'
    <3>1. /\ state'[p] = s /\ s \in Target(p, e)
          /\ attachment'[p] = AttachmentOn(p, e, s)
      BY <2>2 DEF Entered
    <3>2. s \in {"unattached_snk", "removing_vbus"} => ~SingleRp(attachment'[p].detected)
      <4>1. ASSUME s \in {"unattached_snk", "removing_vbus"}
            PROVE  attachment'[p] = NoAttachment
        <5>1. Resets(s) /\ s \notin Attached
          BY <4>1 DEF Resets, Attached
        <5>2. AttachmentOn(p, e, s) = NoAttachment
          BY <4>1, <5>1 DEF AttachmentOn
        <5> QED
          BY <3>1, <5>2
      <4> QED
        BY <4>1 DEF NoAttachment, OpenLine, SingleRp
    <3>3. CASE s = "attach_wait_snk"
      <4>1. attachment'[p] = attachment[p]
        BY <3>1, <3>3 DEF AttachmentOn, Resets, Attached
      <4>2. ~(e = "cc_detected" /\ SourcePresent(Cc(p)) /\ ~SingleRp(Cc(p)))
        BY <1>2, SeesPin DEF CableHandles, LinkHandles, SingleRp, SourcePresent
      <4>3. ~SingleRp(attachment[p].detected)
        BY <1>1, <3>1, <3>3, <4>2, TargetTries
      <4> QED
        BY <3>1, <3>3, <4>1, <4>3 DEF Connected, Attached, Standby, RpHeld, RdHeld
    <3> QED
      BY <1>2, <2>1, <2>2, <3>1, <3>2, <3>3, EnteredTruly DEF In
  <2>3. ASSUME Ignored(p, e)
        PROVE  True(p)'
    <3>1. state[p] \in AtRest \cup RpHeld \cup RdHeld => state[p] \notin TryWaits
      BY DEF RpHeld, RdHeld, TryWaits
    <3>2. state'[p] = state[p]
      BY <2>3 DEF Ignored
    <3> QED
      BY <1>1, <2>1, <2>3, <3>1, <3>2, IgnoredKeeps DEF PlugFacts, In
  <2>4. \A q \in Port \ {p} : True(q)'
    BY <1>1, <2>1 DEF Still, In
  <2> HIDE DEF True
  <2> QED
    BY <1>1, <2>1, <2>2, <2>3, <2>4
<1>3. ASSUME NEW p \in Port, Report(p, Line(p)) \/ Debounced(p), UNCHANGED <<apart, pin>>
      PROVE  HeldTruly'
  BY <1>3, Reported, DebounceOver DEF HeldTruly, PlugFacts, In
<1>4. CASE LinkTick
  <2>1. UNCHANGED <<state, attachment, pin>> /\ (In' <=> In)
    BY <1>4, Ticked, PlugNumbers, Ports DEF PlugFacts, In
  <2> QED
    BY <2>1 DEF HeldTruly
<1>5. CASE Pulled
  BY <1>5, PlugNumbers DEF Pulled, vars, HeldTruly, In
<1>6. CASE PluggedIn
  <2>1. UNCHANGED <<state, attachment>>
    BY <1>6 DEF PluggedIn, vars
  <2> QED
    BY <1>6, <2>1, PluggedInFinds DEF HeldTruly
<1>7. CASE Settle \/ UNCHANGED <<state, attachment, timer, watcher, vbus, apart, pin>>
  BY <1>7 DEF Settle, HeldTruly, In
<1> QED
  BY <1>2, <1>3, <1>4, <1>5, <1>6, <1>7, CableSteps

-----------------------------------------------------------------------------
(* What is left of an earlier plugging in is left alone.                    *)

\* The other end of a stale port takes a tick yet to become a source, whatever
\* it handles.
LEMMA FarStays ==
  ASSUME PlugFacts, NEW q \in Port, NEW e, CableHandles(q, e), FarFromSource(q),
         state[Peer(q)] # "swap_standby_to_snk"
  PROVE  FarFromSource(q)'
<1> USE DEF LinkInv
<1>1. /\ (\E s : Entered(q, e, s)) \/ Ignored(q, e)
      /\ watcher'[q].status = watcher[q].status
      /\ Handles(q, e) /\ watcher[q] \in Watcher /\ LinkTypeOK
  BY Handled DEF CableHandles, LinkHandles, PlugFacts, LinkTypeOK, TypeOK
<1>2. ASSUME NEW s, Entered(q, e, s)
      PROVE  FarFromSource(q)'
  <2>1. state'[q] = s /\ s \in Target(q, e) /\ watcher'[q] = WatcherOn(q, s)
    BY <1>2 DEF Entered
  <2>2. ASSUME e = "cc_detected", SingleRd(Cc(q)), s \in {"attached_src"} \cup RdHeld
        PROVE  FALSE
    <3>1. watcher[q].due /\ SeesRd(q)
      BY <1>1, <2>2 DEF Handles, PlugFacts, DetectionsFitThePull, SeesRd, SingleRd, Cc
    <3> QED
      BY <2>1, <2>2, <3>1, TargetFar DEF FarFromSource
  <2>3. s \notin RdHeld
    BY <2>1, <2>2, TargetHeld
  <2>4. s # "attached_src"
    BY <2>1, <2>2, TargetSource DEF FarFromSource, CableHandles, LinkHandles
  <2>5. ASSUME SeesRd(q)', s \notin {"unattached_src", "unattached_wait_src"}
        PROVE  ~watcher'[q].due /\ watcher'[q].pending # 0
    <3>1. SeesRd(q) /\ Pull(s) = Pull(state[q]) /\ StillReported(q, s)
      BY <1>1, <1>2, <2>5, StaysReported DEF SeesRd, StillReported
    <3>2. Pull(s) = "rp"
      BY <3>1 DEF PlugFacts, DetectionsFitThePull, SeesRd, Visible
    <3>3. Rule(s) # NoRule /\ Rule(s).termination \in Nat \ {0}
      BY <2>4, <2>5, <3>2, RdDebounced
    <3>4. CASE Rule(s) = Rule(state[q])
      <4>1. state[q] \notin {"unattached_src", "unattached_wait_src"}
        BY <3>3, <3>4 DEF Rule, NoRule, Debounce
      <4> QED
        BY <1>1, <2>1, <3>1, <3>4, <4>1, WatcherOnRuns DEF FarFromSource
    <3>5. CASE Rule(s) # Rule(state[q])
      BY <1>1, <2>1, <3>1, <3>3, <3>5, WatcherOnRuns DEF SeesRd
    <3> QED
      BY <3>4, <3>5
  <2> QED
    BY <2>1, <2>3, <2>4, <2>5 DEF FarFromSource
<1>3. ASSUME Ignored(q, e)
      PROVE  FarFromSource(q)'
  BY <1>1, <1>3 DEF FarFromSource, SeesRd, Ignored
<1> QED
  BY <1>1, <1>2, <1>3

\* What a port has to be while an end of the cable is stale.
Alone(p) ==
  In /\ Stale(p) =>
    /\ vbus[p] < 2 /\ FarFromSource(Peer(p))
    /\ state[p] \in TryWaits =>
         ~(watcher[p].reported /\ watcher[p].status.sees = "rp" /\ ~watcher[p].due)

\* A port that handles an event is not made stale by it.
LEMMA StaleBefore ==
  ASSUME PlugFacts, Seen, HeldTruly, StaleAlone, NEW p \in Port, NEW e, CableHandles(p, e), In,
         Stale(p)'
  PROVE  /\ Stale(p)
         /\ state'[p] \in TryWaits =>
              ~(watcher'[p].reported /\ watcher[p].status.sees = "rp")
<1> USE DEF LinkInv
<1>1. /\ (\E s : Entered(p, e, s)) \/ Ignored(p, e)
      /\ watcher'[p].status = watcher[p].status
      /\ Handles(p, e) /\ LinkTypeOK /\ pin' = pin
  BY Handled DEF CableHandles, LinkHandles, PlugFacts, LinkTypeOK
<1>2. Stale(p) /\ state[p] \in TryWaits =>
        ~(watcher[p].reported /\ watcher[p].status.sees = "rp" /\ ~watcher[p].due)
  BY DEF StaleAlone
<1>3. ASSUME NEW s, Entered(p, e, s)
      PROVE  /\ Stale(p)
             /\ s \in TryWaits => ~(watcher'[p].reported /\ watcher[p].status.sees = "rp")
  <2>1. /\ state'[p] = s /\ s \in Target(p, e)
        /\ attachment'[p] = AttachmentOn(p, e, s)
    BY <1>3 DEF Entered
  <2>2. s # "attached_snk"
    BY <1>1, <1>3, <2>1, EnteredTruly DEF Stale, Connected, Attached, Tries
  <2>3. s \in Tries /\ SingleRp(attachment'[p].detected) /\ attachment'[p].detected.pins # {pin[p]}
    BY <1>1, <2>1, <2>2 DEF Stale
  <2>4. attachment'[p] = attachment[p]
    BY <2>1, <2>3 DEF AttachmentOn, Tries, Resets, Attached
  <2>5. state[p] \in Tries
    BY <2>1, <2>3, <2>4, TargetTries DEF HeldTruly
  <2>6. Stale(p)
    BY <2>3, <2>4, <2>5 DEF Stale
  <2>7. ASSUME s \in TryWaits
        PROVE  ~(watcher'[p].reported /\ watcher[p].status.sees = "rp")
    <3>1. CASE state[p] \in TryWaits
      <4>1. e = "timeout"
        BY <2>1, <2>7, <3>1, TargetTries
      <4>2. ~watcher[p].due
        BY <1>1, <4>1 DEF Handles
      <4> QED
        BY <1>1, <1>2, <1>3, <2>6, <3>1, <4>2, StaysReported
    <3>2. CASE state[p] \notin TryWaits
      <4>1. Pull(s) = "rd" /\ Pull(state[p]) = "rp"
        BY <2>5, <2>7, <3>2 DEF Tries, TryWaits, Pull, RpStates, RdStates
      <4> QED
        BY <1>1, <1>3, <4>1, StaysReported
    <3> QED
      BY <3>1, <3>2
  <2> QED
    BY <2>6, <2>7
<1>4. ASSUME Ignored(p, e)
      PROVE  /\ Stale(p)
             /\ state'[p] \in TryWaits => ~(watcher'[p].reported /\ watcher[p].status.sees = "rp")
  <2>1. state'[p] = state[p] /\ (watcher'[p].reported <=> watcher[p].reported)
    BY <1>4 DEF Ignored
  <2>2. ~(state[p] \in TryWaits /\ e = "cc_detected")
    <3> SUFFICES ASSUME state[p] \in TryWaits, e = "cc_detected" PROVE FALSE
      OBVIOUS
    <3>1. attachment'[p].detected = Cc(p)
      BY <1>1, <1>4, IgnoredKeeps
    <3>2. SingleRp(Cc(p)) /\ Cc(p).pins # {pin[p]}
      BY <1>1, <2>1, <3>1 DEF Stale, TryWaits
    <3> QED
      BY <1>1, <3>2, SeesPin DEF SingleRp, SourcePresent
  <2>3. Stale(p)
    BY <1>1, <1>4, <2>1, <2>2, IgnoredKeeps DEF Stale
  <2>4. state[p] \in TryWaits => ~watcher[p].due
    BY <1>1, <2>2, QueuedFirst DEF TryWaits
  <2> QED
    BY <1>2, <2>1, <2>3, <2>4
<1> QED
  BY <1>1, <1>3, <1>4 DEF Entered

\* A handled event leaves both ends so.
LEMMA HandlesAlone ==
  ASSUME PlugFacts, Seen, HeldTruly, StaleAlone, NEW r \in Port, NEW e, CableHandles(r, e)
  PROVE  StaleAlone'
<1> USE DEF LinkInv
<1>1. /\ watcher'[r].status = watcher[r].status
      /\ \A q \in Port \ {r} : Still(q)
      /\ UNCHANGED <<vbus, apart, pin>>
  BY Handled DEF CableHandles, LinkHandles, PlugFacts, LinkTypeOK
<1>2. Peer(r) \in Port \ {r} /\ Port = {r, Peer(r)} /\ Peer(Peer(r)) = r
  BY Ports DEF Peer
<1>3. Still(Peer(r))
  BY <1>1, <1>2
<1>4. Alone(r) /\ Alone(Peer(r))
  BY <1>2 DEF StaleAlone, Alone
<1>5. Alone(r)'
  <2> SUFFICES ASSUME In, Stale(r)'
               PROVE  /\ vbus[r] < 2 /\ FarFromSource(Peer(r))'
                      /\ state'[r] \in TryWaits =>
                           ~(watcher'[r].reported /\ watcher[r].status.sees = "rp")
    BY <1>1 DEF Alone, In
  <2>1. Stale(r) /\ (state'[r] \in TryWaits =>
                       ~(watcher'[r].reported /\ watcher[r].status.sees = "rp"))
    BY StaleBefore
  <2>2. FarFromSource(Peer(r))' <=> FarFromSource(Peer(r))
    BY <1>3 DEF FarFromSource, SeesRd, Still
  <2> QED
    BY <1>4, <2>1, <2>2 DEF Alone
<1>6. Alone(Peer(r))'
  <2> SUFFICES ASSUME In, Stale(Peer(r))
               PROVE  /\ vbus[Peer(r)] < 2 /\ FarFromSource(r)'
                      /\ state[Peer(r)] \in TryWaits =>
                           ~(/\ watcher[Peer(r)].reported /\ watcher[Peer(r)].status.sees = "rp"
                             /\ ~watcher[Peer(r)].due)
    BY <1>1, <1>2, <1>3 DEF Alone, In, Stale, Still
  <2>1. state[Peer(r)] # "swap_standby_to_snk"
    BY DEF Stale, Tries
  <2>2. FarFromSource(r)
    BY <1>2, <1>4 DEF Alone
  <2>3. FarFromSource(r)'
    BY <2>1, <2>2, FarStays
  <2> QED
    BY <1>4, <2>3 DEF Alone
<1> QED
  BY <1>2, <1>5, <1>6 DEF StaleAlone, Alone

\* A termination of its peer that a port reports starts a debounce where it may
\* lead to a source, and ends the wait of Try.SRC for one.
LEMMA ReportAlone ==
  ASSUME PlugFacts, StaleAlone, NEW r \in Port, Report(r, Line(r)), UNCHANGED <<apart, pin>>
  PROVE  StaleAlone'
<1> USE DEF LinkInv
<1>1. LET v == watcher'[r]
          open == Line(r).sees = "open"
          rule == Rule(state[r])
      IN  /\ UNCHANGED <<state, attachment, timer, vbus>>
          /\ \A q \in Port \ {r} : watcher'[q] = watcher[q]
          /\ v.status = Line(r) /\ v.reported
          /\ rule # NoRule =>
               /\ ~open /\ rule.termination # 0 => v.pending = rule.termination /\ ~v.due
               /\ ~open /\ rule.termination = 0 => v.due
  BY Reported DEF PlugFacts
<1>2. Peer(r) \in Port \ {r} /\ Port = {r, Peer(r)} /\ Peer(Peer(r)) = r
  BY Ports DEF Peer
<1>3. Alone(r) /\ Alone(Peer(r))
  BY <1>2 DEF StaleAlone, Alone
<1>4. Alone(r)'
  <2>1. state[r] \in TryWaits => Rule(state[r]) # NoRule /\ Rule(state[r]).termination = 0
    BY TimeAssumption DEF TryWaits, Rule, NoRule, Debounce, Ticks
  <2>2. FarFromSource(Peer(r))' <=> FarFromSource(Peer(r))
    BY <1>1, <1>2 DEF FarFromSource, SeesRd
  <2> QED
    BY <1>1, <1>3, <2>1, <2>2 DEF Alone, In, Stale
<1>5. FarFromSource(r) => FarFromSource(r)'
  <2> SUFFICES ASSUME FarFromSource(r), SeesRd(r)',
                      state[r] \notin {"unattached_src", "unattached_wait_src"}
               PROVE  ~watcher'[r].due /\ watcher'[r].pending # 0
    BY <1>1 DEF FarFromSource
  <2>1. Line(r).sees = "rd"
    BY <1>1 DEF SeesRd
  <2>2. Pull(state[r]) = "rp"
    BY <2>1, LineVisible DEF PlugFacts, Visible
  <2>3. Rule(state[r]) # NoRule /\ Rule(state[r]).termination \in Nat \ {0}
    BY <2>2, RdDebounced DEF FarFromSource
  <2> QED
    BY <1>1, <2>1, <2>3
<1>6. Alone(Peer(r))'
  BY <1>1, <1>2, <1>3, <1>5 DEF Alone, In, Stale
<1> QED
  BY <1>2, <1>4, <1>6 DEF StaleAlone, Alone

\* No debounce of a port far from a source is up.
LEMMA DebouncedAlone ==
  ASSUME PlugFacts, StaleAlone, NEW r \in Port, Debounced(r), UNCHANGED <<apart, pin>>
  PROVE  StaleAlone'
<1>1. /\ UNCHANGED <<state, attachment, timer, vbus>>
      /\ \A q \in Port \ {r} : watcher'[q] = watcher[q]
      /\ watcher'[r].status = watcher[r].status /\ watcher'[r].reported = watcher[r].reported
      /\ watcher'[r].due /\ watcher[r].pending = 0
  BY DebounceOver DEF PlugFacts, LinkInv
<1>2. \A q \in Port : FarFromSource(q) => FarFromSource(q)'
  BY <1>1 DEF FarFromSource, SeesRd
<1>3. \A p \in Port : Peer(p) \in Port
  BY Ports
<1> QED
  BY <1>1, <1>2, <1>3 DEF StaleAlone, In, Stale

\* A tick that passes at a stale port finds that the other end sees no Rd of it.
LEMMA TickAlone ==
  ASSUME PlugFacts, StaleAlone, LinkTick
  PROVE  StaleAlone'
<1> USE DEF LinkInv
<1> SUFFICES ASSUME NEW p \in Port, In', Stale(p)'
             PROVE  /\ vbus'[p] < 2 /\ FarFromSource(Peer(p))'
                    /\ state'[p] \in TryWaits =>
                         ~(/\ watcher'[p].reported /\ watcher'[p].status.sees = "rp"
                           /\ ~watcher'[p].due)
  BY DEF StaleAlone
<1> DEFINE q == Peer(p)
<1>1. q \in Port /\ Peer(q) = p
  BY Ports DEF Peer
<1>2. \A r \in Port :
        /\ state'[r] = state[r] /\ attachment'[r] = attachment[r] /\ vbus'[r] = vbus[r]
        /\ pin'[r] = pin[r] /\ ~watcher[r].due
        /\ watcher'[r].status = watcher[r].status /\ watcher'[r].reported = watcher[r].reported
        /\ ~watcher'[r].due
        /\ state[r] # "disabled" =>
             /\ watcher[r].reported /\ watcher[r].status = Line(r)
             /\ told[r] \in {"off", Reading(r)}
  BY Ticked DEF PlugFacts
<1>3. In /\ Stale(p)
  <2>1. apart \in Nat => apart' \in Nat
    BY Ticked, PlugNumbers DEF PlugFacts
  <2>2. In
    BY <2>1, PlugNumbers DEF In, PlugFacts
  <2> QED
    BY <1>2, <2>2 DEF Stale
<1>4. /\ vbus[p] < 2 /\ FarFromSource(q)
      /\ state[p] \in TryWaits => ~(watcher[p].reported /\ watcher[p].status.sees = "rp")
  BY <1>2, <1>3 DEF StaleAlone
<1>5. ~SeesRd(q) \/ state[q] = "disabled"
  <2> SUFFICES ASSUME SeesRd(q), state[q] # "disabled" PROVE FALSE
    OBVIOUS
  <2>1. Line(q).sees = "rd"
    BY <1>1, <1>2 DEF SeesRd
  <2>2. Pull(state[p]) = "rd" /\ Pull(state[q]) = "rp"
    BY <1>1, <2>1, LineVisible DEF Line, OpenLine, PlugFacts, Visible
  <2>3. Line(p).sees = "rp"
    BY <1>3, <2>2 DEF Line
  <2>4. state[p] # "disabled"
    BY <2>2 DEF Pull, RdStates
  <2>5. state[p] \in {"attached_snk"} \cup TryWaits
    BY <1>3, <2>2 DEF Stale, Tries, TryWaits, Pull, RpStates
  <2>6. state[p] = "attached_snk"
    BY <1>2, <1>4, <2>3, <2>4, <2>5
  <2>7. told[p] \in {"owed", "unmet"} /\ told[p] = "met"
    BY <1>2, <1>4, <2>6 DEF PlugFacts, ReportsOwed, AwaitsVbus, Reading, Level, Met
  <2> QED
    BY <2>7
<1>6. FarFromSource(q)'
  <2>1. state[q] = "disabled" => ~SeesRd(q)
    BY <1>1 DEF PlugFacts, DetectionsFitThePull, SeesRd, Visible, Pull, RpStates
  <2> QED
    BY <1>1, <1>2, <1>4, <1>5, <2>1 DEF FarFromSource, SeesRd
<1> QED
  BY <1>2, <1>4, <1>6

\* With a stale port nobody drives VBUS up.
LEMMA SettleAlone ==
  ASSUME PlugFacts, StaleAlone, Settle
  PROVE  StaleAlone'
<1> SUFFICES ASSUME NEW p \in Port, In', Stale(p)'
             PROVE  /\ vbus'[p] < 2 /\ FarFromSource(Peer(p))'
                    /\ state'[p] \in TryWaits =>
                         ~(/\ watcher'[p].reported /\ watcher'[p].status.sees = "rp"
                           /\ ~watcher'[p].due)
  BY DEF StaleAlone
<1>1. /\ UNCHANGED <<state, attachment, watcher, apart, pin>>
      /\ In /\ Stale(p)
  BY DEF Settle, In, Stale
<1>2. /\ vbus[p] < 2 /\ FarFromSource(Peer(p))
      /\ state[p] \in TryWaits =>
           ~(watcher[p].reported /\ watcher[p].status.sees = "rp" /\ ~watcher[p].due)
  BY <1>1 DEF StaleAlone
<1>3. \A q \in Port : state[q] # "attached_src"
  BY <1>1, <1>2, Ports DEF FarFromSource, Stale, Tries, Peer
<1>4. Driven(p) = 0
  <2>1. \A q \in Port : Path(state[q]) # "safe5v"
    BY <1>3 DEF Path, Sourcing, Discharging
  <2> QED
    BY <1>1, <2>1 DEF Driven, Bus
<1>5. vbus[p] \in 0..2 /\ vbus \in [Port -> 0..2]
  BY DEF PlugFacts, LinkInv, LinkTypeOK, TypeOK, Voltage
<1>6. vbus'[p] < 2
  <2>1. PICK r \in Port :
          vbus' = [q \in Port |-> IF q \in Bus(r) THEN Step(vbus[q], Driven(q)) ELSE vbus[q]]
    BY DEF Settle
  <2>2. vbus'[p] \in {vbus[p], Step(vbus[p], 0)}
    BY <1>4, <2>1
  <2> QED
    BY <1>2, <1>5, <2>2 DEF Step
<1>7. FarFromSource(Peer(p))'
  BY <1>1, <1>2 DEF FarFromSource, SeesRd
<1> QED
  BY <1>1, <1>2, <1>6, <1>7

\* Stale ports stay alone.
LEMMA StaleAloneStays ==
  ASSUME PlugFacts, PlugInv, LinkNext
  PROVE  StaleAlone'
<1> USE DEF PlugInv
<1>1. CASE PluggedIn
  <2> SUFFICES ASSUME NEW p \in Port
               PROVE  /\ vbus'[p] < 2 /\ FarFromSource(Peer(p))'
                      /\ ~(watcher'[p].reported /\ watcher'[p].status.sees = "rp")
    BY DEF StaleAlone
  <2>1. UNCHANGED <<state, watcher, vbus>> /\ vbus[p] = 0
    BY <1>1 DEF PluggedIn, vars
  <2>2. \A q \in Port :
          /\ state[q] \notin {"attached_src"} \cup RdHeld
          /\ watcher[q].reported => watcher[q].status.sees = "open"
    BY <1>1, PluggedInFinds DEF Connected, Attached
  <2>3. Peer(p) \in Port
    BY Ports
  <2> QED
    BY <2>1, <2>2, <2>3 DEF FarFromSource, SeesRd
<1>2. CASE Pulled
  <2>1. ~In'
    BY <1>2, PlugNumbers DEF Pulled, In
  <2> QED
    BY <2>1 DEF StaleAlone
<1>3. CASE UNCHANGED <<state, attachment, timer, watcher, vbus, apart, pin>>
  BY <1>3 DEF StaleAlone, In, Stale, FarFromSource, SeesRd
<1> QED
  BY <1>1, <1>2, <1>3, CableSteps, HandlesAlone, ReportAlone, DebouncedAlone, TickAlone, SettleAlone

\* What the plug rests on is inductive, given what holds of every port.
LEMMA PlugInvStays == PlugInv /\ PlugFacts /\ [LinkNext]_linkVars => PlugInv'
<1> SUFFICES ASSUME PlugInv, PlugFacts, [LinkNext]_linkVars
             PROVE  PlugInv'
  OBVIOUS
<1>1. CASE LinkNext
  BY <1>1, SeenStays, EndsStay, EndingStays, HeldTrulyStays, StaleAloneStays DEF PlugInv
<1>2. CASE UNCHANGED linkVars
  <2>1. UNCHANGED <<state, attachment, timer, watcher, vbus, apart, pin>>
    BY <1>2 DEF linkVars, env, vars
  <2> QED
    BY <2>1 DEF PlugInv, Seen, EndsRun, Ending, HeldTruly, StaleAlone, In, Stale, FarFromSource,
      SeesRd
<1> QED
  BY <1>1, <1>2

\* It holds at the start: the cable is out and both ports are disabled.
LEMMA PlugInvInit == LinkInit => PlugInv
<1> SUFFICES ASSUME LinkInit
             PROVE  PlugInv
  OBVIOUS
<1>1. \A p \in Port : state[p] = "disabled" /\ ~watcher[p].reported
  BY DEF LinkInit, Init
<1>2. HoldTime("disabled") = Off
  BY DEF HoldTime
<1>3. ~In
  BY PlugNumbers DEF LinkInit, In
<1>4. Seen /\ EndsRun /\ Ending
  BY <1>1, <1>2 DEF Seen, EndsRun, Ending, OpenTimed, RpHeld, RdHeld
<1>5. HeldTruly /\ StaleAlone
  BY <1>1, <1>3 DEF HeldTruly, StaleAlone
<1> QED
  BY <1>4, <1>5 DEF PlugInv

\* Both ends of a cable hold its true orientation while they are attached to
\* each other and the drivers have told what they know, also after a replug
\* the other way round, if a cable stays out for as long as its ports may
\* take to notice.
THEOREM PlugIsTrue == LongGap => (LinkSpec => []TruePlug)
<1>1. SUFFICES ASSUME LongGap
               PROVE  LinkSpec => []TruePlug
  OBVIOUS
<1>2. LinkSpec => [](LinkInv /\ DetectionsFitThePull /\ ConnectionResolved /\ ReportsOwed
                       /\ HeldSeesRd)
  BY PortsOnACable, DetectionsFit, ConnectionsResolved, ReportsStayOwed, OneClaim,
     LinkInvInit, LinkInvStays, PTL DEF LinkSpec
<1>3. LinkInv /\ DetectionsFitThePull /\ ConnectionResolved /\ ReportsOwed /\ HeldSeesRd
        => PlugFacts
  BY <1>1 DEF PlugFacts
<1>4. PlugInv /\ PlugFacts => TruePlug
  <2> SUFFICES ASSUME PlugInv, PlugFacts, NEW p \in Port, In, state[p] \in Attached, ~Owes(p),
                      attachment[p].orientation # pin[p]
               PROVE  FALSE
    BY DEF TruePlug
  <2>1. state[p] = "attached_snk"
    BY DEF PlugInv, HeldTruly, Connected, Attached
  <2>2. vbus[p] < 2
    BY <2>1 DEF PlugInv, StaleAlone, Stale
  <2>3. told[p] \in {"owed", "unmet"}
    BY <2>1 DEF PlugFacts, ReportsOwed, AwaitsVbus
  <2>4. Level(state[p]) = "sink_disconnect"
    BY <2>1 DEF Level
  <2>5. Reading(p) = "met"
    BY <2>2, <2>4 DEF Reading, Met
  <2> QED
    BY <2>1, <2>3, <2>5 DEF Owes
<1> QED
  BY <1>2, <1>3, <1>4, PlugInvInit, PlugInvStays, PTL DEF LinkSpec

-----------------------------------------------------------------------------
(* Staying together.  Only a detection that the Rd is gone ends a source's  *)
(* connection, and a driver reports that of a port that does not present    *)
(* it.  Such a port is a tick away from a sink: it debounces the Rp first,  *)
(* or waits, and no tick passes before its Rd is reported again.            *)

\* A source whose driver reported the line open.
OpenSource(q) ==
  /\ state[q] = "attached_src"
  /\ watcher[q].reported /\ watcher[q].status.sees = "open"

\* A port that takes a tick yet to become a sink.
FarFromSink(p) ==
  \/ Pull(state[p]) # "rd"
  \/ state[p] = "unattached_snk"
  \/ state[p] \in {"try_wait_snk", "try_snk_wait"} /\ timer[p] # 0
  \/ state[p] = "attach_wait_snk" /\ ~watcher[p].due /\ watcher[p].pending # 0

\* Nobody is about to sink from a source that sees the line open.
SinkFar == In => \A q \in Port : OpenSource(q) => FarFromSink(Peer(q))

\* What the plug rests on holds with it.
StayFacts == PlugFacts /\ PlugInv /\ OneClaims

\* From a port that presents no Rd, and out of the waits in which one is far
\* from a sink, the rows lead to such waits.
LEMMA TargetFromFar ==
  ASSUME NEW p \in Port, NEW e, NEW s \in Target(p, e), Pull(s) = "rd",
         e # "swap_abort", state[p] # "attached_src"
  PROVE  /\ Pull(state[p]) # "rd" => s \in {"unattached_snk", "try_wait_snk", "try_snk_wait"}
         /\ state[p] = "unattached_snk" => s \in {"unattached_snk", "attach_wait_snk"}
         /\ state[p] \in {"try_wait_snk", "try_snk_wait"} /\ e # "timeout" =>
              s = "unattached_snk"
         /\ state[p] = "attach_wait_snk" /\ e # "cc_detected" => FALSE
<1>1. ASSUME Pull(state[p]) # "rd"
      PROVE  s \in {"unattached_snk", "try_wait_snk", "try_snk_wait"}
  <2>1. state[p] \notin RdStates
    BY <1>1 DEF Pull, RpStates, RdStates
  <2>2. s \in RdStates
    BY DEF Pull
  <2>3. s \notin SinkAttachFlow(p, e) \cup HardResetFlow(p, e)
    BY <2>1 DEF SinkAttachFlow, HardResetFlow, Row, On, RdStates
  <2>4. s \in SourceAttachFlow(p, e) => s \in {"unattached_snk", "try_snk_wait"}
    BY <2>2 DEF SourceAttachFlow, Row, On, RdStates
  <2>5. s \in TrySrcFlow(p, e) => s \in {"unattached_snk", "try_wait_snk"}
    BY <2>1, <2>2 DEF TrySrcFlow, Row, On, RdStates
  <2>6. s \in TrySnkFlow(p, e) => s = "unattached_snk"
    BY <2>1, <2>2 DEF TrySnkFlow, Row, On, RdStates
  <2>7. s \in ToggleFlow(p, e) \cup SwapFlow(p, e) => s = "unattached_snk"
    BY <2>1, <2>2 DEF ToggleFlow, SwapFlow, Row, On, RdStates, Standby
  <2>8. s \in EntryFlow(p, e) \cup ErrorRecoveryFlow(p, e) => s = "unattached_snk"
    BY <2>2 DEF EntryFlow, ErrorRecoveryFlow, Row, On, RdStates
  <2> QED
    BY <2>3, <2>4, <2>5, <2>6, <2>7, <2>8 DEF Target
<1>2. state[p] = "unattached_snk" => s \in {"unattached_snk", "attach_wait_snk"}
  BY DEF Target, EntryFlow, ErrorRecoveryFlow, SinkAttachFlow, HardResetFlow, SourceAttachFlow,
    ToggleFlow, SwapFlow, TrySrcFlow, TrySnkFlow, Row, On, Pull, RpStates, RdStates, Standby
<1>3. state[p] \in {"try_wait_snk", "try_snk_wait"} /\ e # "timeout" => s = "unattached_snk"
  BY DEF Target, EntryFlow, ErrorRecoveryFlow, SinkAttachFlow, HardResetFlow, SourceAttachFlow,
    ToggleFlow, SwapFlow, TrySrcFlow, TrySnkFlow, Row, On, Pull, RpStates, RdStates, Standby
<1>4. state[p] = "attach_wait_snk" /\ e # "cc_detected" => FALSE
  BY DEF Target, EntryFlow, ErrorRecoveryFlow, SinkAttachFlow, HardResetFlow, SourceAttachFlow,
    ToggleFlow, SwapFlow, TrySrcFlow, TrySnkFlow, Row, On, Pull, RpStates, RdStates, Standby
<1> QED
  BY <1>1, <1>2, <1>3, <1>4

\* Entering the first wait for a source starts its debounce.
LEMMA WaitDebounces ==
  ASSUME NEW p \in Port, watcher[p] \in Watcher, state[p] = "unattached_snk"
  PROVE  LET v == WatcherOn(p, "attach_wait_snk") IN ~v.due /\ v.pending # 0
<1> DEFINE w == [watcher[p] EXCEPT !.due = FALSE,
                                   !.reported = StillReported(p, "attach_wait_snk")]
           u == [w EXCEPT !.pending = Off]
<1>1. Rule("attach_wait_snk") = Debounce(tCCDebounce, tPDDebounce)
      /\ Rule(state[p]) = Debounce(0, 0)
  BY DEF Rule
<1>2. tCCDebounce \in Nat \ {0} /\ tPDDebounce \in Nat \ {0}
  BY TimeAssumption DEF Ticks
<1>3. Rule("attach_wait_snk") # Rule(state[p])
  BY <1>1, <1>2 DEF Debounce
<1>4. StillReported(p, "attach_wait_snk") \in BOOLEAN
  BY DEF StillReported, Watcher
<1>5. u \in Watcher /\ ~u.due /\ u.pending = Off
  BY <1>4 DEF Watcher, Off
<1>6. WatcherOn(p, "attach_wait_snk") = Evaluated(u, Rule("attach_wait_snk"))
  BY <1>3 DEF WatcherOn
<1>7. LET v == Evaluated(u, Rule("attach_wait_snk")) IN ~v.due /\ v.pending # 0
  <2> HIDE DEF u
  <2>1. Rule("attach_wait_snk").open # 0 /\ Rule("attach_wait_snk").termination # 0
    BY <1>1, <1>2 DEF Debounce
  <2> QED
    BY <1>5, <2>1 DEF Evaluated, Watcher, Off
<1> QED
  BY <1>6, <1>7

\* A port far from a sink stays far when it handles an event.
LEMMA FarSinkStays ==
  ASSUME StayFacts, NEW p \in Port, NEW e, CableHandles(p, e), FarFromSink(p),
         state[p] # "attached_src"
  PROVE  FarFromSink(p)'
<1> USE DEF LinkInv
<1>1. /\ (\E s : Entered(p, e, s)) \/ Ignored(p, e)
      /\ Handles(p, e) /\ watcher[p] \in Watcher /\ LinkTypeOK
      /\ e # "swap_abort" /\ (e = "timeout" => timer[p] = 0)
      /\ e = "cc_detected" => watcher[p].due
  BY Handled DEF CableHandles, LinkHandles, Handles, StayFacts, PlugFacts, LinkTypeOK, TypeOK
<1>2. ASSUME NEW s, Entered(p, e, s)
      PROVE  FarFromSink(p)'
  <2>1. /\ state'[p] = s /\ s \in Target(p, e) /\ watcher'[p] = WatcherOn(p, s)
        /\ timer'[p] = Duration(p, s)
    BY <1>2 DEF Entered
  <2>2. CASE Pull(s) # "rd" \/ s = "unattached_snk"
    BY <2>1, <2>2 DEF FarFromSink
  <2>3. CASE s \in {"try_wait_snk", "try_snk_wait"}
    <3>1. Duration(p, s) \in Nat \ {0}
      BY <2>3, TimeAssumption DEF Duration, Ticks
    <3> QED
      BY <2>1, <2>3, <3>1 DEF FarFromSink
  <2>4. CASE s = "attach_wait_snk" /\ state[p] = "unattached_snk"
    BY <1>1, <2>1, <2>4, WaitDebounces DEF FarFromSink
  <2> QED
    BY <1>1, <2>1, <2>2, <2>3, <2>4, TargetFromFar DEF FarFromSink
<1>3. ASSUME Ignored(p, e)
      PROVE  FarFromSink(p)'
  BY <1>1, <1>3 DEF FarFromSink, Ignored
<1> QED
  BY <1>1, <1>2, <1>3

\* No row leads back to a source that is one already.
LEMMA SourceEntered ==
  ASSUME StayFacts, NEW q \in Port, NEW e, CableHandles(q, e), OpenSource(q)'
  PROVE  OpenSource(q)
<1> USE DEF LinkInv
<1>1. /\ (\E s : Entered(q, e, s)) \/ Ignored(q, e)
      /\ Handles(q, e) /\ LinkTypeOK /\ watcher'[q].status = watcher[q].status
  BY Handled DEF CableHandles, LinkHandles, StayFacts, PlugFacts, LinkTypeOK
<1>2. ASSUME NEW s, Entered(q, e, s)
      PROVE  FALSE
  <2>1. s \in Target(q, e) /\ s = "attached_src"
    BY <1>2 DEF Entered, OpenSource
  <2>2. watcher[q].reported /\ Pull(s) = Pull(state[q]) /\ watcher[q].status.sees = "open"
    BY <1>1, <1>2, StaysReported DEF OpenSource
  <2>3. CASE e = "cc_detected" /\ SingleRd(Cc(q))
    BY <2>2, <2>3 DEF SingleRd, Cc
  <2>4. CASE e = "vbus_reached_safe0v" /\ state[q] \in RdHeld
    BY <1>1, <2>2, <2>4 DEF StayFacts, PlugFacts, HeldSeesRd, SeesRd, Handles
  <2>5. CASE e = "swap_complete" /\ state[q] = "swap_standby_to_src"
    BY <2>1, <2>2, <2>5 DEF Pull, RpStates, RdStates
  <2> QED
    BY <2>1, <2>3, <2>4, <2>5, TargetSource DEF CableHandles, LinkHandles
<1> QED
  BY <1>1, <1>2 DEF Ignored, OpenSource

\* With the cable in, no step brings a port near to a sink of a source that
\* sees the line open.
LEMMA SinkFarStays ==
  ASSUME StayFacts, SinkFar, LinkNext
  PROVE  SinkFar'
<1> USE DEF LinkInv
<1>1. SUFFICES ASSUME In', NEW q \in Port, OpenSource(q)'
               PROVE  FarFromSink(Peer(q))'
  BY DEF SinkFar
<1> DEFINE p == Peer(q)
<1>2. /\ p \in Port /\ p # q /\ q = Peer(p) /\ Port = {p, q}
      /\ LinkTypeOK /\ PlugFacts
  BY Ports DEF Peer, StayFacts, PlugFacts
<1>3. ASSUME In, OpenSource(q)
      PROVE  FarFromSink(p) /\ state[p] # "attached_src"
  BY <1>2, <1>3, Ports DEF SinkFar, OpenSource, StayFacts, OneClaims, Claims
<1>4. ASSUME NEW r \in Port, NEW e, CableHandles(r, e)
      PROVE  FarFromSink(p)'
  <2>1. In /\ Handles(r, e)
    BY <1>1, <1>4 DEF CableHandles, LinkHandles, In
  <2>2. \A o \in Port \ {r} : Still(o)
    BY <1>2, <1>4, <2>1, Handled DEF LinkTypeOK
  <2>3. CASE r = q
    <3>1. Still(p)
      BY <1>2, <2>2, <2>3
    <3> QED
      BY <1>1, <1>3, <1>4, <2>1, <2>3, <3>1, SourceEntered DEF Still, FarFromSink
  <2>4. CASE r = p
    <3>1. OpenSource(q)
      BY <1>1, <1>2, <2>2, <2>4 DEF Still, OpenSource
    <3> QED
      BY <1>3, <1>4, <2>1, <2>4, <3>1, FarSinkStays
  <2> QED
    BY <1>2, <2>3, <2>4
<1>5. ASSUME NEW r \in Port, Report(r, Line(r)), UNCHANGED <<apart, pin>>
      PROVE  FarFromSink(p)'
  <2>1. In /\ UNCHANGED <<state, timer>> /\ \A o \in Port \ {r} : watcher'[o] = watcher[o]
    BY <1>1, <1>2, <1>5, Reported DEF In
  <2>2. CASE r = q
    <3>1. Line(q).sees = "open" /\ state[q] = "attached_src"
      BY <1>1, <1>2, <1>5, <2>1, <2>2, Reported DEF OpenSource
    <3>2. Pull(state[q]) = "rp"
      BY <3>1 DEF Pull, RpStates
    <3>3. Pull(state[p]) # "rd"
      BY <2>1, <3>1, <3>2 DEF Line
    <3> QED
      BY <2>1, <3>3 DEF FarFromSink
  <2>3. CASE r = p
    <3>1. OpenSource(q)
      BY <1>1, <1>2, <2>1, <2>3 DEF OpenSource
    <3>2. FarFromSink(p)
      BY <1>3, <2>1, <3>1
    <3>3. ASSUME state[p] = "attach_wait_snk"
          PROVE  ~watcher'[p].due /\ watcher'[p].pending # 0
      <4>1. Rule(state[p]) = Debounce(tCCDebounce, tPDDebounce)
        BY <3>3 DEF Rule
      <4>2. tCCDebounce \in Nat \ {0} /\ tPDDebounce \in Nat \ {0}
        BY TimeAssumption DEF Ticks
      <4>3. Rule(state[p]) # NoRule /\ Rule(state[p]).open # 0 /\ Rule(state[p]).termination # 0
        BY <4>1, <4>2 DEF Debounce, NoRule
      <4>4. Line(p).sees # "open"
        <5>1. Pull(state[p]) = "rd" /\ Pull(state[q]) = "rp"
          BY <3>1, <3>3 DEF OpenSource, Pull, RpStates, RdStates
        <5>2. Line(p).sees = "rp"
          BY <1>2, <2>1, <5>1 DEF Line
        <5> QED
          BY <5>2
      <4> QED
        BY <1>2, <1>5, <2>3, <4>2, <4>1, <4>3, <4>4, Reported DEF Debounce
    <3> QED
      BY <2>1, <3>2, <3>3 DEF FarFromSink
  <2> QED
    BY <1>2, <2>2, <2>3
<1>6. ASSUME NEW r \in Port, Debounced(r), UNCHANGED <<apart, pin>>
      PROVE  FarFromSink(p)'
  <2>1. /\ In /\ UNCHANGED <<state, timer>> /\ \A o \in Port \ {r} : watcher'[o] = watcher[o]
        /\ watcher'[r].status = watcher[r].status /\ watcher'[r].reported = watcher[r].reported
        /\ watcher[r].pending = 0
    BY <1>1, <1>2, <1>6, DebounceOver DEF In
  <2>2. OpenSource(q)
    BY <1>1, <1>2, <2>1 DEF OpenSource
  <2> QED
    BY <1>2, <1>3, <2>1, <2>2 DEF FarFromSink
<1>7. ASSUME LinkTick
      PROVE  FarFromSink(p)'
  <2>1. In
    BY <1>1, <1>2, <1>7, Ticked, PlugNumbers DEF In
  <2>2. /\ UNCHANGED state /\ state[q] = "attached_src"
        /\ watcher[q].reported /\ watcher[q].status.sees = "open"
        /\ watcher[q].status = Line(q)
    BY <1>1, <1>2, <1>7, Ticked DEF OpenSource
  <2>3. Pull(state[q]) = "rp"
    BY <2>2 DEF Pull, RpStates
  <2>4. Pull(state[p]) # "rd"
    BY <2>1, <2>2, <2>3 DEF Line
  <2> QED
    BY <2>2, <2>4 DEF FarFromSink
<1>8. CASE PluggedIn
  <2>1. state[q] # "attached_src" /\ UNCHANGED state
    BY <1>2, <1>8, PluggedInFinds DEF PluggedIn, vars, StayFacts, PlugInv, Connected, Attached
  <2> QED
    BY <1>1, <2>1 DEF OpenSource
<1>9. ASSUME Pulled
      PROVE  FALSE
  BY <1>1, <1>9, PlugNumbers DEF Pulled, In
<1>10. CASE UNCHANGED <<state, attachment, timer, watcher, apart, pin>>
  BY <1>1, <1>3, <1>10 DEF In, OpenSource, FarFromSink
<1> QED
  BY <1>4, <1>5, <1>6, <1>7, <1>8, <1>9, <1>10, CableSteps DEF Settle

\* It holds at the start, with the cable out.
LEMMA SinkFarInit == LinkInit => SinkFar
BY PlugNumbers DEF LinkInit, SinkFar, In

\* The rows out of a connection that neither engine directs away: VBUS gone
\* from the sink, the Rd gone from the source.
LEMMA TargetStays ==
  ASSUME NEW p \in Port, NEW e, NEW s \in Target(p, e), state[p] \in Attached,
         e \in {"started", "cc_detected", "timeout", "swap_complete"} \cup VbusEvents
  PROVE  \/ state[p] = "attached_snk" /\ e = "vbus_removed"
         \/ state[p] = "attached_src" /\ e = "cc_detected" /\ ~SingleRd(Cc(p))
BY DEF Target, EntryFlow, ErrorRecoveryFlow, SinkAttachFlow, HardResetFlow, SourceAttachFlow,
  ToggleFlow, SwapFlow, TrySrcFlow, TrySnkFlow, Row, On, Attached, Standby, VbusEvents

\* A step that directs neither end away hands a port one of these events or
\* leaves both in their states.
LEMMA UndirectedSteps ==
  ASSUME LinkTypeOK, LinkNext, directed' = directed, supply = [p \in Port |-> "on"]
  PROVE  \/ \E p \in Port :
              \E e \in {"started", "cc_detected", "timeout", "swap_complete"} \cup VbusEvents :
                Handles(p, e)
         \/ UNCHANGED state
<1>1. ASSUME NEW p \in Port, PortWork(p)
      PROVE  \/ \E e \in {"started", "cc_detected", "timeout"} \cup VbusEvents : Handles(p, e)
             \/ UNCHANGED state
  <2>1. CASE LinkStart(p)
    BY <2>1 DEF LinkStart, Start, Handles, VbusEvents
  <2>2. CASE LinkDetected(p)
    BY <2>2 DEF LinkDetected, Detected, Handles, VbusEvents
  <2>3. CASE LinkTimeout(p)
    BY <2>3 DEF LinkTimeout, Timeout, Idle, Handles, VbusEvents
  <2>4. CASE LinkVbusReport(p)
    BY <2>4, VbusEventIsOne DEF LinkVbusReport, VbusReport, Idle, Handles, VbusEvents
  <2>5. CASE LinkDebounced(p) \/ LinkReport(p)
    BY <2>5 DEF LinkDebounced, Debounced, LinkReport, Report
  <2> QED
    BY <1>1, <2>1, <2>2, <2>3, <2>4, <2>5 DEF PortWork
<1>2. ASSUME NEW p \in Port, Engine(p)
      PROVE  Handles(p, "swap_complete") \/ UNCHANGED state
  <2>1. directed \in Nat /\ supply[p] = "on"
    BY LinkAssumption DEF LinkTypeOK
  <2>2. ~(BeginSwap(p) \/ BeginHardReset(p) \/ BeginErrorRecovery(p) \/ AssertRd(p))
    BY <2>1 DEF BeginSwap, BeginHardReset, BeginErrorRecovery, AssertRd, Begins
  <2>3. CASE AssertRp(p) \/ SwapCompleted(p)
    BY <2>3 DEF AssertRp, SwapCompleted, Direct, Idle, Handles, VbusEvents
  <2>4. CASE Cut(p) \/ Restore(p)
    BY <2>4 DEF Cut, Restore, vars
  <2> QED
    BY <1>2, <2>2, <2>3, <2>4 DEF Engine
<1>3. CASE \E p \in Port : LinkLock(p)
  BY <1>3 DEF LinkLock, Lock
<1>4. CASE LinkTick \/ Settle \/ Pulled \/ PluggedIn
  BY <1>4 DEF LinkTick, Tick, Settle, Pulled, PluggedIn, vars
<1> QED
  BY <1>1, <1>2, <1>3, <1>4 DEF LinkNext

\* Two ports attached to each other stay so.
LEMMA TogetherStays ==
  ASSUME StayFacts, SinkFar, LinkNext, Together, vbus[A] = 2,
         apart' = apart, directed' = directed, supply = [p \in Port |-> "on"]
  PROVE  Together'
<1> USE DEF LinkInv
<1>1. PICK p \in Port : state[p] = "attached_snk" /\ state[Peer(p)] = "attached_src"
  BY DEF Together
<1> DEFINE q == Peer(p)
<1>2. /\ q \in Port /\ q # p /\ Port = {p, q} /\ Peer(q) = p
      /\ LinkTypeOK /\ In /\ In' /\ vbus[p] = 2
  BY Ports DEF Peer, StayFacts, PlugFacts, Together, OneConductor, In
<1>3. ASSUME NEW r \in Port,
             NEW e \in {"started", "cc_detected", "timeout", "swap_complete"} \cup VbusEvents,
             Handles(r, e)
      PROVE  state'[r] = state[r] /\ \A o \in Port \ {r} : state'[o] = state[o]
  <2>1. /\ (\E s : Entered(r, e, s)) \/ Ignored(r, e)
        /\ \A o \in Port \ {r} : Still(o)
    BY <1>2, <1>3, Handled DEF LinkTypeOK
  <2>2. state[r] \in Attached
    BY <1>1, <1>2 DEF Attached
  <2>3. ASSUME NEW s, Entered(r, e, s)
        PROVE  FALSE
    <3>1. \/ r = p /\ e = "vbus_removed"
          \/ r = q /\ e = "cc_detected" /\ ~SingleRd(Cc(q))
      BY <1>1, <1>2, <2>2, <2>3, TargetStays DEF Entered
    <3>2. CASE r = p /\ e = "vbus_removed"
      <4>1. Level(state[p]) = "sink_disconnect" /\ Reading(p) # "met"
        BY <1>1, <1>2 DEF Level, Reading, Met
      <4> QED
        BY <1>3, <3>2, <4>1 DEF Handles, VbusEvent, VbusEvents
    <3>3. CASE r = q /\ e = "cc_detected" /\ ~SingleRd(Cc(q))
      <4>1. watcher[q].due /\ watcher[q].reported /\ watcher[q].status \in Visible(state[q])
        BY <1>2, <1>3, <3>3 DEF Handles, StayFacts, PlugFacts, DetectionsFitThePull
      <4>2. Pull(state[q]) = "rp"
        BY <1>1 DEF Pull, RpStates
      <4>3. watcher[q].status.sees \in {"open", "rd"}
        BY <4>1, <4>2 DEF Visible
      <4>4. watcher[q].status.sees = "rd" => SingleRd(Cc(q))
        <5>1. pin[q] \in Pin
          BY <1>2 DEF LinkTypeOK
        <5> QED
          BY <1>2, <4>1, <5>1 DEF StayFacts, PlugInv, Seen, SingleRd, Cc, Pin
      <4>5. OpenSource(q)
        BY <1>1, <3>3, <4>1, <4>3, <4>4 DEF OpenSource
      <4>6. FarFromSink(p)
        BY <1>2, <4>5 DEF SinkFar
      <4> QED
        BY <1>1, <4>6 DEF FarFromSink, Pull, RdStates, RpStates
    <3> QED
      BY <3>1, <3>2, <3>3
  <2> QED
    BY <2>1, <2>3 DEF Ignored, Still
<1>4. state'[p] = state[p] /\ state'[q] = state[q]
  BY <1>2, <1>3, UndirectedSteps
<1> QED
  BY <1>1, <1>2, <1>4 DEF Together

\* Ports attached to each other stay: no debounce, wall or toggle of theirs
\* ends a connection that nobody pulled or directed away, if a cable stays out
\* for as long as its ports may take to notice.
THEOREM TheyStay == LongGap => (LinkSpec => Stays)
<1>1. SUFFICES ASSUME LongGap
               PROVE  LinkSpec => Stays
  OBVIOUS
<1>2. LinkSpec => [](LinkInv /\ DetectionsFitThePull /\ ConnectionResolved /\ ReportsOwed
                       /\ HeldSeesRd /\ OneClaims)
  BY PortsOnACable, DetectionsFit, ConnectionsResolved, ReportsStayOwed, OneClaim,
     LinkInvInit, LinkInvStays, PTL DEF LinkSpec
<1>3. LinkInv /\ DetectionsFitThePull /\ ConnectionResolved /\ ReportsOwed /\ HeldSeesRd
        => PlugFacts
  BY <1>1 DEF PlugFacts
<1>4. StayFacts /\ SinkFar /\ [LinkNext]_linkVars => SinkFar'
  <2> SUFFICES ASSUME StayFacts, SinkFar, UNCHANGED linkVars
               PROVE  SinkFar'
    BY SinkFarStays
  <2> QED
    BY DEF linkVars, env, vars, SinkFar, In, OpenSource, FarFromSink
<1>5. /\ StayFacts /\ SinkFar /\ [LinkNext]_linkVars
      => [Together /\ vbus[A] = 2 /\ apart' = apart /\ directed' = directed
            /\ supply = [p \in Port |-> "on"] => Together']_linkVars
  BY TogetherStays
<1>6. PlugFacts /\ PlugInv /\ OneClaims => StayFacts
  BY DEF StayFacts
<1> QED
  BY <1>2, <1>3, <1>4, <1>5, <1>6, PlugInvInit, PlugInvStays, SinkFarInit, PTL
  DEF LinkSpec, Stays
=============================================================================
