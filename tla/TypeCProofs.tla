---------------------------- MODULE TypeCProofs ----------------------------
(* Theorems about TypeC: what holds of a port under any drivers, any VBUS   *)
(* and any PD layer, and so of every port a composition runs.               *)
EXTENDS TypeC, TLAPS

-----------------------------------------------------------------------------
(* The tables, row by row: where a transition may lead.                     *)

SinkStates == {"disabled", "error_recovery", "unattached_snk", "attach_wait_snk",
               "attach_wait_snk_rp_detected", "attached_snk", "hard_reset_snk",
               "hard_reset_recover_snk"}
SourceStates == {"disabled", "error_recovery", "unattached_src", "attach_wait_src",
                 "attach_wait_src_rd_detected", "attached_src"}
DrpStates == SinkStates \cup SourceStates \cup Standby \cup {"removing_vbus"}
TrySrcStates == {"try_src", "try_src_until_safe0v", "try_src_timed_out",
                 "try_wait_snk", "try_wait_snk_debounced"}
TrySnkStates == {"try_snk_wait", "try_snk", "try_snk_rp_detected", "try_wait_src",
                 "try_wait_src_rd_detected", "try_wait_src_timed_out"}
StatesOf(table) ==
  IF table = "sink" THEN SinkStates
  ELSE IF table = "source" THEN SourceStates \cup {"unattached_wait_src"}
  ELSE UNION {DrpStates, IF table = "drp_source" THEN TrySrcStates ELSE {},
                         IF table = "drp_sink" THEN TrySnkStates ELSE {}}

\* A port is only ever in the states of its own table.
OfTable == \A p \in Port : state[p] \in StatesOf(Table[p])

\* Every port runs one of the five tables.
LEMMA TableOf == \A p \in Port : Table[p] \in Tables
BY TableAssumption

\* A table's states are states.
LEMMA StatesOfState == \A p \in Port : StatesOf(Table[p]) \subseteq State
BY TableOf DEF StatesOf, Tables, SinkStates, SourceStates, DrpStates, TrySrcStates,
  TrySnkStates, Standby, State, RpStates, RdStates, OpenStates

\* A row leads to a state of the port's own table.
LEMMA TargetFits ==
  ASSUME NEW p \in Port, NEW e, OfTable, NEW s \in Target(p, e)
  PROVE  s \in StatesOf(Table[p])
<1>1. state[p] \in StatesOf(Table[p]) /\ Table[p] \in Tables
  BY TableOf DEF OfTable
<1> QED
  BY <1>1 DEF Target, EntryFlow, ErrorRecoveryFlow, SinkAttachFlow, HardResetFlow,
    SourceAttachFlow, ToggleFlow, SwapFlow, TrySrcFlow, TrySnkFlow, Row, On, IsDrp,
    TriesSource, Tables, StatesOf, SinkStates, SourceStates, DrpStates, TrySrcStates,
    TrySnkStates, Standby

\* What a row into a state that holds a connection, or a detection, rests on.
Resumes(p, e) ==
  \/ e \in {"swap_complete", "swap_abort"}
  \/ e = "vbus_present" /\ state[p] = "hard_reset_recover_snk"
Attaches(p, e) ==
  \/ e = "cc_detected" /\ (SingleRp(Cc(p)) \/ SingleRd(Cc(p)))
  \/ e \in {"vbus_present", "timeout"} /\ SingleRp(attachment[p].detected)
  \/ e = "vbus_present" /\ state[p] \in RpHeld
  \/ e = "vbus_reached_safe0v" /\ state[p] \in RdHeld

\* A row that leads into a connection attaches, resumes, or goes on within one.
LEMMA TargetAttached ==
  ASSUME NEW p \in Port, NEW e, NEW s \in Target(p, e), s \in Connected
  PROVE  \/ s \in Attached /\ state[p] \in Connected /\ Resumes(p, e)
         \/ /\ s \in Attached /\ Attaches(p, e)
            /\ state[p] \notin Connected \cup {"error_recovery", "unattached_wait_src"}
         \/ s \notin Attached /\ state[p] \in Connected
BY DEF Target, EntryFlow, ErrorRecoveryFlow, SinkAttachFlow, HardResetFlow, SourceAttachFlow,
  ToggleFlow, SwapFlow, TrySrcFlow, TrySnkFlow, Row, On, Connected, Attached, Standby,
  Resumes, Attaches, RpHeld, RdHeld

\* A row into a state that holds a detection was taken on that detection.
LEMMA TargetHeld ==
  ASSUME NEW p \in Port, NEW e, NEW s \in Target(p, e)
  PROVE  /\ s \in RpHeld => e = "cc_detected" /\ SingleRp(Cc(p))
         /\ s \in RdHeld => e = "cc_detected" /\ SingleRd(Cc(p))
BY DEF Target, EntryFlow, ErrorRecoveryFlow, SinkAttachFlow, HardResetFlow, SourceAttachFlow,
  ToggleFlow, SwapFlow, TrySrcFlow, TrySnkFlow, Row, On, RpHeld, RdHeld

\* Out of a connection every row leads to where its attachment is kept or reset.
LEMMA TargetLeaves ==
  ASSUME NEW p \in Port, NEW e, NEW s \in Target(p, e),
         state[p] \in Connected \cup {"error_recovery", "unattached_wait_src"}
  PROVE  \/ s \in Connected \cup {"error_recovery", "unattached_wait_src"}
         \/ Resets(s)
BY DEF Target, EntryFlow, ErrorRecoveryFlow, SinkAttachFlow, HardResetFlow, SourceAttachFlow,
  ToggleFlow, SwapFlow, TrySrcFlow, TrySnkFlow, Row, On, Connected, Attached, Standby, Resets

\* A row into a wait for a report arms its level, or finds it armed.
LEMMA TargetAwaits ==
  ASSUME NEW p \in Port, NEW e, NEW s \in Target(p, e), s \in AwaitsVbus
  PROVE  /\ Level(s) # "unwatched"
         /\ \/ Level(s) # Level(state[p])
            \/ state[p] \in AwaitsVbus /\ e \notin VbusEvents
BY DEF Target, EntryFlow, ErrorRecoveryFlow, SinkAttachFlow, HardResetFlow, SourceAttachFlow,
  ToggleFlow, SwapFlow, TrySrcFlow, TrySnkFlow, Row, On, AwaitsVbus, Level, VbusEvents

\* A state that waits for a report leaves on it.
LEMMA AwaitedLeads ==
  ASSUME NEW p \in Port, OfTable, state[p] \in AwaitsVbus
  PROVE  Target(p, VbusEvent(Level(state[p]), TRUE)) # {}
<1>1. state[p] \in StatesOf(Table[p]) /\ Table[p] \in Tables
  BY TableOf DEF OfTable
<1> QED
  BY <1>1 DEF Target, EntryFlow, ErrorRecoveryFlow, SinkAttachFlow, HardResetFlow,
    SourceAttachFlow, ToggleFlow, SwapFlow, TrySrcFlow, TrySnkFlow, Row, On, IsDrp,
    Tables, StatesOf, SinkStates, SourceStates, DrpStates, TrySrcStates,
    TrySnkStates, Standby, AwaitsVbus, Level, VbusEvent

\* A debounce the table waits on runs when the wait begins.
LEMMA TargetDebounce ==
  ASSUME NEW p \in Port, NEW e, NEW s \in Target(p, e), s \in AwaitsDebounce
  PROVE  /\ DebouncePending(p)
         /\ Rule(s) = Rule(state[p]) /\ Rule(s) # NoRule
         /\ state[p] \notin AwaitsDebounce
BY TimeAssumption DEF Target, EntryFlow, ErrorRecoveryFlow, SinkAttachFlow, HardResetFlow,
  SourceAttachFlow, ToggleFlow, SwapFlow, TrySrcFlow, TrySnkFlow, Row, On, AwaitsDebounce,
  Rule, NoRule, Debounce, Ticks

\* A row leads on whatever the debounce ends in.
LEMMA DebounceLeads ==
  ASSUME NEW p \in Port, OfTable, state[p] \in AwaitsDebounce
  PROVE  Target(p, "cc_detected") # {}
<1>1. state[p] \in StatesOf(Table[p]) /\ Table[p] \in Tables
  BY TableOf DEF OfTable
<1> QED
  BY <1>1 DEF Target, TrySrcFlow, TrySnkFlow, Row, On, Tables, StatesOf, SinkStates,
    SourceStates, DrpStates, TrySrcStates, TrySnkStates, Standby, AwaitsDebounce

\* Rules under which nothing is debounced, and the rows that change the pull
\* without changing the rule.
Undebounced(rule) == rule \in {NoRule, Debounce(0, 0)}

\* A row that changes the pull but not the rule is between states that debounce nothing.
LEMMA TargetPull ==
  ASSUME NEW p \in Port, NEW e, NEW s \in Target(p, e),
         Rule(s) = Rule(state[p]), Pull(s) # Pull(state[p])
  PROVE  Undebounced(Rule(s))
BY TimeAssumption DEF Target, EntryFlow, ErrorRecoveryFlow, SinkAttachFlow, HardResetFlow,
  SourceAttachFlow, ToggleFlow, SwapFlow, TrySrcFlow, TrySnkFlow, Row, On, Undebounced,
  Rule, NoRule, Debounce, Ticks, Pull, RpStates, RdStates

\* No row leads a locked port from rest to Rp.
LEMMA TargetLocked ==
  ASSUME NEW p \in Port, NEW e, NEW s \in Target(p, e), IsDrp(p), ~allowed[p],
         state[p] \in {"disabled", "unattached_snk", "attach_wait_snk",
                       "attach_wait_snk_rp_detected"}
  PROVE  Pull(s) # "rp"
BY DEF Target, EntryFlow, ErrorRecoveryFlow, SinkAttachFlow, HardResetFlow, SourceAttachFlow,
  ToggleFlow, SwapFlow, TrySrcFlow, TrySnkFlow, Row, On, IsDrp, TriesSource, Pull, RpStates,
  RdStates

-----------------------------------------------------------------------------
(* The steps: handling an event, or one of four that no table takes part in. *)

Handles(p, e) ==
  /\ Process(p, e)
  /\ e \in VbusEvents => /\ e = VbusEvent(Level(state[p]), Reading(p) = "met")
                         /\ told[p] \notin {"off", Reading(p)}
  /\ watcher[p].due => e \in {"cc_detected", "started"}
  /\ e = "cc_detected" => watcher[p].due
  /\ e = "started" => state[p] = "disabled"
  /\ UNCHANGED <<vbus, allowed>>

\* The front end turns a report into one of the four VBUS events.
LEMMA VbusEventIsOne == \A level, met : VbusEvent(level, met) \in VbusEvents
BY DEF VbusEvent, VbusEvents

\* Every step handles an event or is one of four that no table takes part in.
LEMMA Steps ==
  ASSUME [Next]_vars
  PROVE  \/ \E p \in Port : \E e : Handles(p, e)
         \/ \E p \in Port : \E cc \in Visible(state[p]) : Report(p, cc)
         \/ \E p \in Port : Debounced(p)
         \/ \E p \in Port : Lock(p)
         \/ \E ports \in SUBSET Port : \E v \in Voltage : Moves(ports, v)
         \/ Tick
         \/ UNCHANGED vars
<1>1. ASSUME NEW p \in Port, Start(p)
      PROVE  Handles(p, "started")
  BY <1>1 DEF Start, Handles, VbusEvents
<1>2. ASSUME NEW p \in Port, Detected(p)
      PROVE  Handles(p, "cc_detected")
  BY <1>2 DEF Detected, Handles, VbusEvents
<1>3. ASSUME NEW p \in Port, Timeout(p)
      PROVE  Handles(p, "timeout")
  BY <1>3 DEF Timeout, Idle, Handles, VbusEvents
<1>4. ASSUME NEW p \in Port, VbusReport(p)
      PROVE  Handles(p, VbusEvent(Level(state[p]), Reading(p) = "met"))
  BY <1>4, VbusEventIsOne DEF VbusReport, Idle, Handles, VbusEvents
<1>5. ASSUME NEW p \in Port, NEW e \in Directives, Direct(p, e)
      PROVE  Handles(p, e)
  BY <1>5 DEF Direct, Idle, Handles, VbusEvents, Directives
<1> QED
  BY <1>1, <1>2, <1>3, <1>4, <1>5 DEF Next, PortStep

-----------------------------------------------------------------------------
(* Types.                                                                   *)

\* A state's time is a number of ticks or none.
LEMMA DurationType ==
  ASSUME NEW p \in Port, NEW s
  PROVE  Duration(p, s) \in Nat \cup {Off}
BY SliceAssumption, TimeAssumption DEF Duration, HoldTime, Ticks, Off

\* A rule that debounces says how long.
LEMMA RuleTimes ==
  ASSUME NEW s, Rule(s) # NoRule
  PROVE  Rule(s).termination \in Nat /\ Rule(s).open \in Nat
BY TimeAssumption DEF Rule, NoRule, Debounce, Ticks

\* Evaluating a rule leaves a watcher.
LEMMA EvaluatedType ==
  ASSUME NEW w \in Watcher, NEW s
  PROVE  Evaluated(w, Rule(s)) \in Watcher
BY RuleTimes DEF Evaluated, Watcher, Off

\* Entering a state leaves a watcher.
LEMMA WatcherOnType ==
  ASSUME NEW p \in Port, NEW s, watcher[p] \in Watcher
  PROVE  WatcherOn(p, s) \in Watcher
<1> DEFINE w == [watcher[p] EXCEPT !.due = FALSE, !.reported = StillReported(p, s)]
<1>1. StillReported(p, s) \in BOOLEAN
  BY DEF StillReported, Watcher
<1>2. w \in Watcher /\ [w EXCEPT !.pending = Off] \in Watcher
  BY <1>1 DEF Watcher
<1> QED
  BY <1>2, EvaluatedType DEF WatcherOn

\* Entering a state leaves an attachment.
LEMMA AttachmentOnType ==
  ASSUME NEW p \in Port, NEW e, NEW s, attachment[p] \in Attachment, watcher[p] \in Watcher
  PROVE  AttachmentOn(p, e, s) \in Attachment
BY DEF AttachmentOn, Attachment, Watcher, NoAttachment, OpenLine, Status, Pin, Resolved,
  OrientationOf, Cc

\* An internal transition leaves an attachment.
LEMMA InternalType ==
  ASSUME NEW p \in Port, NEW e, attachment[p] \in Attachment, watcher[p] \in Watcher
  PROVE  Internal(p, e) \in Attachment
BY DEF Internal, Attachment, Watcher, Cc

\* Handling an event keeps types and tables.
LEMMA HandlesTypes ==
  ASSUME TypeOK, OfTable, NEW p \in Port, NEW e, Handles(p, e)
  PROVE  TypeOK' /\ OfTable'
<1> USE DEF TypeOK
<1>1. ASSUME NEW s \in Target(p, e), Enter(p, e, s)
      PROVE  TypeOK' /\ OfTable'
  <2>1. s \in StatesOf(Table[p]) /\ s \in State
    BY TargetFits, StatesOfState
  <2>2. AttachmentOn(p, e, s) \in Attachment /\ WatcherOn(p, s) \in Watcher
    BY AttachmentOnType, WatcherOnType
  <2>3. Duration(p, s) \in Nat \cup {Off}
    BY DurationType
  <2>4. Armed(p, e, s) \in {"off", "owed", "met", "unmet"}
    BY DEF Armed, Heard, Reading
  <2>5. TypeOK'
    BY <1>1, <2>1, <2>2, <2>3, <2>4 DEF Enter, Handles
  <2>6. OfTable'
    BY <1>1, <2>1 DEF Enter, OfTable
  <2> QED
    BY <2>5, <2>6
<1>2. CASE /\ Target(p, e) = {}
           /\ attachment' = [attachment EXCEPT ![p] = Internal(p, e)]
           /\ watcher' = [watcher EXCEPT ![p].due = FALSE]
           /\ told' = [told EXCEPT ![p] = Heard(p, e)]
           /\ UNCHANGED <<state, timer>>
  <2>1. Internal(p, e) \in Attachment /\ Heard(p, e) \in {"off", "owed", "met", "unmet"}
    BY InternalType DEF Heard, Reading
  <2>2. [watcher[p] EXCEPT !.due = FALSE] \in Watcher
    BY DEF Watcher
  <2>3. watcher' \in [Port -> Watcher]
    BY <1>2, <2>2
  <2>4. attachment' \in [Port -> Attachment] /\ told' \in [Port -> {"off", "owed", "met", "unmet"}]
    BY <1>2, <2>1
  <2>5. OfTable'
    BY <1>2 DEF OfTable
  <2> QED
    BY <1>2, <2>3, <2>4, <2>5 DEF Handles
<1> QED
  BY <1>1, <1>2 DEF Handles, Process

\* The initial state is typed.
LEMMA TypesInit == Init => TypeOK /\ OfTable
BY TableOf DEF Init, TypeOK, OfTable, Watcher, Attachment, NoAttachment, OpenLine, Status,
  Pin, Voltage, State, OpenStates, Off, StatesOf, SinkStates, SourceStates, DrpStates

\* Every step keeps types and tables.
LEMMA TypesStay ==
  ASSUME TypeOK, OfTable, [Next]_vars
  PROVE  TypeOK' /\ OfTable'
<1>1. ASSUME NEW p \in Port, NEW e, Handles(p, e)
      PROVE  TypeOK' /\ OfTable'
  BY <1>1, HandlesTypes
<1>2. ASSUME NEW p \in Port, NEW cc \in Visible(state[p]), Report(p, cc)
      PROVE  TypeOK' /\ OfTable'
  <2>1. [watcher[p] EXCEPT !.status = cc, !.reported = TRUE] \in Watcher
    BY DEF TypeOK, Watcher, Visible
  <2>2. Evaluated([watcher[p] EXCEPT !.status = cc, !.reported = TRUE], Rule(state[p])) \in Watcher
    BY <2>1, EvaluatedType
  <2> QED
    BY <1>2, <2>2 DEF Report, TypeOK, OfTable
<1>3. ASSUME NEW p \in Port, Debounced(p)
      PROVE  TypeOK' /\ OfTable'
  <2> DEFINE w == [watcher[p] EXCEPT !.pending = Off, !.due = TRUE]
  <2>1. w \in Watcher
    BY DEF TypeOK, Watcher
  <2>2. watcher' = [watcher EXCEPT ![p] = w]
    BY <1>3 DEF Debounced, TypeOK, Watcher
  <2> QED
    BY <1>3, <2>1, <2>2 DEF Debounced, TypeOK, OfTable
<1>4. ASSUME NEW p \in Port, Lock(p)
      PROVE  TypeOK' /\ OfTable'
  BY <1>4 DEF Lock, TypeOK, OfTable
<1>5. ASSUME NEW ports \in SUBSET Port, NEW v \in Voltage, Moves(ports, v)
      PROVE  TypeOK' /\ OfTable'
  BY <1>5 DEF Moves, TypeOK, OfTable
<1>6. ASSUME Tick
      PROVE  TypeOK' /\ OfTable'
  <2>1. \A n \in Nat \cup {Off} : Ahead(n) \in Nat \cup {Off}
    BY DEF Ahead, Off
  <2>2. \A p \in Port : [watcher[p] EXCEPT !.pending = Ahead(@)] \in Watcher
    BY <2>1 DEF TypeOK, Watcher
  <2> QED
    BY <1>6, <2>1, <2>2 DEF Tick, TypeOK, OfTable
<1>7. ASSUME UNCHANGED vars
      PROVE  TypeOK' /\ OfTable'
  BY <1>7 DEF vars, TypeOK, OfTable
<1> QED
  BY <1>1, <1>2, <1>3, <1>4, <1>5, <1>6, <1>7, Steps

\* A port's variables keep their types, and a port stays in its own table.
THEOREM TypeCorrect == Spec => [](TypeOK /\ OfTable)
<1>1. TypeOK /\ OfTable /\ [Next]_vars => (TypeOK /\ OfTable)'
  BY TypesStay
<1> QED
  BY TypesInit, <1>1, PTL DEF Spec

\* What the steps that no table takes part in leave alone.
LEMMA QuietSteps ==
  ASSUME [Next]_vars, ~ \E p \in Port : \E e : Handles(p, e)
  PROVE  UNCHANGED <<state, attachment, told>>
BY Steps DEF Report, Debounced, Lock, Moves, Tick, vars

-----------------------------------------------------------------------------
(* What a connection rests on.                                              *)

\* What an attach resolves from a single pin's status is on one wire.
LEMMA ResolvedOnOneWire ==
  ASSUME NEW cc \in Status, NEW s, SingleRp(cc) \/ SingleRd(cc)
  PROVE  OnOneWire(Resolved(s, cc))
BY DEF Status, SingleRp, SingleRd, OnOneWire, Resolved, OrientationOf, Pin

\* The attachment that a transition leaves, by where it leads.
LEMMA AttachmentAfter ==
  ASSUME TypeOK, ConnectionResolved, NEW p \in Port, NEW e, NEW s \in Target(p, e)
  PROVE  LET a == AttachmentOn(p, e, s) IN
         /\ s \in Connected => OnOneWire(a)
         /\ s \in Connected /\ state[p] \in Connected => a = attachment[p]
         /\ s \in RpHeld => SingleRp(a.detected)
         /\ s \in RdHeld => SingleRd(a.detected)
         /\ a.resolved => s \in Connected \cup {"error_recovery", "unattached_wait_src"}
<1> DEFINE a == AttachmentOn(p, e, s)
<1>1. attachment[p] \in Attachment /\ Cc(p) \in Status /\ attachment[p].detected \in Status
  BY DEF TypeOK, Attachment, Watcher, Cc
<1>2. CASE Resets(s)
  <2>1. a = NoAttachment
    BY <1>2 DEF AttachmentOn, Resets, Attached
  <2>2. s \notin Connected \cup RpHeld \cup RdHeld
    BY <1>2 DEF Resets, Connected, Attached, Standby, RpHeld, RdHeld
  <2> QED
    BY <2>1, <2>2 DEF NoAttachment
<1>3. CASE s \in RpHeld \cup RdHeld
  <2>1. a = [attachment[p] EXCEPT !.detected = Cc(p)]
    BY <1>3 DEF AttachmentOn, RpHeld, RdHeld, Resets, Attached
  <2>2. s \notin Connected \cup {"error_recovery", "unattached_wait_src"} /\ ~Resets(s)
    BY <1>3 DEF RpHeld, RdHeld, Connected, Attached, Standby, Resets
  <2>3. ~attachment[p].resolved
    BY <2>2, TargetLeaves DEF ConnectionResolved
  <2> QED
    BY <1>1, <2>1, <2>2, <2>3, TargetHeld DEF Attachment
<1>4. CASE s \in Connected /\ ~Resets(s)
  <2>1. CASE s \in Attached /\ state[p] \in Connected /\ Resumes(p, e)
    <3>1. OnOneWire(attachment[p])
      BY <2>1 DEF ConnectionResolved
    <3>2. Keeps(p, e)
      BY <2>1, <3>1 DEF Resumes, Keeps, OnOneWire
    <3>3. a = attachment[p]
      BY <2>1, <3>2 DEF AttachmentOn, Attached, Resets
    <3> QED
      BY <1>4, <3>1, <3>3 DEF Connected, RpHeld, RdHeld, Attached, Standby
  <2>2. CASE /\ s \in Attached /\ Attaches(p, e)
             /\ state[p] \notin Connected \cup {"error_recovery", "unattached_wait_src"}
    <3>1. ~attachment[p].resolved
      BY <2>2 DEF ConnectionResolved
    <3>2. ~Keeps(p, e)
      BY <2>2, <3>1 DEF Attaches, Keeps
    <3> DEFINE cc == IF e = "cc_detected" THEN Cc(p) ELSE attachment[p].detected
    <3>3. a = Resolved(s, cc)
      BY <2>2, <3>2 DEF AttachmentOn, Attached, Resets
    <3>4. SingleRp(cc) \/ SingleRd(cc)
      BY <2>2 DEF Attaches, ConnectionResolved
    <3>5. OnOneWire(a)
      BY <1>1, <3>3, <3>4, ResolvedOnOneWire
    <3> QED
      BY <1>4, <2>2, <3>5 DEF Connected, RpHeld, RdHeld, Attached, Standby
  <2>3. CASE s \notin Attached /\ state[p] \in Connected
    <3>1. a = attachment[p]
      BY <1>4, <2>3 DEF AttachmentOn, Connected, Attached, Standby
    <3> QED
      BY <1>4, <2>3, <3>1 DEF ConnectionResolved, Connected, RpHeld, RdHeld, Attached, Standby
  <2> QED
    BY <1>4, <2>1, <2>2, <2>3, TargetAttached
<1>5. CASE s \notin Connected \cup RpHeld \cup RdHeld /\ ~Resets(s)
  <2>1. a = attachment[p]
    BY <1>5 DEF AttachmentOn, RpHeld, RdHeld, Connected
  <2> QED
    BY <1>5, <2>1, TargetLeaves DEF ConnectionResolved
<1> QED
  BY <1>2, <1>3, <1>4, <1>5

\* An event no row takes leaves all but the data role and TryWait.SNK's status.
LEMMA InternalKeeps ==
  ASSUME TypeOK, NEW p \in Port, NEW e
  PROVE  LET a == Internal(p, e) IN
         /\ a.resolved = attachment[p].resolved /\ a.orientation = attachment[p].orientation
         /\ state[p] \notin {"try_wait_snk", "try_wait_snk_debounced"}
              => a.detected = attachment[p].detected
BY DEF TypeOK, Attachment, Internal

\* A connection, and a wait on the way to one, has what it rests on.
THEOREM ConnectionsResolved == Spec => []ConnectionResolved
<1>1. Init => ConnectionResolved
  BY DEF Init, ConnectionResolved, NoAttachment, Connected, Attached, Standby, RpHeld, RdHeld
<1>2. TypeOK /\ ConnectionResolved /\ [Next]_vars => ConnectionResolved'
  <2> SUFFICES ASSUME TypeOK, ConnectionResolved, [Next]_vars
               PROVE  ConnectionResolved'
    OBVIOUS
  <2>1. ASSUME NEW p \in Port, NEW e, Handles(p, e)
        PROVE  ConnectionResolved'
    <3>1. ASSUME NEW s \in Target(p, e), Enter(p, e, s)
          PROVE  ConnectionResolved'
      <4>1. /\ state' = [state EXCEPT ![p] = s]
            /\ attachment' = [attachment EXCEPT ![p] = AttachmentOn(p, e, s)]
        BY <3>1 DEF Enter
      <4>2. state'[p] = s /\ attachment'[p] = AttachmentOn(p, e, s)
        BY <4>1 DEF TypeOK
      <4>3. \A q \in Port \ {p} : state'[q] = state[q] /\ attachment'[q] = attachment[q]
        BY <4>1 DEF TypeOK
      <4> QED
        BY <4>2, <4>3, AttachmentAfter DEF ConnectionResolved
    <3>2. ASSUME attachment' = [attachment EXCEPT ![p] = Internal(p, e)], state' = state
          PROVE  ConnectionResolved'
      <4>1. attachment'[p] = Internal(p, e)
        BY <3>2 DEF TypeOK
      <4>2. \A q \in Port \ {p} : attachment'[q] = attachment[q]
        BY <3>2 DEF TypeOK
      <4>3. {"try_wait_snk", "try_wait_snk_debounced"} \cap (Connected \cup RpHeld \cup RdHeld) = {}
        BY DEF Connected, Attached, Standby, RpHeld, RdHeld
      <4> QED
        BY <3>2, <4>1, <4>2, <4>3, InternalKeeps DEF ConnectionResolved, OnOneWire, SingleRp, SingleRd
    <3> QED
      BY <2>1, <3>1, <3>2 DEF Handles, Process
  <2>2. CASE UNCHANGED <<state, attachment, told>>
    BY <2>2 DEF ConnectionResolved
  <2> QED
    BY <2>1, <2>2, QuietSteps
<1> QED
  BY <1>1, <1>2, TypeCorrect, PTL DEF Spec

\* A connection that goes on, through a hard reset or a role swap, keeps its
\* plug and, but for a DR_Swap in place, its data role.
THEOREM PlugKept == Spec => ConnectionKept
<1> DEFINE Kept == \A p \in Port : state[p] \in Connected /\ state'[p] \in Connected =>
                     /\ attachment'[p].detected = attachment[p].detected
                     /\ attachment'[p].orientation = attachment[p].orientation
                     /\ state'[p] # state[p] => attachment'[p].data = attachment[p].data
<1>1. TypeOK /\ ConnectionResolved /\ [Next]_vars => [Kept]_vars
  <2> SUFFICES ASSUME TypeOK, ConnectionResolved, [Next]_vars
               PROVE  Kept
    OBVIOUS
  <2>1. ASSUME NEW p \in Port, NEW e, Handles(p, e)
        PROVE  Kept
    <3>1. ASSUME NEW s \in Target(p, e), Enter(p, e, s)
          PROVE  Kept
      <4>1. /\ state' = [state EXCEPT ![p] = s]
            /\ attachment' = [attachment EXCEPT ![p] = AttachmentOn(p, e, s)]
        BY <3>1 DEF Enter
      <4>2. state'[p] = s /\ attachment'[p] = AttachmentOn(p, e, s)
        BY <4>1 DEF TypeOK
      <4>3. \A q \in Port \ {p} : state'[q] = state[q] /\ attachment'[q] = attachment[q]
        BY <4>1 DEF TypeOK
      <4> QED
        BY <4>2, <4>3, AttachmentAfter
    <3>2. ASSUME attachment' = [attachment EXCEPT ![p] = Internal(p, e)], state' = state
          PROVE  Kept
      <4>1. attachment'[p] = Internal(p, e)
        BY <3>2 DEF TypeOK
      <4>2. \A q \in Port \ {p} : attachment'[q] = attachment[q]
        BY <3>2 DEF TypeOK
      <4>3. {"try_wait_snk", "try_wait_snk_debounced"} \cap Connected = {}
        BY DEF Connected, Attached, Standby
      <4> QED
        BY <3>2, <4>1, <4>2, <4>3, InternalKeeps
    <3> QED
      BY <2>1, <3>1, <3>2 DEF Handles, Process
  <2>2. CASE UNCHANGED <<state, attachment, told>>
    BY <2>2
  <2> QED
    BY <2>1, <2>2, QuietSteps
<1> QED
  BY <1>1, TypeCorrect, ConnectionsResolved, PTL DEF Spec, ConnectionKept

\* A locked DRP does not leave its rest at Rd, nor a sink's attach, for Rp.
THEOREM LockIsHonoured == Spec => LockHonoured
<1> DEFINE Honoured == \A p \in Port :
       /\ IsDrp(p) /\ ~allowed[p]
       /\ state[p] \in {"disabled", "unattached_snk", "attach_wait_snk",
                        "attach_wait_snk_rp_detected"}
       => Pull(state'[p]) # "rp"
<1>1. TypeOK /\ [Next]_vars => [Honoured]_vars
  <2> SUFFICES ASSUME TypeOK, [Next]_vars
               PROVE  Honoured
    OBVIOUS
  <2>1. \A q \in Port : state'[q] = state[q] \/ \E e : state'[q] \in Target(q, e)
    <3>1. ASSUME NEW p \in Port, NEW e, Handles(p, e)
          PROVE  \A q \in Port : state'[q] = state[q] \/ \E d : state'[q] \in Target(q, d)
      BY <3>1 DEF Handles, Process, Enter, TypeOK
    <3> QED
      BY <3>1, QuietSteps
  <2>2. ASSUME NEW q \in Port, state'[q] = state[q],
               state[q] \in {"disabled", "unattached_snk", "attach_wait_snk",
                             "attach_wait_snk_rp_detected"}
        PROVE  Pull(state'[q]) # "rp"
    BY <2>2 DEF Pull, RpStates
  <2> QED
    BY <2>1, <2>2, TargetLocked
<1> QED
  BY <1>1, TypeCorrect, PTL DEF Spec, LockHonoured

-----------------------------------------------------------------------------
(* What the watcher measures, under which pull.                             *)

\* Nothing is debounced where no rule says how long.
OnlyDebounced == \A p \in Port : Undebounced(Rule(state[p])) => watcher[p].pending = Off

\* What a watcher w may hold in state s.
Fits(w, s) == /\ w.pending # Off \/ w.due => w.reported
              /\ w.reported => w.status \in Visible(s)
              /\ Undebounced(Rule(s)) => w.pending = Off

\* Both properties are one of each watcher and its state.
LEMMA FitsIsBoth ==
  DetectionsFitThePull /\ OnlyDebounced <=> \A p \in Port : Fits(watcher[p], state[p])
BY DEF DetectionsFitThePull, OnlyDebounced, Fits

\* Evaluating a rule keeps a watcher fitting its state.
LEMMA EvaluatedFits ==
  ASSUME NEW w \in Watcher, NEW s, w.reported => w.status \in Visible(s),
         w.due => w.reported, w.pending # Off => w.reported,
         Undebounced(Rule(s)) => w.pending = Off
  PROVE  Fits(Evaluated(w, Rule(s)), s)
<1> DEFINE time == IF w.status.sees = "open" THEN Rule(s).open ELSE Rule(s).termination
<1>1. CASE ~w.reported \/ Rule(s) = NoRule
  BY <1>1 DEF Fits, Evaluated
<1>2. CASE w.reported /\ Rule(s) # NoRule /\ time = 0
  <2>1. Evaluated(w, Rule(s)) = [w EXCEPT !.pending = Off, !.due = TRUE]
    BY <1>2 DEF Evaluated
  <2> QED
    BY <1>2, <2>1 DEF Fits, Watcher
<1>3. CASE w.reported /\ Rule(s) # NoRule /\ time # 0
  <2>1. Evaluated(w, Rule(s)) = [w EXCEPT !.pending = time]
    BY <1>3 DEF Evaluated
  <2>2. ~Undebounced(Rule(s))
    BY <1>3 DEF Undebounced, Debounce
  <2> QED
    BY <1>3, <2>1, <2>2 DEF Fits, Watcher
<1> QED
  BY <1>1, <1>2, <1>3

\* Entering a state leaves a watcher that fits it.
LEMMA WatcherOnFits ==
  ASSUME TypeOK, NEW p \in Port, Fits(watcher[p], state[p]), NEW e, NEW s \in Target(p, e)
  PROVE  Fits(WatcherOn(p, s), s)
<1> DEFINE w == [watcher[p] EXCEPT !.due = FALSE, !.reported = StillReported(p, s)]
<1>1. watcher[p] \in Watcher
  BY DEF TypeOK
<1>2. StillReported(p, s) \in BOOLEAN
  BY <1>1 DEF StillReported, Watcher
<1>3. /\ w \in Watcher /\ ~w.due /\ w.reported = StillReported(p, s)
      /\ w.status = watcher[p].status /\ w.pending = watcher[p].pending
  BY <1>1, <1>2 DEF Watcher
<1>4. w.reported => w.status \in Visible(s)
  BY <1>3 DEF StillReported, Fits, Visible
<1>5. CASE Rule(s) = Rule(state[p])
  <2>1. w.pending # Off => Pull(s) = Pull(state[p])
    BY <1>3, <1>5, TargetPull DEF Fits
  <2> QED
    BY <1>3, <1>4, <1>5, <2>1 DEF WatcherOn, Fits, StillReported
<1>6. CASE Rule(s) # Rule(state[p])
  <2> DEFINE v == [w EXCEPT !.pending = Off]
  <2>1. v \in Watcher /\ ~v.due /\ v.pending = Off /\ v.reported = w.reported /\ v.status = w.status
    BY <1>3 DEF Watcher
  <2>2. WatcherOn(p, s) = Evaluated(v, Rule(s))
    BY <1>6 DEF WatcherOn
  <2> QED
    BY <1>4, <2>1, <2>2, EvaluatedFits
<1> QED
  BY <1>5, <1>6

\* No detection carries a status that was measured under another pull.
THEOREM DetectionsFit == Spec => []DetectionsFitThePull
<1> DEFINE AllFit == \A p \in Port : Fits(watcher[p], state[p])
<1>1. Init => AllFit
  BY DEF Init, Fits
<1>2. TypeOK /\ AllFit /\ [Next]_vars => AllFit'
  <2> SUFFICES ASSUME TypeOK, AllFit, [Next]_vars
               PROVE  \A q \in Port : Fits(watcher'[q], state'[q])
    OBVIOUS
  <2>1. ASSUME NEW p \in Port, NEW e, Handles(p, e)
        PROVE  AllFit'
    <3>1. ASSUME NEW s \in Target(p, e), Enter(p, e, s)
          PROVE  AllFit'
      <4>1. Fits(WatcherOn(p, s), s)
        BY WatcherOnFits
      <4>2. state' = [state EXCEPT ![p] = s] /\ watcher' = [watcher EXCEPT ![p] = WatcherOn(p, s)]
        BY <3>1 DEF Enter
      <4> QED
        BY <4>1, <4>2 DEF TypeOK
    <3>2. ASSUME watcher' = [watcher EXCEPT ![p].due = FALSE], state' = state
          PROVE  AllFit'
      <4>1. watcher[p] \in Watcher /\ Fits(watcher[p], state[p])
        BY DEF TypeOK
      <4>2. Fits([watcher[p] EXCEPT !.due = FALSE], state[p])
        BY <4>1 DEF Fits, Watcher
      <4> QED
        BY <3>2, <4>2 DEF TypeOK
    <3> QED
      BY <2>1, <3>1, <3>2 DEF Handles, Process
  <2>2. ASSUME NEW p \in Port, NEW cc \in Visible(state[p]), Report(p, cc)
        PROVE  AllFit'
    <3> DEFINE w == [watcher[p] EXCEPT !.status = cc, !.reported = TRUE]
    <3>1. watcher[p] \in Watcher /\ Fits(watcher[p], state[p])
      BY DEF TypeOK
    <3>2. /\ w \in Watcher /\ w.reported /\ w.status = cc
          /\ w.due = watcher[p].due /\ w.pending = watcher[p].pending
      BY <3>1 DEF Watcher, Visible
    <3>3. Fits(Evaluated(w, Rule(state[p])), state[p])
      BY <3>1, <3>2, EvaluatedFits DEF Fits
    <3> QED
      BY <2>2, <3>3 DEF Report, TypeOK
  <2>3. ASSUME NEW p \in Port, Debounced(p)
        PROVE  AllFit'
    <3> DEFINE w == [watcher[p] EXCEPT !.pending = Off, !.due = TRUE]
    <3>1. watcher[p] \in Watcher /\ Fits(watcher[p], state[p]) /\ watcher[p].pending = 0
      BY <2>3 DEF TypeOK, Debounced
    <3>2. Fits(w, state[p])
      BY <3>1 DEF Fits, Watcher, Off
    <3>3. watcher' = [watcher EXCEPT ![p] = w]
      BY <2>3 DEF Debounced, TypeOK, Watcher
    <3> QED
      BY <2>3, <3>2, <3>3 DEF Debounced, TypeOK
  <2>4. ASSUME Tick
        PROVE  AllFit'
    <3>1. ASSUME NEW p \in Port
          PROVE  Fits([watcher[p] EXCEPT !.pending = Ahead(@)], state[p])
      <4>1. watcher[p] \in Watcher /\ Fits(watcher[p], state[p])
        BY <3>1 DEF TypeOK
      <4>2. Ahead(watcher[p].pending) = Off <=> watcher[p].pending = Off
        BY <4>1 DEF Watcher, Ahead, Off
      <4> QED
        BY <4>1, <4>2 DEF Fits, Watcher
    <3> QED
      BY <2>4, <3>1 DEF Tick
  <2>5. ASSUME UNCHANGED <<state, watcher>>
        PROVE  AllFit'
    BY <2>5
  <2> QED
    BY <2>1, <2>2, <2>3, <2>4, <2>5, Steps DEF Lock, Moves, vars
<1>3. AllFit => DetectionsFitThePull
  BY FitsIsBoth
<1> QED
  BY <1>1, <1>2, <1>3, TypeCorrect, PTL DEF Spec

-----------------------------------------------------------------------------
(* What leads on out of a wait.                                             *)

\* A transition into a wait for VBUS leaves the report owed.
LEMMA ArmedAwaits ==
  ASSUME NEW p \in Port, NEW e, NEW s \in Target(p, e), s \in AwaitsVbus,
         state[p] \in AwaitsVbus => told[p] \in {"owed", "unmet"}
  PROVE  Armed(p, e, s) \in {"owed", "unmet"}
BY TargetAwaits DEF Armed, Heard

\* An event that leaves a state waiting is not the report it waits for.
LEMMA HeardAwaits ==
  ASSUME OfTable, NEW p \in Port, NEW e, Handles(p, e), Target(p, e) = {},
         state[p] \in AwaitsVbus, told[p] \in {"owed", "unmet"}
  PROVE  Heard(p, e) \in {"owed", "unmet"}
<1>1. CASE e \in VbusEvents
  <2>1. Reading(p) # "met"
    BY <1>1, AwaitedLeads DEF Handles
  <2> QED
    BY <1>1, <2>1 DEF Heard, Reading
<1>2. CASE e \notin VbusEvents
  BY <1>2 DEF Heard
<1> QED
  BY <1>1, <1>2

\* A transition into a wait for the debounce leaves it running.
LEMMA WatcherOnDebounces ==
  ASSUME NEW p \in Port, watcher[p] \in Watcher, NEW e, NEW s \in Target(p, e), s \in AwaitsDebounce
  PROVE  WatcherOn(p, s).pending # Off
BY TargetDebounce DEF WatcherOn, DebouncePending, Watcher

\* A report in such a wait restarts the debounce or queues its outcome.
LEMMA EvaluatedDecides ==
  ASSUME NEW w \in Watcher, w.reported, NEW s \in AwaitsDebounce
  PROVE  LET v == Evaluated(w, Rule(s)) IN v.pending # Off \/ v.due
<1>1. Rule(s) = Debounce(tPDDebounce, 0) /\ tPDDebounce \in Ticks
  BY TimeAssumption DEF Rule, AwaitsDebounce
<1>2. Rule(s) # NoRule /\ Rule(s).termination # 0 /\ Rule(s).open = 0 /\ Rule(s).termination # Off
  BY <1>1 DEF NoRule, Debounce, Ticks, Off
<1> QED
  BY <1>2 DEF Evaluated, Watcher, Off

\* A wait for VBUS that armed its level still has its report coming, a wait
\* for the debounce has one running or its outcome queued.
LEMMA ReportsStayOwed == Spec => []ReportsOwed
<1>1. Init => ReportsOwed
  BY DEF Init, ReportsOwed, AwaitsVbus, AwaitsDebounce
<1>2. TypeOK /\ OfTable /\ ReportsOwed /\ [Next]_vars => ReportsOwed'
  <2> SUFFICES ASSUME TypeOK, OfTable, ReportsOwed, [Next]_vars
               PROVE  ReportsOwed'
    OBVIOUS
  <2>1. ASSUME NEW p \in Port, NEW e, Handles(p, e)
        PROVE  ReportsOwed'
    <3>1. ASSUME NEW s \in Target(p, e), Enter(p, e, s)
          PROVE  ReportsOwed'
      <4>1. s \in AwaitsVbus => Armed(p, e, s) \in {"owed", "unmet"}
        BY ArmedAwaits DEF ReportsOwed
      <4>2. s \in AwaitsDebounce => WatcherOn(p, s).pending # Off
        BY WatcherOnDebounces DEF TypeOK
      <4>3. /\ state' = [state EXCEPT ![p] = s]
            /\ watcher' = [watcher EXCEPT ![p] = WatcherOn(p, s)]
            /\ told' = [told EXCEPT ![p] = Armed(p, e, s)]
        BY <3>1 DEF Enter
      <4> QED
        BY <4>1, <4>2, <4>3 DEF TypeOK, ReportsOwed
    <3>2. ASSUME Target(p, e) = {}, UNCHANGED state,
                 watcher' = [watcher EXCEPT ![p].due = FALSE],
                 told' = [told EXCEPT ![p] = Heard(p, e)]
          PROVE  ReportsOwed'
      <4>1. state[p] \in AwaitsVbus => Heard(p, e) \in {"owed", "unmet"}
        BY <2>1, <3>2, HeardAwaits DEF ReportsOwed
      <4>2. state[p] \in AwaitsDebounce => ~watcher[p].due
        <5>1. state[p] \in AwaitsDebounce => e # "cc_detected" /\ state[p] # "disabled"
          BY <3>2, DebounceLeads DEF AwaitsDebounce
        <5> QED
          BY <2>1, <5>1 DEF Handles
      <4>3. watcher[p] \in Watcher
        BY DEF TypeOK
      <4>4. state[p] \in AwaitsDebounce => watcher'[p].pending # Off
        BY <3>2, <4>2, <4>3 DEF TypeOK, ReportsOwed, Watcher
      <4> QED
        BY <3>2, <4>1, <4>4 DEF TypeOK, ReportsOwed
    <3> QED
      BY <2>1, <3>1, <3>2 DEF Handles, Process
  <2>2. ASSUME NEW p \in Port, NEW cc \in Visible(state[p]), Report(p, cc)
        PROVE  ReportsOwed'
    <3> DEFINE w == [watcher[p] EXCEPT !.status = cc, !.reported = TRUE]
    <3>1. w \in Watcher /\ w.reported
      BY DEF TypeOK, Watcher, Visible
    <3>2. watcher' = [watcher EXCEPT ![p] = Evaluated(w, Rule(state[p]))] /\ UNCHANGED <<state, told>>
      BY <2>2 DEF Report
    <3> QED
      BY <3>1, <3>2, EvaluatedDecides DEF TypeOK, ReportsOwed
  <2>3. ASSUME NEW p \in Port, Debounced(p)
        PROVE  ReportsOwed'
    <3>1. watcher' = [watcher EXCEPT ![p] = [watcher[p] EXCEPT !.pending = Off, !.due = TRUE]]
      BY <2>3 DEF Debounced, TypeOK, Watcher
    <3> QED
      BY <2>3, <3>1 DEF Debounced, TypeOK, Watcher, ReportsOwed
  <2>4. ASSUME Tick
        PROVE  ReportsOwed'
    <3>1. \A p \in Port : watcher'[p].pending = Ahead(watcher[p].pending) /\ watcher'[p].due = watcher[p].due
      BY <2>4 DEF Tick, TypeOK, Watcher
    <3>2. \A p \in Port : Ahead(watcher[p].pending) = Off => watcher[p].pending = Off
      BY DEF TypeOK, Watcher, Ahead, Off
    <3> QED
      BY <2>4, <3>1, <3>2 DEF Tick, ReportsOwed
  <2>5. ASSUME UNCHANGED <<state, told, watcher>>
        PROVE  ReportsOwed'
    BY <2>5 DEF ReportsOwed
  <2> QED
    BY <2>1, <2>2, <2>3, <2>4, <2>5, Steps DEF Lock, Moves, vars
<1> QED
  BY <1>1, <1>2, TypeCorrect, PTL DEF Spec

\* A row into one of the two waits that ask is taken with VBUS off the level.
LEMMA AskedOnEntry ==
  ASSUME NEW p \in Port, vbus[p] \in Voltage, NEW e, NEW s \in Target(p, e),
         \/ s = "try_wait_src_rd_detected" /\ ~AskedVbus(p)
         \/ s = "try_wait_snk_debounced" /\ SingleRp(attachment[p].detected)
  PROVE  ~Met(Level(s), vbus[p])
BY DEF Target, EntryFlow, ErrorRecoveryFlow, SinkAttachFlow, HardResetFlow, SourceAttachFlow,
  ToggleFlow, SwapFlow, TrySrcFlow, TrySnkFlow, Row, On, AskedVbus, Met, Level, Voltage,
  VbusAtSafe0v, VbusAtSafe5v

\* A wait that asks leaves on the report it waits for, and on a detection of
\* what it waits for with VBUS at the level.
LEMMA AskedLeads ==
  ASSUME NEW p \in Port, OfTable, vbus[p] \in Voltage
  PROVE  /\ AskedVbus(p) => Target(p, VbusEvent(Level(state[p]), TRUE)) # {}
         /\ state[p] = "try_wait_snk_debounced" /\ SingleRp(Cc(p)) /\ Target(p, "cc_detected") = {}
            => ~Met(Level(state[p]), vbus[p])
<1>1. state[p] \in StatesOf(Table[p]) /\ Table[p] \in Tables
  BY TableOf DEF OfTable
<1>2. AskedVbus(p) => Target(p, VbusEvent(Level(state[p]), TRUE)) # {}
  BY <1>1 DEF Target, TrySrcFlow, TrySnkFlow, Row, On, IsDrp, AskedVbus,
    Tables, StatesOf, SinkStates, SourceStates, DrpStates, TrySrcStates,
    TrySnkStates, Standby, Level, VbusEvent
<1>3. ASSUME state[p] = "try_wait_snk_debounced", SingleRp(Cc(p)), Target(p, "cc_detected") = {}
      PROVE  ~Met(Level(state[p]), vbus[p])
  BY <1>1, <1>3 DEF Target, TrySrcFlow, Row, On, Level, Met, VbusAtSafe5v,
    Tables, StatesOf, SinkStates, SourceStates, DrpStates, TrySrcStates,
    TrySnkStates, Standby
<1> QED
  BY <1>2, <1>3

\* Nothing falls asleep over an event: a wait that asks is entered, and told
\* of an Rp, with VBUS off its level.
LEMMA EventsWake ==
  ASSUME TypeOK, OfTable, NEW p \in Port, NEW e, Handles(p, e), NEW q \in Port, Sleeps(q)'
  PROVE  Sleeps(q)
<1>1. UNCHANGED vbus /\ vbus[q] \in Voltage
  BY DEF TypeOK, Handles
<1>2. /\ AskedVbus(q)' /\ told'[q] = "met"
      /\ Met(Level(state'[q]), vbus[q])
  BY <1>1 DEF Sleeps, Reading
<1>3. CASE q # p
  <2>1. state'[q] = state[q] /\ attachment'[q] = attachment[q] /\ told'[q] = told[q]
    BY <1>3 DEF Handles, Process, Enter, TypeOK
  <2> QED
    BY <1>2, <2>1 DEF Sleeps, AskedVbus, Reading
<1>4. ASSUME q = p, NEW s \in Target(p, e), Enter(p, e, s)
      PROVE  Sleeps(p)
  <2>1. /\ state'[p] = s /\ attachment'[p] = AttachmentOn(p, e, s) /\ told'[p] = Armed(p, e, s)
    BY <1>4 DEF Enter, TypeOK
  <2>2. CASE s = "try_wait_src_rd_detected"
    <3>1. AskedVbus(p)
      BY <1>1, <1>2, <1>4, <2>1, <2>2, AskedOnEntry
    <3>2. state[p] = s /\ e = "cc_detected"
      BY <2>2, <3>1 DEF Target, EntryFlow, ErrorRecoveryFlow, SinkAttachFlow, HardResetFlow,
        SourceAttachFlow, ToggleFlow, SwapFlow, TrySrcFlow, TrySnkFlow, Row, On, AskedVbus
    <3> QED
      BY <1>2, <1>4, <2>1, <3>1, <3>2 DEF Sleeps, Armed, Heard, VbusEvents, Reading
  <2>3. CASE s = "try_wait_snk_debounced"
    <3>1. SingleRp(attachment[p].detected)
      BY <1>2, <1>4, <2>1, <2>3 DEF AskedVbus, AttachmentOn, Resets, Attached
    <3> QED
      BY <1>1, <1>2, <1>4, <2>1, <2>3, <3>1, AskedOnEntry
  <2> QED
    BY <1>2, <1>4, <2>1, <2>2, <2>3 DEF AskedVbus
<1>5. ASSUME q = p, Target(p, e) = {}, UNCHANGED state,
             attachment' = [attachment EXCEPT ![p] = Internal(p, e)],
             told' = [told EXCEPT ![p] = Heard(p, e)]
      PROVE  Sleeps(p)
  <2>1. state'[p] = state[p] /\ attachment'[p] = Internal(p, e) /\ told'[p] = Heard(p, e)
    BY <1>5 DEF TypeOK
  <2>2. Reading(p) = "met"
    BY <1>2, <1>5, <2>1 DEF Reading
  <2>3. AskedVbus(p)
    <3>1. CASE state[p] = "try_wait_src_rd_detected"
      BY <3>1 DEF AskedVbus
    <3>2. CASE state[p] = "try_wait_snk_debounced" /\ e = "cc_detected"
      <4>1. attachment'[p].detected = Cc(p)
        BY <2>1, <3>2 DEF Internal, TypeOK, Attachment
      <4>2. SingleRp(Cc(p))
        BY <1>2, <1>5, <2>1, <3>2, <4>1 DEF AskedVbus
      <4> QED
        BY <1>1, <1>2, <1>5, <2>1, <3>2, <4>2, AskedLeads
    <3>3. CASE state[p] = "try_wait_snk_debounced" /\ e # "cc_detected"
      <4>1. attachment'[p] = attachment[p]
        BY <2>1, <3>3 DEF Internal, Attached
      <4> QED
        BY <1>2, <1>5, <2>1, <3>3, <4>1 DEF AskedVbus
    <3> QED
      BY <1>2, <1>5, <2>1, <3>1, <3>2, <3>3 DEF AskedVbus
  <2>4. e \notin VbusEvents
    <3>1. Target(p, VbusEvent(Level(state[p]), TRUE)) # {}
      BY <1>1, <1>5, <2>3, AskedLeads
    <3> QED
      BY <1>5, <2>2, <3>1 DEF Handles
  <2> QED
    BY <1>2, <1>5, <2>1, <2>2, <2>3, <2>4 DEF Sleeps, Heard
<1> QED
  BY <1>3, <1>4, <1>5 DEF Handles, Process

\* No wait for VBUS or a debounce is slept through, but for the two waits that
\* ask, and those only when VBUS left the level and came back unnoticed.
THEOREM NoWakeupLost == Spec => NoLostWakeup
<1>1. TypeOK /\ OfTable /\ [Next]_vars =>
       [\A p \in Port : Sleeps(p)' => Sleeps(p) \/ LeftUntold(p)]_vars
  <2> SUFFICES ASSUME TypeOK, OfTable, [Next]_vars, NEW q \in Port, Sleeps(q)'
               PROVE  Sleeps(q) \/ LeftUntold(q)
    OBVIOUS
  <2>1. ASSUME NEW p \in Port, NEW e, Handles(p, e)
        PROVE  Sleeps(q)
    BY <2>1, EventsWake
  <2>2. ASSUME UNCHANGED <<state, attachment, told, vbus>>
        PROVE  Sleeps(q)
    BY <2>2 DEF Sleeps, AskedVbus, Reading
  <2>3. ASSUME NEW ports, NEW v, Moves(ports, v)
        PROVE  Sleeps(q) \/ LeftUntold(q)
    BY <2>3 DEF Moves, Sleeps, AskedVbus, Reading, LeftUntold
  <2> QED
    BY <2>1, <2>2, <2>3, Steps DEF Report, Debounced, Tick, Lock, vars
<1> QED
  BY <1>1, ReportsStayOwed, TypeCorrect, PTL DEF Spec, NoLostWakeup
=============================================================================
