---------------------------- MODULE PdPortProofs ----------------------------
(***************************************************************************)
(* Lemmas about PdPort: every handler of a port keeps it in order, for     *)
(* every set of terms and features, both revisions and all counts.         *)
(*                                                                         *)
(* The argument goes from the inside out: what a row of a table may lead   *)
(* to (SinkTable, SourceTable), what the entry of a state writes           *)
(* (EnterFields, ContextKeeps), one event (StepKeeps), an event and the    *)
(* word it has emitted (ProcessKeeps), the retirement of an engine         *)
(* (SinkRetires, SourceRetires), the directions to the connection machine  *)
(* (DirectedKeeps), and with these the handlers.                           *)
(*                                                                         *)
(* PdPortAloneProofs and PdContractProofs draw the theorems.               *)
(***************************************************************************)
EXTENDS PdPort, TLAPS

\* The states in which a port in BIST test data mode can be: Ready, and what
\* its own application or a timer makes of it, up to the hard reset.
DeafStates ==
  {"ready", "send_pr_swap", "send_dr_swap", "vcs_send_swap", "sink_tx_wait_pr",
   "sink_tx_wait_dr", "send_soft_reset", "hard_reset"}

\* The events a deaf engine may still meet.
QuietEvents ==
  {"none", "timeout", "protocol_error", "message_sent", "hard_reset_request",
   "send_pr_swap", "send_dr_swap", "send_vconn_swap", "begin_pr_swap",
   "begin_dr_swap", "supply_settled", "vbus_present"}

\* The old sink's states of a PR_Swap in which it draws nothing.
Off == {"swap_transition_to_off", "swap_assert_rp"}
\* A Request is under way or to be retried.
Asking == {"select_capability", "request_wait", "request_gate"}

-----------------------------------------------------------------------------
(***************************************************************************)
(* The tables.                                                             *)
(***************************************************************************)
\* The columns of a row.
LEMMA WhenRow ==
  \A s, e, y, n, t, row : row \in When(s, e, y, n, t) =>
    row[1] = s /\ row[2] = e /\ row[3] = y /\ row[4] = n /\ row[5] = t
  BY DEF When

\* An unguarded row's source, event and target.
LEMMA OnRow ==
  \A s, e, t, row : row \in On(s, e, t) =>
    row[1] = s /\ row[2] = e /\ row[5] = t
  BY WhenRow DEF On

\* Of the pair of rows, the one which tests the guard positively names it.
LEMMA IfRow ==
  \A s, e, q, t, o, row : row \in If(s, e, q, t, o) =>
    row[1] = s /\ row[2] = e /\ ((q \in row[3] /\ row[5] = t) \/ row[5] = o)
<1> SUFFICES ASSUME NEW s, NEW e, NEW q, NEW t, NEW o, NEW row,
                    row \in If(s, e, q, t, o)
             PROVE  row[1] = s /\ row[2] = e /\ ((q \in row[3] /\ row[5] = t) \/ row[5] = o)
  OBVIOUS
<1>1. CASE row \in When(s, e, {q}, {}, t)
  <2>1. row[3] = {q}
    BY <1>1, WhenRow
  <2> QED BY <1>1, <2>1, WhenRow
<1>2. CASE row \in When(s, e, {}, {q}, o)
  BY <1>2, WhenRow
<1> QED BY <1>1, <1>2 DEF If

\* A row from any of a set of states.
LEMMA FromAnyRow ==
  \A S, e, t, row : row \in FromAny(S, e, t) =>
    row[1] \in S /\ row[2] = e /\ row[5] = t
  BY OnRow DEF FromAny

USE DEF DeafStates, QuietEvents, Off, Asking

\* The states which the connection machine leads out of, and the events which lead
\* into them; the words a machine says to itself.
Handed(r) ==
  {"error_recovery"} \cup
  IF r = "sink" THEN {"swap_assert_rp", "swap_source_on_seen", "transition_to_default"}
  ELSE {"swap_assert_rd"}

Handing ==
  {"ps_rdy", "timeout", "supply_settled", "hard_reset_complete", "hard_reset_received"}

Words ==
  {"swap_finished", "capabilities_evaluated", "request_ok", "request_bad",
   "request_retry", "send_dr_swap", "send_pr_swap", "send_vconn_ps_rdy"}

\* Where a row of the engine r may lead to on the way through.
Leads(r, row) ==
  LET s == row[1]
      e == row[2]
      t == row[5]
  IN /\ e \in Words => t \notin Transit(r)
     /\ t \in Handed(r) => e \in Handing
     /\ t = "startup" => e \in {"vbus_removed", "default_level_reached", "detached",
                                "supply_settled"}
     /\ t = "swap_wait_source_on" => e = "swap_wait_source_on"
     /\ t = "swap_source_on_seen" => s = "swap_wait_source_on"

\* What a row of the sink's table may lead to.
SinkFits(row) ==
  LET s == row[1]
      e == row[2]
      t == row[5]
  IN /\ s \in SinkStates /\ t \in SinkStates /\ e # "none"
     /\ SinkLevel(t) = "explicit_contract" /\ t # "ready" =>
          SinkLevel(s) = "explicit_contract" /\ (s \in Off => t \in Off)
     /\ t = "ready" =>
          \/ SinkLevel(s) = "explicit_contract" /\ s \notin Off
          \/ s = "transition_sink"
          \/ s = "select_capability" /\ "explicit_contract_holds" \in row[3]
     /\ t = "transition_sink" => s = "select_capability"
     /\ t \in Asking =>
          s \in Asking \/ (e = "capabilities_evaluated" /\ t = "select_capability")
     /\ t = "evaluate_capability" => e = "source_capabilities"
     /\ s \in DeafStates /\ e \in QuietEvents => t \in DeafStates
     /\ e = "vbus_removed" => t = "startup"
     /\ s = "startup" /\ e = "started" => t = "discovery"
     /\ s = "swap_source_on_seen" /\ e = "swap_done" => t = "discovery"
     /\ s = "transition_to_default" /\ e = "default_level_reached" => t = "startup"
     /\ Leads("sink", row)

\* The rows from VBUS to the choice.
LEMMA SinkCapabilityFits ==
  ASSUME NEW row \in CapabilityRows
  PROVE  SinkFits(row)
  BY WhenRow, OnRow, IfRow, FromAnyRow, SMTT(60)
     DEF CapabilityRows, SinkFits, Leads, Handed, Handing, Words, Transit, SinkLevel, SinkStates, SharedStates,
         DrsStates, VcsStates

\* The Request, its answers and its retry.
LEMMA SinkRequestFits ==
  ASSUME NEW row \in RequestRows
  PROVE  SinkFits(row)
  BY WhenRow, OnRow, IfRow, FromAnyRow, SMTT(60)
     DEF RequestRows, SinkFits, Leads, Handed, Handing, Words, Transit, SinkLevel, SinkStates, SharedStates, DrsStates,
         VcsStates

\* The sink's half of a PR_Swap, and the rows of the table's own.
LEMMA SinkPowerSwapFits ==
  ASSUME NEW row \in SinkPowerSwapRows
                     \cup On("dr_swap_gate", "send_dr_swap", "send_dr_swap")
                     \cup On("dr_swap_gate", "protocol_error", "send_soft_reset")
                     \cup On("transition_to_default", "default_level_reached", "startup")
  PROVE  SinkFits(row)
  BY WhenRow, OnRow, IfRow, FromAnyRow, SMTT(60)
     DEF SinkPowerSwapRows, PowerSwapRows, SinkFits, Leads, Handed, Handing, Words, Transit, SinkLevel, SinkStates,
         SharedStates, DrsStates, VcsStates

\* The service exchanges and the DR_Swap.
LEMMA SinkServiceFits ==
  ASSUME NEW row \in ServiceRows \cup Service("send_source_caps", "give_source_cap")
                     \cup DataSwapRows("dr_swap_gate")
  PROVE  SinkFits(row)
  BY WhenRow, OnRow, IfRow, FromAnyRow, SMTT(60)
     DEF ServiceRows, Service, DataSwapRows, SinkFits, Leads, Handed, Handing, Words, Transit, SinkLevel, SinkStates,
         SharedStates, DrsStates, VcsStates

\* The VCONN_Swap.
LEMMA SinkVconnFits ==
  ASSUME NEW row \in VconnSwapRows
  PROVE  SinkFits(row)
  BY WhenRow, OnRow, IfRow, FromAnyRow, SMTT(60)
     DEF VconnSwapRows, SinkFits, Leads, Handed, Handing, Words, Transit, SinkLevel, SinkStates, SharedStates,
         DrsStates, VcsStates

\* The resets and the end of the connection.
LEMMA SinkResetFits ==
  ASSUME NEW row \in ResetRows(SinkStates, "wait_for_capabilities")
                     \cup FromAny(SinkStates, "vbus_removed", "startup")
  PROVE  SinkFits(row)
  BY WhenRow, OnRow, IfRow, FromAnyRow, SMTT(60)
     DEF ResetRows, SinkFits, Leads, Handed, Handing, Words, Transit, SinkLevel, SinkStates, SharedStates, DrsStates,
         VcsStates

\* Every row of the sink's table fits.
LEMMA SinkTable == \A row \in SinkRows : SinkFits(row)
  BY SinkCapabilityFits, SinkRequestFits, SinkPowerSwapFits, SinkServiceFits,
     SinkVconnFits, SinkResetFits DEF SinkRows

\* What a row of the source's table may lead to.
SourceFits(row) ==
  LET s == row[1]
      e == row[2]
      t == row[5]
  IN /\ s \in SourceStates /\ t \in SourceStates /\ e # "none"
     /\ s \in DeafStates /\ e \in QuietEvents => t \in DeafStates
     /\ e = "detached" => t = "startup"
     /\ ~(s = "startup" /\ e = "supply_settled")
     /\ Leads("source", row)

\* The advertisement and the negotiation.
LEMMA SourceNegotiationFits ==
  ASSUME NEW row \in AdvertisementRows \cup NegotiationRows
  PROVE  SourceFits(row)
  BY WhenRow, OnRow, IfRow, FromAnyRow, SMTT(60)
     DEF AdvertisementRows, NegotiationRows, SourceFits, Leads, Handed, Handing, Words, Transit, SourceStates,
         SharedStates, DrsStates, VcsStates

\* The service exchanges, collision avoidance and the DR_Swap.
LEMMA SourceServiceFits ==
  ASSUME NEW row \in ServiceRows \cup CollisionRows \cup DataSwapRows("send_dr_swap")
  PROVE  SourceFits(row)
  BY WhenRow, OnRow, IfRow, FromAnyRow, SMTT(60)
     DEF ServiceRows, Service, CollisionRows, DataSwapRows, SourceFits, Leads, Handed, Handing, Words,
         Transit, SourceStates, SharedStates, DrsStates, VcsStates

\* The VCONN_Swap.
LEMMA SourceVconnFits ==
  ASSUME NEW row \in VconnSwapRows
  PROVE  SourceFits(row)
  BY WhenRow, OnRow, IfRow, FromAnyRow, SMTT(60)
     DEF VconnSwapRows, SourceFits, Leads, Handed, Handing, Words, Transit, SourceStates, SharedStates, DrsStates,
         VcsStates

\* The source's half of a PR_Swap.
LEMMA SourcePowerSwapFits ==
  ASSUME NEW row \in SourcePowerSwapRows
  PROVE  SourceFits(row)
  BY WhenRow, OnRow, IfRow, FromAnyRow, SMTT(60)
     DEF SourcePowerSwapRows, PowerSwapRows, SourceFits, Leads, Handed, Handing, Words, Transit, SourceStates,
         SharedStates, DrsStates, VcsStates

\* The resets, the recovery and the end of the connection.
LEMMA SourceResetFits ==
  ASSUME NEW row \in FromAny(SourceStates, "detached", "startup")
                     \cup ResetRows(SourceStates, "send_capabilities") \cup RecoveryRows
  PROVE  SourceFits(row)
  BY WhenRow, OnRow, IfRow, FromAnyRow, SMTT(60)
     DEF ResetRows, RecoveryRows, SourceFits, Leads, Handed, Handing, Words, Transit, SourceStates, SharedStates,
         DrsStates, VcsStates

\* Every row of the source's table fits.
LEMMA SourceTable == \A row \in SourceRows : SourceFits(row)
  BY SourceNegotiationFits, SourceServiceFits, SourceVconnFits, SourcePowerSwapFits,
     SourceResetFits DEF SourceRows

\* The table of an engine.
Table(r) == IF r = "sink" THEN SinkRows ELSE SourceRows

\* A step changes nothing, or enters the target of a row whose guards hold.
LEMMA StepTakesRow ==
  ASSUME NEW g, Typed(g), NEW r \in Role, NEW e, NEW x, NEW yes
  PROVE  \/ Step(g, r, e, x, yes) = g
         \/ \E row \in Table(r) :
              /\ row[1] = g.eng[r].pe /\ row[2] = e /\ row[3] \subseteq Holds(g, r, yes)
              /\ Step(g, r, e, x, yes)
                   = Enter(g, r, Context(r, g.eng[r], row[5], e, x), e)
<1> DEFINE taken == Taken(g, r, e, yes)
           row == CHOOSE row \in taken : TRUE
<1> HIDE DEF taken
<1>1. CASE taken = {}
  BY <1>1 DEF taken, Step, Take
<1>2. CASE taken # {}
  <2>1. row \in taken
    BY <1>2
  <2>2. g.eng[r].pe \in States(r)
    BY DEF Typed
  <2>3. row \in Rows[r][g.eng[r].pe] /\ row[2] = e /\ row[3] \subseteq Holds(g, r, yes)
    BY <2>1 DEF taken, Taken
  <2>4. row \in Table(r) /\ row[1] = g.eng[r].pe
    BY <2>2, <2>3 DEF Rows, Table
  <2>5. Step(g, r, e, x, yes) = Enter(g, r, Context(r, g.eng[r], row[5], e, x), e)
    BY <1>2 DEF taken, Step, Take
  <2> QED BY <2>3, <2>4, <2>5
<1> QED BY <1>1, <1>2

\* The table of r has an unguarded row from s by e to t; all of them go to t.
HasRow(r, s, e, t) == <<s, e, {}, {}, t>> \in Table(r)
OnlyRow(r, s, e, t) ==
  \A row \in Table(r) : row[1] = s /\ row[2] = e => row[5] = t

\* Where there is an unguarded row, the step enters the target of some row.
LEMMA StepEnters ==
  ASSUME NEW g, Typed(g), NEW r \in Role, NEW e, NEW x, NEW yes, NEW to,
         HasRow(r, g.eng[r].pe, e, to)
  PROVE  \E row \in Table(r) :
           /\ row[1] = g.eng[r].pe /\ row[2] = e
           /\ Step(g, r, e, x, yes) = Enter(g, r, Context(r, g.eng[r], row[5], e, x), e)
<1> DEFINE row == <<g.eng[r].pe, e, {}, {}, to>>
<1>0. row \in Table(r) /\ row[1] = g.eng[r].pe /\ row[2] = e /\ row[3] = {} /\ row[4] = {}
  BY DEF HasRow
<1> HIDE DEF row
<1> DEFINE taken == Taken(g, r, e, yes)
           other == CHOOSE other \in taken : TRUE
<1>1. g.eng[r].pe \in States(r)
  BY DEF Typed
<1>2. row \in Rows[r][g.eng[r].pe]
  BY <1>0, <1>1 DEF Rows, Table
<1>3. row \in taken
  BY <1>0, <1>2 DEF Taken
<1>4. other \in taken
  BY <1>3
<1>5. other \in Rows[r][g.eng[r].pe] /\ other[2] = e
  BY <1>4 DEF Taken
<1>6. other \in Table(r) /\ other[1] = g.eng[r].pe
  BY <1>1, <1>5 DEF Rows, Table
<1>7. Step(g, r, e, x, yes) = Enter(g, r, Context(r, g.eng[r], other[5], e, x), e)
  BY <1>3 DEF Step, Take
<1> QED BY <1>5, <1>6, <1>7

\* Where one unguarded row decides, the step enters its target.
LEMMA StepTaken ==
  ASSUME NEW g, Typed(g), NEW r \in Role, NEW e, NEW x, NEW yes, NEW to,
         HasRow(r, g.eng[r].pe, e, to), OnlyRow(r, g.eng[r].pe, e, to)
  PROVE  Step(g, r, e, x, yes) = Enter(g, r, Context(r, g.eng[r], to, e, x), e)
<1>1. PICK row \in Table(r) :
        /\ row[1] = g.eng[r].pe /\ row[2] = e
        /\ Step(g, r, e, x, yes) = Enter(g, r, Context(r, g.eng[r], row[5], e, x), e)
  BY StepEnters
<1> QED BY <1>1 DEF OnlyRow

-----------------------------------------------------------------------------
(***************************************************************************)
(* The domains.                                                            *)
(***************************************************************************)
\* What a layer may be busy with; the supply; the Rp presented.
TxType == [type : ControlType \cup DataType \cup {"idle", "hard_reset"},
           terms : Terms \cup {None}]
SupplyType == [out : Terms \cup {None, "off", "safe5v"}, pending : BOOLEAN]
RpType == {"advertised", "ok", "ng"}

\* A constructor keeps an engine's context in its domain; the BIST test mode and
\* the parked request are none of its business.
LEMMA ContextTyped ==
  ASSUME NEW r \in Role, NEW en \in EngineType(SinkStates \cup SourceStates),
         NEW s \in States(r), NEW e, NEW x \in Terms \cup {None}
  PROVE  /\ Context(r, en, s, e, x) \in EngineType(SinkStates \cup SourceStates)
         /\ Context(r, en, s, e, x).pe = s
         /\ Context(r, en, s, e, x).deaf = en.deaf
         /\ Context(r, en, s, e, x).parked = en.parked
<1> DEFINE at == [en EXCEPT !.pe = s]
           Kept(c) == /\ c \in EngineType(SinkStates \cup SourceStates)
                      /\ c.pe = s /\ c.deaf = en.deaf /\ c.parked = en.parked
           c == Context(r, en, s, e, x)
<1>1. Kept(at)
  BY DEF EngineType, States
<1>2. 0 \in 0..(nHardResetCount + 1) /\ 0 \in 0..(nCapsCount + 1)
  BY CountsAssumption
<1>a. ASSUME NEW n, Kept(n) PROVE Kept(NoNegotiation(n))
  BY <1>a, <1>2 DEF NoNegotiation, EngineType
<1>b. ASSUME NEW n, Kept(n) PROVE Kept(NoConnection(r, n))
  <2>1. defaultDataRole(r) \in DataRole
    BY DEF defaultDataRole, DataRole
  <2> QED BY <1>b, <1>2, <2>1 DEF NoConnection, EngineType
<1>3. Counted(en.count, nHardResetCount + 1) \in 0..(nHardResetCount + 1)
      /\ Counted(en.caps, nCapsCount + 1) \in 0..(nCapsCount + 1)
  BY CountsAssumption DEF Counted, EngineType
<1>4. CASE s \in {"startup", "transition_to_default"}
  <2>1. c \in {NoNegotiation(NoConnection(r, at)), NoNegotiation(at), at}
    BY <1>4 DEF Context
  <2> HIDE DEF at, c, Kept
  <2>2. Kept(c)
    BY <1>1, <1>a, <1>b, <2>1
  <2> QED BY <2>2 DEF Kept, c
<1>5. CASE s = "ready"
  <2> DEFINE b == r = "source"
  <2>1. c = [at EXCEPT !.explicit = TRUE, !.connected = b] /\ b \in BOOLEAN
    BY <1>5 DEF Context
  <2> HIDE DEF b, c
  <2>2. Kept(c)
    BY <1>1, <2>1 DEF EngineType
  <2> QED BY <2>2 DEF c
<1>6. CASE s \in {"evaluate_capability", "negotiate_capability"}
  BY <1>1, <1>2, <1>6 DEF Context, EngineType
<1>c. CASE s = "select_capability"
  BY <1>1, <1>c DEF Context, EngineType
<1>h. CASE s \in {"transition_sink", "transition_supply"}
  BY <1>1, <1>h DEF Context, EngineType
<1>d. CASE s \in {"hard_reset"}
  BY <1>1, <1>3, <1>d DEF Context, EngineType
<1>e. CASE s \in {"send_capabilities"}
  BY <1>1, <1>3, <1>e DEF Context, EngineType
<1>f. CASE s \in {"swap_source_on", "swap_wait_source_on", "dr_swap_change"}
  <2>1. \/ \E d \in DataRole : c = [at EXCEPT !.data = d]
        \/ c = [at EXCEPT !.attached = TRUE, !.data = en.role, !.connected = TRUE]
    BY <1>f DEF Context, EngineType, Other, DataRole
  <2>2. en.role \in DataRole
    BY DEF EngineType
  <2> HIDE DEF c
  <2>3. ASSUME NEW n, Kept(n)
        PROVE  /\ \A d \in DataRole : Kept([n EXCEPT !.data = d])
               /\ Kept([n EXCEPT !.attached = TRUE])
               /\ Kept([n EXCEPT !.connected = TRUE])
    BY <2>3 DEF EngineType
  <2>4. Kept([at EXCEPT !.attached = TRUE, !.data = en.role, !.connected = TRUE])
    <3> DEFINE a == [at EXCEPT !.attached = TRUE]
               b == [a EXCEPT !.data = en.role]
    <3> HIDE DEF Kept, at, a
    <3>1. Kept(a)
      BY <1>1, <2>3 DEF a
    <3>2. Kept(b)
      BY <2>2, <2>3, <3>1
    <3> HIDE DEF b
    <3>3. Kept([b EXCEPT !.connected = TRUE])
      BY <2>3, <3>2
    <3> QED BY <3>3 DEF b, a
  <2> HIDE DEF Kept, at
  <2>5. \A d \in DataRole : Kept([at EXCEPT !.data = d])
    BY <1>1, <2>3
  <2>6. Kept(c)
    BY ONLY <2>1, <2>4, <2>5, Zenon
  <2> QED BY <2>6 DEF Kept, c
<1>g. CASE s \in {"swap_source_start"}
  BY <1>1, <1>2, <1>g DEF Context, EngineType
<1>7. CASE s \notin {"startup", "transition_to_default", "ready", "evaluate_capability",
                     "negotiate_capability", "select_capability", "transition_sink",
                     "transition_supply", "hard_reset", "send_capabilities",
                     "swap_source_on", "swap_wait_source_on", "swap_source_start",
                     "dr_swap_change"}
  BY <1>1, <1>7 DEF Context
<1> QED BY <1>4, <1>5, <1>6, <1>7, <1>c, <1>d, <1>e, <1>f, <1>g, <1>h

\* The VCONN machine stays in its states.
LEMMA VconnTyped ==
  ASSUME NEW v \in VconnState, NEW event
  PROVE  VconnNext(v, event) \in VconnState
  BY DEF VconnNext, VconnState

\* The power interface stays in its domain.
LEMMA PoweredTyped ==
  ASSUME NEW r, NEW w \in PowerType, NEW from, NEW s, NEW terms \in Terms \cup {None}
  PROVE  Powered(r, w, from, s, terms) \in PowerType
  BY DEF Powered, PowerType

\* The supply stays in its domain.
LEMMA ProgrammedTyped ==
  ASSUME NEW supply \in SupplyType, NEW s, NEW terms \in Terms \cup {None}
  PROVE  Programmed(supply, s, terms) \in SupplyType
  BY DEF Programmed, SupplyType

\* The presented Rp stays in its domain.
LEMMA PresentedTyped ==
  ASSUME NEW rp \in RpType, NEW en, NEW from, NEW s
  PROVE  Presented(rp, en, from, s) \in RpType
  BY DEF Presented, RpType

\* The shared states send control messages and Sink_Capabilities.
LEMMA SharedSendsTyped ==
  ASSUME NEW s \in DOMAIN SharedSends
  PROVE  Control(SharedSends[s]) \in TxType
  BY DEF SharedSends, Control, TxType, ControlType, DataType

\* What an engine sends on entering a state is a message, or nothing.
LEMMA SendsTyped ==
  ASSUME NEW r \in Role, NEW en, en.pending \in Terms \cup {None}, NEW s, NEW e
  PROVE  Sends(r, en, s, e) \in TxType
<1>1. \A type \in ControlType \cup DataType : Control(type) \in TxType
  BY DEF Control, TxType
<1>2. Idle \in TxType /\ Request(en.pending) \in TxType /\ Refusal(e) \in ControlType
  BY DEF Idle, Request, TxType, Refusal, ControlType, DataType
<1> HIDE DEF TxType
<1>3. CASE r = "sink"
  BY <1>1, <1>2, <1>3, SharedSendsTyped DEF Sends, SinkSends, ControlType, DataType
<1>4. CASE r # "sink"
  BY <1>1, <1>2, <1>4, SharedSendsTyped DEF Sends, SourceSends, ControlType, DataType
<1> QED BY <1>3, <1>4

\* What the layer is busy with after an entry.
LEMMA TransmitsTyped ==
  ASSUME NEW g, Typed(g), NEW r \in Role, NEW en, en.pending \in Terms \cup {None},
         NEW s, NEW e
  PROVE  Transmits(g, r, en, s, e) \in TxType
<1>1. g.tx \in TxType
  BY DEF Typed, TxType
<1>2. HardReset \in TxType
  BY DEF HardReset, TxType
<1> QED BY <1>1, <1>2, SendsTyped DEF Transmits

-----------------------------------------------------------------------------
\* The domains of a port's parts.
LEMMA PortFields ==
  ASSUME NEW g, Typed(g)
  PROVE  /\ g.conn \in Conn /\ g.data \in DataRole /\ g.header \in DataRole
         /\ g.client \in Role \cup {"none"} /\ g.tx \in TxType
         /\ g.supply \in SupplyType /\ g.rp \in RpType /\ g.txok \in BOOLEAN
         /\ g.vconn \in VconnState
         /\ g.eng \in [Role -> EngineType(SinkStates \cup SourceStates)]
         /\ g.power \in [Role -> PowerType]
         /\ \A r \in Role : g.eng[r].pe \in States(r)
  BY DEF Typed, TxType, SupplyType, RpType

\* h is g with the engine r entered into the context `en'.
Entered(g, r, en, e, h) ==
  /\ Typed(h)
  /\ h.conn = g.conn /\ h.client = g.client /\ h.txok = g.txok
  /\ h.eng[r] = en /\ \A q \in Role \ {r} : h.eng[q] = g.eng[q]
  /\ h.power[r] = Powered(r, g.power[r], g.eng[r].pe, en.pe, en.terms)
  /\ \A q \in Role \ {r} : h.power[q] = g.power[q]
  /\ h.tx = Transmits(g, r, en, en.pe, e)
  /\ h.rp = IF r = "source" THEN Presented(g.rp, en, g.eng[r].pe, en.pe) ELSE g.rp
  /\ h.vconn = VconnNext(g.vconn, VconnHears(en.pe))
  /\ h.data = IF en.pe = "dr_swap_change" /\ g.conn \in {"attached_snk", "attached_src"}
              THEN Other(g.data) ELSE g.data
  /\ h.supply = IF r = "source" THEN Programmed(g.supply, en.pe, en.terms) ELSE g.supply

\* An entry keeps the port in its domain.
LEMMA EnterFields ==
  ASSUME NEW g, Typed(g), NEW r \in Role,
         NEW en \in EngineType(SinkStates \cup SourceStates), en.pe \in States(r), NEW e
  PROVE  Entered(g, r, en, e, Enter(g, r, en, e))
<1> DEFINE tx == Transmits(g, r, en, en.pe, e)
           flips == en.pe = "dr_swap_change"
           header == IF flips /\ g.client = r THEN en.data ELSE g.header
           data == IF flips /\ g.conn \in {"attached_snk", "attached_src"}
                   THEN Other(g.data) ELSE g.data
           power == Powered(r, g.power[r], g.eng[r].pe, en.pe, en.terms)
           supply == IF r = "source" THEN Programmed(g.supply, en.pe, en.terms)
                     ELSE g.supply
           rp == IF r = "source" THEN Presented(g.rp, en, g.eng[r].pe, en.pe) ELSE g.rp
           vconn == VconnNext(g.vconn, VconnHears(en.pe))
           h == [g EXCEPT !.eng[r] = en, !.tx = tx, !.header = header, !.data = data,
                          !.power[r] = power, !.supply = supply, !.rp = rp,
                          !.vconn = vconn]
<1>1. en.data \in DataRole /\ en.pending \in Terms \cup {None}
      /\ en.terms \in Terms \cup {None}
  BY DEF EngineType
<1>2. tx \in TxType /\ header \in DataRole /\ data \in DataRole
  BY <1>1, PortFields, TransmitsTyped DEF Other, DataRole
<1>3. g.power[r] \in PowerType
  BY PortFields
<1>4. power \in PowerType /\ supply \in SupplyType
  BY <1>1, <1>3, PortFields, PoweredTyped, ProgrammedTyped
<1>5. rp \in RpType /\ vconn \in VconnState
  BY PortFields, PresentedTyped, VconnTyped
<1>6. h = Enter(g, r, en, e)
  BY DEF Enter
<1> HIDE DEF tx, header, data, power, supply, rp, vconn
<1>7. Typed(h)
  BY <1>2, <1>4, <1>5, ZenonT(30) DEF Typed, TxType, SupplyType, RpType
<1>8. /\ h.conn = g.conn /\ h.client = g.client /\ h.txok = g.txok
      /\ h.eng[r] = en /\ \A q \in Role \ {r} : h.eng[q] = g.eng[q]
      /\ h.power[r] = power /\ \A q \in Role \ {r} : h.power[q] = g.power[q]
      /\ h.tx = tx /\ h.rp = rp /\ h.vconn = vconn /\ h.data = data /\ h.supply = supply
  BY DEF Typed
<1> QED BY <1>6, <1>7, <1>8 DEF Entered, tx, power, rp, vconn, data, supply

-----------------------------------------------------------------------------
(***************************************************************************)
(* The engines' part of the invariant.                                     *)
(***************************************************************************)
\* The sink draws what it holds a contract for, and knows what it asked for.
Drawing(g) ==
  LET en == g.eng["sink"]
      w == g.power["sink"]
  IN /\ en.explicit => en.terms \in Terms
     /\ en.pe \in Asking \cup {"transition_sink"} => en.pending \in Terms
     /\ en.pe = "transition_sink" => en.terms \in Terms
     /\ SinkLevel(en.pe) = "explicit_contract" =>
          en.explicit /\ (en.pe \notin Off => w.limit = en.terms /\ w.active)
     /\ w.limit \in Terms =>
          w.limit = en.terms /\ w.active /\ en.explicit /\ en.pe \notin StandbyLimited

\* The Rp of collision avoidance belongs to an explicit contract's level.
RpShown(g) ==
  LET s == g.eng["source"].pe
  IN /\ g.rp # "advertised" => Rev3 /\ SourceLevel(s) = "explicit_contract"
     /\ s = "ready" => g.rp # "ng"

\* A deaf engine is in one of the states it can reach without hearing.
Deafened(g) ==
  \A r \in Role : g.eng[r].deaf =>
    g.eng[r].pe \in DeafStates /\ At5VContract(g.eng[r])

\* Inductive under every event an engine may process.
Engines(g) ==
  Typed(g) /\ Drawing(g) /\ RpShown(g) /\ Deafened(g) /\ g.eng["source"].parked = "none"

\* What the constructors do to the contract: only Startup and the default level
\* end it, only Ready concludes it, only a transition moves its terms.
LEMMA ContextKeeps ==
  ASSUME NEW r \in Role, NEW en \in EngineType(SinkStates \cup SourceStates),
         NEW s \in States(r), NEW e, NEW x
  PROVE  LET c == Context(r, en, s, e, x)
         IN /\ s \in {"startup", "transition_to_default"} => ~c.explicit
            /\ s \notin {"startup", "transition_to_default", "ready"} =>
                 c.explicit = en.explicit
            /\ s = "ready" => c.explicit
            /\ s \notin {"startup", "transition_to_default", "transition_sink",
                         "transition_supply"} => c.terms = en.terms
            /\ s = "transition_sink" => c.terms = en.pending
            /\ s \in {"request_wait", "request_gate", "transition_sink"} =>
                 c.pending = en.pending
            /\ s = "select_capability" =>
                 c.pending = IF e = "capabilities_evaluated" THEN x ELSE en.pending
<1> DEFINE at == [en EXCEPT !.pe = s]
           c == Context(r, en, s, e, x)
<1>1. CASE s \in {"startup", "transition_to_default"}
  <2>1. \/ c = NoNegotiation(NoConnection(r, at))
        \/ c = NoNegotiation(at)
    BY <1>1 DEF Context, Role
  <2>2. ~NoNegotiation(at).explicit
    BY DEF NoNegotiation, EngineType
  <2>3. ~NoNegotiation(NoConnection(r, at)).explicit
    BY DEF NoNegotiation, NoConnection, EngineType
  <2> QED BY <1>1, <2>1, <2>2, <2>3
<1>2. CASE s \in {"ready", "select_capability", "transition_sink", "transition_supply"}
  BY <1>2 DEF Context, EngineType
<1>3. CASE s \in {"evaluate_capability", "negotiate_capability", "hard_reset",
                  "send_capabilities", "swap_source_on"}
  BY <1>3 DEF Context, EngineType
<1>4. CASE s \in {"swap_wait_source_on", "swap_source_start", "dr_swap_change"}
  BY <1>4 DEF Context, EngineType
<1>5. CASE s \notin {"startup", "transition_to_default", "ready", "evaluate_capability",
                     "negotiate_capability", "select_capability", "transition_sink",
                     "transition_supply", "hard_reset", "send_capabilities",
                     "swap_source_on", "swap_wait_source_on", "swap_source_start",
                     "dr_swap_change"}
  BY <1>5 DEF Context, EngineType
<1> QED BY <1>1, <1>2, <1>3, <1>4, <1>5

\* At the explicit contract's level the limit is the contract's, or what it was.
LEMMA PoweredKeeps ==
  ASSUME NEW w \in PowerType, NEW s \in SinkStates, NEW t \in SinkStates, NEW terms
  PROVE  LET v == Powered("sink", w, s, t, terms)
         IN /\ t = "ready" /\ SinkLevel(s) # "explicit_contract" =>
                 v.limit = terms /\ v.active
            /\ SinkLevel(s) = "explicit_contract" /\ SinkLevel(t) = "explicit_contract"
                 /\ t \notin Off =>
                 \/ v.limit = terms /\ v.active
                 \/ v.limit = w.limit /\ v.active = w.active
            /\ v.limit \in Terms =>
                 \/ t = "ready" /\ v.limit = terms /\ v.active
                 \/ /\ t \notin StandbyLimited /\ (w.active => t \notin SinkRestores)
                    /\ v.limit = w.limit /\ v.active = w.active
<1>1. SinkLevel("ready") = "explicit_contract"
  BY DEF SinkLevel
<1>2. SinkLevel(t) = "explicit_contract" /\ t \notin Off =>
        t \notin StandbyLimited /\ t \notin SinkRestores
  BY DEF SinkLevel, StandbyLimited, SinkRestores
<1>3. "default" \notin Terms /\ "standby" \notin Terms
  BY TermsAssumption
<1> QED BY <1>1, <1>2, <1>3 DEF Powered, PowerType, Level

\* No row of the sink's table leads to a level at which the limit would not be
\* the contract's.
LEMMA RowDraws ==
  ASSUME NEW g, Typed(g), Drawing(g), NEW row \in SinkRows, row[1] = g.eng["sink"].pe,
         NEW yes, row[3] \subseteq Holds(g, "sink", yes),
         NEW e, row[2] = e, NEW x \in Terms \cup {None},
         e = "capabilities_evaluated" => x \in Terms
  PROVE  LET en == Context("sink", g.eng["sink"], row[5], e, x)
             w == Powered("sink", g.power["sink"], row[1], row[5], en.terms)
         IN /\ en.explicit => en.terms \in Terms
            /\ row[5] \in Asking \cup {"transition_sink"} => en.pending \in Terms
            /\ row[5] = "transition_sink" => en.terms \in Terms
            /\ SinkLevel(row[5]) = "explicit_contract" =>
                 en.explicit /\ (row[5] \notin Off => w.limit = en.terms /\ w.active)
            /\ w.limit \in Terms =>
                 w.limit = en.terms /\ w.active /\ en.explicit /\ row[5] \notin StandbyLimited
<1> DEFINE old == g.eng["sink"]
           s == old.pe
           t == row[5]
           en == Context("sink", old, t, e, x)
           w == Powered("sink", g.power["sink"], s, t, en.terms)
<1>1. old \in EngineType(SinkStates \cup SourceStates) /\ g.power["sink"] \in PowerType
      /\ "sink" \in Role /\ States("sink") = SinkStates
  BY PortFields DEF Role, States
<1>2. SinkFits(row)
  BY SinkTable
<1>3. s \in SinkStates /\ t \in SinkStates
  BY <1>2 DEF SinkFits
<1>4. /\ t \in {"startup", "transition_to_default"} => ~en.explicit
      /\ t \notin {"startup", "transition_to_default", "ready"} =>
           en.explicit = old.explicit
      /\ t = "ready" => en.explicit
      /\ t \notin {"startup", "transition_to_default", "transition_sink",
                   "transition_supply"} => en.terms = old.terms
      /\ t = "transition_sink" => en.terms = old.pending
      /\ t \in {"request_wait", "request_gate", "transition_sink"} =>
           en.pending = old.pending
      /\ t = "select_capability" =>
           en.pending = IF e = "capabilities_evaluated" THEN x ELSE old.pending
  BY <1>1, <1>3, ContextKeeps
<1>5. t # "transition_supply"
  BY <1>3 DEF SinkStates, SharedStates, DrsStates, VcsStates
<1>6. /\ t = "ready" /\ SinkLevel(s) # "explicit_contract" =>
           w.limit = en.terms /\ w.active
      /\ SinkLevel(s) = "explicit_contract" /\ SinkLevel(t) = "explicit_contract"
           /\ t \notin Off =>
           \/ w.limit = en.terms /\ w.active
           \/ w.limit = g.power["sink"].limit /\ w.active = g.power["sink"].active
      /\ w.limit \in Terms =>
           \/ t = "ready" /\ w.limit = en.terms /\ w.active
           \/ /\ t \notin StandbyLimited /\ (g.power["sink"].active => t \notin SinkRestores)
              /\ w.limit = g.power["sink"].limit /\ w.active = g.power["sink"].active
  BY <1>1, <1>3, PoweredKeeps
<1>7. "explicit_contract_holds" \in row[3] => old.explicit
  BY DEF Holds
<1> DEFINE drawn == g.power["sink"]
<1>8. /\ old.explicit => old.terms \in Terms
      /\ s \in Asking \cup {"transition_sink"} => old.pending \in Terms
      /\ s = "transition_sink" => old.terms \in Terms
      /\ SinkLevel(s) = "explicit_contract" =>
           old.explicit /\ (s \notin Off => drawn.limit = old.terms /\ drawn.active)
      /\ drawn.limit \in Terms =>
           drawn.limit = old.terms /\ drawn.active /\ old.explicit
  BY DEF Drawing
<1>9. /\ SinkLevel(t) = "explicit_contract" /\ t # "ready" =>
           SinkLevel(s) = "explicit_contract" /\ (s \in Off => t \in Off)
      /\ t = "ready" =>
           \/ SinkLevel(s) = "explicit_contract" /\ s \notin Off
           \/ s = "transition_sink"
           \/ s = "select_capability" /\ "explicit_contract_holds" \in row[3]
      /\ t = "transition_sink" => s = "select_capability"
      /\ t \in Asking =>
          s \in Asking \/ (e = "capabilities_evaluated" /\ t = "select_capability")
  BY <1>2 DEF SinkFits
<1>10. /\ SinkLevel("ready") = "explicit_contract"
       /\ SinkLevel("transition_sink") # "explicit_contract"
       /\ SinkLevel("select_capability") # "explicit_contract"
       /\ SinkLevel("startup") # "explicit_contract"
       /\ SinkLevel("transition_to_default") # "explicit_contract"
  BY DEF SinkLevel
<1> HIDE DEF s, t, en, w, old, drawn
<1>11. en.explicit => en.terms \in Terms
  BY <1>4, <1>5, <1>7, <1>8, <1>9
<1>12. t \in Asking \cup {"transition_sink"} => en.pending \in Terms
  BY <1>4, <1>8, <1>9
<1>13. t = "transition_sink" => en.terms \in Terms
  BY <1>4, <1>8, <1>9
<1>14. SinkLevel(t) = "explicit_contract" =>
         en.explicit /\ (t \notin Off => w.limit = en.terms /\ w.active)
  BY <1>4, <1>5, <1>6, <1>7, <1>8, <1>9, <1>10 DEF drawn
<1>15. w.limit \in Terms =>
         w.limit = en.terms /\ w.active /\ en.explicit /\ t \notin StandbyLimited
  BY <1>4, <1>5, <1>6, <1>8 DEF drawn, StandbyLimited, SinkRestores
<1> QED BY <1>11, <1>12, <1>13, <1>14, <1>15 DEF s, t, en, w, old

\* The Rp of collision avoidance does not outlive the contract's level.
LEMMA PresentedKeeps ==
  ASSUME NEW rp \in RpType, NEW en, NEW s, NEW t,
         rp # "advertised" => Rev3 /\ SourceLevel(s) = "explicit_contract"
  PROVE  LET shown == Presented(rp, en, s, t)
         IN /\ shown # "advertised" => Rev3 /\ SourceLevel(t) = "explicit_contract"
            /\ t = "ready" => shown # "ng"
<1>1. SourceLevel("ready") = "explicit_contract"
      /\ SourceLevel("sink_tx_wait_dr") = "explicit_contract"
      /\ SourceLevel("sink_tx_wait_pr") = "explicit_contract"
  BY DEF SourceLevel
<1>2. Rev3 \in BOOLEAN
  BY DualRoleAssumption
<1> QED BY <1>1, <1>2 DEF Presented, RpType

\* Nothing but the engine r was concerned.
Same(g, h, r) ==
  /\ h.conn = g.conn /\ h.client = g.client
  /\ \A q \in Role \ {r} : h.eng[q] = g.eng[q]
  /\ h.eng[r].parked = g.eng[r].parked /\ h.eng[r].deaf = g.eng[r].deaf

\* One event keeps an engine's part of the invariant.
LEMMA StepKeeps ==
  ASSUME NEW g, Engines(g), NEW r \in Role, NEW e, NEW x \in Terms \cup {None}, NEW yes,
         e = "capabilities_evaluated" => x \in Terms,
         g.eng[r].deaf => e \in QuietEvents
  PROVE  LET h == Step(g, r, e, x, yes)
         IN /\ Engines(h) /\ Same(g, h, r)
            /\ h.eng[r].pe = "evaluate_capability" =>
                 h.eng[r].pe = g.eng[r].pe \/ e = "source_capabilities"
<1> DEFINE h == Step(g, r, e, x, yes)
<1>1. Typed(g) /\ Drawing(g) /\ RpShown(g) /\ Deafened(g)
      /\ g.eng["source"].parked = "none"
  BY DEF Engines
<1>2. CASE h = g
  BY <1>1, <1>2 DEF Same, Engines
<1>3. ASSUME NEW row \in Table(r), row[1] = g.eng[r].pe, row[2] = e,
             row[3] \subseteq Holds(g, r, yes),
             h = Enter(g, r, Context(r, g.eng[r], row[5], e, x), e)
      PROVE  /\ Engines(h) /\ Same(g, h, r)
             /\ h.eng[r].pe = "evaluate_capability" =>
                  h.eng[r].pe = g.eng[r].pe \/ e = "source_capabilities"
  <2> DEFINE en == Context(r, g.eng[r], row[5], e, x)
  <2>1. g.eng[r] \in EngineType(SinkStates \cup SourceStates)
    BY <1>1, PortFields
  <2>2. /\ row[5] \in States(r)
        /\ row[1] \in DeafStates /\ e \in QuietEvents => row[5] \in DeafStates
        /\ row[5] = "evaluate_capability" => e = "source_capabilities"
    <3>1. CASE r = "sink"
      <4>1. SinkFits(row)
        BY <1>3, <3>1, SinkTable DEF Table
      <4> QED BY <1>3, <3>1, <4>1 DEF SinkFits, States
    <3>2. CASE r = "source"
      <4>1. SourceFits(row)
        BY <1>3, <3>2, SourceTable DEF Table
      <4>2. row[5] # "evaluate_capability"
        BY <4>1 DEF SourceFits, SourceStates, SharedStates, DrsStates, VcsStates
      <4> QED BY <1>3, <3>2, <4>1, <4>2 DEF SourceFits, States
    <3> QED BY <3>1, <3>2 DEF Role
  <2>3. /\ en \in EngineType(SinkStates \cup SourceStates) /\ en.pe = row[5]
        /\ en.deaf = g.eng[r].deaf /\ en.parked = g.eng[r].parked
    <3>1. row[5] \in States(r)
      BY <2>2
    <3> HIDE DEF DeafStates, QuietEvents
    <3> QED BY <2>1, <3>1, ContextTyped
  <2>4. /\ Typed(h) /\ h.conn = g.conn /\ h.client = g.client
        /\ h.eng[r] = en /\ \A q \in Role \ {r} : h.eng[q] = g.eng[q]
        /\ h.power[r] = Powered(r, g.power[r], row[1], row[5], en.terms)
        /\ \A q \in Role \ {r} : h.power[q] = g.power[q]
        /\ h.rp = IF r = "source" THEN Presented(g.rp, en, row[1], row[5]) ELSE g.rp
    <3>1. Entered(g, r, en, e, h)
      <4>1. row[5] \in States(r)
        BY <2>2
      <4> HIDE DEF DeafStates, QuietEvents
      <4> QED BY <1>1, <1>3, <2>3, <4>1, EnterFields
    <3> HIDE DEF en, h
    <3> QED BY <1>3, <2>3, <3>1 DEF Entered
  <2> HIDE DEF en, h
  <2>5. Same(g, h, r)
    BY <2>3, <2>4 DEF Same
  <2>6. h.eng["source"].parked = "none"
    BY <1>1, <2>3, <2>4 DEF Role
  <2>7. Drawing(h)
    <3>1. CASE r = "sink"
      <4>1. row \in SinkRows
        BY <1>3, <3>1 DEF Table
      <4>2. /\ en.explicit => en.terms \in Terms
            /\ row[5] \in Asking \cup {"transition_sink"} => en.pending \in Terms
            /\ row[5] = "transition_sink" => en.terms \in Terms
            /\ SinkLevel(row[5]) = "explicit_contract" =>
                 /\ en.explicit
                 /\ row[5] \notin Off => h.power["sink"].limit = en.terms
                                         /\ h.power["sink"].active
            /\ h.power["sink"].limit \in Terms =>
                 /\ h.power["sink"].limit = en.terms /\ h.power["sink"].active
                 /\ en.explicit /\ row[5] \notin StandbyLimited
        BY <1>1, <1>3, <2>4, <3>1, <4>1, RowDraws, SMTT(30) DEF en
      <4> QED BY <2>3, <2>4, <3>1, <4>2 DEF Drawing
    <3>2. CASE r = "source"
      BY <1>1, <2>4, <3>2 DEF Drawing, Role
    <3> QED BY <3>1, <3>2 DEF Role
  <2>8. RpShown(h)
    <3>1. CASE r = "source"
      <4>1. g.rp \in RpType
        BY <1>1, PortFields
      <4>2. g.rp # "advertised" => Rev3 /\ SourceLevel(row[1]) = "explicit_contract"
        BY <1>1, <1>3, <3>1 DEF RpShown
      <4>3. /\ h.rp # "advertised" => Rev3 /\ SourceLevel(row[5]) = "explicit_contract"
            /\ row[5] = "ready" => h.rp # "ng"
        BY <2>4, <3>1, <4>1, <4>2, PresentedKeeps
      <4> QED BY <2>3, <2>4, <3>1, <4>3 DEF RpShown
    <3>2. CASE r = "sink"
      BY <1>1, <2>4, <3>2 DEF RpShown, Role
    <3> QED BY <3>1, <3>2 DEF Role
  <2>9. Deafened(h)
    <3>1. ASSUME h.eng[r].deaf
          PROVE  h.eng[r].pe \in DeafStates /\ At5VContract(h.eng[r])
      <4>1. g.eng[r].deaf /\ row[1] \in DeafStates /\ At5VContract(g.eng[r])
        BY <1>1, <1>3, <2>3, <2>4, <3>1 DEF Deafened
      <4>2. row[5] \in DeafStates
        BY <1>3, <2>2, <4>1
      <4>3. en.explicit /\ en.terms = g.eng[r].terms
        <5>1. /\ row[5] \notin {"startup", "transition_to_default", "ready"} =>
                   en.explicit = g.eng[r].explicit
              /\ row[5] = "ready" => en.explicit
              /\ row[5] \notin {"startup", "transition_to_default", "transition_sink",
                                "transition_supply"} => en.terms = g.eng[r].terms
          <6>1. row[5] \in States(r)
            BY <2>2
          <6> QED BY <2>1, <6>1, ContextKeeps DEF en
        <5> QED BY <4>1, <4>2, <5>1 DEF At5VContract
      <4> QED BY <2>3, <2>4, <4>1, <4>2, <4>3 DEF At5VContract
    <3>2. \A q \in Role \ {r} : h.eng[q] = g.eng[q]
      BY <2>4
    <3> QED BY <1>1, <3>1, <3>2 DEF Deafened
  <2> QED BY <2>2, <2>3, <2>4, <2>5, <2>6, <2>7, <2>8, <2>9 DEF Engines
<1> QED BY <1>1, <1>2, <1>3, StepTakesRow

\* The table of r has no row from s by e.
NoRow(r, s, e) == \A row \in Table(r) : ~(row[1] = s /\ row[2] = e)

\* Without a row for it an event does nothing.
LEMMA NoStep ==
  ASSUME NEW g, Typed(g), NEW r \in Role, NEW e, NEW x, NEW yes,
         NoRow(r, g.eng[r].pe, e)
  PROVE  Step(g, r, e, x, yes) = g
  BY StepTakesRow DEF NoRow

\* The empty word is no event of any table.
LEMMA NoneMovesNothing ==
  ASSUME NEW g, Typed(g), NEW r \in Role, NEW x, NEW yes
  PROVE  Step(g, r, "none", x, yes) = g
<1>1. NoRow(r, g.eng[r].pe, "none")
  BY SinkTable, SourceTable DEF Table, SinkFits, SourceFits, NoRow
<1> QED BY <1>1, NoStep

\* An event and the word it has emitted keep an engine's part of the invariant.
LEMMA ProcessKeeps ==
  ASSUME NEW g, Engines(g), NEW r \in Role, NEW e, NEW x \in Terms \cup {None}, NEW yes,
         e \in {"capabilities_evaluated", "source_capabilities"} => x \in Terms,
         g.eng[r].deaf => e \in QuietEvents
  PROVE  LET h == Process(g, r, e, x, yes)
         IN Engines(h) /\ Same(g, h, r)
<1> DEFINE h == Step(g, r, e, x, yes)
           word == Emits(g, h, r, yes)
<1>1. /\ Engines(h) /\ Same(g, h, r)
      /\ h.eng[r].pe = "evaluate_capability" =>
           h.eng[r].pe = g.eng[r].pe \/ e = "source_capabilities"
  BY StepKeeps
<1> HIDE DEF h
<1>2. word = "capabilities_evaluated" =>
        h.eng[r].pe = "evaluate_capability" /\ h.eng[r].pe # g.eng[r].pe
  BY DEF Emits, Gates, Retry
<1>3. h.eng[r].deaf => word = "none"
  <2>1. h.eng[r].deaf => h.eng[r].pe \in DeafStates
    BY <1>1 DEF Engines, Deafened
  <2> QED BY <2>1 DEF Emits, Gates
<1> HIDE DEF word
<1>4. LET k == Step(h, r, word, x, yes)
      IN Engines(k) /\ Same(h, k, r)
  BY <1>1, <1>2, <1>3, StepKeeps
<1>5. Process(g, r, e, x, yes) = Step(h, r, word, x, yes)
  BY DEF Process, Follow, h, word
<1> QED BY <1>1, <1>4, <1>5 DEF Same

-----------------------------------------------------------------------------
(***************************************************************************)
(* Retirement.                                                             *)
(***************************************************************************)
\* The engine r serves nobody, and nothing is left of whom it served.
Rests(g, r) ==
  /\ g.eng[r].pe = Resting(r)
  /\ ~g.eng[r].explicit /\ ~g.eng[r].deaf /\ g.eng[r].parked = "none"

\* What Startup asks of the supply.
Safe5V == [out |-> "safe5v", pending |-> TRUE]

\* h is g with the engine r off the layer and at rest.
Retired(g, h, r) ==
  /\ Engines(h) /\ Rests(h, r) /\ h.conn = g.conn
  /\ h.client = IF g.client = r THEN "none" ELSE g.client
  /\ \A q \in Role \ {r} : h.eng[q] = g.eng[q]
  /\ h.tx = g.tx /\ h.vconn = g.vconn /\ h.data = g.data
  /\ h.supply = IF r = "source" THEN Safe5V ELSE g.supply

\* h is g with the engine r off the layer.
Left(g, h, r) ==
  /\ Engines(h) /\ h.conn = g.conn
  /\ h.client = IF g.client = r THEN "none" ELSE g.client
  /\ \A q \in Role \ {r} : h.eng[q] = g.eng[q]
  /\ ~h.eng[r].deaf /\ h.eng[r].pe = g.eng[r].pe
  /\ h.tx = g.tx /\ h.vconn = g.vconn /\ h.data = g.data /\ h.supply = g.supply

\* An engine which leaves the layer hears again.
LEMMA LeaveLeaves ==
  ASSUME NEW g, Engines(g), NEW r \in Role
  PROVE  /\ Left(g, leaveLayer(g, r), r)
         /\ leaveLayer(g, r).eng[r].parked = g.eng[r].parked
<1> DEFINE en == [g.eng[r] EXCEPT !.deaf = FALSE]
           client == IF g.client = r THEN "none" ELSE g.client
           h == [g EXCEPT !.client = client, !.eng[r] = en]
<1>1. Typed(g) /\ Drawing(g) /\ RpShown(g) /\ Deafened(g)
      /\ g.eng["source"].parked = "none"
  BY DEF Engines
<1>2. g.eng[r] \in EngineType(SinkStates \cup SourceStates)
  BY <1>1, PortFields
<1>3. /\ en \in EngineType(SinkStates \cup SourceStates)
      /\ ~en.deaf /\ en.parked = g.eng[r].parked /\ en.pe = g.eng[r].pe
      /\ en.explicit = g.eng[r].explicit /\ en.terms = g.eng[r].terms
      /\ en.pending = g.eng[r].pending
  BY <1>2 DEF EngineType
<1>4. client \in Role \cup {"none"}
  BY <1>1, PortFields
<1>5. h = leaveLayer(g, r)
  BY <1>1 DEF leaveLayer, Typed
<1> HIDE DEF en, client
<1>6. /\ h.client = client /\ h.eng[r] = en /\ \A q \in Role \ {r} : h.eng[q] = g.eng[q]
      /\ h.conn = g.conn /\ h.tx = g.tx /\ h.vconn = g.vconn
      /\ h.power = g.power /\ h.rp = g.rp /\ h.data = g.data /\ h.supply = g.supply
  BY <1>1 DEF Typed
<1>7. Typed(h)
  BY <1>1, <1>3, <1>4 DEF Typed
<1> HIDE DEF h
<1>8. Drawing(h) /\ RpShown(h) /\ Deafened(h) /\ h.eng["source"].parked = "none"
  BY <1>1, <1>3, <1>6 DEF Drawing, RpShown, Deafened, Role
<1> QED BY <1>3, <1>5, <1>6, <1>7, <1>8 DEF Engines, Left, client

\* Dropping the parked request concerns nothing else.
LEMMA UnparkKeeps ==
  ASSUME NEW g, Engines(g)
  PROVE  LET h == [g EXCEPT !.eng["sink"].parked = "none"]
         IN /\ Engines(h) /\ h.conn = g.conn /\ h.client = g.client
            /\ h.eng["source"] = g.eng["source"]
            /\ h.eng["sink"].deaf = g.eng["sink"].deaf
            /\ h.eng["sink"].pe = g.eng["sink"].pe
            /\ h.eng["sink"].parked = "none"
            /\ h.tx = g.tx /\ h.vconn = g.vconn /\ h.data = g.data /\ h.supply = g.supply
<1> DEFINE en == [g.eng["sink"] EXCEPT !.parked = "none"]
           h == [g EXCEPT !.eng["sink"] = en]
<1>1. Typed(g) /\ Drawing(g) /\ RpShown(g) /\ Deafened(g)
      /\ g.eng["source"].parked = "none" /\ "sink" \in Role /\ "source" \in Role
  BY DEF Engines, Role
<1>2. g.eng["sink"] \in EngineType(SinkStates \cup SourceStates)
  BY <1>1, PortFields
<1>3. /\ en \in EngineType(SinkStates \cup SourceStates)
      /\ en.deaf = g.eng["sink"].deaf /\ en.parked = "none" /\ en.pe = g.eng["sink"].pe
      /\ en.explicit = g.eng["sink"].explicit /\ en.terms = g.eng["sink"].terms
      /\ en.pending = g.eng["sink"].pending
  BY <1>2 DEF EngineType
<1>5. h = [g EXCEPT !.eng["sink"].parked = "none"]
  BY <1>1 DEF Typed
<1> HIDE DEF en
<1>6. /\ h.client = g.client /\ h.eng["sink"] = en /\ h.eng["source"] = g.eng["source"]
      /\ h.conn = g.conn /\ h.tx = g.tx /\ h.vconn = g.vconn
      /\ h.power = g.power /\ h.rp = g.rp /\ h.data = g.data /\ h.supply = g.supply
  BY <1>1 DEF Typed, Role
<1>7. Typed(h)
  BY <1>1, <1>3 DEF Typed
<1> HIDE DEF h
<1>8. Drawing(h) /\ RpShown(h) /\ Deafened(h) /\ h.eng["source"].parked = "none"
  BY <1>1, <1>3, <1>6 DEF Drawing, RpShown, Deafened, At5VContract, Role
<1> QED BY <1>3, <1>5, <1>6, <1>7, <1>8 DEF Engines

\* Events which bring the engine no operating point.
Plain(e) == e \notin {"capabilities_evaluated", "source_capabilities"}
\* The states an engine passes on its way to rest.
Passing(t) == t \in {"startup", "discovery"}

\* h is g with the engine r moved to t, and nothing else.
Quieted(g, r, t, h) ==
  /\ Engines(h) /\ Same(g, h, r) /\ h.eng[r].pe = t
  /\ t = "startup" => ~h.eng[r].explicit
  /\ t = "discovery" => h.eng[r].explicit = g.eng[r].explicit
  /\ h.tx = g.tx /\ h.vconn = g.vconn /\ h.data = g.data
  /\ h.supply = IF r = "source" /\ t = "startup" THEN Safe5V ELSE g.supply

\* On its way to rest a retired engine sends nothing and switches nothing.
LEMMA QuietEntry ==
  ASSUME NEW g, Engines(g), NEW r \in Role, g.client # r, ~g.eng[r].deaf,
         NEW e, Plain(e), NEW t, Passing(t), t \in States(r),
         HasRow(r, g.eng[r].pe, e, t), OnlyRow(r, g.eng[r].pe, e, t)
  PROVE  Quieted(g, r, t, Process(g, r, e, None, FALSE))
<1> DEFINE en == Context(r, g.eng[r], t, e, None)
           h == Step(g, r, e, None, FALSE)
<1>1. Typed(g) /\ g.eng[r] \in EngineType(SinkStates \cup SourceStates)
      /\ g.vconn \in VconnState
  BY PortFields DEF Engines
<1>2. h = Enter(g, r, en, e)
  BY <1>1, StepTaken
<1>3. en \in EngineType(SinkStates \cup SourceStates) /\ en.pe = t
  <2>1. None \in Terms \cup {None}
    OBVIOUS
  <2> QED BY <1>1, <2>1, ContextTyped, SMTT(30)
<1>4. /\ t = "startup" => ~en.explicit
      /\ t = "discovery" => en.explicit = g.eng[r].explicit
  <2>1. /\ t \in {"startup", "transition_to_default"} => ~en.explicit
        /\ t \notin {"startup", "transition_to_default", "ready"} =>
             en.explicit = g.eng[r].explicit
    BY <1>1, ContextKeeps
  <2> QED BY <2>1 DEF Passing
<1> HIDE DEF en
<1>5. Typed(h) /\ h.eng[r] = en /\ h.tx = Transmits(g, r, en, t, e)
      /\ h.vconn = VconnNext(g.vconn, VconnHears(t)) /\ h.data = g.data
      /\ h.supply = (IF r = "source" THEN Programmed(g.supply, t, en.terms) ELSE g.supply)
  <2>1. en.pe \in States(r)
    BY <1>3
  <2>2. Entered(g, r, en, e, h)
    BY <1>1, <1>2, <1>3, <2>1, EnterFields
  <2> HIDE DEF h
  <2> QED BY <1>3, <2>2 DEF Entered, Passing
<1>6. Transmits(g, r, en, t, e) = g.tx
  BY DEF Transmits, Passing
<1>7. VconnNext(g.vconn, VconnHears(t)) = g.vconn
  BY <1>1 DEF VconnNext, VconnHears, VconnState, Passing
<1> HIDE DEF h
<1>8. Emits(g, h, r, FALSE) = "none"
  BY <1>3, <1>5 DEF Emits, Gates, Passing
<1>9. Process(g, r, e, None, FALSE) = h
  <2>1. Process(g, r, e, None, FALSE) = Step(h, r, Emits(g, h, r, FALSE), None, FALSE)
    BY DEF Process, Follow, h
  <2>2. Step(h, r, "none", None, FALSE) = h
    BY <1>5, NoneMovesNothing
  <2> QED BY <1>8, <2>1, <2>2
<1>10. Engines(h) /\ Same(g, h, r)
  <2>1. e \in {"capabilities_evaluated", "source_capabilities"} => None \in Terms
    BY DEF Plain
  <2>2. None \in Terms \cup {None}
    OBVIOUS
  <2> QED BY <1>9, <2>1, <2>2, ProcessKeeps
<1>11. Programmed(g.supply, t, en.terms) = IF t = "startup" THEN Safe5V ELSE g.supply
  BY DEF Programmed, SupplyOff, SupplySafe5V, Safe5V, Passing
<1> QED BY <1>3, <1>4, <1>5, <1>6, <1>7, <1>9, <1>10, <1>11 DEF Quieted

\* The unguarded row is there.
LEMMA OnHas ==
  ASSUME NEW s, NEW e, NEW t
  PROVE  <<s, e, {}, {}, t>> \in On(s, e, t)
  BY DEF On, When

\* The unguarded row is there from every state of the set.
LEMMA FromAnyHas ==
  ASSUME NEW S, NEW s \in S, NEW e, NEW t
  PROVE  <<s, e, {}, {}, t>> \in FromAny(S, e, t)
  BY OnHas DEF FromAny

\* The sink engine, its VBUS gone, comes to rest from wherever it was.
LEMMA SinkRetires ==
  ASSUME NEW g, Engines(g)
  PROVE  Retired(g, vbusRemoved(g), "sink")
<1> DEFINE quiet == [leaveLayer(g, "sink") EXCEPT !.eng["sink"].parked = "none"]
           h == Process(quiet, "sink", "vbus_removed", None, FALSE)
           k == Process(h, "sink", "started", None, FALSE)
<1>1. /\ Engines(quiet) /\ quiet.conn = g.conn
      /\ quiet.client = IF g.client = "sink" THEN "none" ELSE g.client
      /\ \A q \in Role \ {"sink"} : quiet.eng[q] = g.eng[q]
      /\ ~quiet.eng["sink"].deaf /\ quiet.eng["sink"].parked = "none"
      /\ quiet.tx = g.tx /\ quiet.vconn = g.vconn
      /\ quiet.data = g.data /\ quiet.supply = g.supply
  <2> DEFINE left == leaveLayer(g, "sink")
  <2>1. Left(g, left, "sink")
    BY LeaveLeaves DEF Role
  <2> HIDE DEF left
  <2>2. Engines(left)
    BY <2>1 DEF Left
  <2>3. /\ Engines(quiet) /\ quiet.conn = left.conn /\ quiet.client = left.client
        /\ quiet.eng["source"] = left.eng["source"]
        /\ quiet.eng["sink"].deaf = left.eng["sink"].deaf
        /\ quiet.eng["sink"].parked = "none"
        /\ quiet.tx = left.tx /\ quiet.vconn = left.vconn
        /\ quiet.data = left.data /\ quiet.supply = left.supply
    BY <2>2, UnparkKeeps DEF left
  <2> HIDE DEF quiet
  <2> QED BY <2>1, <2>3 DEF Left, Role
<1>2. vbusRemoved(g) = k
  BY DEF vbusRemoved
<1> HIDE DEF quiet
<1>3. quiet.eng["sink"].pe \in SinkStates
  BY <1>1, PortFields DEF Engines, Role, States
<1>4. /\ Engines(h) /\ Same(quiet, h, "sink") /\ h.eng["sink"].pe = "startup"
      /\ ~h.eng["sink"].explicit /\ h.tx = g.tx /\ h.vconn = g.vconn
      /\ h.data = g.data /\ h.supply = g.supply
  <2>1. <<quiet.eng["sink"].pe, "vbus_removed", {}, {}, "startup">>
          \in FromAny(SinkStates, "vbus_removed", "startup")
    BY <1>3, FromAnyHas
  <2>2. HasRow("sink", quiet.eng["sink"].pe, "vbus_removed", "startup")
    BY <2>1 DEF SinkRows, Table, HasRow
  <2>3. OnlyRow("sink", quiet.eng["sink"].pe, "vbus_removed", "startup")
    BY SinkTable DEF Table, SinkFits, OnlyRow
  <2>4. "sink" \in Role /\ "startup" \in States("sink")
    BY DEF Role, States, SinkStates, SharedStates
  <2>5. Plain("vbus_removed") /\ Passing("startup")
    BY DEF Plain, Passing
  <2>6. quiet.client # "sink"
    BY <1>1
  <2>7. Quieted(quiet, "sink", "startup", h)
    BY <1>1, <2>2, <2>3, <2>4, <2>5, <2>6, QuietEntry
  <2> HIDE DEF h
  <2> QED BY <1>1, <2>7 DEF Quieted
<1> HIDE DEF h
<1>5. /\ Engines(k) /\ Same(h, k, "sink") /\ k.eng["sink"].pe = "discovery"
      /\ ~k.eng["sink"].explicit /\ k.tx = g.tx /\ k.vconn = g.vconn
      /\ k.data = g.data /\ k.supply = g.supply
  <2>1. <<"startup", "started", {}, {}, "discovery">>
          \in On("startup", "started", "discovery")
    BY OnHas
  <2>2. HasRow("sink", "startup", "started", "discovery")
    BY <2>1 DEF SinkRows, CapabilityRows, Table, HasRow
  <2>3. OnlyRow("sink", "startup", "started", "discovery")
    BY SinkTable DEF Table, SinkFits, OnlyRow
  <2>4. "sink" \in Role /\ "discovery" \in States("sink")
    BY DEF Role, States, SinkStates, SharedStates
  <2>5. h.client # "sink" /\ ~h.eng["sink"].deaf
    BY <1>1, <1>4 DEF Same
  <2>6. Plain("started") /\ Passing("discovery")
    BY DEF Plain, Passing
  <2>7. Quieted(h, "sink", "discovery", k)
    BY <1>4, <2>2, <2>3, <2>4, <2>5, <2>6, QuietEntry
  <2> HIDE DEF k
  <2> QED BY <1>4, <2>7 DEF Quieted
<1> HIDE DEF k
<1> QED BY <1>1, <1>2, <1>4, <1>5 DEF Retired, Rests, Resting, Same

\* The source engine, detached, comes to rest from wherever it was.
LEMMA SourceRetires ==
  ASSUME NEW g, Engines(g)
  PROVE  Retired(g, detached(g), "source")
<1> DEFINE quiet == leaveLayer(g, "source")
           h == Process(quiet, "source", "detached", None, FALSE)
<1>1. /\ Engines(quiet) /\ quiet.conn = g.conn
      /\ quiet.client = IF g.client = "source" THEN "none" ELSE g.client
      /\ \A q \in Role \ {"source"} : quiet.eng[q] = g.eng[q]
      /\ ~quiet.eng["source"].deaf /\ quiet.eng["source"].parked = "none"
      /\ quiet.tx = g.tx /\ quiet.vconn = g.vconn
      /\ quiet.data = g.data /\ quiet.supply = g.supply
  <2>1. g.eng["source"].parked = "none"
    BY DEF Engines
  <2>2. Left(g, quiet, "source") /\ quiet.eng["source"].parked = g.eng["source"].parked
    BY LeaveLeaves DEF Role
  <2> HIDE DEF quiet
  <2> QED BY <2>1, <2>2 DEF Left
<1>2. detached(g) = h
  BY DEF detached
<1> HIDE DEF quiet
<1>3. quiet.eng["source"].pe \in SourceStates
  BY <1>1, PortFields DEF Engines, Role, States
<1>4. /\ Engines(h) /\ Same(quiet, h, "source") /\ h.eng["source"].pe = "startup"
      /\ ~h.eng["source"].explicit /\ h.tx = g.tx /\ h.vconn = g.vconn
      /\ h.data = g.data /\ h.supply = Safe5V
  <2>1. <<quiet.eng["source"].pe, "detached", {}, {}, "startup">>
          \in FromAny(SourceStates, "detached", "startup")
    BY <1>3, FromAnyHas
  <2>2. HasRow("source", quiet.eng["source"].pe, "detached", "startup")
    BY <2>1 DEF SourceRows, Table, HasRow
  <2>3. OnlyRow("source", quiet.eng["source"].pe, "detached", "startup")
    BY SourceTable DEF Table, SourceFits, OnlyRow
  <2>4. "source" \in Role /\ "startup" \in States("source")
    BY DEF Role, States, SourceStates, SharedStates
  <2>5. Plain("detached") /\ Passing("startup")
    BY DEF Plain, Passing
  <2>6. quiet.client # "source"
    BY <1>1
  <2>7. Quieted(quiet, "source", "startup", h)
    BY <1>1, <2>2, <2>3, <2>4, <2>5, <2>6, QuietEntry
  <2> HIDE DEF h
  <2> QED BY <1>1, <2>7 DEF Quieted
<1> HIDE DEF h
<1> QED BY <1>1, <1>2, <1>4 DEF Retired, Rests, Resting, Same

-----------------------------------------------------------------------------
\* Writing what no part of Engines speaks of.
LEMMA Unmoved ==
  ASSUME NEW g, NEW h, Engines(g), Typed(h), h.power = g.power, h.rp = g.rp,
         \A r \in Role : /\ h.eng[r].pe = g.eng[r].pe
                         /\ h.eng[r].explicit = g.eng[r].explicit
                         /\ h.eng[r].pending = g.eng[r].pending
                         /\ h.eng[r].terms = g.eng[r].terms
                         /\ h.eng[r].deaf => g.eng[r].deaf,
         h.eng["source"].parked = "none"
  PROVE  Engines(h)
<1>1. "sink" \in Role /\ "source" \in Role
  BY DEF Role
<1>2. Drawing(h)
  BY <1>1 DEF Engines, Drawing
<1>3. RpShown(h)
  BY <1>1 DEF Engines, RpShown
<1>4. Deafened(h)
  BY DEF Engines, Deafened, At5VContract
<1> QED BY <1>2, <1>3, <1>4 DEF Engines

\* h differs from g in the connection machine, the layer and the cable only.
Around(g, h) == Engines(h) /\ h.eng = g.eng

\* What differs around the engines only is as well typed and in order.
LEMMA AroundKeeps ==
  ASSUME NEW g, NEW h, Engines(g), Typed(h), h.power = g.power, h.rp = g.rp, h.eng = g.eng
  PROVE  Around(g, h)
<1>1. g.eng["source"].parked = "none"
  BY DEF Engines
<1> QED BY <1>1, Unmoved DEF Around

\* The connection machine moves.
LEMMA ConnKeeps ==
  ASSUME NEW g, Engines(g), NEW c \in Conn
  PROVE  LET h == [g EXCEPT !.conn = c]
         IN /\ Around(g, h) /\ h.conn = c /\ h.client = g.client
            /\ h.tx = g.tx /\ h.vconn = g.vconn
            /\ h.data = g.data /\ h.supply = g.supply
<1> DEFINE h == [g EXCEPT !.conn = c]
<1>1. Typed(g)
  BY DEF Engines
<1>2. /\ h.power = g.power /\ h.rp = g.rp /\ h.eng = g.eng
      /\ h.conn = c /\ h.client = g.client /\ h.tx = g.tx /\ h.vconn = g.vconn
      /\ h.data = g.data /\ h.supply = g.supply
  BY <1>1 DEF Typed
<1>3. Typed(h)
  BY <1>1 DEF Typed
<1>4. Around(g, h)
  <2> HIDE DEF h
  <2> QED BY <1>2, <1>3, AroundKeeps
<1> QED BY <1>2, <1>4

\* An engine takes the layer.
LEMMA TakeKeeps ==
  ASSUME NEW g, Engines(g), NEW r \in Role
  PROVE  LET h == takeLayer(g, r)
         IN /\ Around(g, h) /\ h.conn = g.conn /\ h.client = r
            /\ h.tx = g.tx /\ h.vconn = g.vconn
            /\ h.data = g.data /\ h.supply = g.supply
<1> DEFINE h == takeLayer(g, r)
<1>1. Typed(g) /\ g.eng[r] \in EngineType(SinkStates \cup SourceStates)
  BY PortFields DEF Engines
<1>2. g.eng[r].role \in DataRole
  BY <1>1 DEF EngineType
<1>3. /\ h.power = g.power /\ h.rp = g.rp /\ h.eng = g.eng
      /\ h.conn = g.conn /\ h.client = r /\ h.tx = g.tx /\ h.vconn = g.vconn
      /\ h.data = g.data /\ h.supply = g.supply
  BY <1>1 DEF Typed, takeLayer
<1>4. Typed(h)
  BY <1>1, <1>2 DEF Typed, takeLayer
<1>5. Around(g, h)
  <2> HIDE DEF h
  <2> QED BY <1>3, <1>4, AroundKeeps
<1> QED BY <1>3, <1>5

\* The layer's transmission and VCONN, written together.
Layer(g, tx, vconn) == [g EXCEPT !.tx = tx, !.vconn = vconn]

\* The layer and VCONN are written.
LEMMA LayerKeeps ==
  ASSUME NEW g, Engines(g), NEW tx \in TxType, NEW vconn \in VconnState
  PROVE  LET h == Layer(g, tx, vconn)
         IN /\ Around(g, h) /\ h.conn = g.conn /\ h.client = g.client
            /\ h.tx = tx /\ h.vconn = vconn
            /\ h.data = g.data /\ h.supply = g.supply
<1> DEFINE h == Layer(g, tx, vconn)
<1>1. Typed(g)
  BY DEF Engines
<1>0. h = [g EXCEPT !.tx = tx, !.vconn = vconn]
  BY DEF Layer
<1> HIDE DEF h
<1>2. /\ h.power = g.power /\ h.rp = g.rp /\ h.eng = g.eng
      /\ h.conn = g.conn /\ h.client = g.client /\ h.tx = tx /\ h.vconn = vconn
      /\ h.data = g.data /\ h.supply = g.supply
  BY <1>0, <1>1 DEF Typed
<1>3. Typed(h)
  BY <1>0, <1>1 DEF Typed, TxType
<1>4. Around(g, h)
  <2> QED BY <1>2, <1>3, AroundKeeps
<1> QED BY <1>2, <1>4 DEF h

\* The announcement of the data role reaches both engines and moves neither.
Announced(g, h) ==
  /\ Engines(h) /\ h.conn = g.conn /\ h.client = g.client
  /\ h.tx = g.tx /\ h.vconn = g.vconn /\ h.data = g.data /\ h.supply = g.supply
  /\ \A r \in Role : /\ h.eng[r].pe = g.eng[r].pe
                     /\ h.eng[r].explicit = g.eng[r].explicit
                     /\ h.eng[r].deaf = g.eng[r].deaf
                     /\ h.eng[r].parked = g.eng[r].parked
                     /\ h.eng[r].attached = g.eng[r].attached

\* Announcing the data role.
LEMMA AnnounceKeeps ==
  ASSUME NEW g, Engines(g)
  PROVE  Announced(g, AnnounceData(g))
<1> DEFINE h == AnnounceData(g)
           told(r) == [g.eng[r] EXCEPT !.role = g.data]
<1>1. Typed(g) /\ g.data \in DataRole
  BY PortFields DEF Engines
<1>2. \A r \in Role : g.eng[r] \in EngineType(SinkStates \cup SourceStates)
  BY <1>1, PortFields
<1>3. \A r \in Role : /\ told(r) \in EngineType(SinkStates \cup SourceStates)
                      /\ told(r).pe = g.eng[r].pe
                      /\ told(r).explicit = g.eng[r].explicit
                      /\ told(r).pending = g.eng[r].pending
                      /\ told(r).terms = g.eng[r].terms
                      /\ told(r).deaf = g.eng[r].deaf
                      /\ told(r).parked = g.eng[r].parked
                      /\ told(r).attached = g.eng[r].attached
  BY <1>1, <1>2 DEF EngineType
<1>4. /\ h.eng = [r \in Role |-> told(r)] /\ h.power = g.power /\ h.rp = g.rp
      /\ h.conn = g.conn /\ h.client = g.client /\ h.tx = g.tx /\ h.vconn = g.vconn
      /\ h.data = g.data /\ h.supply = g.supply
  BY <1>1 DEF Typed, AnnounceData
<1>5. h = [g EXCEPT !.eng = [r \in Role |-> told(r)]]
  BY DEF AnnounceData
<1> HIDE DEF told
<1>6. Typed(h)
  <2> DEFINE eng == [r \in Role |-> told(r)]
  <2>1. /\ eng \in [Role -> EngineType(SinkStates \cup SourceStates)]
        /\ \A r \in Role : eng[r].pe = g.eng[r].pe
    BY <1>3
  <2>2. h = [g EXCEPT !.eng = eng]
    BY <1>5
  <2> HIDE DEF eng, h
  <2> QED BY <1>1, <2>1, <2>2 DEF Typed
<1>7. g.eng["source"].parked = "none" /\ "source" \in Role
  BY DEF Engines, Role
<1>8. Engines(h)
  <2> HIDE DEF h
  <2> QED BY <1>3, <1>4, <1>6, <1>7, Unmoved
<1> QED BY <1>3, <1>4, <1>8 DEF Announced

-----------------------------------------------------------------------------
\* What the sink engine does with its retries concerns nobody else.
Fired(g, h) ==
  /\ Engines(h) /\ h.conn = g.conn /\ h.client = g.client
  /\ h.eng["source"] = g.eng["source"] /\ h.eng["sink"].deaf = g.eng["sink"].deaf

\* The retry of the request in its gate.
LEMMA FireGatedKeeps ==
  ASSUME NEW g, Engines(g)
  PROVE  Fired(g, fireGated(g))
<1> DEFINE s == g.eng["sink"].pe
           e == Retry(s)
           h == Process(g, "sink", e, None, FALSE)
<1>1. CASE s \notin Gates
  BY <1>1 DEF Fired, fireGated
<1>2. CASE s \in Gates
  <2>1. ~g.eng["sink"].deaf
    BY <1>2 DEF Engines, Deafened, Gates, Role
  <2>2. e \notin {"capabilities_evaluated", "source_capabilities"}
    BY <1>2 DEF Retry, Gates
  <2>3. "sink" \in Role /\ None \in Terms \cup {None}
    BY DEF Role
  <2>4. h = fireGated(g)
    BY <1>2 DEF fireGated
  <2> HIDE DEF e
  <2>5. Engines(h) /\ Same(g, h, "sink")
    BY <2>1, <2>2, <2>3, ProcessKeeps
  <2> HIDE DEF h
  <2> QED BY <2>4, <2>5 DEF Fired, Same, Role
<1> QED BY <1>1, <1>2

\* The request parked is sent, or dropped.
LEMMA FirePendingKeeps ==
  ASSUME NEW g, Engines(g)
  PROVE  Fired(g, firePending(g))
<1> DEFINE parked == g.eng["sink"].parked
           cleared == [g EXCEPT !.eng["sink"].parked = "none"]
           h == Process(cleared, "sink", Swap(parked), None, FALSE)
<1>1. /\ Engines(cleared) /\ cleared.conn = g.conn /\ cleared.client = g.client
      /\ cleared.eng["source"] = g.eng["source"]
      /\ cleared.eng["sink"].deaf = g.eng["sink"].deaf
  BY UnparkKeeps
<1>2. firePending(g) \in {cleared, h}
  BY DEF firePending
<1> HIDE DEF cleared
<1>3. Swap(parked) \in {"send_pr_swap", "send_dr_swap"}
  BY DEF Swap
<1>4. Engines(h) /\ Same(cleared, h, "sink")
  <2> DEFINE e == Swap(parked)
  <2>1. e \in QuietEvents /\ e \notin {"capabilities_evaluated", "source_capabilities"}
    BY <1>3
  <2>2. "sink" \in Role /\ None \in Terms \cup {None}
    BY DEF Role
  <2> HIDE DEF e
  <2>3. Engines(Process(cleared, "sink", e, None, FALSE))
        /\ Same(cleared, Process(cleared, "sink", e, None, FALSE), "sink")
    BY <1>1, <2>1, <2>2, ProcessKeeps
  <2> QED BY <2>3 DEF e
<1> HIDE DEF h
<1> QED BY <1>1, <1>2, <1>4 DEF Fired, Same, Role

\* SinkTxOk seen: both.
LEMMA SinkTxKeeps ==
  ASSUME NEW g, Engines(g), NEW ok \in BOOLEAN
  PROVE  Fired(g, sinkTxChanged(g, ok))
<1> DEFINE seen == [g EXCEPT !.txok = ok]
           gated == fireGated(seen)
           pending == firePending(gated)
<1>1. Fired(g, seen)
  <2>1. Typed(g)
    BY DEF Engines
  <2>2. /\ seen.power = g.power /\ seen.rp = g.rp /\ seen.eng = g.eng
        /\ seen.conn = g.conn /\ seen.client = g.client
    BY <2>1 DEF Typed
  <2>3. Typed(seen)
    BY <2>1 DEF Typed
  <2>4. Around(g, seen)
    <3> HIDE DEF seen
    <3> QED BY <2>2, <2>3, AroundKeeps
  <2> HIDE DEF seen
  <2> QED BY <2>2, <2>4 DEF Around, Fired
<1>2. sinkTxChanged(g, ok) = IF ok THEN pending ELSE seen
  BY DEF sinkTxChanged
<1> HIDE DEF seen
<1>3. Fired(seen, gated)
  BY <1>1, FireGatedKeeps DEF Fired
<1> HIDE DEF gated
<1>4. Fired(gated, pending)
  BY <1>3, FirePendingKeeps DEF Fired
<1> HIDE DEF pending
<1> QED BY <1>1, <1>2, <1>3, <1>4 DEF Fired

-----------------------------------------------------------------------------
(***************************************************************************)
(* The invariant of the port between two handlers.                         *)
(***************************************************************************)
\* Whoever is not the layer's client rests.
Solo(g) == \A r \in Role : g.client # r => Rests(g, r)

\* The engine the connection machine's state calls for.
ClientIn(conn) ==
  CASE conn \in {"detached", "error_recovery"} -> "none"
    [] conn = "attached_src" -> "source"
    [] OTHER -> "sink"

\* Without a connection the layer is idle and VCONN off.
Loose(g) == g.client = "none" => g.tx = Idle /\ g.vconn = "off"

\* The inductive invariant.
InOrder(g) == Engines(g) /\ Solo(g) /\ g.client = ClientIn(g.conn) /\ Loose(g)

\* The live engine processes an event.
LEMMA LiveProcess ==
  ASSUME NEW g, InOrder(g), NEW r \in Role, r = g.client, NEW e,
         NEW x \in Terms \cup {None}, NEW yes,
         e \in {"capabilities_evaluated", "source_capabilities"} => x \in Terms,
         g.eng[r].deaf => e \in QuietEvents
  PROVE  LET h == Process(g, r, e, x, yes)
         IN InOrder(h) /\ Same(g, h, r)
<1> DEFINE h == Process(g, r, e, x, yes)
<1>1. Engines(g)
  BY DEF InOrder
<1>2. Engines(h) /\ Same(g, h, r)
  <2> HIDE DEF QuietEvents
  <2> QED BY <1>1, ProcessKeeps
<1>3. r # "none"
  BY DEF Role
<1>4. InOrder(h)
  <2> HIDE DEF h
  <2> QED BY <1>2, <1>3 DEF InOrder, Solo, Loose, Rests, Same
<1> QED BY <1>2, <1>4

-----------------------------------------------------------------------------
(***************************************************************************)
(* The directions.                                                         *)
(***************************************************************************)
\* The old sink comes to rest and the source engine takes the layer.
LEMMA SwapToSourceKeeps ==
  ASSUME NEW g, InOrder(g), g.client = "sink"
  PROVE  InOrder(CompleteToSource(g))
<1> DEFINE moved == [g EXCEPT !.conn = "attached_src"]
           there == AnnounceData(moved)
           left == vbusRemoved(there)
           taken == takeLayer(left, "source")
           h == Process(taken, "source", "attached_swap", None, FALSE)
<1>1. Around(g, moved) /\ moved.conn = "attached_src" /\ moved.client = g.client
  <2>1. "attached_src" \in Conn
    BY DEF Conn
  <2> QED BY <2>1, ConnKeeps DEF InOrder
<1>2. h = CompleteToSource(g)
  BY DEF CompleteToSource
<1> HIDE DEF moved
<1>3. Announced(moved, there)
  BY <1>1, AnnounceKeeps DEF Around
<1> HIDE DEF there
<1>4. Retired(there, left, "sink")
  BY <1>3, SinkRetires DEF Announced
<1> HIDE DEF left
<1>5. Around(left, taken) /\ taken.conn = left.conn /\ taken.client = "source"
  BY <1>4, TakeKeeps DEF Retired, Role
<1> HIDE DEF taken
<1>6. Rests(g, "source")
  BY DEF InOrder, Solo, Role
<1>7. Rests(taken, "sink") /\ Rests(taken, "source") /\ taken.conn = "attached_src"
  BY <1>1, <1>3, <1>4, <1>5, <1>6 DEF Around, Announced, Retired, Rests, Role
<1>8. InOrder(taken)
  BY <1>5, <1>7 DEF InOrder, Around, Solo, Loose, ClientIn, Role
<1>9. /\ "source" \in Role /\ None \in Terms \cup {None} /\ ~taken.eng["source"].deaf
  BY <1>7 DEF Rests, Role
<1>10. Plain("attached_swap")
  BY DEF Plain
<1> HIDE DEF QuietEvents
<1>11. InOrder(h)
  BY <1>5, <1>8, <1>9, <1>10, LiveProcess DEF Plain
<1> QED BY <1>2, <1>11

\* The old source hands the layer to the sink engine and comes to rest.
LEMMA SwapToSinkKeeps ==
  ASSUME NEW g, InOrder(g), g.client = "source"
  PROVE  InOrder(BeginSwapToSink(g))
<1> DEFINE moved == [g EXCEPT !.conn = "standby_to_snk"]
           there == takeLayer(moved, "sink")
           waits == Process(there, "sink", "swap_wait_source_on", None, FALSE)
           h == detached(waits)
<1>1. Around(g, moved) /\ moved.conn = "standby_to_snk"
  <2>1. "standby_to_snk" \in Conn
    BY DEF Conn
  <2> QED BY <2>1, ConnKeeps DEF InOrder
<1>2. h = BeginSwapToSink(g)
  BY DEF BeginSwapToSink
<1> HIDE DEF moved
<1>3. Around(moved, there) /\ there.conn = moved.conn /\ there.client = "sink"
  BY <1>1, TakeKeeps DEF Around, Role
<1> HIDE DEF there
<1>4. Rests(there, "sink") /\ "sink" \in Role /\ None \in Terms \cup {None}
  BY <1>1, <1>3 DEF InOrder, Solo, Rests, Around, Role
<1>5. Plain("swap_wait_source_on")
  BY DEF Plain
<1>6. Engines(waits) /\ Same(there, waits, "sink")
  <2>1. Engines(there) /\ ~there.eng["sink"].deaf
    BY <1>3, <1>4 DEF Around, Rests
  <2> HIDE DEF QuietEvents
  <2> QED BY <1>4, <1>5, <2>1, ProcessKeeps DEF Plain
<1> HIDE DEF waits
<1>7. Retired(waits, h, "source")
  BY <1>6, SourceRetires
<1> HIDE DEF h
<1>8. InOrder(h)
  BY <1>1, <1>3, <1>6, <1>7 DEF InOrder, Solo, Loose, ClientIn, Retired, Same, Role
<1> QED BY <1>2, <1>8

\* The connection machine moves under a live sink engine.
LEMMA SinkContinues ==
  ASSUME NEW g, InOrder(g), g.client = "sink", NEW c \in Conn, ClientIn(c) = "sink"
  PROVE  LET h == [g EXCEPT !.conn = c]
         IN InOrder(h) /\ h.client = "sink" /\ h.eng = g.eng
<1> DEFINE h == [g EXCEPT !.conn = c]
<1>1. Around(g, h) /\ h.conn = c /\ h.client = g.client
  BY ConnKeeps DEF InOrder
<1>2. InOrder(h)
  <2> HIDE DEF h
  <2> QED BY <1>1 DEF InOrder, Solo, Loose, Rests, Around, ClientIn
<1> QED BY <1>1, <1>2 DEF Around

\* The sink engine takes two plain events in a row.
LEMMA SinkProcessesTwo ==
  ASSUME NEW g, InOrder(g), g.client = "sink", ~g.eng["sink"].deaf,
         NEW d, Plain(d), NEW e, Plain(e)
  PROVE  InOrder(Process(Process(g, "sink", d, None, FALSE), "sink", e, None, FALSE))
<1> DEFINE h == Process(g, "sink", d, None, FALSE)
           k == Process(h, "sink", e, None, FALSE)
<1>1. "sink" \in Role /\ None \in Terms \cup {None}
  BY DEF Role
<1> HIDE DEF QuietEvents
<1>2. InOrder(h) /\ Same(g, h, "sink")
  BY <1>1, LiveProcess DEF Plain
<1> HIDE DEF h
<1>3. h.client = "sink" /\ ~h.eng["sink"].deaf
  BY <1>2 DEF Same
<1>4. InOrder(k)
  BY <1>1, <1>2, <1>3, LiveProcess DEF Plain
<1> QED BY <1>4 DEF h

\* The new sink continues in Attached.SNK.
LEMMA SwappedToSinkKeeps ==
  ASSUME NEW g, InOrder(g), g.client = "sink", ~g.eng["sink"].deaf
  PROVE  InOrder(CompleteToSink(g))
<1> DEFINE moved == [g EXCEPT !.conn = "attached_snk"]
           told == AnnounceData(moved)
           there == sinkTxChanged(told, g.txok)
<1>1. InOrder(moved) /\ moved.client = "sink" /\ moved.eng = g.eng
  <2>1. "attached_snk" \in Conn /\ ClientIn("attached_snk") = "sink"
    BY DEF Conn, ClientIn
  <2> QED BY <2>1, SinkContinues
<1>2. CompleteToSink(g) =
        Process(Process(there, "sink", "swap_done", None, FALSE),
                "sink", "vbus_present", None, FALSE)
  BY DEF CompleteToSink
<1> HIDE DEF moved
<1>3. Announced(moved, told)
  BY <1>1, AnnounceKeeps DEF InOrder
<1> HIDE DEF told
<1>4. Fired(told, there)
  <2>1. g.txok \in BOOLEAN
    BY PortFields DEF InOrder, Engines
  <2> QED BY <1>3, <2>1, SinkTxKeeps DEF Announced
<1> HIDE DEF there
<1>5. Rests(there, "source")
  BY <1>1, <1>3, <1>4 DEF InOrder, Solo, Announced, Fired, Rests, Role
<1>6. InOrder(there) /\ there.client = "sink" /\ ~there.eng["sink"].deaf
  BY <1>1, <1>3, <1>4, <1>5 DEF InOrder, Solo, Loose, Announced, Fired, Role
<1>7. Plain("swap_done") /\ Plain("vbus_present")
  BY DEF Plain
<1> QED BY <1>2, <1>6, <1>7, SinkProcessesTwo

\* The sink goes through its default level.
LEMMA SinkHardResetKeeps ==
  ASSUME NEW g, InOrder(g), g.client = "sink", ~g.eng["sink"].deaf
  PROVE  InOrder(SinkAfterHardReset(g))
<1> DEFINE moved == [g EXCEPT !.conn = "hard_reset_snk"]
           window == IF g.conn = "attached_snk" THEN moved ELSE g
<1>1. InOrder(moved) /\ moved.client = "sink" /\ moved.eng = g.eng
  <2>1. "hard_reset_snk" \in Conn /\ ClientIn("hard_reset_snk") = "sink"
    BY DEF Conn, ClientIn
  <2> QED BY <2>1, SinkContinues
<1>2. InOrder(window) /\ window.client = "sink" /\ ~window.eng["sink"].deaf
  BY <1>1
<1>3. SinkAfterHardReset(g) =
        Process(Process(window, "sink", "default_level_reached", None, FALSE),
                "sink", "started", None, FALSE)
  BY DEF SinkAfterHardReset
<1> HIDE DEF window
<1>4. Plain("default_level_reached") /\ Plain("started")
  BY DEF Plain
<1> QED BY <1>2, <1>3, <1>4, SinkProcessesTwo

\* The end of a connection puts both engines to rest, layer and VCONN off.
LEMMA DisconnectKeeps ==
  ASSUME NEW g, InOrder(g), NEW to \in {"detached", "error_recovery"}
  PROVE  InOrder(Disconnect(g, to)) /\ Disconnect(g, to).conn = to
<1> DEFINE moved == [g EXCEPT !.conn = to]
           quiet == [moved EXCEPT !.tx = Idle, !.vconn = "off"]
           h == Retire(quiet)
<1>1. Around(g, moved) /\ moved.conn = to /\ moved.client = g.client
  <2>1. to \in Conn
    BY DEF Conn
  <2> QED BY <2>1, ConnKeeps DEF InOrder
<1>2. quiet = [g EXCEPT !.conn = to, !.tx = Idle, !.vconn = VconnNext(g.vconn, "detached")]
  BY DEF VconnNext
<1>3. h = Disconnect(g, to)
  BY <1>2 DEF Disconnect
<1> HIDE DEF moved
<1>4. /\ Around(moved, quiet) /\ quiet.conn = to /\ quiet.client = g.client
      /\ quiet.tx = Idle /\ quiet.vconn = "off"
  <2>1. Idle \in TxType /\ "off" \in VconnState
    BY DEF Idle, TxType, VconnState
  <2>2. Engines(moved)
    BY <1>1 DEF Around
  <2>3. quiet = Layer(moved, Idle, "off")
    BY DEF Layer
  <2> HIDE DEF quiet
  <2> QED BY <1>1, <2>1, <2>2, <2>3, LayerKeeps
<1> HIDE DEF quiet
<1>5. quiet.eng = g.eng
  BY <1>1, <1>4 DEF Around
<1>6. Engines(quiet) /\ Solo(quiet)
  BY <1>4, <1>5 DEF InOrder, Solo, Rests, Around
<1>7. /\ Engines(h) /\ h.client = "none" /\ h.conn = quiet.conn
      /\ h.tx = quiet.tx /\ h.vconn = quiet.vconn
      /\ Rests(h, "sink") /\ Rests(h, "source")
  <2>1. CASE quiet.client = "sink"
    <3>1. h = vbusRemoved(quiet)
      BY <2>1 DEF Retire
    <3>2. Retired(quiet, h, "sink")
      BY <1>6, <3>1, SinkRetires
    <3> HIDE DEF h
    <3> QED BY <1>6, <2>1, <3>2 DEF Retired, Solo, Rests, Role
  <2>2. CASE quiet.client = "source"
    <3>1. h = detached(quiet)
      BY <2>2 DEF Retire
    <3>2. Retired(quiet, h, "source")
      BY <1>6, <3>1, SourceRetires
    <3> HIDE DEF h
    <3> QED BY <1>6, <2>2, <3>2 DEF Retired, Solo, Rests, Role
  <2>3. CASE quiet.client = "none"
    <3>1. h = quiet
      BY <2>3 DEF Retire
    <3> QED BY <1>6, <2>3, <3>1 DEF Solo, Role
  <2>4. quiet.client \in Role \cup {"none"}
    BY <1>6, PortFields DEF Engines
  <2> QED BY <2>1, <2>2, <2>3, <2>4 DEF Role
<1> HIDE DEF h
<1>8. InOrder(h)
  BY <1>4, <1>7 DEF InOrder, Solo, Loose, ClientIn, Role
<1> QED BY <1>3, <1>4, <1>7, <1>8

\* Whatever an engine directs the connection machine to do.
LEMMA DirectedKeeps ==
  ASSUME NEW f, NEW g, InOrder(g)
  PROVE  InOrder(Directed(f, g))
<1> DEFINE entered(r) == IF g.eng[r].pe = f.eng[r].pe THEN "none" ELSE g.eng[r].pe
           snk == entered("sink")
           src == entered("source")
           h == Directed(f, g)
<1>1. g.client = ClientIn(g.conn)
  BY DEF InOrder
<1>2. g.client # "sink" => snk \in {"none", "discovery"}
  BY DEF InOrder, Solo, Rests, Resting, Role
<1>3. snk \notin DeafStates \cup {"none"} => ~g.eng["sink"].deaf
  BY DEF InOrder, Engines, Deafened, Role
<1>4. CASE snk = "swap_transition_to_off" /\ g.conn = "attached_snk"
  <2>1. "standby_to_src" \in Conn /\ ClientIn("standby_to_src") = "sink" /\ g.client = "sink"
    BY <1>1, <1>4 DEF Conn, ClientIn
  <2>2. InOrder([g EXCEPT !.conn = "standby_to_src"])
    BY <2>1, SinkContinues
  <2> QED BY <1>4, <2>2 DEF Directed
<1>5. CASE snk = "swap_assert_rp" /\ g.conn = "standby_to_src"
  <2>1. g.client = "sink"
    BY <1>2, <1>5
  <2>2. h = CompleteToSource(g)
    BY <1>5 DEF Directed
  <2> QED BY <2>1, <2>2, SwapToSourceKeeps
<1>6. CASE /\ ~(snk = "swap_transition_to_off" /\ g.conn = "attached_snk")
           /\ ~(snk = "swap_assert_rp" /\ g.conn = "standby_to_src")
  <2>1. CASE src = "swap_assert_rd" /\ g.conn = "attached_src"
    <3>1. g.client = "source"
      BY <1>1, <2>1 DEF ClientIn
    <3>2. h = BeginSwapToSink(g)
      BY <1>6, <2>1 DEF Directed
    <3> QED BY <3>1, <3>2, SwapToSinkKeeps
  <2>2. CASE /\ ~(src = "swap_assert_rd" /\ g.conn = "attached_src")
             /\ snk = "swap_source_on_seen" /\ g.conn = "standby_to_snk"
    <3>1. g.client = "sink" /\ ~g.eng["sink"].deaf
      BY <1>2, <1>3, <2>2
    <3>2. h = CompleteToSink(g)
      BY <1>6, <2>2 DEF Directed
    <3> QED BY <3>1, <3>2, SwappedToSinkKeeps
  <2>3. CASE /\ ~(src = "swap_assert_rd" /\ g.conn = "attached_src")
             /\ ~(snk = "swap_source_on_seen" /\ g.conn = "standby_to_snk")
    <3>1. CASE snk = "transition_to_default"
      <4>1. g.client = "sink" /\ ~g.eng["sink"].deaf
        BY <1>2, <1>3, <3>1
      <4>2. h = SinkAfterHardReset(g)
        BY <1>6, <2>3, <3>1 DEF Directed
      <4> QED BY <4>1, <4>2, SinkHardResetKeeps
    <3>2. CASE snk # "transition_to_default"
      <4>1. h \in {Disconnect(g, "error_recovery"), g}
        BY <1>6, <2>3, <3>2 DEF Directed
      <4>2. InOrder(Disconnect(g, "error_recovery"))
        BY DisconnectKeeps
      <4> QED BY <4>1, <4>2
    <3> QED BY <3>1, <3>2
  <2> QED BY <2>1, <2>2, <2>3
<1> QED BY <1>4, <1>5, <1>6

\* An event at the live engine, with everything it sets in motion.
LEMMA HandleKeeps ==
  ASSUME NEW g, InOrder(g), NEW r \in Role, r = g.client, NEW e,
         NEW x \in Terms \cup {None}, NEW yes,
         e \in {"capabilities_evaluated", "source_capabilities"} => x \in Terms,
         g.eng[r].deaf => e \in QuietEvents
  PROVE  InOrder(Handle(g, r, e, x, yes))
<1> HIDE DEF QuietEvents
<1>1. InOrder(Process(g, r, e, x, yes))
  BY LiveProcess
<1> QED BY <1>1, DirectedKeeps DEF Handle

\* The events without an operating point which a deaf engine may meet.
LEMMA QuietHandle ==
  ASSUME NEW g, InOrder(g), g.client # "none",
         NEW e, e \in QuietEvents
  PROVE  InOrder(Handle(g, g.client, e, None, FALSE))
<1>1. e \notin {"capabilities_evaluated", "source_capabilities"}
  OBVIOUS
<1>2. g.client \in Role /\ None \in Terms \cup {None}
  BY PortFields DEF InOrder, Engines
<1> HIDE DEF QuietEvents
<1> QED BY <1>1, <1>2, HandleKeeps

-----------------------------------------------------------------------------
(***************************************************************************)
(* The handlers.                                                           *)
(***************************************************************************)
\* A live port, its layer written: nothing else can be out of order.
LEMMA LiveLayer ==
  ASSUME NEW g, InOrder(g), g.client # "none", NEW tx \in TxType, NEW vconn \in VconnState
  PROVE  LET h == Layer(g, tx, vconn)
         IN InOrder(h) /\ h.client = g.client /\ h.eng = g.eng
<1> DEFINE h == Layer(g, tx, vconn)
<1>1. Around(g, h) /\ h.conn = g.conn /\ h.client = g.client
  BY LayerKeeps DEF InOrder
<1>2. InOrder(h)
  <2> HIDE DEF h
  <2> QED BY <1>1 DEF InOrder, Solo, Loose, Rests, Around
<1> QED BY <1>1, <1>2 DEF Around

\* The layer's transmission is written.
LEMMA LiveTx ==
  ASSUME NEW g, InOrder(g), g.client # "none", NEW tx \in TxType
  PROVE  LET h == [g EXCEPT !.tx = tx]
         IN InOrder(h) /\ h.client = g.client /\ h.eng = g.eng
<1>1. Typed(g) /\ g.vconn \in VconnState
  BY PortFields DEF InOrder, Engines
<1>2. Layer(g, tx, g.vconn) = [g EXCEPT !.tx = tx]
  BY <1>1 DEF Typed, Layer
<1> QED BY <1>1, <1>2, LiveLayer

\* VCONN is written.
LEMMA LiveVconn ==
  ASSUME NEW g, InOrder(g), g.client # "none", NEW vconn \in VconnState
  PROVE  LET h == [g EXCEPT !.vconn = vconn]
         IN InOrder(h) /\ h.client = g.client /\ h.eng = g.eng
<1>1. Typed(g) /\ g.tx \in TxType
  BY PortFields DEF InOrder, Engines
<1>2. Layer(g, g.tx, vconn) = [g EXCEPT !.vconn = vconn]
  BY <1>1 DEF Typed, Layer
<1> QED BY <1>1, <1>2, LiveLayer

\* The live engine's context written, where it says nothing of the contract.
LEMMA LiveContext ==
  ASSUME NEW g, InOrder(g), NEW r \in Role, r = g.client,
         NEW en \in EngineType(SinkStates \cup SourceStates),
         en.pe = g.eng[r].pe, en.explicit = g.eng[r].explicit,
         en.pending = g.eng[r].pending, en.terms = g.eng[r].terms,
         en.deaf => /\ g.eng[r].pe \in DeafStates
                    /\ At5VContract(g.eng[r]),
         r = "source" => en.parked = "none"
  PROVE  LET h == [g EXCEPT !.eng[r] = en]
         IN InOrder(h) /\ h.client = g.client /\ h.eng[r] = en
<1> DEFINE h == [g EXCEPT !.eng[r] = en]
<1>1. Typed(g) /\ Drawing(g) /\ RpShown(g) /\ Deafened(g)
      /\ g.eng["source"].parked = "none"
  BY DEF InOrder, Engines
<1>2. /\ h.client = g.client /\ h.conn = g.conn /\ h.eng[r] = en
      /\ \A q \in Role \ {r} : h.eng[q] = g.eng[q]
      /\ h.power = g.power /\ h.rp = g.rp /\ h.tx = g.tx /\ h.vconn = g.vconn
  BY <1>1 DEF Typed
<1>3. Typed(h)
  BY <1>1 DEF Typed
<1>4. InOrder(h)
  <2> HIDE DEF h, DeafStates
  <2>1. Drawing(h) /\ RpShown(h) /\ h.eng["source"].parked = "none"
    BY <1>1, <1>2 DEF Drawing, RpShown, Role
  <2>2. Deafened(h)
    BY <1>1, <1>2 DEF Deafened, At5VContract
  <2>3. r # "none"
    BY DEF Role
  <2> QED BY <1>2, <1>3, <2>1, <2>2, <2>3 DEF InOrder, Engines, Solo, Loose, Rests
<1> QED BY <1>2, <1>4

\* A fresh attach wakes exactly one engine.
LEMMA AttachedKeeps ==
  ASSUME NEW g, InOrder(g), g.client = "none", NEW r \in Role,
         NEW ok \in BOOLEAN, NEW ra \in BOOLEAN
  PROVE  InOrder(Attached(g, r, ok, ra))
<1> DEFINE conn == IF r = "sink" THEN "attached_snk" ELSE "attached_src"
           role == defaultDataRole(r)
           moved == [g EXCEPT !.conn = conn]
           placed == [moved EXCEPT !.data = role]
           there == AnnounceData(placed)
           vconn == IF ra /\ "vconn" \in Features
                    THEN VconnNext(g.vconn, "attached_source_ra") ELSE g.vconn
<1>1. conn \in Conn /\ role \in DataRole /\ ClientIn(conn) = r
  BY DEF Conn, DataRole, defaultDataRole, ClientIn, Role
<1>2. placed = [g EXCEPT !.conn = conn, !.data = role]
  OBVIOUS
<1>3. Engines(g) /\ Rests(g, "sink") /\ Rests(g, "source")
  BY DEF InOrder, Solo, Role
<1>4. Around(g, placed) /\ placed.conn = conn /\ placed.vconn = g.vconn
  <2>1. Typed(g)
    BY <1>3 DEF Engines
  <2>2. /\ placed.power = g.power /\ placed.rp = g.rp /\ placed.eng = g.eng
        /\ placed.conn = conn /\ placed.vconn = g.vconn
    BY <2>1 DEF Typed
  <2>3. Typed(placed)
    BY <1>1, <2>1 DEF Typed
  <2> HIDE DEF placed, conn
  <2> QED BY <1>3, <2>2, <2>3, AroundKeeps
<1>5. Announced(placed, there)
  BY <1>4, AnnounceKeeps DEF Around
<1>6. Attached(g, r, ok, ra) =
        IF r = "sink" THEN vbusPresent(sinkTxChanged(there, ok))
        ELSE Process(takeLayer([there EXCEPT !.vconn = vconn], "source"),
                     "source", "attached", None, FALSE)
  BY <1>2 DEF Attached
<1> HIDE DEF there, conn, placed, vconn
<1>7. Rests(there, "sink") /\ Rests(there, "source") /\ there.conn = conn /\ Engines(there)
  BY <1>3, <1>4, <1>5 DEF Around, Announced, Rests, Role
<1>8. CASE r = "sink"
  <2> DEFINE seen == sinkTxChanged(there, ok)
             taken == takeLayer(seen, "sink")
             h == Process(taken, "sink", "vbus_present", None, FALSE)
  <2>1. Fired(there, seen)
    BY <1>7, SinkTxKeeps
  <2>2. Attached(g, r, ok, ra) = h
    BY <1>6, <1>8 DEF vbusPresent
  <2> HIDE DEF seen
  <2>3. Around(seen, taken) /\ taken.client = "sink" /\ taken.conn = seen.conn
    BY <2>1, TakeKeeps DEF Fired, Role
  <2> HIDE DEF taken
  <2>4. InOrder(taken)
    BY <1>1, <1>7, <1>8, <2>1, <2>3
       DEF InOrder, Around, Fired, Solo, Loose, Rests, Role
  <2>5. ~taken.eng["sink"].deaf /\ "sink" \in Role /\ None \in Terms \cup {None}
    BY <1>7, <2>1, <2>3 DEF Around, Fired, Rests, Role
  <2>6. Plain("vbus_present")
    BY DEF Plain
  <2> HIDE DEF QuietEvents
  <2>7. InOrder(h)
    BY <2>3, <2>4, <2>5, <2>6, LiveProcess DEF Plain
  <2> QED BY <2>2, <2>7
<1>9. CASE r = "source"
  <2> DEFINE powered == [there EXCEPT !.vconn = vconn]
             taken == takeLayer(powered, "source")
             h == Process(taken, "source", "attached", None, FALSE)
  <2>1. Attached(g, r, ok, ra) = h
    BY <1>6, <1>9
  <2>2. vconn \in VconnState /\ Typed(there) /\ there.tx \in TxType
    <3>1. g.vconn \in VconnState
      BY <1>3, PortFields DEF Engines
    <3>2. VconnNext(g.vconn, "attached_source_ra") \in VconnState
      BY <3>1 DEF VconnNext, VconnState
    <3> QED BY <1>7, <3>1, <3>2, PortFields DEF Engines, vconn
  <2>3. powered = Layer(there, there.tx, vconn)
    BY <2>2 DEF Typed, Layer
  <2> HIDE DEF powered
  <2>4. Around(there, powered) /\ powered.conn = there.conn
    BY <1>7, <2>2, <2>3, LayerKeeps
  <2>5. Around(powered, taken) /\ taken.client = "source" /\ taken.conn = powered.conn
    BY <2>4, TakeKeeps DEF Around, Role
  <2> HIDE DEF taken
  <2>6. InOrder(taken)
    BY <1>1, <1>7, <1>9, <2>4, <2>5 DEF InOrder, Around, Solo, Loose, Rests, Role
  <2>7. ~taken.eng["source"].deaf /\ "source" \in Role /\ None \in Terms \cup {None}
    BY <1>7, <2>4, <2>5 DEF Around, Rests, Role
  <2>8. Plain("attached")
    BY DEF Plain
  <2> HIDE DEF QuietEvents
  <2>9. InOrder(h)
    BY <2>5, <2>6, <2>7, <2>8, LiveProcess DEF Plain
  <2> QED BY <2>1, <2>9
<1> QED BY <1>8, <1>9 DEF Role

\* The sink's window after a hard reset: VBUS gone.
LEMMA WindowOpens ==
  ASSUME NEW g, InOrder(g), g.conn = "hard_reset_snk"
  PROVE  InOrder(WindowVbusGone(g))
<1>1. "hard_reset_recover_snk" \in Conn
      /\ ClientIn("hard_reset_recover_snk") = "sink" /\ g.client = "sink"
  BY DEF Conn, ClientIn, InOrder
<1>2. InOrder([g EXCEPT !.conn = "hard_reset_recover_snk"])
  BY <1>1, SinkContinues
<1> QED BY <1>2 DEF WindowVbusGone

\* The error recovery is over.
LEMMA RecoveryKeeps ==
  ASSUME NEW g, InOrder(g), g.conn = "error_recovery"
  PROVE  InOrder([g EXCEPT !.conn = "detached"])
<1> DEFINE h == [g EXCEPT !.conn = "detached"]
<1>1. /\ Around(g, h) /\ h.conn = "detached" /\ h.client = g.client
      /\ h.tx = g.tx /\ h.vconn = g.vconn
  <2>1. "detached" \in Conn
    BY DEF Conn
  <2> QED BY <2>1, ConnKeeps DEF InOrder
<1> HIDE DEF h
<1>2. InOrder(h)
  BY <1>1 DEF InOrder, Around, Solo, Rests, Loose, ClientIn
<1> QED BY <1>2 DEF h

\* VBUS back in the window of a hard reset.
LEMMA WindowKeeps ==
  ASSUME NEW g, InOrder(g), g.conn = "hard_reset_recover_snk", NEW ok \in BOOLEAN
  PROVE  InOrder(WindowVbusBack(g, ok))
<1> DEFINE moved == [g EXCEPT !.conn = "attached_snk"]
           there == AnnounceData(moved)
           seen == sinkTxChanged(there, ok)
           taken == takeLayer(seen, "sink")
           h == Process(taken, "sink", "vbus_present", None, FALSE)
<1>1. InOrder(moved) /\ moved.client = "sink" /\ moved.conn = "attached_snk"
  <2>1. "attached_snk" \in Conn /\ ClientIn("attached_snk") = "sink" /\ g.client = "sink"
    BY DEF Conn, ClientIn, InOrder
  <2>2. moved.conn = "attached_snk"
    BY DEF InOrder, Engines, Typed
  <2> QED BY <2>1, <2>2, SinkContinues
<1>2. h = WindowVbusBack(g, ok)
  BY DEF WindowVbusBack, vbusPresent
<1> HIDE DEF moved
<1>3. Announced(moved, there)
  BY <1>1, AnnounceKeeps DEF InOrder
<1> HIDE DEF there
<1>4. Fired(there, seen)
  BY <1>3, SinkTxKeeps DEF Announced
<1> HIDE DEF seen
<1>5. Around(seen, taken) /\ taken.client = "sink" /\ taken.conn = seen.conn
  BY <1>4, TakeKeeps DEF Fired, Role
<1> HIDE DEF taken
<1>6. Rests(taken, "source")
  BY <1>1, <1>3, <1>4, <1>5 DEF InOrder, Solo, Announced, Fired, Around, Rests, Role
<1>7. InOrder(taken)
  BY <1>1, <1>3, <1>4, <1>5, <1>6
     DEF InOrder, Around, Announced, Fired, Solo, Loose, ClientIn, Role
<1>8. "vbus_present" \in QuietEvents
  OBVIOUS
<1>9. "sink" \in Role /\ None \in Terms \cup {None} /\ Plain("vbus_present")
  BY DEF Role, Plain
<1> HIDE DEF QuietEvents
<1>10. InOrder(h)
  BY <1>5, <1>7, <1>8, <1>9, LiveProcess DEF Plain
<1> QED BY <1>2, <1>10

\* Any message, well-formed or not, with any answer of the policy.
LEMMA ReceivedKeeps ==
  ASSUME NEW g, InOrder(g), g.client # "none",
         NEW m \in TxType, NEW x \in Terms, NEW yes
  PROVE  InOrder(Received(g, m, x, yes))
<1> DEFINE r == g.client
           tx == IF g.tx = HardReset THEN g.tx ELSE Idle
           preempted == [g EXCEPT !.tx = tx]
           en == g.eng[r]
           deafened == [en EXCEPT !.deaf = TRUE]
           deaf == [preempted EXCEPT !.eng[r] = deafened]
           y == IF m.type = "request" THEN m.terms ELSE x
           e == EventOf(g, r, m.type)
           h == Handle(preempted, r, e, y, yes)
<1>1. /\ Typed(g) /\ r \in Role /\ en \in EngineType(SinkStates \cup SourceStates)
      /\ tx \in TxType
  BY PortFields DEF InOrder, Engines, Idle, TxType
<1>2. InOrder(preempted) /\ preempted.client = r /\ preempted.eng = g.eng
  <2> HIDE DEF tx
  <2> QED BY <1>1, LiveTx
<1>3. /\ y \in Terms \cup {None}
      /\ e \in {"capabilities_evaluated", "source_capabilities"} => y \in Terms
  BY DEF TxType, EventOf
<1>4. Received(g, m, x, yes) =
        IF en.deaf THEN preempted
        ELSE IF m.type = "bist_test_data" /\ At5VContract(en) /\ en.pe = "ready"
        THEN deaf
        ELSE h
  <2>1. [preempted EXCEPT !.eng[r].deaf = TRUE] = deaf
    BY <1>1 DEF Typed
  <2> QED BY <2>1 DEF Received
<1> HIDE DEF preempted, e, y
<1>5. CASE en.deaf
  BY <1>2, <1>4, <1>5
<1>6. CASE ~en.deaf /\ m.type = "bist_test_data" /\ At5VContract(en) /\ en.pe = "ready"
  <2>1. /\ deafened \in EngineType(SinkStates \cup SourceStates)
        /\ deafened.pe = en.pe /\ deafened.explicit = en.explicit
        /\ deafened.pending = en.pending /\ deafened.terms = en.terms
        /\ deafened.parked = en.parked
    BY <1>1 DEF EngineType
  <2>2. en.pe \in DeafStates
    BY <1>6
  <2>3. r = "source" => en.parked = "none"
    BY DEF InOrder, Engines
  <2>4. /\ r = preempted.client /\ deafened.pe = preempted.eng[r].pe
        /\ deafened.explicit = preempted.eng[r].explicit
        /\ deafened.pending = preempted.eng[r].pending /\ deafened.terms = preempted.eng[r].terms
        /\ preempted.eng[r].pe \in DeafStates /\ At5VContract(preempted.eng[r])
        /\ r = "source" => deafened.parked = "none"
    BY <1>2, <1>6, <2>1, <2>2, <2>3
  <2>5. InOrder(deaf)
    <3> HIDE DEF deafened, DeafStates, en, tx, r, h
    <3> QED BY <1>1, <1>2, <2>1, <2>4, LiveContext
  <2> QED BY <1>4, <1>6, <2>5
<1>7. CASE ~en.deaf /\ ~(m.type = "bist_test_data" /\ At5VContract(en) /\ en.pe = "ready")
  <2>1. ~preempted.eng[r].deaf /\ r = preempted.client
    BY <1>2, <1>3, <1>7
  <2> HIDE DEF QuietEvents
  <2>2. InOrder(h)
    BY <1>1, <1>2, <1>3, <2>1, HandleKeeps
  <2> QED BY <1>4, <1>7, <2>2
<1> QED BY <1>5, <1>6, <1>7

\* A transmission confirmed, or lost.
LEMMA TransmittedKeeps ==
  ASSUME NEW g, InOrder(g), g.client # "none"
  PROVE  InOrder(TxDone(g)) /\ InOrder(TxError(g))
<1> DEFINE r == g.client
           sent == [g EXCEPT !.tx = Idle]
           en == [sent.eng[r] EXCEPT !.connected = TRUE]
           known == [sent EXCEPT !.eng[r] = en]
<1>1. Idle \in TxType /\ Typed(g) /\ r \in Role
  BY PortFields DEF InOrder, Engines, Idle, TxType
<1>2. InOrder(sent) /\ sent.client = r /\ sent.eng = g.eng
  BY <1>1, LiveTx
<1> HIDE DEF sent
<1>3. InOrder(known)
  <2>1. sent.eng[r] \in EngineType(SinkStates \cup SourceStates)
    BY <1>1, <1>2, PortFields DEF InOrder, Engines
  <2>2. /\ en \in EngineType(SinkStates \cup SourceStates)
        /\ en.pe = sent.eng[r].pe /\ en.explicit = sent.eng[r].explicit
        /\ en.pending = sent.eng[r].pending /\ en.terms = sent.eng[r].terms
        /\ en.deaf = sent.eng[r].deaf /\ en.parked = sent.eng[r].parked
    BY <2>1 DEF EngineType
  <2>3. r = "source" => sent.eng[r].parked = "none"
    BY <1>2 DEF InOrder, Engines
  <2>4. sent.eng[r].deaf => sent.eng[r].pe \in DeafStates /\ At5VContract(sent.eng[r])
    BY <1>1, <1>2 DEF InOrder, Engines, Deafened
  <2> HIDE DEF en, DeafStates
  <2> QED BY <1>1, <1>2, <2>2, <2>3, <2>4, LiveContext, SMTT(30)
<1>4. InOrder(Handle(sent, r, "message_sent", None, FALSE))
  BY <1>1, <1>2, QuietHandle
<1>5. InOrder(Handle(sent, r, "protocol_error", None, FALSE))
  BY <1>1, <1>2, QuietHandle
<1>6. TxDone(g) \in {known, Handle(sent, r, "message_sent", None, FALSE)}
  <2>1. known = [sent EXCEPT !.eng[r].connected = TRUE]
    BY <1>1, <1>2 DEF InOrder, Engines, Typed
  <2> QED BY <2>1 DEF TxDone, sent
<1> QED BY <1>3, <1>4, <1>5, <1>6 DEF TxError, sent

\* A hard reset heard, or signalled.
LEMMA ResetKeeps ==
  ASSUME NEW g, InOrder(g), g.client # "none"
  PROVE  InOrder(HardResetHeard(g)) /\ InOrder(HardResetSent(g))
<1> DEFINE r == g.client
           sent == [g EXCEPT !.tx = Idle]
           en == [sent.eng[r] EXCEPT !.deaf = FALSE]
           hearing == [sent EXCEPT !.eng[r] = en]
<1>1. Idle \in TxType /\ Typed(g) /\ r \in Role
  BY PortFields DEF InOrder, Engines, Idle, TxType
<1>2. InOrder(sent) /\ sent.client = r /\ sent.eng = g.eng
  BY <1>1, LiveTx
<1>3. [g EXCEPT !.tx = Idle, !.eng[r].deaf = FALSE] = hearing
  BY <1>1 DEF Typed
<1> HIDE DEF sent
<1>4. InOrder(hearing) /\ hearing.client = r /\ ~hearing.eng[r].deaf
  <2>1. sent.eng[r] \in EngineType(SinkStates \cup SourceStates)
    BY <1>1, <1>2, PortFields DEF InOrder, Engines
  <2>2. /\ en \in EngineType(SinkStates \cup SourceStates)
        /\ en.pe = sent.eng[r].pe /\ en.explicit = sent.eng[r].explicit
        /\ en.pending = sent.eng[r].pending /\ en.terms = sent.eng[r].terms
        /\ ~en.deaf /\ en.parked = sent.eng[r].parked
    BY <2>1 DEF EngineType
  <2>3. r = "source" => sent.eng[r].parked = "none"
    BY <1>2 DEF InOrder, Engines
  <2> HIDE DEF en, DeafStates
  <2>4. InOrder(hearing) /\ hearing.client = sent.client /\ hearing.eng[r] = en
    BY <1>1, <1>2, <2>2, <2>3, LiveContext, SMTT(30)
  <2> QED BY <1>2, <2>2, <2>4
<1> HIDE DEF hearing, QuietEvents
<1>5. None \in Terms \cup {None}
  OBVIOUS
<1>6. InOrder(Handle(hearing, r, "hard_reset_received", None, FALSE))
  BY <1>1, <1>4, <1>5, HandleKeeps
<1>7. InOrder(Handle(hearing, r, "hard_reset_complete", None, FALSE))
  BY <1>1, <1>4, <1>5, HandleKeeps
<1> QED BY <1>3, <1>6, <1>7 DEF HardResetHeard, HardResetSent

\* The timers: an engine at rest has none.
LEMMA TimeoutKeeps ==
  ASSUME NEW g, InOrder(g), NEW r \in Role, g.eng[r].pe \in Timed(r)
  PROVE  InOrder(PeTimeout(g, r))
<1>1. Resting(r) \notin Timed(r)
  BY DEF Resting, Timed, SinkTimed, SourceTimed, SharedTimed
<1>2. r = g.client /\ g.client # "none"
  BY <1>1 DEF InOrder, Solo, Rests, Role
<1>3. InOrder(Handle(g, g.client, "timeout", None, FALSE))
  BY <1>2, QuietHandle
<1> QED BY <1>2, <1>3 DEF PeTimeout

\* tVCONNSourceTimeout: a port with VCONN has a live engine to ask.
LEMMA VconnTimeoutKeeps ==
  ASSUME NEW g, InOrder(g), g.vconn = "wait"
  PROVE  InOrder(VconnTimeout(g))
<1> DEFINE v == VconnNext(g.vconn, "timeout")
           h == [g EXCEPT !.vconn = v]
<1>1. g.client # "none"
  BY DEF InOrder, Loose
<1>2. v \in VconnState
  BY DEF VconnNext, VconnState
<1> HIDE DEF v
<1>3. InOrder(h) /\ h.client = g.client
  BY <1>1, <1>2, LiveVconn
<1>4. VconnTimeout(g) = Handle(h, g.client, "hard_reset_request", None, FALSE)
  BY DEF VconnTimeout, v
<1> HIDE DEF h
<1>5. InOrder(Handle(h, h.client, "hard_reset_request", None, FALSE))
  BY <1>1, <1>3, QuietHandle
<1> QED BY <1>3, <1>4, <1>5

\* The supply settles, for a source at rest, too: it does not care.
LEMMA SupplyKeeps ==
  ASSUME NEW g, InOrder(g)
  PROVE  InOrder(SupplySettled(g))
<1> DEFINE supply == [g.supply EXCEPT !.pending = FALSE]
           seen == [g EXCEPT !.supply = supply]
<1>1. Typed(g) /\ g.supply \in SupplyType
  BY PortFields DEF InOrder, Engines
<1>2. supply \in SupplyType
  BY <1>1 DEF SupplyType
<1>3. seen = [g EXCEPT !.supply.pending = FALSE]
  BY <1>1 DEF Typed
<1> HIDE DEF supply
<1>4. /\ seen.power = g.power /\ seen.rp = g.rp /\ seen.eng = g.eng /\ seen.tx = g.tx
      /\ seen.conn = g.conn /\ seen.client = g.client /\ seen.vconn = g.vconn
  BY <1>1 DEF Typed
<1>5. Typed(seen)
  BY <1>1, <1>2 DEF Typed, SupplyType
<1>6. SupplySettled(g) = Handle(seen, "source", "supply_settled", None, FALSE)
  BY <1>3 DEF SupplySettled
<1> HIDE DEF seen
<1>7. InOrder(seen)
  <2>1. Around(g, seen)
    BY <1>4, <1>5, AroundKeeps DEF InOrder
  <2> QED BY <1>4, <2>1 DEF InOrder, Around, Solo, Rests, Loose
<1>8. CASE g.client = "source"
  <2>1. InOrder(Handle(seen, seen.client, "supply_settled", None, FALSE))
    BY <1>4, <1>7, <1>8, QuietHandle
  <2> QED BY <1>4, <1>6, <1>8, <2>1
<1>9. CASE g.client # "source"
  <2> DEFINE e == "supply_settled"
             h == Step(seen, "source", e, None, FALSE)
  <2>1. seen.eng["source"].pe = "startup" /\ "source" \in Role
    BY <1>4, <1>9 DEF InOrder, Solo, Rests, Resting, Role
  <2>2. NoRow("source", seen.eng["source"].pe, e)
    BY <2>1, SourceTable DEF Table, SourceFits, NoRow
  <2>3. h = seen
    <3> HIDE DEF e
    <3> QED BY <1>5, <2>1, <2>2, NoStep
  <2>4. Emits(seen, h, "source", FALSE) = "none"
    BY <2>3 DEF Emits
  <2>5. Step(seen, "source", "none", None, FALSE) = seen
    BY <1>5, <2>1, NoneMovesNothing
  <2>6. Process(seen, "source", e, None, FALSE) = seen
    BY <2>3, <2>4, <2>5 DEF Process, Follow
  <2>7. SupplySettled(g) = Directed(seen, seen)
    BY <1>6, <2>6 DEF Handle
  <2> QED BY <1>7, <2>7, DirectedKeeps
<1> QED BY <1>8, <1>9

\* The sink sees Rp.
LEMMA SeeRpKeeps ==
  ASSUME NEW g, InOrder(g), g.conn = "attached_snk", NEW ok \in BOOLEAN
  PROVE  InOrder(RpSeen(g, ok))
<1> DEFINE h == sinkTxChanged(g, ok)
<1>1. Fired(g, h)
  BY SinkTxKeeps DEF InOrder
<1> HIDE DEF h
<1>2. InOrder(h)
  BY <1>1 DEF InOrder, Fired, Solo, Rests, Loose, ClientIn, Role
<1>3. InOrder(Directed(g, h))
  BY <1>2, DirectedKeeps
<1> QED BY <1>3 DEF RpSeen, h

\* The application asks for a swap.
LEMMA AskKeeps ==
  ASSUME NEW g, InOrder(g), g.client # "none", NEW seq \in {"pr_swap", "dr_swap"}
  PROVE  InOrder(AskSwap(g, seq)) /\ InOrder(AskVconnSwap(g))
<1> DEFINE r == g.client
           en == [g.eng["sink"] EXCEPT !.parked = seq]
           parked == [g EXCEPT !.eng["sink"] = en]
           e == IF r = "sink" \/ ~Rev3 THEN Swap(seq)
                ELSE IF seq = "pr_swap" THEN "begin_pr_swap" ELSE "begin_dr_swap"
<1>1. r = "sink" => InOrder(parked)
  <2>1. g.eng["sink"] \in EngineType(SinkStates \cup SourceStates) /\ "sink" \in Role
    BY PortFields DEF InOrder, Engines, Role
  <2>2. /\ en \in EngineType(SinkStates \cup SourceStates)
        /\ en.pe = g.eng["sink"].pe /\ en.explicit = g.eng["sink"].explicit
        /\ en.pending = g.eng["sink"].pending /\ en.terms = g.eng["sink"].terms
        /\ en.deaf = g.eng["sink"].deaf
    BY <2>1 DEF EngineType
  <2>3. g.eng["sink"].deaf =>
          g.eng["sink"].pe \in DeafStates /\ At5VContract(g.eng["sink"])
    BY <2>1 DEF InOrder, Engines, Deafened
  <2> HIDE DEF en, DeafStates
  <2> QED BY <2>1, <2>2, <2>3, LiveContext
<1>2. e \in QuietEvents
  BY DEF Swap
<1> HIDE DEF e, QuietEvents
<1>3. InOrder(Handle(g, r, e, None, FALSE))
  BY <1>2, QuietHandle
<1>4. /\ AskSwap(g, seq) \in {g, parked, Handle(g, r, e, None, FALSE)}
      /\ r # "sink" => AskSwap(g, seq) = Handle(g, r, e, None, FALSE)
  <2>1. parked = [g EXCEPT !.eng["sink"].parked = seq]
    BY DEF InOrder, Engines, Typed
  <2> QED BY <2>1 DEF AskSwap, e
<1>5. InOrder(Handle(g, g.client, "send_vconn_swap", None, FALSE))
  BY QuietHandle DEF QuietEvents
<1> QED BY <1>1, <1>3, <1>4, <1>5 DEF AskVconnSwap

-----------------------------------------------------------------------------
(***************************************************************************)
(* The port.                                                               *)
(***************************************************************************)
\* The port before its first attach is in order.
LEMMA NewPortInOrder == InOrder(NewPort)
<1>1. \A r \in Role : /\ NewEngine(r) \in EngineType(SinkStates \cup SourceStates)
                      /\ NewEngine(r).pe \in States(r)
  <2>1. 0 \in 0..(nHardResetCount + 1) /\ 0 \in 0..(nCapsCount + 1)
    BY CountsAssumption
  <2>2. \A r \in Role : Resting(r) \in States(r) /\ defaultDataRole(r) \in DataRole
    BY DEF Resting, States, SinkStates, SourceStates, SharedStates, defaultDataRole, DataRole
  <2>3. \A r \in Role : Resting(r) \in SinkStates \cup SourceStates
    BY <2>2 DEF States
  <2> QED BY <2>1, <2>2, <2>3 DEF NewEngine, EngineType
<1>2. Typed(NewPort)
  <2> DEFINE eng == [r \in Role |-> NewEngine(r)]
             power == [r \in Role |-> [limit |-> "default", armed |-> FALSE,
                                       active |-> FALSE]]
             supply == [out |-> "safe5v", pending |-> FALSE]
  <2>1. eng \in [Role -> EngineType(SinkStates \cup SourceStates)]
        /\ \A r \in Role : eng[r].pe \in States(r)
    BY <1>1
  <2>2. power \in [Role -> PowerType] /\ supply \in SupplyType /\ Idle \in TxType
    BY DEF PowerType, SupplyType, Idle, TxType
  <2>3. NewPort = [conn |-> "detached", data |-> "ufp", client |-> "none",
                   header |-> "ufp", tx |-> Idle, eng |-> eng, power |-> power,
                   supply |-> supply, rp |-> "advertised", txok |-> TRUE, vconn |-> "off"]
    BY DEF NewPort
  <2> HIDE DEF eng, power, supply
  <2> QED BY <2>1, <2>2, <2>3
          DEF Typed, Conn, DataRole, VconnState, TxType, SupplyType
<1>3. \A r \in Role : NewPort.eng[r] = NewEngine(r)
  BY DEF NewPort
<1>4. /\ NewPort.client = "none" /\ NewPort.conn = "detached" /\ NewPort.tx = Idle
      /\ NewPort.vconn = "off" /\ NewPort.rp = "advertised"
  BY DEF NewPort
<1>5. \A r \in Role : Rests(NewPort, r)
  <2>1. \A r \in Role : /\ NewEngine(r).pe = Resting(r) /\ NewEngine(r).explicit = FALSE
                        /\ NewEngine(r).deaf = FALSE /\ NewEngine(r).parked = "none"
    BY DEF NewEngine
  <2> QED BY <1>3, <2>1 DEF Rests
<1>6. NewPort.eng["sink"].pe = "discovery" /\ NewPort.eng["source"].pe = "startup"
  BY <1>5 DEF Rests, Resting, Role
<1>7. Engines(NewPort)
  <2>1. Drawing(NewPort)
    BY <1>2, <1>5, <1>6, TermsAssumption DEF Drawing, Rests, Role, SinkLevel, NewPort
  <2>2. RpShown(NewPort) /\ Deafened(NewPort)
    BY <1>4, <1>5, <1>6 DEF RpShown, Deafened, Rests
  <2>3. NewPort.eng["source"].parked = "none"
    BY <1>5 DEF Rests, Role
  <2> QED BY <1>2, <2>1, <2>2, <2>3 DEF Engines
<1> QED BY <1>4, <1>5, <1>7 DEF InOrder, Solo, Loose, ClientIn

-----------------------------------------------------------------------------
(***************************************************************************)
(* What a handler may leave in transit.                                    *)
(***************************************************************************)
\* The states which the machine's own word leads out of.
OwnWord(r) ==
  {"dr_swap_change", "vcs_partner_on", "vcs_ps_rdy_sent"} \cup
  IF r = "sink" THEN {"evaluate_capability"} ELSE {"negotiate_capability"}

\* The events which only the connection machine's own steps bring.
Restarting == {"vbus_removed", "default_level_reached", "detached", "supply_settled"}

\* What one event e may make of the state s of the engine r.
Goes(r, s, e, t) ==
  /\ t \in Transit(r) =>
       t = s \/ (t \in Handed(r) /\ e \in Handing) \/ (r = "sink" /\ e \in Restarting)
  /\ t = "swap_wait_source_on" => t = s \/ e = "swap_wait_source_on"
  /\ t = "swap_source_on_seen" => t = s \/ s = "swap_wait_source_on"

\* An entry puts the engine into the state entered.
LEMMA EnterGoes ==
  ASSUME NEW g, Typed(g), NEW r \in Role, NEW e, NEW x \in Terms \cup {None},
         NEW t \in States(r)
  PROVE  Enter(g, r, Context(r, g.eng[r], t, e, x), e).eng[r].pe = t
<1> DEFINE en == Context(r, g.eng[r], t, e, x)
<1>1. g.eng[r] \in EngineType(SinkStates \cup SourceStates)
  BY PortFields
<1>2. en \in EngineType(SinkStates \cup SourceStates) /\ en.pe = t
  BY <1>1, ContextTyped, SMTT(30)
<1> HIDE DEF en
<1>3. en.pe \in States(r)
  BY <1>2
<1>4. Entered(g, r, en, e, Enter(g, r, en, e))
  BY <1>2, <1>3, EnterFields
<1> QED BY <1>2, <1>4 DEF Entered, en

\* The targets of an engine's rows are states of its own.
LEMMA RowTargets ==
  ASSUME NEW r \in Role, NEW row \in Table(r)
  PROVE  row[5] \in States(r)
  BY SinkTable, SourceTable DEF Table, SinkFits, SourceFits, States, Role

\* An entry along a row.
LEMMA RowGoes ==
  ASSUME NEW g, Typed(g), NEW r \in Role, NEW row \in Table(r), NEW e,
         NEW x \in Terms \cup {None}
  PROVE  Enter(g, r, Context(r, g.eng[r], row[5], e, x), e).eng[r].pe = row[5]
<1> DEFINE t == row[5]
<1>1. t \in States(r)
  BY RowTargets
<1> HIDE DEF t
<1>2. Enter(g, r, Context(r, g.eng[r], t, e, x), e).eng[r].pe = t
  BY <1>1, EnterGoes
<1> QED BY <1>2 DEF t

\* A step leaves the engine where it is, or moves it along a row.
LEMMA StepGoes ==
  ASSUME NEW g, Typed(g), NEW r \in Role, NEW e, NEW x \in Terms \cup {None}, NEW yes
  PROVE  LET h == Step(g, r, e, x, yes)
         IN \/ h = g
            \/ \E row \in Table(r) :
                 row[1] = g.eng[r].pe /\ row[2] = e /\ h.eng[r].pe = row[5]
<1> DEFINE h == Step(g, r, e, x, yes)
<1>1. ASSUME NEW row \in Table(r), row[1] = g.eng[r].pe, row[2] = e,
             h = Enter(g, r, Context(r, g.eng[r], row[5], e, x), e)
      PROVE  h.eng[r].pe = row[5]
  <2> HIDE DEF h
  <2> QED BY <1>1, RowGoes
<1> HIDE DEF h
<1>2. h = g \/ \E row \in Table(r) :
        /\ row[1] = g.eng[r].pe /\ row[2] = e
        /\ h = Enter(g, r, Context(r, g.eng[r], row[5], e, x), e)
  BY StepTakesRow DEF h
<1> QED BY <1>1, <1>2 DEF h

\* A row of the engine r leads on as Leads says.
LEMMA RowLeads ==
  ASSUME NEW r \in Role, NEW row \in Table(r)
  PROVE  Leads(r, row)
  BY SinkTable, SourceTable DEF Table, SinkFits, SourceFits, Role

\* The rows by which a machine follows its own word.
LEMMA WordRows ==
  ASSUME NEW r \in Role
  PROVE  /\ HasRow(r, "dr_swap_change", "swap_finished", "ready")
         /\ HasRow(r, "vcs_partner_on", "swap_finished", "ready")
         /\ HasRow(r, "vcs_ps_rdy_sent", "swap_finished", "ready")
         /\ HasRow("sink", "evaluate_capability", "capabilities_evaluated",
                   "select_capability")
         /\ HasRow("source", "negotiate_capability", "request_ok", "transition_supply")
         /\ HasRow("source", "negotiate_capability", "request_bad", "capability_response")
<1>1. /\ <<"dr_swap_change", "swap_finished", {}, {}, "ready">>
           \in On("dr_swap_change", "swap_finished", "ready")
      /\ <<"evaluate_capability", "capabilities_evaluated", {}, {}, "select_capability">>
           \in On("evaluate_capability", "capabilities_evaluated", "select_capability")
      /\ <<"negotiate_capability", "request_ok", {}, {}, "transition_supply">>
           \in On("negotiate_capability", "request_ok", "transition_supply")
      /\ <<"negotiate_capability", "request_bad", {}, {}, "capability_response">>
           \in On("negotiate_capability", "request_bad", "capability_response")
  BY OnHas
<1>2. \A s \in {"vcs_partner_on", "vcs_ps_rdy_sent"} :
        <<s, "swap_finished", {}, {}, "ready">>
          \in FromAny({"vcs_partner_on", "vcs_ps_rdy_sent"}, "swap_finished", "ready")
  BY FromAnyHas
<1>3. HasRow(r, "dr_swap_change", "swap_finished", "ready")
  BY <1>1 DEF HasRow, Table, SinkRows, SourceRows, DataSwapRows, Role
<1>4. \A s \in {"vcs_partner_on", "vcs_ps_rdy_sent"} :
        HasRow(r, s, "swap_finished", "ready")
  BY <1>2 DEF HasRow, Table, SinkRows, SourceRows, VconnSwapRows, Role
<1>5. HasRow("sink", "evaluate_capability", "capabilities_evaluated", "select_capability")
  BY <1>1 DEF HasRow, Table, SinkRows, CapabilityRows
<1>6. /\ HasRow("source", "negotiate_capability", "request_ok", "transition_supply")
      /\ HasRow("source", "negotiate_capability", "request_bad", "capability_response")
  BY <1>1 DEF HasRow, Table, SourceRows, NegotiationRows
<1> QED BY <1>3, <1>4, <1>5, <1>6

\* The word a state emits on its entry leads out of it.
LEMMA WordLeads ==
  ASSUME NEW g, NEW h, Typed(h), NEW r \in Role, NEW x \in Terms \cup {None}, NEW yes,
         h.eng[r].pe # g.eng[r].pe, h.eng[r].pe \in OwnWord(r)
  PROVE  Step(h, r, Emits(g, h, r, yes), x, yes).eng[r].pe \notin Transit(r)
<1> DEFINE s == h.eng[r].pe
           word == Emits(g, h, r, yes)
           k == Step(h, r, word, x, yes)
<1>1. word \in Words /\ \E to : HasRow(r, s, word, to)
  <2>1. CASE s \in {"dr_swap_change", "vcs_partner_on", "vcs_ps_rdy_sent"}
    <3>1. word = "swap_finished"
      BY <2>1 DEF Emits, Gates
    <3> QED BY <2>1, <3>1, WordRows DEF Words
  <2>2. CASE r = "sink" /\ s = "evaluate_capability"
    <3>1. word = "capabilities_evaluated"
      BY <2>2 DEF Emits, Gates
    <3> QED BY <2>2, <3>1, WordRows DEF Words
  <2>3. CASE r = "source" /\ s = "negotiate_capability"
    <3>1. word \in {"request_ok", "request_bad"}
      BY <2>3 DEF Emits, Gates
    <3> QED BY <2>3, <3>1, WordRows DEF Words
  <2> QED BY <2>1, <2>2, <2>3 DEF OwnWord, Role
<1> HIDE DEF word
<1>2. PICK row \in Table(r) :
        /\ row[1] = s /\ row[2] = word
        /\ k = Enter(h, r, Context(r, h.eng[r], row[5], word, x), word)
  BY <1>1, StepEnters
<1>3. row[5] \notin Transit(r)
  BY <1>1, <1>2, RowLeads DEF Leads
<1>4. k.eng[r].pe = row[5]
  <2> HIDE DEF k, s
  <2> QED BY <1>2, RowGoes
<1> HIDE DEF k
<1> QED BY <1>3, <1>4 DEF k, word

\* One event, and the word it has emitted: where they may leave the engine r.
LEMMA ProcessGoes ==
  ASSUME NEW g, Engines(g), NEW r \in Role, NEW e, NEW x \in Terms \cup {None}, NEW yes,
         e \in {"capabilities_evaluated", "source_capabilities"} => x \in Terms,
         g.eng[r].deaf => e \in QuietEvents,
         g.eng[r].pe \notin OwnWord(r)
  PROVE  Goes(r, g.eng[r].pe, e, Process(g, r, e, x, yes).eng[r].pe)
<1> DEFINE h == Step(g, r, e, x, yes)
           word == Emits(g, h, r, yes)
           k == Step(h, r, word, x, yes)
           s == g.eng[r].pe
           t == h.eng[r].pe
           u == k.eng[r].pe
<1>1. Typed(g) /\ Typed(h)
  <2> HIDE DEF QuietEvents, h
  <2>1. Typed(g)
    BY DEF Engines
  <2>2. LET j == Step(g, r, e, x, yes) IN Engines(j) /\ Same(g, j, r)
    BY StepKeeps
  <2> QED BY <2>1, <2>2 DEF Engines, h
<1>2. Process(g, r, e, x, yes) = k
  BY DEF Process, Follow
<1>3. h = g \/ \E row \in Table(r) : row[1] = s /\ row[2] = e /\ t = row[5]
  BY <1>1, StepGoes
<1> HIDE DEF h
<1>4. /\ word \in Words \cup {"none"}
      /\ t \in {s, "swap_wait_source_on"} => word = "none"
  BY DEF Emits, Gates, Retry, Words
<1>5. t # s /\ t \in OwnWord(r) => u \notin Transit(r)
  BY <1>1, WordLeads
<1>6. word = "none" => k = h
  BY <1>1, NoneMovesNothing
<1>7. k = h \/ \E row \in Table(r) : row[1] = t /\ row[2] = word /\ u = row[5]
  <2> HIDE DEF word
  <2> QED BY <1>1, StepGoes
<1> HIDE DEF word, k
<1>8. Goes(r, s, e, t) \/ (t # s /\ t \in OwnWord(r))
  <2>1. CASE t = s
    BY <2>1 DEF Goes
  <2>2. ASSUME NEW row \in Table(r), row[1] = s, row[2] = e, t = row[5], t \notin OwnWord(r)
        PROVE  Goes(r, s, e, t)
    <3>1. Leads(r, row)
      BY RowLeads
    <3>2. t \in Transit(r) => t \in Handed(r) \/ (r = "sink" /\ t = "startup")
      BY <2>2 DEF Transit, OwnWord, Handed, Role
    <3> QED BY <2>2, <3>1, <3>2 DEF Leads, Goes, Restarting
  <2> QED BY <1>3, <2>1, <2>2
<1>9. k = h \/ (u \notin Transit(r) /\ u # "swap_wait_source_on"
                /\ u # "swap_source_on_seen")
  <2>1. ASSUME NEW row \in Table(r), row[1] = t, row[2] = word, u = row[5], k # h
        PROVE  u \notin Transit(r) /\ u # "swap_wait_source_on"
               /\ u # "swap_source_on_seen"
    <3>1. Leads(r, row)
      BY RowLeads
    <3>2. word \in Words /\ word # "swap_wait_source_on" /\ t # "swap_wait_source_on"
      BY <1>4, <1>6, <2>1 DEF Words
    <3> QED BY <2>1, <3>1, <3>2 DEF Leads
  <2> QED BY <1>7, <2>1
<1>10. CASE k = h
  <2>1. t # s /\ t \in OwnWord(r) => FALSE
    BY <1>5, <1>10 DEF OwnWord, Transit
  <2> QED BY <1>2, <1>8, <1>10, <2>1
<1>11. CASE k # h
  BY <1>2, <1>9, <1>11 DEF Goes
<1> QED BY <1>10, <1>11

-----------------------------------------------------------------------------
(***************************************************************************)
(* The handlers leave nothing halfway.                                     *)
(***************************************************************************)
\* No engine is in transit but a sink whose termination flip the connection
\* machine cannot follow; and a sink waits for the new source's VBUS only where the
\* connection machine waits, too - which is how it will be followed out of there.
Through(g) ==
  /\ \A r \in Role : g.eng[r].pe \in Transit(r) =>
       g.eng[r].pe = "swap_assert_rp" /\ g.conn # "standby_to_src"
  /\ g.eng["sink"].pe = "swap_wait_source_on" => g.conn = "standby_to_snk"

\* h is g with its engines moved, if at all, out of reach of Through.
Calm(g, h) ==
  /\ h.conn = g.conn
  /\ \A r \in Role : h.eng[r].pe \in Transit(r) \cup {"swap_wait_source_on"} =>
       h.eng[r].pe = g.eng[r].pe

\* h is g with an engine moved to where Directed takes over.
Ahead(g, h) ==
  /\ h.conn = g.conn
  /\ \A r \in Role : h.eng[r].pe \in Transit(r) =>
       h.eng[r].pe = g.eng[r].pe \/ h.eng[r].pe \in Handed(r)
  /\ h.eng["sink"].pe = "swap_wait_source_on" => g.eng["sink"].pe = "swap_wait_source_on"
  /\ h.eng["sink"].pe = "swap_source_on_seen" =>
       g.eng["sink"].pe \in {"swap_wait_source_on", "swap_source_on_seen"}

\* An engine's own words lead out of states in transit.
LEMMA OwnWordInTransit ==
  ASSUME NEW r
  PROVE  /\ OwnWord(r) \subseteq Transit(r)
         /\ "swap_assert_rp" \notin OwnWord(r) /\ "swap_wait_source_on" \notin OwnWord(r)
         /\ Handed(r) \cap OwnWord(r) = {} /\ Resting(r) \notin Transit(r)
         /\ Resting(r) \notin OwnWord(r) /\ Resting(r) # "swap_wait_source_on"
  BY DEF OwnWord, Transit, Handed, Resting

\* Between two handlers no engine owes itself a word.
LEMMA ThroughOwes ==
  ASSUME NEW g, Through(g), NEW r \in Role
  PROVE  g.eng[r].pe \notin OwnWord(r)
  BY OwnWordInTransit DEF Through

\* A calm step leaves nothing halfway, and owes no word.
LEMMA CalmThrough ==
  ASSUME NEW g, NEW h, Calm(g, h)
  PROVE  /\ Through(g) => Through(h) /\ Ahead(g, h)
         /\ \A r \in Role : g.eng[r].pe \notin OwnWord(r) => h.eng[r].pe \notin OwnWord(r)
<1>1. Through(g) => Through(h)
  BY DEF Calm, Through, Role
<1>2. Ahead(g, h)
  BY DEF Calm, Ahead, Role, Transit
<1>3. \A r \in Role : g.eng[r].pe \notin OwnWord(r) => h.eng[r].pe \notin OwnWord(r)
  BY OwnWordInTransit DEF Calm
<1> QED BY <1>1, <1>2, <1>3

\* What moves no engine and no connection is calm.
LEMMA StillCalm ==
  ASSUME NEW g, NEW h, h.conn = g.conn, \A r \in Role : h.eng[r].pe = g.eng[r].pe
  PROVE  Calm(g, h)
  BY DEF Calm

\* An event which leads nowhere in transit.
Still(e) == e \notin Handing \cup Restarting \cup {"swap_wait_source_on"}

\* Such an event is processed calmly.
LEMMA ProcessCalm ==
  ASSUME NEW g, Engines(g), NEW r \in Role, NEW e, Plain(e), Still(e),
         g.eng[r].deaf => e \in QuietEvents, g.eng[r].pe \notin OwnWord(r)
  PROVE  Calm(g, Process(g, r, e, None, FALSE))
<1> DEFINE h == Process(g, r, e, None, FALSE)
<1>1. None \in Terms \cup {None}
  OBVIOUS
<1> HIDE DEF QuietEvents
<1>2. e \in {"capabilities_evaluated", "source_capabilities"} => None \in Terms
  BY DEF Plain
<1>3. Goes(r, g.eng[r].pe, e, h.eng[r].pe)
  BY <1>1, <1>2, ProcessGoes
<1>4. Same(g, h, r)
  BY <1>1, <1>2, ProcessKeeps
<1> HIDE DEF h
<1>5. h.conn = g.conn /\ \A q \in Role \ {r} : h.eng[q] = g.eng[q]
  BY <1>4 DEF Same
<1>6. h.eng[r].pe \in Transit(r) \cup {"swap_wait_source_on"} => h.eng[r].pe = g.eng[r].pe
  BY <1>3 DEF Goes, Still
<1> QED BY <1>5, <1>6 DEF Calm, h

\* The sink's retries, fired as the Rp changes.
LEMMA SinkTxCalm ==
  ASSUME NEW g, Engines(g), g.eng["sink"].pe \notin OwnWord("sink"), NEW ok \in BOOLEAN
  PROVE  /\ Calm(g, sinkTxChanged(g, ok))
         /\ g.eng["sink"].pe \notin Gates \cup {"ready"} =>
              sinkTxChanged(g, ok).eng["sink"].pe = g.eng["sink"].pe
<1> DEFINE seen == [g EXCEPT !.txok = ok]
           gated == fireGated(seen)
           parked == gated.eng["sink"].parked
           cleared == [gated EXCEPT !.eng["sink"].parked = "none"]
           sent == Process(cleared, "sink", Swap(parked), None, FALSE)
<1>1. "sink" \in Role
  BY DEF Role
<1>2. Engines(seen) /\ seen.eng = g.eng /\ Calm(g, seen)
  <2>1. Typed(g)
    BY DEF Engines
  <2>2. /\ seen.power = g.power /\ seen.rp = g.rp /\ seen.eng = g.eng
        /\ seen.conn = g.conn /\ seen.client = g.client /\ Typed(seen)
    BY <2>1 DEF Typed
  <2> HIDE DEF seen
  <2> QED BY <2>2, AroundKeeps, StillCalm DEF Around
<1>3. sinkTxChanged(g, ok) = IF ok THEN firePending(gated) ELSE seen
  BY DEF sinkTxChanged
<1> HIDE DEF seen
<1>4. /\ Engines(gated) /\ Calm(seen, gated)
      /\ seen.eng["sink"].pe \notin Gates => gated.eng["sink"].pe = seen.eng["sink"].pe
  <2> DEFINE e == Retry(seen.eng["sink"].pe)
  <2>1. Engines(gated)
    BY <1>2, FireGatedKeeps DEF Fired
  <2>2. CASE seen.eng["sink"].pe \in Gates
    <3>1. Plain(e) /\ Still(e) /\ ~seen.eng["sink"].deaf
      BY <1>1, <1>2, <2>2
         DEF Plain, Still, Handing, Restarting, Retry, Gates, Engines, Deafened
    <3>2. seen.eng["sink"].pe \notin OwnWord("sink")
      BY <1>2
    <3>3. gated = Process(seen, "sink", e, None, FALSE)
      BY <2>2 DEF fireGated
    <3> HIDE DEF e, gated, QuietEvents
    <3> QED BY <1>1, <1>2, <2>1, <2>2, <3>1, <3>2, <3>3, ProcessCalm
  <2>3. CASE seen.eng["sink"].pe \notin Gates
    <3>1. gated = seen
      BY <2>3 DEF fireGated
    <3> HIDE DEF gated
    <3> QED BY <1>2, <3>1, StillCalm
  <2> QED BY <2>2, <2>3
<1> HIDE DEF gated
<1>5. Engines(cleared) /\ Calm(gated, cleared)
      /\ cleared.eng["sink"].pe = gated.eng["sink"].pe
  <2>1. /\ Engines(cleared) /\ cleared.conn = gated.conn
        /\ cleared.eng["source"] = gated.eng["source"]
        /\ cleared.eng["sink"].pe = gated.eng["sink"].pe
    BY <1>4, UnparkKeeps
  <2> HIDE DEF cleared
  <2> QED BY <2>1, StillCalm DEF Role
<1>6. firePending(gated) =
        IF parked # "none" /\ gated.eng["sink"].pe = "ready" THEN sent ELSE cleared
  BY DEF firePending
<1> HIDE DEF cleared
<1>7. Calm(cleared, sent)
  <2> DEFINE e == Swap(parked)
  <2>1. Plain(e) /\ Still(e) /\ e \in QuietEvents
    BY DEF Plain, Still, Handing, Restarting, Swap
  <2>2. cleared.eng["sink"].pe \notin OwnWord("sink")
    BY <1>1, <1>2, <1>4, <1>5, CalmThrough
  <2> HIDE DEF e, QuietEvents
  <2>3. Calm(cleared, Process(cleared, "sink", e, None, FALSE))
    BY <1>1, <1>5, <2>1, <2>2, ProcessCalm
  <2> QED BY <2>3 DEF e
<1> HIDE DEF sent, parked
<1>8. Calm(g, sinkTxChanged(g, ok))
  BY <1>2, <1>3, <1>4, <1>5, <1>6, <1>7 DEF Calm
<1>9. g.eng["sink"].pe \notin Gates \cup {"ready"} =>
        sinkTxChanged(g, ok).eng["sink"].pe = g.eng["sink"].pe
  BY <1>2, <1>3, <1>4, <1>5, <1>6
<1> QED BY <1>8, <1>9

-----------------------------------------------------------------------------
\* An engine at rest takes an event calmly.
LEMMA RestCalm ==
  ASSUME NEW g, Engines(g), NEW r \in Role, g.eng[r].pe = Resting(r), ~g.eng[r].deaf,
         NEW e, Plain(e), e \notin Handing \cup Restarting
  PROVE  LET t == Process(g, r, e, None, FALSE).eng[r].pe
         IN /\ t \notin Transit(r)
            /\ t = "swap_wait_source_on" => e = "swap_wait_source_on"
<1> DEFINE t == Process(g, r, e, None, FALSE).eng[r].pe
<1>1. g.eng[r].pe \notin OwnWord(r) \cup Transit(r) \cup {"swap_wait_source_on"}
  BY OwnWordInTransit
<1>2. None \in Terms \cup {None}
      /\ (e \in {"capabilities_evaluated", "source_capabilities"} => None \in Terms)
  BY DEF Plain
<1> HIDE DEF QuietEvents
<1>3. Goes(r, g.eng[r].pe, e, t)
  BY <1>1, <1>2, ProcessGoes
<1> QED BY <1>1, <1>3 DEF Goes

\* With both engines where they are, at rest or not, nothing is halfway.
LEMMA ThroughBy ==
  ASSUME NEW g, \A r \in Role : g.eng[r].pe \notin Transit(r),
         g.eng["sink"].pe = "swap_wait_source_on" => g.conn = "standby_to_snk"
  PROVE  Through(g)
  BY DEF Through

\* The old sink becomes the source.
LEMMA SwapToSourceThrough ==
  ASSUME NEW g, InOrder(g), g.client = "sink"
  PROVE  Through(CompleteToSource(g))
<1> DEFINE moved == [g EXCEPT !.conn = "attached_src"]
           there == AnnounceData(moved)
           left == vbusRemoved(there)
           taken == takeLayer(left, "source")
           h == Process(taken, "source", "attached_swap", None, FALSE)
<1>1. Around(g, moved) /\ moved.conn = "attached_src" /\ moved.client = g.client
  <2>1. "attached_src" \in Conn
    BY DEF Conn
  <2> QED BY <2>1, ConnKeeps DEF InOrder
<1>2. h = CompleteToSource(g)
  BY DEF CompleteToSource
<1> HIDE DEF moved
<1>3. Announced(moved, there)
  BY <1>1, AnnounceKeeps DEF Around
<1> HIDE DEF there
<1>4. Retired(there, left, "sink")
  BY <1>3, SinkRetires DEF Announced
<1> HIDE DEF left
<1>5. Around(left, taken)
  BY <1>4, TakeKeeps DEF Retired, Role
<1> HIDE DEF taken
<1>6. Rests(taken, "sink") /\ Rests(taken, "source") /\ Engines(taken)
  BY <1>1, <1>3, <1>4, <1>5
     DEF InOrder, Solo, Around, Announced, Retired, Rests, Role
<1>7. /\ "source" \in Role /\ Plain("attached_swap")
      /\ "attached_swap" \notin Handing \cup Restarting \cup {"swap_wait_source_on"}
      /\ None \in Terms \cup {None}
  BY DEF Role, Plain, Handing, Restarting
<1>8. h.eng["source"].pe \notin Transit("source")
  BY <1>6, <1>7, RestCalm DEF Rests
<1>9. Same(taken, h, "source")
  <2> HIDE DEF QuietEvents
  <2> QED BY <1>6, <1>7, ProcessKeeps DEF Rests, Plain
<1> HIDE DEF h
<1>10. h.eng["sink"].pe = Resting("sink")
  BY <1>6, <1>9 DEF Same, Rests, Role
<1>11. Through(h)
  BY <1>8, <1>10, OwnWordInTransit, ThroughBy DEF Role
<1> QED BY <1>2, <1>11

\* The old source becomes the sink, which waits for VBUS as the connection does.
LEMMA SwapToSinkThrough ==
  ASSUME NEW g, InOrder(g), g.client = "source"
  PROVE  Through(BeginSwapToSink(g))
<1> DEFINE moved == [g EXCEPT !.conn = "standby_to_snk"]
           there == takeLayer(moved, "sink")
           waits == Process(there, "sink", "swap_wait_source_on", None, FALSE)
           h == detached(waits)
<1>1. Around(g, moved) /\ moved.conn = "standby_to_snk"
  <2>1. "standby_to_snk" \in Conn
    BY DEF Conn
  <2> QED BY <2>1, ConnKeeps DEF InOrder
<1>2. h = BeginSwapToSink(g)
  BY DEF BeginSwapToSink
<1> HIDE DEF moved
<1>3. Around(moved, there) /\ there.conn = moved.conn
  BY <1>1, TakeKeeps DEF Around, Role
<1> HIDE DEF there
<1>4. Rests(there, "sink") /\ Engines(there)
  BY <1>1, <1>3 DEF InOrder, Solo, Rests, Around, Role
<1>5. /\ "sink" \in Role /\ Plain("swap_wait_source_on") /\ None \in Terms \cup {None}
      /\ "swap_wait_source_on" \notin Handing \cup Restarting
  BY DEF Role, Plain, Handing, Restarting
<1>6. waits.eng["sink"].pe \notin Transit("sink")
  BY <1>4, <1>5, RestCalm DEF Rests
<1>7. Engines(waits) /\ Same(there, waits, "sink")
  <2> HIDE DEF QuietEvents
  <2> QED BY <1>4, <1>5, ProcessKeeps DEF Rests, Plain
<1> HIDE DEF waits
<1>8. Retired(waits, h, "source")
  BY <1>7, SourceRetires
<1> HIDE DEF h
<1>9. /\ h.conn = "standby_to_snk" /\ h.eng["source"].pe = Resting("source")
      /\ h.eng["sink"].pe \notin Transit("sink")
  BY <1>1, <1>3, <1>6, <1>7, <1>8 DEF Retired, Rests, Same, Role
<1>10. Through(h)
  BY <1>9, OwnWordInTransit, ThroughBy DEF Role
<1> QED BY <1>2, <1>10

\* On an engine's way to rest its event leads along the one row there is.
LEMMA ProcessMoves ==
  ASSUME NEW g, Typed(g), NEW r \in Role, NEW e, NEW t \in States(r), Passing(t),
         HasRow(r, g.eng[r].pe, e, t), OnlyRow(r, g.eng[r].pe, e, t)
  PROVE  Process(g, r, e, None, FALSE).eng[r].pe = t
<1> DEFINE en == Context(r, g.eng[r], t, e, None)
           h == Step(g, r, e, None, FALSE)
<1>1. h = Enter(g, r, en, e)
  BY StepTaken
<1>2. None \in Terms \cup {None}
  OBVIOUS
<1>3. Enter(g, r, en, e).eng[r].pe = t
  BY <1>2, EnterGoes
<1>4. Typed(h)
  <2>1. g.eng[r] \in EngineType(SinkStates \cup SourceStates)
    BY PortFields
  <2>2. en \in EngineType(SinkStates \cup SourceStates) /\ en.pe = t
    BY <1>2, <2>1, ContextTyped, SMTT(30)
  <2> HIDE DEF en, h
  <2>3. en.pe \in States(r)
    BY <2>2
  <2>4. Entered(g, r, en, e, Enter(g, r, en, e))
    BY <2>2, <2>3, EnterFields
  <2> QED BY <1>1, <2>4 DEF Entered
<1>5. h.eng[r].pe = t
  <2> HIDE DEF h, en
  <2> QED BY <1>1, <1>3
<1> HIDE DEF h
<1>6. Emits(g, h, r, FALSE) = "none"
  BY <1>5 DEF Emits, Gates, Passing
<1>7. Process(g, r, e, None, FALSE) = Step(h, r, Emits(g, h, r, FALSE), None, FALSE)
  BY DEF Process, Follow, h
<1>8. Step(h, r, "none", None, FALSE) = h
  BY <1>4, NoneMovesNothing
<1> QED BY <1>5, <1>6, <1>7, <1>8

\* So does the sink engine, wherever it comes from.
LEMMA SinkMoves ==
  ASSUME NEW g, Engines(g), NEW s, g.eng["sink"].pe = s, NEW e, NEW t, Passing(t),
         HasRow("sink", s, e, t), OnlyRow("sink", s, e, t)
  PROVE  Process(g, "sink", e, None, FALSE).eng["sink"].pe = t
<1>1. "sink" \in Role /\ t \in States("sink")
  BY DEF Role, Passing, States, SinkStates, SharedStates
<1>2. Typed(g)
  BY DEF Engines
<1> QED BY <1>1, <1>2, ProcessMoves

\* The new sink goes on from Discovery, in Attached.SNK.
LEMMA SwappedToSinkThrough ==
  ASSUME NEW g, InOrder(g), g.client = "sink", ~g.eng["sink"].deaf,
         g.eng["sink"].pe = "swap_source_on_seen"
  PROVE  Through(CompleteToSink(g))
<1> DEFINE moved == [g EXCEPT !.conn = "attached_snk"]
           told == AnnounceData(moved)
           there == sinkTxChanged(told, g.txok)
           done == Process(there, "sink", "swap_done", None, FALSE)
           h == Process(done, "sink", "vbus_present", None, FALSE)
<1>1. InOrder(moved) /\ moved.eng = g.eng
  <2>1. "attached_snk" \in Conn /\ ClientIn("attached_snk") = "sink"
    BY DEF Conn, ClientIn
  <2> QED BY <2>1, SinkContinues
<1>2. h = CompleteToSink(g)
  BY DEF CompleteToSink
<1> HIDE DEF moved
<1>3. Announced(moved, told)
  BY <1>1, AnnounceKeeps DEF InOrder
<1> HIDE DEF told
<1>4. /\ Engines(told) /\ told.eng["sink"].pe = "swap_source_on_seen"
      /\ "sink" \in Role /\ g.txok \in BOOLEAN
  BY <1>1, <1>3, PortFields DEF Announced, InOrder, Engines, Role
<1>5. Fired(told, there) /\ there.eng["sink"].pe = "swap_source_on_seen"
  <2>1. "swap_source_on_seen" \notin OwnWord("sink") \cup Gates \cup {"ready"}
    BY DEF OwnWord, Gates
  <2> QED BY <1>4, <2>1, SinkTxKeeps, SinkTxCalm
<1> HIDE DEF there
<1>6. /\ Engines(there) /\ ~there.eng["sink"].deaf /\ Rests(there, "source")
  BY <1>1, <1>3, <1>4, <1>5 DEF InOrder, Solo, Announced, Fired, Rests, Role
<1>7. /\ Plain("swap_done") /\ Plain("vbus_present") /\ Passing("discovery")
      /\ "vbus_present" \notin Handing \cup Restarting \cup {"swap_wait_source_on"}
      /\ None \in Terms \cup {None}
  BY DEF Plain, Passing, Handing, Restarting
<1>8. Engines(done) /\ Same(there, done, "sink")
  <2> HIDE DEF QuietEvents
  <2> QED BY <1>4, <1>6, <1>7, ProcessKeeps DEF Plain
<1>9. done.eng["sink"].pe = "discovery"
  <2>1. <<"swap_source_on_seen", "swap_done", {}, {}, "discovery">>
          \in On("swap_source_on_seen", "swap_done", "discovery")
    BY OnHas
  <2>2. HasRow("sink", "swap_source_on_seen", "swap_done", "discovery")
    BY <2>1 DEF SinkRows, SinkPowerSwapRows, Table, HasRow
  <2>3. OnlyRow("sink", "swap_source_on_seen", "swap_done", "discovery")
    BY SinkTable DEF Table, SinkFits, OnlyRow
  <2> QED BY <1>5, <1>6, <1>7, <2>2, <2>3, SinkMoves
<1> HIDE DEF done
<1>10. /\ ~done.eng["sink"].deaf /\ done.eng["sink"].pe = Resting("sink")
       /\ done.eng["source"].pe = Resting("source")
  BY <1>4, <1>6, <1>8, <1>9 DEF Same, Resting, Rests, Role
<1>11. /\ h.eng["sink"].pe \notin Transit("sink")
       /\ h.eng["sink"].pe # "swap_wait_source_on"
  BY <1>4, <1>7, <1>8, <1>10, RestCalm
<1>12. Same(done, h, "sink")
  <2> HIDE DEF QuietEvents
  <2> QED BY <1>4, <1>7, <1>8, <1>10, ProcessKeeps DEF Plain
<1> HIDE DEF h
<1>13. h.eng["source"].pe = Resting("source")
  BY <1>10, <1>12 DEF Same, Role
<1>14. Through(h)
  BY <1>11, <1>13, OwnWordInTransit, ThroughBy DEF Role
<1> QED BY <1>2, <1>14

\* The sink goes through its default level to Discovery.
LEMMA SinkHardResetThrough ==
  ASSUME NEW g, InOrder(g), g.client = "sink", ~g.eng["sink"].deaf,
         g.eng["sink"].pe = "transition_to_default"
  PROVE  Through(SinkAfterHardReset(g))
<1> DEFINE moved == [g EXCEPT !.conn = "hard_reset_snk"]
           window == IF g.conn = "attached_snk" THEN moved ELSE g
           down == Process(window, "sink", "default_level_reached", None, FALSE)
           h == Process(down, "sink", "started", None, FALSE)
<1>1. InOrder(moved) /\ moved.eng = g.eng
  <2>1. "hard_reset_snk" \in Conn /\ ClientIn("hard_reset_snk") = "sink"
    BY DEF Conn, ClientIn
  <2> QED BY <2>1, SinkContinues
<1>2. InOrder(window) /\ window.eng = g.eng
  BY <1>1
<1>3. h = SinkAfterHardReset(g)
  BY DEF SinkAfterHardReset
<1> HIDE DEF window
<1>4. /\ Engines(window) /\ ~window.eng["sink"].deaf /\ Rests(window, "source")
      /\ window.eng["sink"].pe = "transition_to_default" /\ "sink" \in Role
  <2>1. "source" \in Role /\ g.client # "source"
    BY DEF Role
  <2> QED BY <1>2, <2>1 DEF InOrder, Solo, Rests, Role
<1>5. /\ Plain("default_level_reached") /\ Plain("started")
      /\ Passing("startup") /\ Passing("discovery") /\ None \in Terms \cup {None}
  BY DEF Plain, Passing
<1>6. Engines(down) /\ Same(window, down, "sink")
  <2> HIDE DEF QuietEvents
  <2> QED BY <1>4, <1>5, ProcessKeeps DEF Plain
<1>7. down.eng["sink"].pe = "startup"
  <2>1. <<"transition_to_default", "default_level_reached", {}, {}, "startup">>
          \in On("transition_to_default", "default_level_reached", "startup")
    BY OnHas
  <2>2. HasRow("sink", "transition_to_default", "default_level_reached", "startup")
    BY <2>1 DEF SinkRows, Table, HasRow
  <2>3. OnlyRow("sink", "transition_to_default", "default_level_reached", "startup")
    BY SinkTable DEF Table, SinkFits, OnlyRow
  <2> QED BY <1>4, <1>5, <2>2, <2>3, SinkMoves
<1> HIDE DEF down
<1>8. ~down.eng["sink"].deaf /\ down.eng["source"].pe = Resting("source")
  BY <1>4, <1>6 DEF Same, Rests, Role
<1>9. Same(down, h, "sink")
  <2> HIDE DEF QuietEvents
  <2> QED BY <1>4, <1>5, <1>6, <1>8, ProcessKeeps DEF Plain
<1>10. h.eng["sink"].pe = "discovery"
  <2>1. <<"startup", "started", {}, {}, "discovery">>
          \in On("startup", "started", "discovery")
    BY OnHas
  <2>2. HasRow("sink", "startup", "started", "discovery")
    BY <2>1 DEF SinkRows, CapabilityRows, Table, HasRow
  <2>3. OnlyRow("sink", "startup", "started", "discovery")
    BY SinkTable DEF Table, SinkFits, OnlyRow
  <2> QED BY <1>5, <1>6, <1>7, <2>2, <2>3, SinkMoves
<1> HIDE DEF h
<1>11. h.eng["sink"].pe = Resting("sink") /\ h.eng["source"].pe = Resting("source")
  BY <1>8, <1>9, <1>10 DEF Same, Resting, Role
<1>12. Through(h)
  BY <1>11, OwnWordInTransit, ThroughBy DEF Role
<1> QED BY <1>3, <1>12

\* A port whose layer serves nobody has both engines at rest.
LEMMA NobodyThrough ==
  ASSUME NEW g, InOrder(g), g.client = "none"
  PROVE  Through(g)
<1>1. \A r \in Role : g.eng[r].pe = Resting(r)
  BY DEF InOrder, Solo, Rests, Role
<1> QED BY <1>1, OwnWordInTransit, ThroughBy DEF Role

\* After a disconnection nothing is halfway.
LEMMA DisconnectThrough ==
  ASSUME NEW g, InOrder(g), NEW to \in {"detached", "error_recovery"}
  PROVE  Through(Disconnect(g, to))
<1> DEFINE h == Disconnect(g, to)
<1>1. InOrder(h) /\ h.conn = to
  BY DisconnectKeeps
<1> HIDE DEF h
<1>2. h.client = "none"
  BY <1>1 DEF InOrder, ClientIn
<1>3. Through(h)
  BY <1>1, <1>2, NobodyThrough
<1> QED BY <1>3 DEF h

\* Whatever an engine has got ahead of the connection machine, the directions
\* bring to an end.
LEMMA DirectedThrough ==
  ASSUME NEW f, NEW g, InOrder(g), Through(f), Ahead(f, g)
  PROVE  Through(Directed(f, g))
<1> DEFINE snk == IF g.eng["sink"].pe = f.eng["sink"].pe THEN "none" ELSE g.eng["sink"].pe
           src == IF g.eng["source"].pe = f.eng["source"].pe THEN "none"
                  ELSE g.eng["source"].pe
           h == Directed(f, g)
           off == snk = "swap_transition_to_off" /\ g.conn = "attached_snk"
           rp == snk = "swap_assert_rp" /\ g.conn = "standby_to_src"
           rd == src = "swap_assert_rd" /\ g.conn = "attached_src"
           seen == snk = "swap_source_on_seen" /\ g.conn = "standby_to_snk"
           default == snk = "transition_to_default"
           error == "error_recovery" \in {snk, src}
<1>1. /\ "sink" \in Role /\ "source" \in Role
      /\ g.client # "sink" => g.eng["sink"].pe = Resting("sink")
      /\ g.client # "source" => g.eng["source"].pe = Resting("source")
      /\ g.client = ClientIn(g.conn)
  BY DEF InOrder, Solo, Rests, Role
<1>2. snk \in {"swap_transition_to_off", "swap_assert_rp", "swap_source_on_seen",
               "transition_to_default"} =>
        g.client = "sink" /\ g.eng["sink"].pe = snk
        /\ g.eng["source"].pe \notin Transit("source")
  BY <1>1, OwnWordInTransit DEF Resting
<1>3. snk \in {"swap_source_on_seen", "transition_to_default"} => ~g.eng["sink"].deaf
  BY <1>1 DEF InOrder, Engines, Deafened
<1>4. h = IF off THEN [g EXCEPT !.conn = "standby_to_src"]
          ELSE IF rp THEN CompleteToSource(g)
          ELSE IF rd THEN BeginSwapToSink(g)
          ELSE IF seen THEN CompleteToSink(g)
          ELSE IF default THEN SinkAfterHardReset(g)
          ELSE IF error THEN Disconnect(g, "error_recovery")
          ELSE g
  BY DEF Directed
<1> SUFFICES Through(h)
  OBVIOUS
<1>a. g.eng["sink"].pe = f.eng["sink"].pe \/ snk = g.eng["sink"].pe
  OBVIOUS
<1>b. g.eng["source"].pe = f.eng["source"].pe \/ src = g.eng["source"].pe
  OBVIOUS
<1> HIDE DEF h, snk, src
<1>5. CASE off
  <2> DEFINE moved == [g EXCEPT !.conn = "standby_to_src"]
  <2>1. moved.eng = g.eng
    BY DEF InOrder, Engines, Typed
  <2>2. /\ g.eng["sink"].pe = "swap_transition_to_off"
        /\ g.eng["source"].pe \notin Transit("source")
    BY <1>2, <1>5
  <2>3. "swap_transition_to_off" \notin Transit("sink")
    BY DEF Transit
  <2> HIDE DEF moved
  <2>4. Through(moved)
    BY <2>1, <2>2, <2>3, ThroughBy DEF Role
  <2> QED BY <1>4, <1>5, <2>4 DEF moved
<1>6. CASE ~off /\ rp
  BY <1>2, <1>6, <1>4, SwapToSourceThrough
<1>7. CASE ~off /\ ~rp /\ rd
  <2>1. g.client = "source"
    BY <1>1, <1>7 DEF ClientIn
  <2> QED BY <1>7, <1>4, <2>1, SwapToSinkThrough
<1>8. CASE ~off /\ ~rp /\ ~rd /\ seen
  BY <1>2, <1>3, <1>8, <1>4, SwappedToSinkThrough
<1>9. CASE ~off /\ ~rp /\ ~rd /\ ~seen /\ default
  BY <1>2, <1>3, <1>9, <1>4, SinkHardResetThrough
<1>10. CASE ~off /\ ~rp /\ ~rd /\ ~seen /\ ~default /\ error
  BY <1>10, <1>4, DisconnectThrough
<1>11. CASE ~off /\ ~rp /\ ~rd /\ ~seen /\ ~default /\ ~error
  <2>1. g.eng["sink"].pe \in Transit("sink") =>
          g.eng["sink"].pe = "swap_assert_rp" /\ g.conn # "standby_to_src"
    <3>1. CASE g.eng["sink"].pe = f.eng["sink"].pe
      BY <1>1, <3>1 DEF Through, Ahead
    <3>2. ASSUME g.eng["sink"].pe # f.eng["sink"].pe, g.eng["sink"].pe \in Transit("sink")
          PROVE  g.eng["sink"].pe = "swap_assert_rp" /\ g.conn # "standby_to_src"
      <4>1. g.eng["sink"].pe \in Handed("sink")
        BY <1>1, <3>2 DEF Ahead
      <4>2. g.eng["sink"].pe # "swap_source_on_seen"
        <5>1. g.eng["sink"].pe = "swap_source_on_seen" => g.conn = "standby_to_snk"
          BY <3>2 DEF Ahead, Through
        <5> QED BY <1>a, <1>11, <3>2, <5>1
      <4> QED BY <1>a, <1>11, <3>2, <4>1, <4>2 DEF Handed
    <3> QED BY <3>1, <3>2
  <2>2. g.eng["source"].pe \notin Transit("source")
    <3>1. CASE g.client # "source"
      BY <1>1, <3>1, OwnWordInTransit
    <3>2. CASE g.client = "source"
      <4>1. g.conn = "attached_src"
        BY <1>1, <3>2 DEF ClientIn
      <4>2. g.eng["source"].pe \notin Handed("source")
            \/ g.eng["source"].pe = f.eng["source"].pe
        BY <1>b, <1>11, <4>1 DEF Handed
      <4>3. "swap_assert_rp" \notin Transit("source")
        BY DEF Transit
      <4>4. f.eng["source"].pe \notin Transit("source")
        BY <1>1, <4>3 DEF Through
      <4> QED BY <1>1, <4>2, <4>4 DEF Ahead
    <3> QED BY <3>1, <3>2
  <2>3. g.eng["sink"].pe = "swap_wait_source_on" => g.conn = "standby_to_snk"
    BY DEF Ahead, Through
  <2>4. Through(g)
    BY <2>1, <2>2, <2>3 DEF Through, Role
  <2> QED BY <1>11, <1>4, <2>4
<1> QED BY <1>5, <1>6, <1>7, <1>8, <1>9, <1>10, <1>11

\* An event at the live engine, with everything it sets in motion, leaves nothing
\* halfway.
LEMMA HandleThrough ==
  ASSUME NEW g, InOrder(g), Through(g), NEW r \in Role, r = g.client, NEW e,
         NEW x \in Terms \cup {None}, NEW yes,
         e \in {"capabilities_evaluated", "source_capabilities"} => x \in Terms,
         g.eng[r].deaf => e \in QuietEvents,
         e \in Restarting => r # "sink", e # "swap_wait_source_on"
  PROVE  Through(Handle(g, r, e, x, yes))
<1> DEFINE h == Process(g, r, e, x, yes)
<1> HIDE DEF QuietEvents
<1>1. InOrder(h) /\ Same(g, h, r)
  BY LiveProcess
<1>2. Goes(r, g.eng[r].pe, e, h.eng[r].pe)
  <2>1. g.eng[r].pe \notin OwnWord(r)
    BY ThroughOwes
  <2> QED BY <2>1, ProcessGoes DEF InOrder
<1> HIDE DEF h
<1>3. Ahead(g, h)
  BY <1>1, <1>2 DEF Goes, Same, Ahead, Role
<1>4. Through(Directed(g, h))
  BY <1>1, <1>3, DirectedThrough
<1> QED BY <1>4 DEF Handle, h

\* The events without an operating point.
LEMMA QuietThrough ==
  ASSUME NEW g, InOrder(g), Through(g), g.client # "none", NEW e, e \in QuietEvents,
         e \in Restarting => g.client # "sink", e # "swap_wait_source_on"
  PROVE  Through(Handle(g, g.client, e, None, FALSE))
<1>1. e \notin {"capabilities_evaluated", "source_capabilities"}
  OBVIOUS
<1>2. g.client \in Role /\ None \in Terms \cup {None}
  BY PortFields DEF InOrder, Engines
<1> HIDE DEF QuietEvents
<1> QED BY <1>1, <1>2, HandleThrough

-----------------------------------------------------------------------------
\* A port whose engines stand where they stood.
LEMMA StandsThrough ==
  ASSUME NEW g, Through(g), NEW h, h.conn = g.conn, \A r \in Role : h.eng[r].pe = g.eng[r].pe
  PROVE  Through(h)
  BY StillCalm, CalmThrough

\* A fresh attach wakes one engine out of its rest.
LEMMA AttachedThrough ==
  ASSUME NEW g, InOrder(g), g.client = "none", NEW r \in Role,
         NEW ok \in BOOLEAN, NEW ra \in BOOLEAN
  PROVE  Through(Attached(g, r, ok, ra))
<1> DEFINE conn == IF r = "sink" THEN "attached_snk" ELSE "attached_src"
           role == defaultDataRole(r)
           placed == [g EXCEPT !.conn = conn, !.data = role]
           there == AnnounceData(placed)
           vconn == IF ra /\ "vconn" \in Features
                    THEN VconnNext(g.vconn, "attached_source_ra") ELSE g.vconn
           ready == IF r = "sink" THEN sinkTxChanged(there, ok)
                    ELSE [there EXCEPT !.vconn = vconn]
           e == IF r = "sink" THEN "vbus_present" ELSE "attached"
           taken == takeLayer(ready, r)
           h == Process(taken, r, e, None, FALSE)
<1>1. Engines(g) /\ Rests(g, "sink") /\ Rests(g, "source") /\ Typed(g)
  BY DEF InOrder, Solo, Role, Engines
<1>2. Around(g, placed) /\ placed.vconn = g.vconn
  <2>1. /\ placed.power = g.power /\ placed.rp = g.rp /\ placed.eng = g.eng
        /\ placed.vconn = g.vconn
    BY <1>1 DEF Typed
  <2>2. conn \in Conn /\ role \in DataRole
    BY DEF Conn, DataRole, defaultDataRole
  <2>3. Typed(placed)
    BY <1>1, <2>2 DEF Typed
  <2> HIDE DEF placed
  <2> QED BY <1>1, <2>1, <2>3, AroundKeeps
<1>3. Attached(g, r, ok, ra) = h
  BY DEF Attached, vbusPresent, Role
<1> HIDE DEF placed
<1>4. Announced(placed, there)
  BY <1>2, AnnounceKeeps DEF Around
<1> HIDE DEF there
<1>5. /\ Engines(there)
      /\ \A q \in Role : there.eng[q].pe = Resting(q) /\ ~there.eng[q].deaf
  BY <1>1, <1>2, <1>4 DEF Around, Announced, Rests, Role
<1>6. /\ Engines(ready) /\ ready.eng["source"] = there.eng["source"]
      /\ ready.eng["sink"].pe = Resting("sink") /\ ~ready.eng["sink"].deaf
  <2>1. CASE r = "sink"
    <3>1. Fired(there, ready)
      BY <1>5, <2>1, SinkTxKeeps
    <3>2. ready.eng["sink"].pe = there.eng["sink"].pe
      <4>1. Resting("sink") \notin OwnWord("sink") \cup Gates \cup {"ready"}
        BY DEF Resting, OwnWord, Gates
      <4> QED BY <1>5, <2>1, <4>1, SinkTxCalm DEF Role
    <3> HIDE DEF ready
    <3> QED BY <1>5, <3>1, <3>2 DEF Fired, Role
  <2>2. CASE r # "sink"
    <3>1. vconn \in VconnState /\ there.tx \in TxType /\ Typed(there)
      <4>1. g.vconn \in VconnState
        BY <1>1, PortFields
      <4>2. VconnNext(g.vconn, "attached_source_ra") \in VconnState
        BY <4>1, VconnTyped
      <4> QED BY <1>5, <4>1, <4>2, PortFields DEF Engines
    <3> HIDE DEF vconn
    <3>2. ready = Layer(there, there.tx, vconn)
      BY <2>2, <3>1 DEF Typed, Layer
    <3> HIDE DEF ready
    <3>3. Around(there, ready)
      BY <1>5, <3>1, <3>2, LayerKeeps
    <3> QED BY <1>5, <3>3 DEF Around, Role
  <2> QED BY <2>1, <2>2
<1> HIDE DEF ready
<1>7. Around(ready, taken)
  BY <1>6, TakeKeeps
<1> HIDE DEF taken
<1>8. /\ Engines(taken) /\ \A q \in Role : taken.eng[q].pe = Resting(q) /\ ~taken.eng[q].deaf
      /\ Plain(e) /\ e \notin Handing \cup Restarting \cup {"swap_wait_source_on"}
  BY <1>5, <1>6, <1>7 DEF Around, Role, Plain, Handing, Restarting
<1> HIDE DEF e
<1>9. h.eng[r].pe \notin Transit(r) \cup {"swap_wait_source_on"}
  BY <1>8, RestCalm
<1>10. Same(taken, h, r)
  <2>1. None \in Terms \cup {None}
    OBVIOUS
  <2> HIDE DEF QuietEvents, h
  <2>2. Same(taken, Process(taken, r, e, None, FALSE), r)
    BY <1>8, <2>1, ProcessKeeps DEF Plain
  <2> QED BY <2>2 DEF h
<1> HIDE DEF h
<1>11. \A q \in Role : h.eng[q].pe \notin Transit(q) \cup {"swap_wait_source_on"}
  BY <1>8, <1>9, <1>10, OwnWordInTransit DEF Same
<1>12. Through(h)
  BY <1>11, ThroughBy DEF Role
<1> QED BY <1>3, <1>12

\* The sink's window after a hard reset: VBUS gone.
LEMMA WindowOpensThrough ==
  ASSUME NEW g, InOrder(g), Through(g), g.conn = "hard_reset_snk"
  PROVE  Through(WindowVbusGone(g))
<1> DEFINE h == WindowVbusGone(g)
<1>1. h.conn = "hard_reset_recover_snk" /\ h.eng = g.eng
  BY DEF WindowVbusGone, InOrder, Engines, Typed
<1> HIDE DEF h
<1>2. Through(h)
  BY <1>1 DEF Through
<1> QED BY <1>2 DEF h

\* VBUS back in the window: the sink's retries, then the attach.
LEMMA WindowThrough ==
  ASSUME NEW g, InOrder(g), Through(g), g.conn = "hard_reset_recover_snk", NEW ok \in BOOLEAN
  PROVE  Through(WindowVbusBack(g, ok))
<1> DEFINE moved == [g EXCEPT !.conn = "attached_snk"]
           there == AnnounceData(moved)
           seen == sinkTxChanged(there, ok)
           taken == takeLayer(seen, "sink")
           h == Process(taken, "sink", "vbus_present", None, FALSE)
<1>1. /\ InOrder(moved) /\ moved.eng = g.eng /\ moved.conn = "attached_snk"
  <2>1. "attached_snk" \in Conn /\ ClientIn("attached_snk") = "sink" /\ g.client = "sink"
    BY DEF Conn, ClientIn, InOrder
  <2>2. moved.conn = "attached_snk"
    BY DEF InOrder, Engines, Typed
  <2> QED BY <2>1, <2>2, SinkContinues
<1>2. h = WindowVbusBack(g, ok)
  BY DEF WindowVbusBack, vbusPresent
<1> HIDE DEF moved
<1>3. Through(moved)
  BY <1>1 DEF Through
<1>4. Announced(moved, there) /\ Through(there)
  <2>1. Announced(moved, there)
    BY <1>1, AnnounceKeeps DEF InOrder
  <2> HIDE DEF there
  <2>2. Through(there)
    BY <1>3, <2>1, StandsThrough DEF Announced
  <2> QED BY <2>1, <2>2
<1> HIDE DEF there
<1>5. "sink" \in Role
  BY DEF Role
<1>6. Fired(there, seen) /\ Through(seen)
  <2>1. Fired(there, seen)
    BY <1>4, SinkTxKeeps DEF Announced
  <2>2. there.eng["sink"].pe \notin OwnWord("sink")
    BY <1>4, <1>5, ThroughOwes
  <2>3. Calm(there, seen)
    BY <1>4, <2>2, SinkTxCalm DEF Announced
  <2> HIDE DEF seen
  <2> QED BY <1>4, <2>1, <2>3, CalmThrough
<1> HIDE DEF seen
<1>7. Around(seen, taken) /\ taken.conn = seen.conn
  BY <1>5, <1>6, TakeKeeps DEF Fired
<1> HIDE DEF taken
<1>8. Engines(taken) /\ Through(taken)
  BY <1>6, <1>7, StillCalm, CalmThrough DEF Around
<1>9. /\ Plain("vbus_present") /\ Still("vbus_present") /\ "vbus_present" \in QuietEvents
      /\ taken.eng["sink"].pe \notin OwnWord("sink")
  <2>1. taken.eng["sink"].pe \notin OwnWord("sink")
    BY <1>5, <1>8, ThroughOwes
  <2> QED BY <2>1 DEF Plain, Still, Handing, Restarting
<1> HIDE DEF QuietEvents
<1>10. Calm(taken, h)
  BY <1>5, <1>8, <1>9, ProcessCalm
<1> HIDE DEF h
<1>11. Through(h)
  BY <1>8, <1>10, CalmThrough
<1> QED BY <1>2, <1>11

\* Any message, with any answer of the policy.
LEMMA ReceivedThrough ==
  ASSUME NEW g, InOrder(g), Through(g), g.client # "none",
         NEW m \in TxType, NEW x \in Terms, NEW yes
  PROVE  Through(Received(g, m, x, yes))
<1> DEFINE r == g.client
           tx == IF g.tx = HardReset THEN g.tx ELSE Idle
           preempted == [g EXCEPT !.tx = tx]
           deaf == [preempted EXCEPT !.eng[r].deaf = TRUE]
           y == IF m.type = "request" THEN m.terms ELSE x
           e == EventOf(g, r, m.type)
           h == Handle(preempted, r, e, y, yes)
<1>1. /\ Typed(g) /\ r \in Role /\ tx \in TxType
  BY PortFields DEF InOrder, Engines, Idle, TxType
<1>2. /\ InOrder(preempted) /\ preempted.client = r /\ preempted.eng = g.eng
      /\ preempted.conn = g.conn
  <2>1. preempted.conn = g.conn
    BY <1>1 DEF Typed
  <2> HIDE DEF tx
  <2> QED BY <1>1, <2>1, LiveTx
<1>3. /\ y \in Terms \cup {None}
      /\ e \in {"capabilities_evaluated", "source_capabilities"} => y \in Terms
      /\ e \notin Restarting \cup {"swap_wait_source_on"}
  BY DEF TxType, EventOf, Restarting
<1>4. /\ Received(g, m, x, yes) \in {preempted, deaf, h}
      /\ g.eng[r].deaf => Received(g, m, x, yes) = preempted
  BY DEF Received
<1> HIDE DEF preempted, e, y
<1>5. Through(preempted)
  BY <1>2, StandsThrough
<1>6. Through(deaf)
  <2>1. Typed(preempted)
    BY <1>2 DEF InOrder, Engines
  <2>2. deaf.conn = preempted.conn /\ \A q \in Role : deaf.eng[q].pe = preempted.eng[q].pe
    BY <1>1, <2>1 DEF Typed, EngineType
  <2> HIDE DEF deaf
  <2> QED BY <1>5, <2>2, StandsThrough
<1>7. ~g.eng[r].deaf => Through(h)
  <2>1. r = preempted.client /\ preempted.eng[r].deaf = g.eng[r].deaf
    BY <1>2
  <2> HIDE DEF QuietEvents
  <2> QED BY <1>1, <1>2, <1>3, <1>5, <2>1, HandleThrough
<1> HIDE DEF h, deaf
<1> QED BY <1>4, <1>5, <1>6, <1>7

\* A transmission confirmed, or lost.
LEMMA TransmittedThrough ==
  ASSUME NEW g, InOrder(g), Through(g), g.client # "none"
  PROVE  Through(TxDone(g)) /\ Through(TxError(g))
<1> DEFINE r == g.client
           sent == [g EXCEPT !.tx = Idle]
           known == [sent EXCEPT !.eng[r].connected = TRUE]
<1>1. Idle \in TxType /\ Typed(g) /\ r \in Role
  BY PortFields DEF InOrder, Engines, Idle, TxType
<1>2. InOrder(sent) /\ sent.client = r /\ sent.eng = g.eng /\ sent.conn = g.conn
  <2>1. sent.conn = g.conn
    BY <1>1 DEF Typed
  <2> QED BY <1>1, <2>1, LiveTx
<1>3. TxDone(g) \in {known, Handle(sent, r, "message_sent", None, FALSE)}
  BY DEF TxDone
<1>4. TxError(g) = Handle(sent, r, "protocol_error", None, FALSE)
  BY DEF TxError
<1> HIDE DEF sent
<1>5. Through(sent)
  BY <1>2, StandsThrough
<1>6. Through(known)
  <2>1. Typed(sent)
    BY <1>2 DEF InOrder, Engines
  <2>2. known.conn = sent.conn /\ \A q \in Role : known.eng[q].pe = sent.eng[q].pe
    BY <1>1, <2>1 DEF Typed, EngineType
  <2> HIDE DEF known
  <2> QED BY <1>5, <2>2, StandsThrough
<1>7. Through(Handle(sent, r, "message_sent", None, FALSE))
  BY <1>1, <1>2, <1>5, QuietThrough DEF Restarting
<1>8. Through(Handle(sent, r, "protocol_error", None, FALSE))
  BY <1>1, <1>2, <1>5, QuietThrough DEF Restarting
<1> QED BY <1>3, <1>4, <1>6, <1>7, <1>8

\* A hard reset heard, or signalled.
LEMMA ResetThrough ==
  ASSUME NEW g, InOrder(g), Through(g), g.client # "none"
  PROVE  Through(HardResetHeard(g)) /\ Through(HardResetSent(g))
<1> DEFINE r == g.client
           sent == [g EXCEPT !.tx = Idle]
           en == [sent.eng[r] EXCEPT !.deaf = FALSE]
           hearing == [sent EXCEPT !.eng[r] = en]
<1>1. Idle \in TxType /\ Typed(g) /\ r \in Role
  BY PortFields DEF InOrder, Engines, Idle, TxType
<1>2. InOrder(sent) /\ sent.client = r /\ sent.eng = g.eng /\ sent.conn = g.conn
  <2>1. sent.conn = g.conn
    BY <1>1 DEF Typed
  <2> QED BY <1>1, <2>1, LiveTx
<1>3. [g EXCEPT !.tx = Idle, !.eng[r].deaf = FALSE] = hearing
  BY <1>1 DEF Typed
<1> HIDE DEF sent
<1>4. /\ InOrder(hearing) /\ hearing.client = r /\ ~hearing.eng[r].deaf
      /\ hearing.conn = g.conn /\ \A q \in Role : hearing.eng[q].pe = g.eng[q].pe
  <2>1. sent.eng[r] \in EngineType(SinkStates \cup SourceStates) /\ Typed(sent)
    BY <1>1, <1>2, PortFields DEF InOrder, Engines
  <2>2. /\ en \in EngineType(SinkStates \cup SourceStates)
        /\ en.pe = sent.eng[r].pe /\ en.explicit = sent.eng[r].explicit
        /\ en.pending = sent.eng[r].pending /\ en.terms = sent.eng[r].terms
        /\ ~en.deaf /\ en.parked = sent.eng[r].parked
    BY <2>1 DEF EngineType
  <2>3. r = "source" => sent.eng[r].parked = "none"
    BY <1>2 DEF InOrder, Engines
  <2> HIDE DEF en, DeafStates
  <2>4. InOrder(hearing) /\ hearing.client = sent.client /\ hearing.eng[r] = en
    BY <1>1, <1>2, <2>2, <2>3, LiveContext, SMTT(30)
  <2>5. hearing.conn = sent.conn /\ \A q \in Role \ {r} : hearing.eng[q] = sent.eng[q]
    BY <2>1 DEF Typed
  <2> HIDE DEF hearing
  <2> QED BY <1>2, <2>2, <2>4, <2>5
<1> HIDE DEF hearing
<1>5. Through(hearing) /\ None \in Terms \cup {None}
  BY <1>4, StandsThrough
<1>6. \A e : e \in {"hard_reset_received", "hard_reset_complete"} =>
        e \notin Restarting \cup {"swap_wait_source_on", "capabilities_evaluated",
                                  "source_capabilities"}
  BY DEF Restarting
<1> HIDE DEF QuietEvents
<1>7. Through(Handle(hearing, r, "hard_reset_received", None, FALSE))
  BY <1>1, <1>4, <1>5, <1>6, HandleThrough
<1>8. Through(Handle(hearing, r, "hard_reset_complete", None, FALSE))
  BY <1>1, <1>4, <1>5, <1>6, HandleThrough
<1> QED BY <1>3, <1>7, <1>8 DEF HardResetHeard, HardResetSent

\* The error recovery is over.
LEMMA RecoveryThrough ==
  ASSUME NEW g, InOrder(g), g.conn = "error_recovery"
  PROVE  Through([g EXCEPT !.conn = "detached"])
<1> DEFINE h == [g EXCEPT !.conn = "detached"]
<1>1. InOrder(h) /\ h.conn = "detached"
  BY RecoveryKeeps DEF InOrder, Engines, Typed
<1> HIDE DEF h
<1>2. h.client = "none"
  BY <1>1 DEF InOrder, ClientIn
<1>3. Through(h)
  BY <1>1, <1>2, NobodyThrough
<1> QED BY <1>3 DEF h

\* The timers.
LEMMA TimeoutThrough ==
  ASSUME NEW g, InOrder(g), Through(g), NEW r \in Role, g.eng[r].pe \in Timed(r)
  PROVE  Through(PeTimeout(g, r))
<1>1. Resting(r) \notin Timed(r)
  BY DEF Resting, Timed, SinkTimed, SourceTimed, SharedTimed
<1>2. r = g.client /\ g.client # "none"
  BY <1>1 DEF InOrder, Solo, Rests, Role
<1>3. Through(Handle(g, g.client, "timeout", None, FALSE))
  BY <1>2, QuietThrough DEF Restarting
<1> QED BY <1>2, <1>3 DEF PeTimeout

\* tVCONNSourceTimeout.
LEMMA VconnTimeoutThrough ==
  ASSUME NEW g, InOrder(g), Through(g), g.vconn = "wait"
  PROVE  Through(VconnTimeout(g))
<1> DEFINE v == VconnNext(g.vconn, "timeout")
           h == [g EXCEPT !.vconn = v]
<1>1. g.client # "none"
  BY DEF InOrder, Loose
<1>2. v \in VconnState
  BY DEF VconnNext, VconnState
<1>3. VconnTimeout(g) = Handle(h, g.client, "hard_reset_request", None, FALSE)
  BY DEF VconnTimeout
<1> HIDE DEF v
<1>4. InOrder(h) /\ h.client = g.client /\ h.eng = g.eng /\ h.conn = g.conn
  <2>1. h.conn = g.conn
    BY DEF InOrder, Engines, Typed
  <2> QED BY <1>1, <1>2, <2>1, LiveVconn
<1> HIDE DEF h
<1>5. Through(h)
  BY <1>4, StandsThrough
<1>6. Through(Handle(h, h.client, "hard_reset_request", None, FALSE))
  BY <1>1, <1>4, <1>5, QuietThrough DEF Restarting
<1> QED BY <1>3, <1>4, <1>6

\* The supply settles, for a source at rest, too.
LEMMA SupplyThrough ==
  ASSUME NEW g, InOrder(g), Through(g)
  PROVE  Through(SupplySettled(g))
<1> DEFINE supply == [g.supply EXCEPT !.pending = FALSE]
           seen == [g EXCEPT !.supply = supply]
           e == "supply_settled"
           h == Process(seen, "source", e, None, FALSE)
<1>1. Typed(g) /\ g.supply \in SupplyType /\ "source" \in Role /\ None \in Terms \cup {None}
  BY PortFields DEF InOrder, Engines, Role
<1>2. supply \in SupplyType
  BY <1>1 DEF SupplyType
<1>3. seen = [g EXCEPT !.supply.pending = FALSE]
  BY <1>1 DEF Typed
<1> HIDE DEF supply
<1>4. /\ seen.power = g.power /\ seen.rp = g.rp /\ seen.eng = g.eng /\ seen.tx = g.tx
      /\ seen.conn = g.conn /\ seen.client = g.client /\ seen.vconn = g.vconn
  BY <1>1 DEF Typed
<1>5. Typed(seen)
  BY <1>1, <1>2 DEF Typed, SupplyType
<1>6. SupplySettled(g) = Handle(seen, "source", e, None, FALSE)
  BY <1>3 DEF SupplySettled
<1> HIDE DEF seen
<1>7. InOrder(seen) /\ Through(seen)
  <2>1. Around(g, seen)
    BY <1>4, <1>5, AroundKeeps DEF InOrder
  <2>2. Through(seen)
    BY <1>4, StandsThrough
  <2> QED BY <1>4, <2>1, <2>2 DEF InOrder, Around, Solo, Rests, Loose
<1>8. CASE g.client = "source"
  <2>1. Through(Handle(seen, seen.client, "supply_settled", None, FALSE))
    BY <1>4, <1>7, <1>8, QuietThrough
  <2> QED BY <1>4, <1>6, <1>8, <2>1
<1>9. CASE g.client # "source"
  <2>1. seen.eng["source"].pe = "startup"
    BY <1>1, <1>4, <1>7, <1>9 DEF InOrder, Solo, Rests, Resting
  <2>2. NoRow("source", seen.eng["source"].pe, e)
    BY <2>1, SourceTable DEF Table, SourceFits, NoRow
  <2>3. Step(seen, "source", e, None, FALSE) = seen
    <3> HIDE DEF e
    <3> QED BY <1>1, <1>5, <2>2, NoStep
  <2>4. h = seen
    <3>1. Emits(seen, seen, "source", FALSE) = "none"
      BY DEF Emits
    <3>2. Step(seen, "source", "none", None, FALSE) = seen
      BY <1>1, <1>5, NoneMovesNothing
    <3> QED BY <2>3, <3>1, <3>2 DEF Process, Follow
  <2>5. SupplySettled(g) = Directed(seen, seen)
    BY <1>6, <2>4 DEF Handle
  <2>6. Ahead(seen, seen)
    BY StillCalm, CalmThrough DEF Through, Ahead
  <2> QED BY <1>7, <2>5, <2>6, DirectedThrough
<1> QED BY <1>8, <1>9

\* The sink sees Rp.
LEMMA SeeRpThrough ==
  ASSUME NEW g, InOrder(g), Through(g), g.conn = "attached_snk", NEW ok \in BOOLEAN
  PROVE  Through(RpSeen(g, ok))
<1> DEFINE h == sinkTxChanged(g, ok)
<1>1. Fired(g, h)
  BY SinkTxKeeps DEF InOrder
<1>2. "sink" \in Role /\ g.eng["sink"].pe \notin OwnWord("sink")
  BY ThroughOwes DEF Role
<1>3. Calm(g, h)
  BY <1>2, SinkTxCalm DEF InOrder
<1> HIDE DEF h
<1>4. InOrder(h)
  BY <1>1 DEF InOrder, Fired, Solo, Rests, Loose, ClientIn, Role
<1>5. Ahead(g, h)
  BY <1>3, CalmThrough
<1>6. Through(Directed(g, h))
  BY <1>4, <1>5, DirectedThrough
<1> QED BY <1>6 DEF RpSeen, h

\* The application asks for a swap.
LEMMA AskThrough ==
  ASSUME NEW g, InOrder(g), Through(g), g.client # "none",
         NEW seq \in {"pr_swap", "dr_swap"}
  PROVE  Through(AskSwap(g, seq)) /\ Through(AskVconnSwap(g))
<1> DEFINE r == g.client
           parked == [g EXCEPT !.eng[r].parked = seq]
           e == IF r = "sink" \/ ~Rev3 THEN Swap(seq)
                ELSE IF seq = "pr_swap" THEN "begin_pr_swap" ELSE "begin_dr_swap"
<1>1. Through(parked)
  <2>1. Typed(g) /\ r \in Role
    BY PortFields DEF InOrder, Engines
  <2>2. parked.conn = g.conn /\ \A q \in Role : parked.eng[q].pe = g.eng[q].pe
    BY <2>1 DEF Typed, EngineType
  <2> HIDE DEF parked
  <2> QED BY <2>2, StandsThrough
<1>2. e \in QuietEvents /\ e \notin Restarting \cup {"swap_wait_source_on"}
  BY DEF Swap, Restarting
<1>3. AskSwap(g, seq) \in {g, parked, Handle(g, r, e, None, FALSE)}
  BY DEF AskSwap
<1> HIDE DEF e, QuietEvents, parked
<1>4. Through(Handle(g, r, e, None, FALSE))
  BY <1>2, QuietThrough
<1>5. "send_vconn_swap" \in QuietEvents
      /\ "send_vconn_swap" \notin Restarting \cup {"swap_wait_source_on"}
  BY DEF QuietEvents, Restarting
<1>6. Through(Handle(g, g.client, "send_vconn_swap", None, FALSE))
  BY <1>5, QuietThrough
<1> QED BY <1>1, <1>3, <1>4, <1>6 DEF AskVconnSwap

\* The port before its first attach.
LEMMA NewPortThrough == Through(NewPort)
  BY NewPortInOrder, NobodyThrough DEF NewPort
=============================================================================
