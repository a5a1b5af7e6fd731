------------------------- MODULE PdFaultlessProofs -------------------------
(***************************************************************************)
(* Theorems about PdContract: as long as nothing goes wrong on the cable,  *)
(* the ports which have settled agree on the contract, on who sources, on  *)
(* the data roles and on VCONN, however many swaps were asked for, agreed  *)
(* to, refused or asked for by both at once; one at most drives VBUS, and  *)
(* what the other draws from it is what was promised (PowerContract).      *)
(*                                                                         *)
(* First what the tables have for the events of such a connection (Ways,   *)
(* Ignored), then what each handler makes of a port in one of its states,  *)
(* then the pair: where two ports can stand to each other (Meeting), and   *)
(* that every step which is no fault keeps them there.                     *)
(***************************************************************************)
EXTENDS PdContractProofs

(***************************************************************************)
(* The tables.                                                             *)
(***************************************************************************)
\* The rows without a guard that a connection without faults takes.
SharedWays ==
  {<<"ready", "send_dr_swap", "send_dr_swap">>,
   <<"send_dr_swap", "accept", "dr_swap_change">>,
   <<"send_dr_swap", "reject", "ready">>,
   <<"send_dr_swap", "timeout", "ready">>,
   <<"accept_dr_swap", "message_sent", "dr_swap_change">>,
   <<"dr_swap_change", "swap_finished", "ready">>,
   <<"ready", "send_pr_swap", "send_pr_swap">>,
   <<"send_pr_swap", "accept", "swap_transition_to_off">>,
   <<"send_pr_swap", "reject", "ready">>,
   <<"send_pr_swap", "timeout", "ready">>,
   <<"accept_pr_swap", "message_sent", "swap_transition_to_off">>,
   <<"ready", "send_vconn_swap", "vcs_send_swap">>,
   <<"vcs_send_swap", "accept", "vcs_active">>,
   <<"vcs_send_swap", "reject", "ready">>,
   <<"vcs_send_swap", "timeout", "ready">>,
   <<"vcs_accept_swap", "message_sent", "vcs_active">>,
   <<"vcs_active", "ps_rdy", "vcs_partner_on">>,
   <<"vcs_active", "send_vconn_ps_rdy", "vcs_send_ps_rdy">>,
   <<"vcs_send_ps_rdy", "message_sent", "vcs_ps_rdy_sent">>,
   <<"vcs_partner_on", "swap_finished", "ready">>,
   <<"vcs_ps_rdy_sent", "swap_finished", "ready">>,
   <<"send_not_supported", "message_sent", "ready">>,
   <<"hard_reset", "hard_reset_complete", "transition_to_default">>}

SinkWays ==
  {<<"startup", "started", "discovery">>,
   <<"wait_for_capabilities", "source_capabilities", "evaluate_capability">>,
   <<"wait_no_response", "source_capabilities", "evaluate_capability">>,
   <<"evaluate_capability", "capabilities_evaluated", "select_capability">>,
   <<"select_capability", "accept", "transition_sink">>,
   <<"transition_sink", "ps_rdy", "ready">>,
   <<"swap_transition_to_off", "ps_rdy", "swap_assert_rp">>,
   <<"discovery", "swap_wait_source_on", "swap_wait_source_on">>,
   <<"swap_wait_source_on", "ps_rdy", "swap_source_on_seen">>,
   <<"swap_source_on_seen", "swap_done", "discovery">>,
   <<"wait_for_capabilities", "hard_reset_received", "transition_to_default">>,
   <<"wait_no_response", "hard_reset_received", "transition_to_default">>,
   <<"transition_to_default", "default_level_reached", "startup">>}

SourceWays ==
  {<<"startup", "attached", "send_capabilities">>,
   <<"send_capabilities", "request", "negotiate_capability">>,
   <<"negotiate_capability", "request_ok", "transition_supply">>,
   <<"negotiate_capability", "request_bad", "capability_response">>,
   <<"transition_supply", "message_sent", "transition_supply_delay">>,
   <<"transition_supply_delay", "timeout", "transition_supply_settle">>,
   <<"transition_supply_settle", "supply_settled", "transition_supply_ps_rdy">>,
   <<"transition_supply_ps_rdy", "message_sent", "ready">>,
   <<"ready", "begin_dr_swap", "sink_tx_wait_dr">>,
   <<"sink_tx_wait_dr", "timeout", "send_dr_swap">>,
   <<"ready", "begin_pr_swap", "sink_tx_wait_pr">>,
   <<"sink_tx_wait_pr", "timeout", "send_pr_swap">>,
   <<"swap_transition_to_off", "timeout", "swap_supply_off">>,
   <<"swap_supply_off", "supply_settled", "swap_assert_rd">>,
   <<"startup", "attached_swap", "swap_source_on">>,
   <<"swap_source_on", "supply_settled", "swap_source_on_ps_rdy">>,
   <<"swap_source_on_ps_rdy", "message_sent", "swap_source_start">>,
   <<"swap_source_start", "timeout", "send_capabilities">>,
   <<"transition_to_default", "supply_settled", "recover">>,
   <<"recover", "timeout", "restore_default">>}

Ways(r) == SharedWays \cup IF r = "sink" THEN SinkWays ELSE SourceWays

\* A row without a guard, of a rule or a set of states.
Has(R, way) == <<way[1], way[2], {}, {}, way[3]>> \in R
\* Of the rows R, those for this state and event lead where it does.
Only(R, way) ==
  \A row \in R : row[1] = way[1] /\ row[2] = way[2] => row[5] = way[3]

\* The rows the two tables share have the shared ways.
LEMMA SharedWaysHad ==
  ASSUME NEW dr, NEW pr, NEW way \in SharedWays
  PROVE  Has(ServiceRows \cup DataSwapRows(dr) \cup VconnSwapRows \cup PowerSwapRows(pr)
             \cup On("hard_reset", "hard_reset_complete", "transition_to_default"), way)
  BY OnHas, FromAnyHas, SMTT(60)
  DEF SharedWays, Has, ServiceRows, Service, DataSwapRows, VconnSwapRows, PowerSwapRows

\* The tables have the ways.
LEMMA WaysHad ==
  ASSUME NEW r \in Role, NEW way \in Ways(r)
  PROVE  HasRow(r, way[1], way[2], way[3])
<1>1. ASSUME way \in SharedWays PROVE HasRow(r, way[1], way[2], way[3])
  <2> DEFINE Rules(dr, pr) ==
        ServiceRows \cup DataSwapRows(dr) \cup VconnSwapRows \cup PowerSwapRows(pr)
        \cup On("hard_reset", "hard_reset_complete", "transition_to_default")
  <2>1. /\ Has(Rules("dr_swap_gate", "pr_swap_gate"), way)
        /\ Has(Rules("send_dr_swap", "send_pr_swap"), way)
    BY <1>1, SharedWaysHad
  <2>2. /\ Rules("dr_swap_gate", "pr_swap_gate") \subseteq SinkRows
        /\ Rules("send_dr_swap", "send_pr_swap") \subseteq SourceRows
    BY DEF SinkRows, SinkPowerSwapRows, SourceRows, SourcePowerSwapRows, ResetRows
  <2> HIDE DEF Rules
  <2> QED
    BY <2>1, <2>2 DEF HasRow, Has, Table, Role
<1>2. ASSUME way \in SinkWays PROVE Has(SinkRows, way)
  <2>1. "wait_for_capabilities" \in SinkStates /\ "wait_no_response" \in SinkStates
    BY DEF SinkStates
  <2> QED
    BY <1>2, <2>1, OnHas, FromAnyHas, SMTT(60)
    DEF SinkWays, Has, SinkRows, CapabilityRows, RequestRows, SinkPowerSwapRows, ResetRows
<1>3. ASSUME way \in SourceWays PROVE Has(SourceRows, way)
  BY <1>3, OnHas, FromAnyHas, SMTT(60)
  DEF SourceWays, Has, SourceRows, AdvertisementRows, NegotiationRows, CollisionRows,
      SourcePowerSwapRows, RecoveryRows
<1> QED
  BY <1>1, <1>2, <1>3 DEF Ways, HasRow, Has, Table, Role

\* From VBUS to the sink's contract.
LEMMA SinkNegotiationOnly ==
  ASSUME NEW way \in Ways("sink")
  PROVE  Only(CapabilityRows \cup RequestRows, way)
  BY WhenRow, OnRow, IfRow, FromAnyRow, SMTT(60)
  DEF Ways, SharedWays, SinkWays, Only, CapabilityRows, RequestRows

\* The services and the DR_Swap.
LEMMA ServiceOnly ==
  ASSUME NEW r \in Role, NEW retry, NEW way \in Ways(r)
  PROVE  Only(ServiceRows \cup DataSwapRows(retry), way)
  BY WhenRow, OnRow, IfRow, FromAnyRow, SMTT(60)
  DEF Ways, SharedWays, SinkWays, SourceWays, Only, ServiceRows, Service, DataSwapRows, DrsStates

\* The VCONN_Swap.
LEMMA VconnOnly ==
  ASSUME NEW r \in Role, NEW way \in Ways(r)
  PROVE  Only(VconnSwapRows, way)
  BY WhenRow, OnRow, IfRow, FromAnyRow, SMTT(60)
  DEF Ways, SharedWays, SinkWays, SourceWays, Only, VconnSwapRows, VcsStates

\* The sink's half of a PR_Swap, and the rows of its table alone.
LEMMA SinkPowerSwapOnly ==
  ASSUME NEW way \in Ways("sink")
  PROVE  Only(SinkPowerSwapRows \cup Service("send_source_caps", "give_source_cap")
              \cup On("dr_swap_gate", "send_dr_swap", "send_dr_swap")
              \cup On("dr_swap_gate", "protocol_error", "send_soft_reset"), way)
  BY WhenRow, OnRow, IfRow, FromAnyRow, SMTT(60)
  DEF Ways, SharedWays, SinkWays, Only, SinkPowerSwapRows, PowerSwapRows, Service

\* The sink's resets.
LEMMA SinkResetOnly ==
  ASSUME NEW way \in Ways("sink")
  PROVE  Only(FromAny(SinkStates, "vbus_removed", "startup")
              \cup ResetRows(SinkStates, "wait_for_capabilities")
              \cup On("transition_to_default", "default_level_reached", "startup"), way)
  BY WhenRow, OnRow, IfRow, FromAnyRow, SMTT(60)
  DEF Ways, SharedWays, SinkWays, Only, ResetRows

\* The advertisement and the negotiation.
LEMMA SourceNegotiationOnly ==
  ASSUME NEW way \in Ways("source")
  PROVE  Only(AdvertisementRows \cup NegotiationRows \cup CollisionRows, way)
  BY WhenRow, OnRow, IfRow, FromAnyRow, SMTT(60)
  DEF Ways, SharedWays, SourceWays, Only, AdvertisementRows, NegotiationRows, CollisionRows

\* The source's half of a PR_Swap.
LEMMA SourcePowerSwapOnly ==
  ASSUME NEW way \in Ways("source")
  PROVE  Only(SourcePowerSwapRows, way)
  BY WhenRow, OnRow, IfRow, FromAnyRow, SMTT(60)
  DEF Ways, SharedWays, SourceWays, Only, SourcePowerSwapRows, PowerSwapRows

\* The source's resets.
LEMMA SourceResetOnly ==
  ASSUME NEW way \in Ways("source")
  PROVE  Only(FromAny(SourceStates, "detached", "startup")
              \cup ResetRows(SourceStates, "send_capabilities") \cup RecoveryRows, way)
  BY WhenRow, OnRow, IfRow, FromAnyRow, SMTT(60)
  DEF Ways, SharedWays, SourceWays, Only, ResetRows, RecoveryRows

\* No other row of a table is for the state and the event of a way.
LEMMA WaysOnly ==
  ASSUME NEW r \in Role, NEW way \in Ways(r)
  PROVE  OnlyRow(r, way[1], way[2], way[3])
<1>1. CASE r = "sink"
  <2>1. Only(SinkRows, way)
    BY <1>1, SinkNegotiationOnly, ServiceOnly, VconnOnly, SinkPowerSwapOnly, SinkResetOnly
    DEF SinkRows, Only
  <2> QED
    BY <1>1, <2>1 DEF OnlyRow, Only, Table
<1>2. CASE r = "source"
  <2>1. Only(SourceRows, way)
    BY <1>2, SourceNegotiationOnly, ServiceOnly, VconnOnly, SourcePowerSwapOnly, SourceResetOnly
    DEF SourceRows, Only
  <2> QED
    BY <1>2, <2>1 DEF OnlyRow, Only, Table
<1> QED
  BY <1>1, <1>2 DEF Role

\* So a step from there goes there.
LEMMA WayTaken ==
  ASSUME NEW g, Typed(g), NEW r \in Role, NEW e, NEW t, <<g.eng[r].pe, e, t>> \in Ways(r),
         NEW x, NEW yes
  PROVE  Step(g, r, e, x, yes) = Enter(g, r, Context(r, g.eng[r], t, e, x), e)
<1> DEFINE way == <<g.eng[r].pe, e, t>>
<1>1. HasRow(r, way[1], way[2], way[3]) /\ OnlyRow(r, way[1], way[2], way[3])
  BY WaysHad, WaysOnly
<1> QED
  BY <1>1, StepTaken

\* The swaps a partner asks for, and where Ready accepts them.
Swapped == {"dr_swap_received", "pr_swap_received", "vconn_swap_received"}
Accepting(e) ==
  CASE e = "dr_swap_received" -> "accept_dr_swap"
    [] e = "pr_swap_received" -> "accept_pr_swap"
    [] e = "vconn_swap_received" -> "vcs_accept_swap"

\* The states which wait for the partner's answer, a swap having been asked for.
Asks == {"send_dr_swap", "send_pr_swap", "vcs_send_swap"}

\* What an engine does not hear, by state and event.
Ignored(r) ==
  Asks \X (Swapped \cup {"unsupported", "message_sent"})
  \cup {"vcs_send_ps_rdy"} \X (Swapped \cup {"ps_rdy"})
  \cup IF r = "sink"
       THEN {<<"select_capability", "message_sent">>, <<"swap_wait_source_on", "message_sent">>,
             <<"discovery", "source_capabilities">>}
       ELSE {"sink_tx_wait_dr", "sink_tx_wait_pr"} \X Swapped
            \cup (SourceStates \ {"transition_supply_settle", "transition_to_default",
                                  "restore_default", "swap_supply_off", "swap_source_on"})
                 \X {"supply_settled"}

\* It is ignored by the rows R; a swap asked for is accepted or refused by them.
Ignoring(r, R) == \A row \in R : <<row[1], row[2]>> \notin Ignored(r)
Answering(R) ==
  \A row \in R : row[1] = "ready" /\ row[2] \in Swapped =>
    row[5] \in {Accepting(row[2]), "send_not_supported"}

\* The rules the two tables share.
LEMMA SharedIgnoring ==
  ASSUME NEW r \in Role, NEW dr, NEW pr
  PROVE  /\ Ignoring(r, ServiceRows \cup DataSwapRows(dr)) /\ Ignoring(r, VconnSwapRows)
         /\ Ignoring(r, PowerSwapRows(pr))
         /\ Answering(ServiceRows \cup DataSwapRows(dr)) /\ Answering(VconnSwapRows)
         /\ Answering(PowerSwapRows(pr))
<1>1. Ignoring(r, ServiceRows \cup DataSwapRows(dr))
  BY WhenRow, OnRow, IfRow, FromAnyRow, SMTT(60)
  DEF Ignoring, Ignored, Asks, Swapped, ServiceRows, Service, DataSwapRows, DrsStates
<1>2. Ignoring(r, VconnSwapRows)
  BY WhenRow, OnRow, IfRow, FromAnyRow, SMTT(60)
  DEF Ignoring, Ignored, Asks, Swapped, VconnSwapRows, VcsStates
<1>3. Ignoring(r, PowerSwapRows(pr))
  BY WhenRow, OnRow, IfRow, FromAnyRow, SMTT(60)
  DEF Ignoring, Ignored, Asks, Swapped, PowerSwapRows
<1>4. Answering(ServiceRows \cup DataSwapRows(dr))
  BY WhenRow, OnRow, IfRow, FromAnyRow, SMTT(60)
  DEF Answering, Accepting, Swapped, ServiceRows, Service, DataSwapRows, DrsStates
<1>5. Answering(VconnSwapRows)
  BY WhenRow, OnRow, IfRow, FromAnyRow, SMTT(60)
  DEF Answering, Accepting, Swapped, VconnSwapRows, VcsStates
<1>6. Answering(PowerSwapRows(pr))
  BY WhenRow, OnRow, IfRow, FromAnyRow, SMTT(60)
  DEF Answering, Accepting, Swapped, PowerSwapRows
<1> QED
  BY <1>1, <1>2, <1>3, <1>4, <1>5, <1>6

\* The sink's table.
LEMMA SinkIgnoring == Ignoring("sink", SinkRows) /\ Answering(SinkRows)
<1> DEFINE R == CapabilityRows \cup RequestRows \cup SinkPowerSwapRows
                \cup Service("send_source_caps", "give_source_cap")
                \cup On("dr_swap_gate", "send_dr_swap", "send_dr_swap")
                \cup On("dr_swap_gate", "protocol_error", "send_soft_reset")
                \cup FromAny(SinkStates, "vbus_removed", "startup")
                \cup ResetRows(SinkStates, "wait_for_capabilities")
                \cup On("transition_to_default", "default_level_reached", "startup")
<1>1. \A row \in R : row \in PowerSwapRows("pr_swap_gate") \/ <<row[1], row[2]>> \notin Ignored("sink")
  BY WhenRow, OnRow, IfRow, FromAnyRow, SMTT(60)
  DEF Ignored, Asks, Swapped, CapabilityRows, RequestRows, SinkPowerSwapRows, Service, ResetRows
<1>2. \A row \in R : row \in PowerSwapRows("pr_swap_gate") \/ row[2] \notin Swapped
  BY WhenRow, OnRow, IfRow, FromAnyRow, SMTT(60)
  DEF Swapped, CapabilityRows, RequestRows, SinkPowerSwapRows, Service, ResetRows
<1>3. SinkRows = R \cup (ServiceRows \cup DataSwapRows("dr_swap_gate")) \cup VconnSwapRows
  BY DEF SinkRows
<1> HIDE DEF R
<1>4. "sink" \in Role
  BY DEF Role
<1> QED
  BY <1>1, <1>2, <1>3, <1>4, SharedIgnoring DEF Ignoring, Answering

\* The source's table.
LEMMA SourceIgnoring == Ignoring("source", SourceRows) /\ Answering(SourceRows)
<1> DEFINE R == AdvertisementRows \cup NegotiationRows \cup CollisionRows \cup SourcePowerSwapRows
                \cup FromAny(SourceStates, "detached", "startup")
                \cup ResetRows(SourceStates, "send_capabilities") \cup RecoveryRows
<1>1. \A row \in R : row \in PowerSwapRows("send_pr_swap") \/ <<row[1], row[2]>> \notin Ignored("source")
  BY WhenRow, OnRow, IfRow, FromAnyRow, SMTT(60)
  DEF Ignored, Asks, Swapped, AdvertisementRows, NegotiationRows, CollisionRows,
      SourcePowerSwapRows, ResetRows, RecoveryRows
<1>2. \A row \in R : row \in PowerSwapRows("send_pr_swap") \/ row[2] \notin Swapped
  BY WhenRow, OnRow, IfRow, FromAnyRow, SMTT(60)
  DEF Swapped, AdvertisementRows, NegotiationRows, CollisionRows, SourcePowerSwapRows, ResetRows,
      RecoveryRows
<1>3. SourceRows = R \cup (ServiceRows \cup DataSwapRows("send_dr_swap")) \cup VconnSwapRows
  BY DEF SourceRows
<1> HIDE DEF R
<1>4. "source" \in Role
  BY DEF Role
<1> QED
  BY <1>1, <1>2, <1>3, <1>4, SharedIgnoring DEF Ignoring, Answering

\* What is ignored does nothing.
LEMMA IgnoredDoesNothing ==
  ASSUME NEW g, Typed(g), NEW r \in Role, NEW e, <<g.eng[r].pe, e>> \in Ignored(r), NEW x, NEW yes
  PROVE  Step(g, r, e, x, yes) = g
<1>1. NoRow(r, g.eng[r].pe, e)
  BY SinkIgnoring, SourceIgnoring DEF Ignoring, NoRow, Table, Role
<1> QED
  BY <1>1, NoStep

\* Where the rows are a pair that tests one guard, the guard decides.
Decides(r, s, e, q, t, o) ==
  /\ If(s, e, q, t, o) \subseteq Table(r)
  /\ \A row \in Table(r) : row[1] = s /\ row[2] = e => row \in If(s, e, q, t, o)

DecidesFor(g, r, e, yes, u) ==
  \E q, t, o : /\ Decides(r, g.eng[r].pe, e, q, t, o)
               /\ u = IF q \in Holds(g, r, yes) THEN t ELSE o

\* So a step at such a pair goes where the guard has it.
LEMMA StepDecided ==
  ASSUME NEW g, Typed(g), NEW r \in Role, NEW e, NEW yes, NEW u, DecidesFor(g, r, e, yes, u),
         NEW x
  PROVE  Step(g, r, e, x, yes) = Enter(g, r, Context(r, g.eng[r], u, e, x), e)
<1>0. PICK q, t, o : /\ Decides(r, g.eng[r].pe, e, q, t, o)
                     /\ u = IF q \in Holds(g, r, yes) THEN t ELSE o
  BY DEF DecidesFor
<1> DEFINE s == g.eng[r].pe
           holds == Holds(g, r, yes)
           to == IF q \in holds THEN t ELSE o
           row == IF q \in holds THEN <<s, e, {q}, {}, t>> ELSE <<s, e, {}, {q}, o>>
           taken == Taken(g, r, e, yes)
           other == CHOOSE other \in taken : TRUE
<1>1. row \in If(s, e, q, t, o)
  BY DEF If, When
<1>2. row[1] = s /\ row[2] = e /\ row[5] = to /\ row[3] \subseteq holds /\ row[4] \cap holds = {}
  <2> HIDE DEF holds
  <2> QED
    OBVIOUS
<1> HIDE DEF row, holds
<1>3. row \in Table(r)
  BY <1>0, <1>1 DEF Decides
<1>4. s \in States(r)
  BY DEF Typed
<1>5. row \in taken
  BY <1>2, <1>3, <1>4 DEF Taken, Rows, Table, holds
<1>6. other \in taken
  BY <1>5
<1>7. /\ other \in Rows[r][s] /\ other[2] = e
      /\ other[3] \subseteq holds /\ other[4] \cap holds = {}
  BY <1>6 DEF Taken, holds
<1>8. other[5] = to
  <2>1. other \in Table(r) /\ other[1] = s
    BY <1>4, <1>7 DEF Rows, Table
  <2>2. other \in If(s, e, q, t, o)
    <3> HIDE DEF other
    <3> QED
      BY <1>0, <1>7, <2>1 DEF Decides
  <2> HIDE DEF other
  <2>3. \/ other[3] = {q} /\ other[5] = t
        \/ other[4] = {q} /\ other[5] = o
    BY <2>2, WhenRow DEF If
  <2> QED
    BY <1>7, <2>3
<1>9. Step(g, r, e, x, yes) = Enter(g, r, Context(r, g.eng[r], other[5], e, x), e)
  BY <1>5 DEF Step, Take
<1>10. to = u
  BY <1>0 DEF holds
<1> QED
  BY <1>8, <1>9, <1>10

\* The pairs of the sink's table.
LEMMA SinkDecides ==
  /\ Decides("sink", "discovery", "vbus_present", "no_hard_reset_yet",
             "wait_for_capabilities", "wait_no_response")
  /\ Decides("sink", "select_capability", "reject", "explicit_contract_holds",
             "ready", "wait_for_capabilities")
<1> DEFINE a == If("discovery", "vbus_present", "no_hard_reset_yet",
                   "wait_for_capabilities", "wait_no_response")
           b == If("select_capability", "reject", "explicit_contract_holds",
                   "ready", "wait_for_capabilities")
           Fit(R) == \A row \in R :
             /\ row[1] = "discovery" /\ row[2] = "vbus_present" => row \in a
             /\ row[1] = "select_capability" /\ row[2] = "reject" => row \in b
<1>1. a \subseteq CapabilityRows /\ b \subseteq RequestRows
  BY DEF CapabilityRows, RequestRows
<1>2. Fit(CapabilityRows)
  BY WhenRow, OnRow, IfRow, FromAnyRow, SMTT(60) DEF CapabilityRows
<1>3. Fit(RequestRows)
  BY WhenRow, OnRow, IfRow, FromAnyRow, SMTT(60) DEF RequestRows
<1>4. Fit(ServiceRows \cup Service("send_source_caps", "give_source_cap")
          \cup DataSwapRows("dr_swap_gate"))
  BY WhenRow, OnRow, IfRow, FromAnyRow, SMTT(60)
  DEF ServiceRows, Service, DataSwapRows, DrsStates
<1>5. Fit(VconnSwapRows)
  BY WhenRow, OnRow, IfRow, FromAnyRow, SMTT(60) DEF VconnSwapRows, VcsStates
<1>6. Fit(SinkPowerSwapRows \cup On("dr_swap_gate", "send_dr_swap", "send_dr_swap")
          \cup On("dr_swap_gate", "protocol_error", "send_soft_reset"))
  BY WhenRow, OnRow, IfRow, FromAnyRow, SMTT(60) DEF SinkPowerSwapRows, PowerSwapRows
<1>7. Fit(FromAny(SinkStates, "vbus_removed", "startup")
          \cup ResetRows(SinkStates, "wait_for_capabilities")
          \cup On("transition_to_default", "default_level_reached", "startup"))
  BY WhenRow, OnRow, IfRow, FromAnyRow, SMTT(60) DEF ResetRows
<1> HIDE DEF a, b
<1>8. Fit(SinkRows) /\ a \subseteq SinkRows /\ b \subseteq SinkRows
  BY <1>1, <1>2, <1>3, <1>4, <1>5, <1>6, <1>7 DEF SinkRows
<1> QED
  BY <1>8 DEF Decides, Table, a, b

\* The pairs of the source's table; and where a partner which once answered
\* falls silent.
LEMMA SourceDecides ==
  /\ Decides("source", "capability_response", "message_sent", "explicit_contract_holds",
             "ready", "hard_reset")
  /\ Decides("source", "restore_default", "supply_settled", "still_attached",
             "send_capabilities", "startup")
  /\ \A row \in SourceRows : row[1] = "send_capabilities" /\ row[2] = "timeout" =>
       row[5] \in {"hard_reset", "error_recovery"} \/ "pd_was_connected" \in row[4]
<1> DEFINE a == If("capability_response", "message_sent", "explicit_contract_holds",
                   "ready", "hard_reset")
           b == If("restore_default", "supply_settled", "still_attached",
                   "send_capabilities", "startup")
           Fit(R) == \A row \in R :
             /\ row[1] = "capability_response" /\ row[2] = "message_sent" => row \in a
             /\ row[1] = "restore_default" /\ row[2] = "supply_settled" => row \in b
             /\ row[1] = "send_capabilities" /\ row[2] = "timeout" =>
                  row[5] \in {"hard_reset", "error_recovery"} \/ "pd_was_connected" \in row[4]
<1>1. a \subseteq NegotiationRows /\ b \subseteq RecoveryRows
  BY DEF NegotiationRows, RecoveryRows
<1>2. Fit(AdvertisementRows)
  BY WhenRow, OnRow, IfRow, FromAnyRow, SMTT(60) DEF AdvertisementRows
<1>3. Fit(NegotiationRows)
  BY WhenRow, OnRow, IfRow, FromAnyRow, SMTT(60) DEF NegotiationRows
<1>4. Fit(ServiceRows \cup CollisionRows \cup DataSwapRows("send_dr_swap"))
  BY WhenRow, OnRow, IfRow, FromAnyRow, SMTT(60)
  DEF ServiceRows, Service, CollisionRows, DataSwapRows, DrsStates
<1>5. Fit(VconnSwapRows)
  BY WhenRow, OnRow, IfRow, FromAnyRow, SMTT(60) DEF VconnSwapRows, VcsStates
<1>6. Fit(SourcePowerSwapRows)
  BY WhenRow, OnRow, IfRow, FromAnyRow, SMTT(60) DEF SourcePowerSwapRows, PowerSwapRows
<1>7. Fit(FromAny(SourceStates, "detached", "startup")
          \cup ResetRows(SourceStates, "send_capabilities") \cup RecoveryRows)
  BY WhenRow, OnRow, IfRow, FromAnyRow, SMTT(60) DEF ResetRows, RecoveryRows
<1> HIDE DEF a, b
<1>8. Fit(SourceRows) /\ a \subseteq SourceRows /\ b \subseteq SourceRows
  BY <1>1, <1>2, <1>3, <1>4, <1>5, <1>6, <1>7 DEF SourceRows
<1> QED
  BY <1>8 DEF Decides, Table, a, b

-----------------------------------------------------------------------------
(***************************************************************************)
(* What a step writes.                                                     *)
(***************************************************************************)
\* A partner is known by Ready, or as the new source; the source is attached by
\* its first advertisement, or by the swap.
LEMMA ContextWrites ==
  ASSUME NEW r \in Role, NEW en \in EngineType(SinkStates \cup SourceStates),
         NEW s \in States(r), NEW e, NEW x
  PROVE  LET c == Context(r, en, s, e, x)
         IN /\ s \in {"startup", "transition_to_default"} => ~c.connected
            /\ s = "ready" => c.connected = (r = "source")
            /\ s = "swap_source_on" => c.connected /\ c.attached
            /\ s \notin {"startup", "transition_to_default", "ready", "swap_source_on"} =>
                 c.connected = en.connected
            /\ s = "send_capabilities" => c.attached = (en.attached \/ e = "attached")
            /\ s \notin {"startup", "swap_source_on", "send_capabilities"} =>
                 c.attached = en.attached
            /\ s \notin {"startup", "transition_to_default", "select_capability"} =>
                 c.pending = en.pending
<1> DEFINE at == [en EXCEPT !.pe = s]
           c == Context(r, en, s, e, x)
<1>1. CASE s = "startup"
  <2> DEFINE a == NoNegotiation(at)
             b == NoNegotiation(NoConnection(r, at))
  <2>1. c = a \/ c = b
    BY <1>1 DEF Context, Role
  <2>2. a.connected = FALSE
    BY DEF NoNegotiation, EngineType
  <2>3. b.connected = FALSE
    BY DEF NoNegotiation, NoConnection, EngineType
  <2> HIDE DEF a, b, c
  <2>4. c.connected = FALSE
    BY <2>1, <2>2, <2>3
  <2> QED BY <1>1, <2>4 DEF c
<1>2. CASE s = "transition_to_default"
  BY <1>2 DEF Context, NoNegotiation, EngineType
<1>3. CASE s = "ready"
  <2> DEFINE b == r = "source"
  <2>1. c = [at EXCEPT !.explicit = TRUE, !.connected = b]
    BY <1>3 DEF Context
  <2> HIDE DEF b, c
  <2>2. c.connected = b /\ c.attached = en.attached /\ c.pending = en.pending
    BY <2>1 DEF EngineType
  <2> QED BY <1>3, <2>2 DEF b, c
<1>4. CASE s \in {"select_capability", "transition_sink", "transition_supply"}
  BY <1>4 DEF Context, EngineType
<1>5. CASE s \in {"evaluate_capability", "negotiate_capability", "hard_reset"}
  BY <1>5 DEF Context, EngineType
<1>6. CASE s = "send_capabilities"
  <2> DEFINE b == en.attached \/ e = "attached"
             n == Counted(en.caps, nCapsCount + 1)
  <2>1. c = [at EXCEPT !.caps = n, !.attached = b]
    BY <1>6 DEF Context
  <2> HIDE DEF b, c, n
  <2>2. c.connected = en.connected /\ c.attached = b /\ c.pending = en.pending
    BY <2>1 DEF EngineType
  <2> QED BY <1>6, <2>2 DEF b, c
<1>7. CASE s = "swap_source_on"
  BY <1>7 DEF Context, EngineType
<1>8. CASE s \in {"swap_wait_source_on", "swap_source_start", "dr_swap_change"}
  BY <1>8 DEF Context, EngineType
<1>9. CASE s \notin {"startup", "transition_to_default", "ready", "evaluate_capability",
                     "negotiate_capability", "select_capability", "transition_sink",
                     "transition_supply", "hard_reset", "send_capabilities",
                     "swap_source_on", "swap_wait_source_on", "swap_source_start",
                     "dr_swap_change"}
  BY <1>9 DEF Context, EngineType
<1> QED BY <1>1, <1>2, <1>3, <1>4, <1>5, <1>6, <1>7, <1>8, <1>9

\* h is g with the engine r in the state s, which it entered by e.
Reached(g, h, r, s, e, x) ==
  LET old == g.eng[r]
      en == h.eng[r]
      ends == s \in {"startup", "transition_to_default"}
  IN /\ Typed(h) /\ h.conn = g.conn /\ h.client = g.client /\ h.txok = g.txok
     /\ \A q \in Role \ {r} : h.eng[q] = g.eng[q]
     /\ en.pe = s /\ en.deaf = old.deaf /\ en.parked = old.parked
     /\ en.explicit = IF ends THEN FALSE ELSE IF s = "ready" THEN TRUE ELSE old.explicit
     /\ s = "transition_sink" => en.terms = old.pending
     /\ s = "transition_supply" => en.terms = x
     /\ ~ends /\ s \notin {"transition_sink", "transition_supply"} => en.terms = old.terms
     /\ ~ends /\ s # "select_capability" => en.pending = old.pending
     /\ s = "select_capability" =>
          en.pending = IF e = "capabilities_evaluated" THEN x ELSE old.pending
     /\ ~ends /\ s \notin {"ready", "swap_source_on"} => en.connected = old.connected
     /\ s = "ready" => en.connected = (r = "source")
     /\ s = "swap_source_on" => en.connected /\ en.attached
     /\ s \notin {"startup", "swap_source_on", "send_capabilities"} => en.attached = old.attached
     /\ s = "send_capabilities" => en.attached = (old.attached \/ e = "attached")
     /\ h.data = IF s = "dr_swap_change" /\ g.conn \in {"attached_snk", "attached_src"}
                 THEN Other(g.data) ELSE g.data
     /\ h.supply = IF r = "source" THEN Programmed(g.supply, s, en.terms) ELSE g.supply
     /\ h.vconn = VconnNext(g.vconn, VconnHears(s))
     /\ h.tx = Transmits(g, r, en, s, e)

\* Entering a state of its table takes a typed port there.
LEMMA EnterReaches ==
  ASSUME NEW g, Typed(g), NEW r \in Role, NEW s \in States(r), NEW e,
         NEW x \in Terms \cup {None}
  PROVE  Reached(g, Enter(g, r, Context(r, g.eng[r], s, e, x), e), r, s, e, x)
<1> DEFINE old == g.eng[r]
           en == Context(r, old, s, e, x)
           h == Enter(g, r, en, e)
<1>1. old \in EngineType(SinkStates \cup SourceStates)
  BY PortFields
<1>2. /\ en \in EngineType(SinkStates \cup SourceStates) /\ en.pe = s
      /\ en.deaf = old.deaf /\ en.parked = old.parked
  BY <1>1, ContextTyped
<1>3. /\ s \in {"startup", "transition_to_default"} => ~en.explicit
      /\ s \notin {"startup", "transition_to_default", "ready"} => en.explicit = old.explicit
      /\ s = "ready" => en.explicit
      /\ s \notin {"startup", "transition_to_default", "transition_sink", "transition_supply"} =>
           en.terms = old.terms
      /\ s = "transition_sink" => en.terms = old.pending
      /\ s = "select_capability" =>
           en.pending = IF e = "capabilities_evaluated" THEN x ELSE old.pending
  BY <1>1, ContextKeeps
<1>4. /\ s \in {"startup", "transition_to_default"} => ~en.connected
      /\ s = "ready" => en.connected = (r = "source")
      /\ s = "swap_source_on" => en.connected /\ en.attached
      /\ s \notin {"startup", "transition_to_default", "ready", "swap_source_on"} =>
           en.connected = old.connected
      /\ s = "send_capabilities" => en.attached = (old.attached \/ e = "attached")
      /\ s \notin {"startup", "swap_source_on", "send_capabilities"} =>
           en.attached = old.attached
      /\ s \notin {"startup", "transition_to_default", "select_capability"} =>
           en.pending = old.pending
  BY <1>1, ContextWrites
<1>5. ASSUME s = "transition_supply" PROVE en.terms = x
  <2>1. en = [[old EXCEPT !.pe = s] EXCEPT !.terms = x]
    BY <1>5 DEF Context
  <2> HIDE DEF en
  <2> QED BY <1>1, <2>1 DEF EngineType
<1>6. en.explicit \in BOOLEAN
  BY <1>2 DEF EngineType
<1> HIDE DEF en
<1>7. Entered(g, r, en, e, h)
  BY <1>2, EnterFields
<1>8. /\ h.data = IF s = "dr_swap_change" /\ g.conn \in {"attached_snk", "attached_src"}
                  THEN Other(g.data) ELSE g.data
      /\ h.supply = IF r = "source" THEN Programmed(g.supply, s, en.terms) ELSE g.supply
  BY <1>2 DEF Enter, Typed
<1> HIDE DEF h
<1>9. /\ Typed(h) /\ h.conn = g.conn /\ h.client = g.client /\ h.txok = g.txok
      /\ h.eng[r] = en /\ \A q \in Role \ {r} : h.eng[q] = g.eng[q]
      /\ h.tx = Transmits(g, r, en, s, e)
      /\ h.vconn = VconnNext(g.vconn, VconnHears(s))
  BY <1>2, <1>7 DEF Entered
<1> HIDE DEF old
<1>10. Reached(g, h, r, s, e, x)
  BY <1>2, <1>3, <1>4, <1>5, <1>6, <1>8, <1>9 DEF Reached, old
<1> QED
  BY <1>10 DEF h, en, old

\* So it is decided where the port goes.
LEMMA DecidedReaches ==
  ASSUME NEW g, Typed(g), NEW r \in Role, NEW e, NEW yes, NEW u \in States(r),
         DecidesFor(g, r, e, yes, u), NEW x \in Terms \cup {None}
  PROVE  Reached(g, Step(g, r, e, x, yes), r, u, e, x)
<1>1. Step(g, r, e, x, yes) = Enter(g, r, Context(r, g.eng[r], u, e, x), e)
  BY StepDecided
<1> QED BY <1>1, EnterReaches

\* A way reaches its state.
LEMMA WayReaches ==
  ASSUME NEW g, Typed(g), NEW r \in Role, NEW e, NEW t \in States(r),
         <<g.eng[r].pe, e, t>> \in Ways(r), NEW x \in Terms \cup {None}, NEW yes
  PROVE  Reached(g, Step(g, r, e, x, yes), r, t, e, x)
  BY WayTaken, EnterReaches

-----------------------------------------------------------------------------
(***************************************************************************)
(* An event at an engine, with the word of the state entered.              *)
(***************************************************************************)
\* The states entered which have a word for the machine, and those which direct
\* the connection machine.
Wordy == Gates \cup
  {"dr_swap_change", "vcs_partner_on", "vcs_ps_rdy_sent", "evaluate_capability",
   "negotiate_capability", "vcs_active"}
Directing(r) ==
  IF r = "sink" THEN {"swap_transition_to_off", "swap_assert_rp", "swap_source_on_seen",
                      "transition_to_default", "error_recovery"}
  ELSE {"swap_assert_rd", "error_recovery"}

\* The word of such a state, where the policy says `yes'.
WordAt(s, yes) ==
  CASE s \in {"dr_swap_change", "vcs_partner_on", "vcs_ps_rdy_sent"} -> "swap_finished"
    [] s = "evaluate_capability" -> "capabilities_evaluated"
    [] s = "negotiate_capability" -> IF yes THEN "request_ok" ELSE "request_bad"

\* A state which directs nothing leaves the connection machine where it is.
LEMMA Undirected ==
  ASSUME NEW g, NEW h, NEW r \in Role, \A q \in Role \ {r} : h.eng[q] = g.eng[q],
         h.eng[r].pe \notin Directing(r) \/ h.eng[r].pe = g.eng[r].pe
  PROVE  Directed(g, h) = h
<1>1. CASE r = "sink"
  BY <1>1 DEF Directed, Directing, Role
<1>2. CASE r = "source"
  BY <1>2 DEF Directed, Directing, Role
<1> QED BY <1>1, <1>2 DEF Role

\* A way to a state without a word ends there.
LEMMA ProcessReaches ==
  ASSUME NEW g, Typed(g), NEW r \in Role, NEW e, NEW t \in States(r), t \notin Wordy,
         <<g.eng[r].pe, e, t>> \in Ways(r), NEW x \in Terms \cup {None}, NEW yes
  PROVE  Reached(g, Process(g, r, e, x, yes), r, t, e, x)
<1> DEFINE k == Step(g, r, e, x, yes)
<1>1. Reached(g, k, r, t, e, x)
  BY WayReaches
<1> HIDE DEF k
<1>2. Typed(k) /\ k.eng[r].pe = t
  BY <1>1 DEF Reached
<1>3. Emits(g, k, r, yes) = "none"
  BY <1>2 DEF Emits, Wordy
<1>4. Follow(g, k, r, x, yes) = k
  BY <1>2, <1>3, NoneMovesNothing DEF Follow
<1> QED
  BY <1>1, <1>4 DEF Process, k

\* A way to a state with a word goes on from there.
LEMMA ProcessGoesOn ==
  ASSUME NEW g, Typed(g), NEW r \in Role, NEW e, NEW s \in States(r),
         <<g.eng[r].pe, e, s>> \in Ways(r), s # g.eng[r].pe,
         NEW x \in Terms \cup {None}, NEW yes, NEW w, NEW t \in States(r), <<s, w, t>> \in Ways(r),
         \A k : Reached(g, k, r, s, e, x) => Emits(g, k, r, yes) = w
  PROVE  \E k : Reached(g, k, r, s, e, x) /\ Reached(k, Process(g, r, e, x, yes), r, t, w, x)
<1> DEFINE k == Step(g, r, e, x, yes)
<1>1. Reached(g, k, r, s, e, x)
  BY WayReaches
<1> HIDE DEF k
<1>2. Typed(k) /\ k.eng[r].pe = s /\ Emits(g, k, r, yes) = w
  BY <1>1 DEF Reached
<1>3. Reached(k, Step(k, r, w, x, yes), r, t, w, x)
  BY <1>2, WayReaches
<1>4. Process(g, r, e, x, yes) = Step(k, r, w, x, yes)
  BY <1>2 DEF Process, Follow, k
<1> QED
  BY <1>1, <1>3, <1>4

\* The word of the state is that of WordAt.
LEMMA WordSaid ==
  ASSUME NEW g, NEW r, NEW e, NEW x, NEW yes, NEW k, NEW s,
         s \in {"dr_swap_change", "vcs_partner_on", "vcs_ps_rdy_sent", "evaluate_capability",
                "negotiate_capability"},
         Reached(g, k, r, s, e, x), s # g.eng[r].pe
  PROVE  Emits(g, k, r, yes) = WordAt(s, yes)
<1>1. k.eng[r].pe = s /\ s \notin Gates
  BY DEF Reached, Gates
<1> QED BY <1>1 DEF Emits, WordAt

\* The same with the directions, which come from the last state only.
LEMMA HandleReaches ==
  ASSUME NEW g, Typed(g), NEW r \in Role, NEW e, NEW t \in States(r),
         t \notin Wordy \cup Directing(r),
         <<g.eng[r].pe, e, t>> \in Ways(r), NEW x \in Terms \cup {None}, NEW yes
  PROVE  Reached(g, Handle(g, r, e, x, yes), r, t, e, x)
<1> DEFINE h == Process(g, r, e, x, yes)
<1>1. Reached(g, h, r, t, e, x)
  BY ProcessReaches
<1> HIDE DEF h
<1>2. h.eng[r].pe = t /\ \A q \in Role \ {r} : h.eng[q] = g.eng[q]
  BY <1>1 DEF Reached
<1>3. Directed(g, h) = h
  BY <1>2, Undirected
<1> QED BY <1>1, <1>3 DEF Handle, h

\* The same where the first state has a word.
LEMMA HandleGoesOn ==
  ASSUME NEW g, Typed(g), NEW r \in Role, NEW e, NEW s \in States(r),
         <<g.eng[r].pe, e, s>> \in Ways(r), s # g.eng[r].pe,
         NEW x \in Terms \cup {None}, NEW yes, NEW w, NEW t \in States(r), t \notin Directing(r),
         <<s, w, t>> \in Ways(r),
         \A k : Reached(g, k, r, s, e, x) => Emits(g, k, r, yes) = w
  PROVE  \E k : Reached(g, k, r, s, e, x) /\ Reached(k, Handle(g, r, e, x, yes), r, t, w, x)
<1> DEFINE h == Process(g, r, e, x, yes)
<1>1. PICK k : Reached(g, k, r, s, e, x) /\ Reached(k, h, r, t, w, x)
  BY ProcessGoesOn
<1> HIDE DEF h
<1>2. /\ \A q \in Role \ {r} : k.eng[q] = g.eng[q]
      /\ h.eng[r].pe = t /\ \A q \in Role \ {r} : h.eng[q] = k.eng[q]
  BY <1>1 DEF Reached
<1>3. h.eng[r].pe \notin Directing(r) /\ \A q \in Role \ {r} : h.eng[q] = g.eng[q]
  BY <1>2
<1>4. Directed(g, h) = h
  BY ONLY <1>3, r \in Role, Undirected
<1> QED BY <1>1, <1>4 DEF Handle, h

\* What is ignored changes nothing.
LEMMA IgnoredHandled ==
  ASSUME NEW g, Typed(g), NEW r \in Role, NEW e, <<g.eng[r].pe, e>> \in Ignored(r),
         NEW x, NEW yes
  PROVE  Process(g, r, e, x, yes) = g /\ Handle(g, r, e, x, yes) = g
<1>1. Step(g, r, e, x, yes) = g
  BY IgnoredDoesNothing
<1>2. Emits(g, g, r, yes) = "none"
  BY DEF Emits
<1>3. Process(g, r, e, x, yes) = g
  BY <1>1, <1>2, NoneMovesNothing DEF Process, Follow
<1>4. Directed(g, g) = g
  BY Undirected
<1> QED BY <1>3, <1>4 DEF Handle

-----------------------------------------------------------------------------
(***************************************************************************)
(* Where two ports stand to each other while nothing goes wrong: g the     *)
(* source and h the sink, or g the one which answers and h the one which   *)
(* asked; x and y say whether the other has heard what they transmit.      *)
(***************************************************************************)
En(g) == g.eng[g.client]
Caps == Control("source_capabilities")
Accept == Control("accept")
PsRdy == Control("ps_rdy")
Question(s) == Control(SharedSends[s])

\* The live engine's state and what is under way; nothing is under way.
Says(g, s, m) == En(g).pe = s /\ g.tx = m
Quiet(g, S) == En(g).pe \in S /\ g.tx = Idle

Src(g) == g.conn = "attached_src" /\ g.eng["source"].attached
Snk(h) == h.conn = "attached_snk"
Lit(g) == g.supply.out # "off" /\ g.supply.out \in Terms \cup {"safe5v"}
Fresh(g, h) == ~En(g).explicit /\ ~En(h).explicit

\* A cable which asks for VCONN has it from one of the two.
Marked == Ra /\ "vconn" \in Features
Cable(g, h) ==
  IF Marked
  THEN \/ g.vconn = "source" /\ h.vconn = "off"
       \/ g.vconn = "off" /\ h.vconn = "source"
  ELSE g.vconn = "off" /\ h.vconn = "off"
Facing(g, h) == g.data # h.data /\ Cable(g, h)

\* The sink waits for an offer, the source makes it and awaits the Request.
Waits(h) == Snk(h) /\ Quiet(h, {"wait_for_capabilities", "wait_no_response"})
Offers(g) == \/ Says(g, "send_capabilities", Caps)
             \/ Says(g, "send_capabilities", Idle) /\ En(g).connected
Requests(h) == Snk(h) /\ En(h).pe = "select_capability" /\ En(h).pending \in Terms

\* The way to a contract: the offer, the Request, the answer to it, the supply
\* on its way to the terms; and where it starts over.
Offered(g, h) == Offers(g) /\ Waits(h)
Requested(g, h, x, y) ==
  Offers(g) /\ (g.tx = Idle \/ x) /\ Requests(h) /\ h.tx = Request(En(h).pending) /\ ~y
Answered(g, h, x, y) ==
  /\ \/ Says(g, "transition_supply", Accept) /\ En(g).terms = En(h).pending
     \/ Says(g, "capability_response", Control("reject"))
  /\ ~x
  /\ Requests(h) /\ (h.tx = Idle \/ (y /\ h.tx = Request(En(h).pending)))
Supplies(g, h, x) ==
  /\ \/ Says(g, "transition_supply", Accept) /\ x
     \/ Says(g, "transition_supply_delay", Idle)
     \/ Says(g, "transition_supply_settle", Idle)
        /\ g.supply = [out |-> En(g).terms, pending |-> TRUE]
     \/ Says(g, "transition_supply_ps_rdy", PsRdy) /\ ~x
        /\ g.supply = [out |-> En(g).terms, pending |-> FALSE]
  /\ Snk(h) /\ Quiet(h, {"transition_sink"})
  /\ En(h).terms = En(g).terms /\ En(h).terms \in Terms
Anew(g, h, x) ==
  /\ \/ Says(g, "capability_response", Control("reject")) /\ x
     \/ Says(g, "swap_source_on_ps_rdy", PsRdy) /\ x
     \/ Says(g, "swap_source_start", Idle)
     \/ Says(g, "hard_reset", HardReset) /\ ~x
  /\ Waits(h)
Negotiating(g, h, x, y) ==
  /\ Src(g) /\ Fresh(g, h) /\ Lit(g)
  /\ \/ Offered(g, h) \/ Requested(g, h, x, y) \/ Answered(g, h, x, y)
     \/ Supplies(g, h, x) \/ Anew(g, h, x)

\* The hard reset: VBUS goes off and comes back in the sink's window.
Resetting(g, h, x) ==
  /\ Src(g) /\ Fresh(g, h) /\ Quiet(h, {"discovery"})
  /\ \/ Says(g, "hard_reset", HardReset) /\ x /\ h.conn = "hard_reset_snk" /\ Lit(g)
     \/ /\ Says(g, "transition_to_default", Idle) /\ h.conn = "hard_reset_snk"
        /\ g.supply = [out |-> "off", pending |-> TRUE]
     \/ /\ Says(g, "recover", Idle) /\ h.conn \in {"hard_reset_snk", "hard_reset_recover_snk"}
        /\ g.supply = [out |-> "off", pending |-> FALSE]
     \/ /\ Says(g, "restore_default", Idle) /\ h.conn = "hard_reset_recover_snk"
        /\ g.supply = [out |-> "safe5v", pending |-> TRUE]
     \/ Offers(g) /\ h.conn = "hard_reset_recover_snk" /\ Lit(g)

\* The PR_Swap: g the old source on its way off the supply ...
Swapping(g, h, x, y) ==
  \/ /\ Src(g) /\ Says(g, "accept_pr_swap", Accept) /\ x /\ Lit(g)
     /\ h.conn = "standby_to_src" /\ Quiet(h, {"swap_transition_to_off"})
  \/ /\ Src(g) /\ Quiet(g, {"swap_transition_to_off"}) /\ Lit(g)
     /\ Snk(h) /\ Says(h, "accept_pr_swap", Accept) /\ y
     /\ g.supply = [out |-> En(h).terms, pending |-> FALSE]
  \/ /\ Src(g) /\ \/ Quiet(g, {"swap_transition_to_off"}) /\ Lit(g)
                  \/ Quiet(g, {"swap_supply_off"}) /\ g.supply.pending
     /\ h.conn = "standby_to_src" /\ Quiet(h, {"swap_transition_to_off"})
  \/ /\ g.conn = "standby_to_snk" /\ Says(g, "swap_wait_source_on", PsRdy) /\ ~x /\ ~En(g).explicit
     /\ h.conn = "standby_to_src" /\ Quiet(h, {"swap_transition_to_off"})

\* ... and the new one on its way on.
Taking(g, h, x, y) ==
  /\ Src(g) /\ Fresh(g, h) /\ Lit(g)
  /\ \/ Quiet(g, {"swap_source_on"}) /\ g.supply.pending
     \/ Says(g, "swap_source_on_ps_rdy", PsRdy) /\ ~x
  /\ h.conn = "standby_to_snk" /\ En(h).pe = "swap_wait_source_on"
  /\ h.tx = Idle \/ (h.tx = PsRdy /\ y)

\* The source gave up, the sink has not seen it yet.
Apart(conn) == conn \in {"detached", "error_recovery"}
Parting(g, h) == Apart(g.conn) /\ (Apart(h.conn) \/ (Waits(h) /\ ~En(h).explicit))

\* Under the contract a port is free for what its partner asks - it rests, warns
\* or waits for an answer -, or it answers.
Free(g) == \/ Quiet(g, {"ready", "sink_tx_wait_dr", "sink_tx_wait_pr"})
           \/ \E s \in Asks : En(g).pe = s /\ g.tx \in {Idle, Question(s)}
Refusing(g) == \E t \in {"reject", "not_supported"} : Says(g, "send_not_supported", Control(t))
Answers(g, h, x, y) ==
  /\ \/ Says(g, "accept_dr_swap", Accept) /\ En(h).pe = "send_dr_swap"
     \/ Says(g, "accept_pr_swap", Accept) /\ En(h).pe = "send_pr_swap"
     \/ Says(g, "vcs_accept_swap", Accept) /\ En(h).pe = "vcs_send_swap"
     \/ Refusing(g)
  /\ ~x /\ Free(h) /\ En(h).pe \in Asks /\ (h.tx = Idle \/ y)
\* The partner has acted on the answer of g, or on its PS_RDY.
Flipping(g, x) == Says(g, "accept_dr_swap", Accept) /\ x
Concludes(g, x) == x /\ (Refusing(g) \/ Says(g, "transition_supply_ps_rdy", PsRdy))

\* The hand-over of VCONN: who gives it awaits the PS_RDY of who takes it.
SendsPsRdy(g, m) == Says(g, "vcs_send_ps_rdy", m) /\ g.vconn = "turn_on"
HandsOver(g, h, x, y) ==
  \/ /\ Says(g, "vcs_accept_swap", Accept) /\ x
     /\ \/ Quiet(h, {"vcs_active"}) /\ h.vconn = "wait" /\ g.vconn = "off" /\ Marked
        \/ SendsPsRdy(h, PsRdy) /\ ~y /\ g.vconn = IF Marked THEN "source" ELSE "off"
  \/ Marked /\ Quiet(g, {"vcs_active"}) /\ g.vconn = "wait" /\ SendsPsRdy(h, PsRdy) /\ ~y
  \/ Marked /\ SendsPsRdy(g, PsRdy) /\ x /\ Free(h) /\ h.vconn = "off"
\* On a cable which does not ask for VCONN both take it over, and one of them
\* loses its PS_RDY to the other's.
TakeOver(g, h, x, y) ==
  /\ ~Marked
  /\ \/ SendsPsRdy(g, PsRdy) /\ SendsPsRdy(h, PsRdy) /\ ~x /\ ~y
     \/ /\ SendsPsRdy(h, Idle)
        /\ (SendsPsRdy(g, PsRdy) /\ x) \/ (Free(g) /\ g.vconn = "source")

Conversing(g, h, x, y) ==
  \/ Facing(g, h) /\ Free(g) /\ Free(h)
  \/ Facing(g, h) /\ Answers(g, h, x, y)
  \/ Facing(g, h) /\ Concludes(g, x) /\ Free(h)
  \/ Cable(g, h) /\ Flipping(g, x) /\ Free(h) /\ g.data = h.data
  \/ g.data # h.data /\ (HandsOver(g, h, x, y) \/ TakeOver(g, h, x, y))

\* The contract in force.
Contracted(g, h) ==
  /\ Src(g) /\ Snk(h) /\ En(g).terms = En(h).terms /\ En(g).terms \in Terms
  /\ g.supply = [out |-> En(g).terms, pending |-> FALSE]

Meeting(g, h, x, y) ==
  \/ Parting(g, h)
  \/ /\ Facing(g, h)
     /\ \/ Negotiating(g, h, x, y) \/ Resetting(g, h, x)
        \/ Swapping(g, h, x, y) \/ Taking(g, h, x, y)
  \/ Contracted(g, h) /\ (Conversing(g, h, x, y) \/ Conversing(h, g, y, x))

\* A source engine at rest has left the supply at vSafe5V.
Primed(g) == g.eng["source"].pe = "startup" => Lit(g)

\* Of each port by itself, and of the two.
Fit(g) == Primed(g) /\ \A r \in Role : ~g.eng[r].deaf
Sound(g) == InOrder(g) /\ Fit(g)
Undisturbed ==
  /\ \A p \in Port : Sound(ports[p])
  /\ \E p \in Port : Meeting(ports[p], ports[Peer(p)], heard[p], heard[Peer(p)])

-----------------------------------------------------------------------------
(***************************************************************************)
(* What a handler makes of a port of which nothing is under way.           *)
(***************************************************************************)
\* The states which transmit on entry, beside the hard reset.
Loud(r) == DOMAIN SharedSends \cup {"send_not_supported"} \cup
  IF r = "sink" THEN {"select_capability", "swap_wait_source_on", "give_source_cap"}
  ELSE {"send_capabilities", "transition_supply", "capability_response",
        "transition_supply_ps_rdy", "swap_source_on_ps_rdy"}

\* The message of the state t, entered by e with nothing under way.
Sent(h, r, t, e) ==
  /\ t \in Asks => h.tx = Question(t)
  /\ t \in {"accept_dr_swap", "accept_pr_swap", "vcs_accept_swap"} => h.tx = Accept
  /\ t = "vcs_send_ps_rdy" => h.tx = PsRdy
  /\ t = "send_not_supported" => h.tx = Control(Refusal(e))
  /\ t = "hard_reset" => h.tx = HardReset
  /\ r = "sink" /\ t = "select_capability" => h.tx = Request(h.eng[r].pending)
  /\ r = "sink" /\ t = "swap_wait_source_on" => h.tx = PsRdy
  /\ r = "source" /\ t = "send_capabilities" => h.tx = Caps
  /\ r = "source" /\ t = "transition_supply" => h.tx = Accept
  /\ r = "source" /\ t = "capability_response" => h.tx = Control("reject")
  /\ r = "source" /\ t \in {"transition_supply_ps_rdy", "swap_source_on_ps_rdy"} =>
       h.tx = PsRdy
  /\ t \notin Loud(r) /\ t # "hard_reset" => h.tx = Idle

\* The message of the state entered goes out where nothing was under way.
LEMMA ReachedSends ==
  ASSUME NEW g, NEW h, NEW r \in Role, r = g.client, g.tx = Idle, NEW t, NEW e, NEW x,
         Reached(g, h, r, t, e, x)
  PROVE  Sent(h, r, t, e)
<1>1. h.tx = IF t = "hard_reset" THEN HardReset ELSE Sends(r, h.eng[r], t, e)
  BY DEF Reached, Transmits
<1>2. CASE r = "sink"
  <2>1. Sends(r, h.eng[r], t, e) = SinkSends(t, e, h.eng[r].pending)
    BY <1>2 DEF Sends
  <2> QED
    BY <1>1, <1>2, <2>1
    DEF Sent, SinkSends, SharedSends, Question, Accept, PsRdy, Caps, Loud, Asks
<1>3. CASE r = "source"
  <2>1. Sends(r, h.eng[r], t, e) = SourceSends(t, e)
    BY <1>3 DEF Sends
  <2> QED
    BY <1>1, <1>3, <2>1
    DEF Sent, SourceSends, SharedSends, Question, Accept, PsRdy, Caps, Loud, Asks
<1> QED BY <1>2, <1>3 DEF Role

\* The other states leave the layer idle.
LEMMA ReachedQuiet ==
  ASSUME NEW g, NEW h, NEW r \in Role, r = g.client, g.tx = Idle, NEW t, NEW e, NEW x,
         Reached(g, h, r, t, e, x), t \notin Loud(r), t # "hard_reset"
  PROVE  h.tx = Idle
<1>1. Sent(h, r, t, e)
  BY ReachedSends
<1> QED BY <1>1 DEF Sent

\* Who is live in which state of the connection machine.
LEMMA Clients ==
  ASSUME NEW g, InOrder(g)
  PROVE  /\ Typed(g) /\ g.client \in Role \cup {"none"}
         /\ Src(g) => g.client = "source" /\ En(g) = g.eng["source"]
         /\ g.conn \in {"attached_snk", "hard_reset_snk", "hard_reset_recover_snk",
                        "standby_to_src", "standby_to_snk"} =>
              g.client = "sink" /\ En(g) = g.eng["sink"]
         /\ Apart(g.conn) => g.client = "none" /\ g.tx = Idle /\ g.vconn = "off"
  BY PortFields DEF InOrder, Engines, ClientIn, Loose, Src, Apart, En

\* Whatever an event leads to, the port stays fit.
LEMMA ReachedFit ==
  ASSUME NEW g, Fit(g), NEW h, NEW r \in Role, NEW s, NEW e, NEW x, Reached(g, h, r, s, e, x)
  PROVE  Fit(h)
<1>1. \A q \in Role : ~h.eng[q].deaf
  BY DEF Fit, Reached
<1>2. Primed(h)
  <2>1. CASE r = "sink"
    <3>1. h.eng["source"] = g.eng["source"] /\ h.supply = g.supply
      BY <2>1 DEF Reached, Role
    <3> QED BY <3>1 DEF Primed, Fit, Lit
  <2>2. CASE r = "source"
    <3>1. h.eng["source"].pe = s
          /\ h.supply = Programmed(g.supply, s, h.eng["source"].terms)
      BY <2>2 DEF Reached
    <3>2. s = "startup" => h.supply = [out |-> "safe5v", pending |-> TRUE]
      BY <3>1 DEF Programmed, SupplyOff, SupplySafe5V
    <3> QED BY <3>1, <3>2 DEF Primed, Lit
  <2> QED BY <2>1, <2>2 DEF Role
<1> QED BY <1>1, <1>2 DEF Fit

\* The transmission over, the port is the same.
Hushed(g, k) ==
  /\ Sound(k) /\ Typed(k) /\ k.tx = Idle /\ k.eng = g.eng
  /\ k.conn = g.conn /\ k.client = g.client /\ k.data = g.data
  /\ k.vconn = g.vconn /\ k.supply = g.supply /\ k.txok = g.txok

\* So it is, whether the transmission was confirmed or discarded.
LEMMA SentSame ==
  ASSUME NEW g, Sound(g), g.client # "none"
  PROVE  Hushed(g, [g EXCEPT !.tx = Idle])
<1> DEFINE k == [g EXCEPT !.tx = Idle]
<1>1. Idle \in TxType
  BY DEF Idle, TxType
<1>2. InOrder(k)
  BY <1>1, LiveTx DEF Sound
<1>3. /\ k.tx = Idle /\ k.eng = g.eng
      /\ k.conn = g.conn /\ k.client = g.client /\ k.data = g.data
      /\ k.vconn = g.vconn /\ k.supply = g.supply /\ k.txok = g.txok
  BY DEF Sound, InOrder, Engines, Typed
<1> HIDE DEF k
<1>4. Fit(k)
  BY <1>3 DEF Sound, Fit, Primed, Lit
<1> QED BY <1>2, <1>3, <1>4 DEF Sound, InOrder, Engines, k, Hushed

\* The outcome of a transmission, and the partner's message, at the engine.
LEMMA SentHandled ==
  ASSUME NEW g, Sound(g), NEW r \in Role, r = g.client, g.eng[r].pe # "send_capabilities"
  PROVE  \E k : Hushed(g, k) /\ \E no : TxDone(g) = Handle(k, r, "message_sent", None, no)
<1>1. Hushed(g, [g EXCEPT !.tx = Idle])
  BY SentSame DEF Role
<1>2. TxDone(g) = Handle([g EXCEPT !.tx = Idle], r, "message_sent", None, FALSE)
  BY DEF TxDone
<1> QED BY <1>1, <1>2

\* A message heard ends the own transmission, and is an event.
LEMMA ReceivedHandled ==
  ASSUME NEW g, Sound(g), NEW r \in Role, r = g.client, g.tx # HardReset,
         NEW m, m.type # "bist_test_data", NEW x, NEW yes
  PROVE  \E k : /\ Hushed(g, k)
                /\ Received(g, m, x, yes)
                     = Handle(k, r, EventOf(g, r, m.type),
                              IF m.type = "request" THEN m.terms ELSE x, yes)
<1>1. Hushed(g, [g EXCEPT !.tx = Idle])
  BY SentSame DEF Role
<1>2. ~g.eng[r].deaf
  BY DEF Sound, Fit
<1>3. Received(g, m, x, yes)
        = Handle([g EXCEPT !.tx = Idle], r, EventOf(g, r, m.type),
                 IF m.type = "request" THEN m.terms ELSE x, yes)
  BY <1>2 DEF Received
<1> QED BY <1>1, <1>3

\* What the contract rests on: the attachment, the terms, the supply.
Bound(g, h) ==
  /\ h.conn = g.conn /\ h.client = g.client
  /\ h.supply.out = g.supply.out /\ (~g.supply.pending => h.supply = g.supply)
  /\ En(h).terms = En(g).terms
  /\ \A r \in Role : h.eng[r].attached = g.eng[r].attached
\* It is kept, and the data role and VCONN with it.
ComesTo(g, h, s, m) ==
  Bound(g, h) /\ h.data = g.data /\ h.vconn = g.vconn /\ Says(h, s, m)

\* The data role turns; VCONN is handed over, or was.
FlipsTo(g, h) ==
  /\ Bound(g, h) /\ h.data = Other(g.data) /\ h.vconn = g.vconn
  /\ Says(h, "ready", Idle) /\ Fit(h)
HandsTo(g, h) ==
  /\ Bound(g, h) /\ h.data = g.data /\ Fit(h)
  /\ g.vconn = "off" => SendsPsRdy(h, PsRdy)
  /\ g.vconn = "source" => Says(h, "vcs_active", Idle) /\ h.vconn = "wait"
HandedTo(g, h, v) ==
  /\ Bound(g, h) /\ h.data = g.data /\ Says(h, "ready", Idle) /\ Fit(h) /\ h.vconn = v

\* The same from a port whose transmission is over.
LEMMA HushedOn ==
  ASSUME NEW g, NEW k, Hushed(g, k), NEW h
  PROVE  /\ Bound(k, h) => Bound(g, h)
         /\ \A s, m : ComesTo(k, h, s, m) => ComesTo(g, h, s, m)
         /\ FlipsTo(k, h) => FlipsTo(g, h)
         /\ HandsTo(k, h) => HandsTo(g, h)
         /\ \A v : HandedTo(k, h, v) => HandedTo(g, h, v)
<1>1. Bound(k, h) => Bound(g, h)
  BY DEF Hushed, Bound, En
<1>2. k.data = g.data /\ k.vconn = g.vconn
  BY DEF Hushed
<1> QED BY <1>1, <1>2 DEF ComesTo, FlipsTo, HandsTo, HandedTo

\* A transmission over, the contract is where it was.
LEMMA HushedComes ==
  ASSUME NEW g, NEW k, Hushed(g, k)
  PROVE  ComesTo(g, k, En(g).pe, Idle) /\ Fit(k)
  BY DEF Hushed, ComesTo, Bound, Says, En, Sound

\* The contract goes with either port.
LEMMA ContractKept ==
  ASSUME NEW g, NEW h, NEW k, Contracted(g, h)
  PROVE  /\ Bound(g, k) => Contracted(k, h)
         /\ Bound(h, k) => Contracted(g, k)
<1>1. ~g.supply.pending
  BY DEF Contracted
<1> QED BY <1>1 DEF Contracted, Bound, Src, Snk, Role

\* The states of a swap which leave the contract alone.
Harmless ==
  Asks \cup {"ready", "accept_dr_swap", "accept_pr_swap", "vcs_accept_swap",
             "send_not_supported", "sink_tx_wait_dr", "sink_tx_wait_pr", "vcs_send_ps_rdy"}

\* And those which turn the data role or VCONN.
Turning ==
  Harmless \cup {"dr_swap_change", "vcs_active", "vcs_partner_on", "vcs_ps_rdy_sent"}

\* The entry of such a state leaves the contract alone.
LEMMA ReachedBound ==
  ASSUME NEW g, NEW h, NEW r \in Role, r = g.client, NEW t, NEW e, NEW x,
         t \in Turning,
         Reached(g, h, r, t, e, x)
  PROVE  /\ Bound(g, h) /\ En(h).pe = t /\ h.client = r /\ h.conn = g.conn
         /\ t = "dr_swap_change" /\ g.conn \in {"attached_snk", "attached_src"} =>
              h.data = Other(g.data)
         /\ t # "dr_swap_change" => h.data = g.data
         /\ h.vconn = VconnNext(g.vconn, VconnHears(t))
<1>1. \A terms : Programmed(g.supply, t, terms) = g.supply
  BY DEF Programmed, SupplyOff, SupplySafe5V, Turning, Harmless, Asks
<1>2. h.supply = g.supply /\ h.conn = g.conn /\ h.client = g.client
  BY <1>1 DEF Reached
<1>3. \A q \in Role \ {r} : h.eng[q] = g.eng[q]
  BY DEF Reached
<1>4. h.eng[r].terms = g.eng[r].terms /\ h.eng[r].attached = g.eng[r].attached
      /\ h.eng[r].pe = t
  BY DEF Reached, Turning, Harmless, Asks
<1>5. h.data = (IF t = "dr_swap_change" /\ g.conn \in {"attached_snk", "attached_src"}
                THEN Other(g.data) ELSE g.data)
      /\ h.vconn = VconnNext(g.vconn, VconnHears(t))
  BY DEF Reached
<1> QED BY <1>2, <1>3, <1>4, <1>5 DEF Bound, En

\* They change no data role and do not concern VCONN.
LEMMA ReachedComes ==
  ASSUME NEW g, NEW h, NEW r \in Role, r = g.client, NEW t \in Harmless, NEW e, NEW x,
         Reached(g, h, r, t, e, x)
  PROVE  ComesTo(g, h, t, h.tx)
<1>1. VconnNext(g.vconn, VconnHears(t)) = g.vconn
  BY DEF VconnNext, VconnHears, Harmless, Asks
<1>2. t # "dr_swap_change" /\ t \in Turning
  BY DEF Turning, Harmless, Asks
<1> QED BY <1>1, <1>2, ReachedBound DEF ComesTo, Says

-----------------------------------------------------------------------------
(***************************************************************************)
(* Under the contract: what an event at the live engine r makes of it.     *)
(***************************************************************************)
\* To a state which leaves the contract alone.
LEMMA Converse ==
  ASSUME NEW g, Sound(g), NEW r \in Role, r = g.client, g.tx = Idle, NEW e,
         NEW t \in States(r), t \in Harmless, <<g.eng[r].pe, e, t>> \in Ways(r),
         NEW x \in Terms \cup {None}, NEW yes
  PROVE  LET h == Handle(g, r, e, x, yes)
         IN ComesTo(g, h, t, h.tx) /\ Fit(h) /\ Sent(h, r, t, e)
<1> DEFINE h == Handle(g, r, e, x, yes)
<1>1. t \notin Wordy \cup Directing(r)
  BY DEF Harmless, Wordy, Directing, Gates, Asks
<1>2. Typed(g) /\ Fit(g)
  BY DEF Sound, InOrder, Engines
<1>3. Reached(g, h, r, t, e, x)
  BY <1>1, <1>2, HandleReaches
<1> HIDE DEF h
<1>4. ComesTo(g, h, t, h.tx)
  BY <1>3, ReachedComes
<1>5. Fit(h)
  BY <1>2, <1>3, ReachedFit
<1>6. Sent(h, r, t, e)
  BY ONLY <1>3, r \in Role, r = g.client, g.tx = Idle, ReachedSends
<1> QED BY <1>4, <1>5, <1>6 DEF h

\* The data role turns.
LEMMA Flips ==
  ASSUME NEW g, Sound(g), NEW r \in Role, r = g.client, g.tx = Idle,
         g.conn \in {"attached_snk", "attached_src"}, NEW e,
         <<g.eng[r].pe, e, "dr_swap_change">> \in Ways(r), g.eng[r].pe # "dr_swap_change",
         NEW x \in Terms \cup {None}, NEW yes
  PROVE  FlipsTo(g, Handle(g, r, e, x, yes))
<1> DEFINE h == Handle(g, r, e, x, yes)
           s == "dr_swap_change"
<1>1. "ready" \in States(r) /\ s \in States(r) /\ "ready" \notin Directing(r)
  BY DEF States, SinkStates, SourceStates, SharedStates, DrsStates, Directing
<1>2. Typed(g)
  BY DEF Sound, InOrder, Engines
<1>3. <<s, "swap_finished", "ready">> \in Ways(r)
  BY DEF Ways, SharedWays
<1>4. \A k : Reached(g, k, r, s, e, x) => Emits(g, k, r, yes) = "swap_finished"
  BY WordSaid DEF WordAt
<1>5. PICK k : Reached(g, k, r, s, e, x) /\ Reached(k, h, r, "ready", "swap_finished", x)
  BY <1>1, <1>2, <1>3, <1>4, HandleGoesOn
<1> HIDE DEF h
<1>6. /\ Bound(g, k) /\ k.client = r /\ k.data = Other(g.data)
      /\ k.vconn = VconnNext(g.vconn, VconnHears(s))
  <2>1. s \in Turning
    BY DEF Turning
  <2> HIDE DEF s
  <2>2. Reached(g, k, r, s, e, x)
    BY <1>5
  <2>3. /\ Bound(g, k) /\ k.client = r
        /\ s = "dr_swap_change" /\ g.conn \in {"attached_snk", "attached_src"} =>
             k.data = Other(g.data)
        /\ k.vconn = VconnNext(g.vconn, VconnHears(s))
    BY ONLY <2>1, <2>2, r \in Role, r = g.client, ReachedBound
  <2> QED BY <2>3 DEF s
<1>7. k.vconn = g.vconn
  BY <1>6 DEF VconnNext, VconnHears
<1>8. k.tx = Idle
  <2>1. s \notin Loud(r)
    BY DEF Loud, SharedSends
  <2> QED BY <1>5, <2>1, ReachedQuiet
<1>9. ComesTo(k, h, "ready", h.tx)
  <2>1. "ready" \in Harmless
    BY DEF Harmless
  <2> QED BY <1>5, <1>6, <2>1, ReachedComes
<1>10. h.tx = Idle
  <2>1. "ready" \notin Loud(r)
    BY DEF Loud, SharedSends
  <2> QED BY <1>5, <1>6, <1>8, <2>1, ReachedQuiet
<1>11. Fit(h)
  <2>1. Fit(k)
    BY <1>5, ReachedFit DEF Sound
  <2> QED BY <1>5, <2>1, ReachedFit
<1> QED BY <1>6, <1>7, <1>9, <1>10, <1>11 DEF FlipsTo, ComesTo, Bound, Says, h

\* The VCONN machine is asked to hand over: it waits for the partner, or
\* switches on and says so.
LEMMA Hands ==
  ASSUME NEW g, Sound(g), NEW r \in Role, r = g.client, g.tx = Idle, NEW e,
         <<g.eng[r].pe, e, "vcs_active">> \in Ways(r), g.eng[r].pe # "vcs_active",
         g.vconn \in {"off", "source"}, NEW x \in Terms \cup {None}, NEW yes
  PROVE  HandsTo(g, Handle(g, r, e, x, yes))
<1> DEFINE h == Handle(g, r, e, x, yes)
           s == "vcs_active"
           t == "vcs_send_ps_rdy"
<1>1. s \in States(r) /\ t \in States(r) /\ t \notin Directing(r) /\ s \notin Directing(r)
  BY DEF States, SinkStates, SourceStates, SharedStates, VcsStates, Directing
<1>2. Typed(g)
  BY DEF Sound, InOrder, Engines
<1>3. s \notin Loud(r) /\ s # "hard_reset"
  BY DEF Loud, SharedSends
<1>4. ASSUME NEW k, Reached(g, k, r, s, e, x)
      PROVE  /\ Bound(g, k) /\ k.client = r /\ k.data = g.data /\ k.tx = Idle
             /\ k.vconn = IF g.vconn = "off" THEN "turn_on" ELSE "wait"
             /\ En(k).pe = s /\ Fit(k)
             /\ Emits(g, k, r, yes) = IF g.vconn = "off" THEN "send_vconn_ps_rdy" ELSE "none"
  <2>1. /\ Bound(g, k) /\ k.client = r /\ k.data = g.data /\ En(k).pe = s
        /\ k.vconn = VconnNext(g.vconn, VconnHears(s))
    <3>1. s \in Turning /\ s # "dr_swap_change"
      BY DEF Turning
    <3> QED BY <1>4, <3>1, ReachedBound
  <2>2. k.vconn = IF g.vconn = "off" THEN "turn_on" ELSE "wait"
    BY <2>1 DEF VconnNext, VconnHears
  <2>3. k.tx = Idle
    BY <1>3, <1>4, ReachedQuiet
  <2>4. Emits(g, k, r, yes) = IF g.vconn = "off" THEN "send_vconn_ps_rdy" ELSE "none"
    <3>1. k.eng[r].pe = s /\ s \notin Gates
      BY <1>4 DEF Reached, Gates
    <3> QED BY <2>2, <3>1 DEF Emits
  <2>5. Fit(k)
    BY <1>4, ReachedFit DEF Sound
  <2> QED BY <2>1, <2>2, <2>3, <2>4, <2>5
<1>5. CASE g.vconn = "off"
  <2>1. <<s, "send_vconn_ps_rdy", t>> \in Ways(r)
    BY DEF Ways, SharedWays
  <2>2. \A k : Reached(g, k, r, s, e, x) => Emits(g, k, r, yes) = "send_vconn_ps_rdy"
    BY <1>4, <1>5
  <2>3. PICK k : Reached(g, k, r, s, e, x) /\ Reached(k, h, r, t, "send_vconn_ps_rdy", x)
    BY <1>1, <1>2, <2>1, <2>2, HandleGoesOn
  <2> HIDE DEF h
  <2>4. /\ Bound(g, k) /\ k.client = r /\ k.data = g.data /\ k.tx = Idle
        /\ k.vconn = "turn_on" /\ Fit(k)
    BY <1>4, <1>5, <2>3
  <2>5. ComesTo(k, h, t, h.tx) /\ h.tx = PsRdy
    <3>1. t \in Harmless
      BY DEF Harmless
    <3>2. ComesTo(k, h, t, h.tx) /\ Sent(h, r, t, "send_vconn_ps_rdy")
      BY <2>3, <2>4, <3>1, ReachedComes, ReachedSends
    <3> QED BY <3>2 DEF Sent
  <2>6. Fit(h)
    BY <2>3, <2>4, ReachedFit
  <2> QED BY <1>5, <2>4, <2>5, <2>6 DEF HandsTo, ComesTo, Bound, Says, SendsPsRdy, h
<1>6. CASE g.vconn = "source"
  <2> DEFINE k == Step(g, r, e, x, yes)
  <2>1. Reached(g, k, r, s, e, x)
    BY <1>1, <1>2, WayReaches
  <2> HIDE DEF k
  <2>2. /\ Bound(g, k) /\ k.client = r /\ k.data = g.data /\ k.tx = Idle
        /\ k.vconn = "wait" /\ En(k).pe = s /\ Fit(k) /\ Emits(g, k, r, yes) = "none"
    BY <1>4, <1>6, <2>1
  <2>3. Typed(k) /\ k.eng[r].pe = s /\ \A q \in Role \ {r} : k.eng[q] = g.eng[q]
    BY <2>1 DEF Reached
  <2>4. Process(g, r, e, x, yes) = k
    BY <2>2, <2>3, NoneMovesNothing DEF Process, Follow, k
  <2>5. Directed(g, k) = k
    <3>1. k.eng[r].pe \notin Directing(r) /\ \A q \in Role \ {r} : k.eng[q] = g.eng[q]
      BY <1>1, <2>3
    <3> QED BY ONLY <3>1, r \in Role, Undirected
  <2>6. h = k
    BY <2>4, <2>5 DEF Handle
  <2> QED BY <1>6, <2>2, <2>6 DEF HandsTo, Says
<1> QED BY <1>5, <1>6

\* The hand-over is done: by the partner's PS_RDY, or by the port's own.
LEMMA HandedOver ==
  ASSUME NEW g, Sound(g), NEW r \in Role, r = g.client, g.tx = Idle, NEW e,
         NEW s, s \in {"vcs_partner_on", "vcs_ps_rdy_sent"},
         <<g.eng[r].pe, e, s>> \in Ways(r), g.eng[r].pe # s,
         s = "vcs_partner_on" => g.vconn = "wait",
         s = "vcs_ps_rdy_sent" => g.vconn = "turn_on",
         NEW x \in Terms \cup {None}, NEW yes
  PROVE  LET h == Handle(g, r, e, x, yes)
         IN /\ s = "vcs_partner_on" => HandedTo(g, h, "off")
            /\ s = "vcs_ps_rdy_sent" => HandedTo(g, h, "source")
<1> DEFINE h == Handle(g, r, e, x, yes)
<1>1. "ready" \in States(r) /\ s \in States(r) /\ "ready" \notin Directing(r)
  BY DEF States, SinkStates, SourceStates, SharedStates, VcsStates, Directing
<1>2. Typed(g)
  BY DEF Sound, InOrder, Engines
<1>3. <<s, "swap_finished", "ready">> \in Ways(r)
  BY DEF Ways, SharedWays
<1>4. \A k : Reached(g, k, r, s, e, x) => Emits(g, k, r, yes) = "swap_finished"
  BY WordSaid DEF WordAt
<1>5. PICK k : Reached(g, k, r, s, e, x) /\ Reached(k, h, r, "ready", "swap_finished", x)
  BY <1>1, <1>2, <1>3, <1>4, HandleGoesOn
<1> HIDE DEF h
<1>6. /\ Bound(g, k) /\ k.client = r /\ k.data = g.data
      /\ k.vconn = VconnNext(g.vconn, VconnHears(s))
  <2>1. s # "dr_swap_change" /\ s \in Turning
    BY DEF Turning
  <2>2. Reached(g, k, r, s, e, x)
    BY <1>5
  <2>3. /\ Bound(g, k) /\ En(k).pe = s /\ k.client = r /\ k.conn = g.conn
        /\ s = "dr_swap_change" /\ g.conn \in {"attached_snk", "attached_src"} =>
             k.data = Other(g.data)
        /\ s # "dr_swap_change" => k.data = g.data
        /\ k.vconn = VconnNext(g.vconn, VconnHears(s))
    BY ONLY <2>1, <2>2, r \in Role, r = g.client, ReachedBound
  <2> QED BY <2>1, <2>3
<1>7. /\ s = "vcs_partner_on" => k.vconn = "off"
      /\ s = "vcs_ps_rdy_sent" => k.vconn = "source"
  BY <1>6 DEF VconnNext, VconnHears
<1>8. k.tx = Idle
  <2>1. s \notin Loud(r) /\ s # "hard_reset"
    BY DEF Loud, SharedSends
  <2> QED BY <1>5, <2>1, ReachedQuiet
<1>9. ComesTo(k, h, "ready", h.tx)
  <2>1. "ready" \in Harmless
    BY DEF Harmless
  <2> QED BY <1>5, <1>6, <2>1, ReachedComes
<1>10. h.tx = Idle
  <2>1. "ready" \notin Loud(r)
    BY DEF Loud, SharedSends
  <2> QED BY <1>5, <1>6, <1>8, <2>1, ReachedQuiet
<1>11. Fit(h)
  <2>1. Fit(k)
    BY <1>5, ReachedFit DEF Sound
  <2> QED BY <1>5, <2>1, ReachedFit
<1> QED BY <1>6, <1>7, <1>9, <1>10, <1>11 DEF HandedTo, ComesTo, Bound, Says, h

-----------------------------------------------------------------------------
(***************************************************************************)
(* Under the contract: the transmission of a port is confirmed.            *)
(***************************************************************************)
\* The outcome at the states which hear it.
LEMMA ContractConfirmed ==
  ASSUME NEW g, Sound(g), NEW r \in Role, r = g.client
  PROVE  LET h == TxDone(g)
             s == g.eng[r].pe
         IN /\ s \in Asks => ComesTo(g, h, s, Idle) /\ Fit(h)
            /\ s = "send_not_supported" \/ (r = "source" /\ s = "transition_supply_ps_rdy") =>
                 ComesTo(g, h, "ready", Idle) /\ Fit(h)
            /\ s = "accept_dr_swap" /\ g.conn \in {"attached_snk", "attached_src"} => FlipsTo(g, h)
            /\ s = "vcs_accept_swap" /\ g.vconn \in {"off", "source"} => HandsTo(g, h)
            /\ s = "vcs_send_ps_rdy" /\ g.vconn = "turn_on" => HandedTo(g, h, "source")
<1> DEFINE h == TxDone(g)
           s == g.eng[r].pe
           e == "message_sent"
<1>1. ASSUME s # "send_capabilities"
      PROVE  \E k : Hushed(g, k) /\ \E no : h = Handle(k, r, e, None, no)
  BY <1>1, SentHandled
<1> HIDE DEF h
<1>2. None \in Terms \cup {None} /\ En(g).pe = s
  BY DEF En
<1>3. ASSUME NEW k, Hushed(g, k)
      PROVE  /\ Sound(k) /\ Typed(k) /\ k.client = r /\ k.eng[r].pe = s /\ k.tx = Idle
             /\ k.vconn = g.vconn /\ k.conn = g.conn
  BY <1>3 DEF Hushed
<1>4. ASSUME s \in Asks PROVE ComesTo(g, h, s, Idle) /\ Fit(h)
  <2>1. <<s, e>> \in Ignored(r) /\ s # "send_capabilities"
    BY <1>4 DEF Ignored, Asks
  <2> HIDE DEF e, s
  <2>2. PICK k, no : Hushed(g, k) /\ h = Handle(k, r, e, None, no)
    BY <1>1, <2>1
  <2>3. Typed(k) /\ <<k.eng[r].pe, e>> \in Ignored(r)
    BY <1>3, <2>1, <2>2
  <2>4. h = k
    BY <2>2, <2>3, IgnoredHandled
  <2> QED BY <1>2, <2>2, <2>4, HushedComes
<1>5. ASSUME s = "send_not_supported" \/ (r = "source" /\ s = "transition_supply_ps_rdy")
      PROVE  ComesTo(g, h, "ready", Idle) /\ Fit(h)
  <2> DEFINE t == "ready"
  <2>1. <<s, e, t>> \in Ways(r) /\ s # "send_capabilities"
    BY <1>5 DEF Ways, SharedWays, SourceWays
  <2>2. t \in States(r) /\ t \in Harmless /\ t \notin Loud(r) /\ t # "hard_reset"
    BY DEF States, SinkStates, SourceStates, SharedStates, Harmless, Loud, SharedSends
  <2> HIDE DEF e, s, t
  <2>3. PICK k, no : Hushed(g, k) /\ h = Handle(k, r, e, None, no)
    BY <1>1, <2>1
  <2>4. Sound(k) /\ r = k.client /\ k.tx = Idle /\ <<k.eng[r].pe, e, t>> \in Ways(r)
    BY <1>3, <2>1, <2>3
  <2>5. ComesTo(k, h, t, h.tx) /\ Fit(h) /\ Sent(h, r, t, e)
    BY ONLY <1>2, <2>2, <2>3, <2>4, r \in Role, Converse
  <2>6. h.tx = Idle
    BY <2>2, <2>5 DEF Sent
  <2>7. ComesTo(g, h, t, h.tx)
    BY <2>3, <2>5, HushedOn
  <2> QED BY <2>5, <2>6, <2>7 DEF t
<1>6. ASSUME s = "accept_dr_swap", g.conn \in {"attached_snk", "attached_src"}
      PROVE  FlipsTo(g, h)
  <2>1. <<s, e, "dr_swap_change">> \in Ways(r) /\ s # "send_capabilities" /\ s # "dr_swap_change"
    BY <1>6 DEF Ways, SharedWays
  <2> HIDE DEF e, s
  <2>2. PICK k, no : Hushed(g, k) /\ h = Handle(k, r, e, None, no)
    BY <1>1, <2>1
  <2>3. /\ Sound(k) /\ r = k.client /\ k.tx = Idle /\ k.conn \in {"attached_snk", "attached_src"}
        /\ <<k.eng[r].pe, e, "dr_swap_change">> \in Ways(r) /\ k.eng[r].pe # "dr_swap_change"
    BY <1>3, <1>6, <2>1, <2>2
  <2>4. FlipsTo(k, h)
    BY ONLY <1>2, <2>2, <2>3, r \in Role, Flips
  <2> QED BY <2>2, <2>4, HushedOn
<1>7. ASSUME s = "vcs_accept_swap", g.vconn \in {"off", "source"}
      PROVE  HandsTo(g, h)
  <2>1. <<s, e, "vcs_active">> \in Ways(r) /\ s # "send_capabilities" /\ s # "vcs_active"
    BY <1>7 DEF Ways, SharedWays
  <2> HIDE DEF e, s
  <2>2. PICK k, no : Hushed(g, k) /\ h = Handle(k, r, e, None, no)
    BY <1>1, <2>1
  <2>3. /\ Sound(k) /\ r = k.client /\ k.tx = Idle /\ k.vconn \in {"off", "source"}
        /\ <<k.eng[r].pe, e, "vcs_active">> \in Ways(r) /\ k.eng[r].pe # "vcs_active"
    BY <1>3, <1>7, <2>1, <2>2
  <2>4. HandsTo(k, h)
    BY ONLY <1>2, <2>2, <2>3, r \in Role, Hands
  <2> QED BY <2>2, <2>4, HushedOn
<1>8. ASSUME s = "vcs_send_ps_rdy", g.vconn = "turn_on" PROVE HandedTo(g, h, "source")
  <2> DEFINE t == "vcs_ps_rdy_sent"
  <2>1. <<s, e, t>> \in Ways(r) /\ s # "send_capabilities" /\ s # t
    BY <1>8 DEF Ways, SharedWays
  <2> HIDE DEF e, s
  <2>2. PICK k, no : Hushed(g, k) /\ h = Handle(k, r, e, None, no)
    BY <1>1, <2>1
  <2>3. /\ t \in {"vcs_partner_on", "vcs_ps_rdy_sent"}
        /\ t = "vcs_partner_on" => k.vconn = "wait"
        /\ t = "vcs_ps_rdy_sent" => k.vconn = "turn_on"
    BY <1>3, <1>8, <2>2
  <2>4. /\ Sound(k) /\ r = k.client /\ k.tx = Idle
        /\ <<k.eng[r].pe, e, t>> \in Ways(r) /\ k.eng[r].pe # t
    BY <1>3, <2>1, <2>2
  <2> HIDE DEF t
  <2>5. t = "vcs_ps_rdy_sent" => HandedTo(k, h, "source")
    BY ONLY <1>2, <2>2, <2>3, <2>4, r \in Role, HandedOver
  <2> QED BY <2>2, <2>5, HushedOn DEF t
<1> QED BY <1>4, <1>5, <1>6, <1>7, <1>8 DEF h, s

-----------------------------------------------------------------------------
(***************************************************************************)
(* Under the contract: a message of the partner is heard.                  *)
(***************************************************************************)
\* A swap asked for in Ready is agreed to or refused.
LEMMA ReadyAnswers ==
  ASSUME NEW g, Sound(g), NEW r \in Role, r = g.client, Says(g, "ready", Idle),
         NEW e \in Swapped, NEW x \in Terms \cup {None}, NEW yes
  PROVE  LET h == Handle(g, r, e, x, yes)
         IN /\ Fit(h)
            /\ \/ ComesTo(g, h, "ready", Idle)
               \/ ComesTo(g, h, Accepting(e), Accept)
               \/ \E t \in {"reject", "not_supported"} :
                    ComesTo(g, h, "send_not_supported", Control(t))
<1> DEFINE h == Handle(g, r, e, x, yes)
           k == Step(g, r, e, x, yes)
<1>1. Typed(g) /\ g.eng[r].pe = "ready" /\ g.tx = Idle
  BY DEF Sound, InOrder, Engines, Says, En
<1>2. CASE k = g
  <2>1. Emits(g, g, r, yes) = "none"
    BY DEF Emits
  <2>2. Process(g, r, e, x, yes) = g
    BY <1>1, <1>2, <2>1, NoneMovesNothing DEF Process, Follow
  <2>3. Directed(g, g) = g
    BY Undirected
  <2>4. h = g
    BY <2>2, <2>3 DEF Handle
  <2> HIDE DEF h
  <2>5. Fit(h) /\ ComesTo(g, h, "ready", Idle)
    BY <2>4 DEF Sound, ComesTo, Bound, Says
  <2> QED BY <2>5 DEF h
<1>3. CASE k # g
  <2>1. PICK row \in Table(r) :
          /\ row[1] = "ready" /\ row[2] = e
          /\ k = Enter(g, r, Context(r, g.eng[r], row[5], e, x), e)
    BY <1>1, <1>3, StepTakesRow
  <2> DEFINE t == row[5]
  <2>2. t \in {Accepting(e), "send_not_supported"}
    BY <2>1, SinkIgnoring, SourceIgnoring DEF Answering, Table
  <2> HIDE DEF t
  <2>3. Accepting(e) \in {"accept_dr_swap", "accept_pr_swap", "vcs_accept_swap"}
    BY DEF Accepting, Swapped
  <2>4. t \in States(r) /\ t \in Harmless /\ t \notin Wordy /\ t \notin Directing(r)
    BY <2>2, <2>3 DEF States, SinkStates, SourceStates, SharedStates, DrsStates, VcsStates,
       Harmless, Wordy, Gates, Directing
  <2>5. Reached(g, k, r, t, e, x)
    BY <1>1, <2>1, <2>4, EnterReaches DEF t
  <2> HIDE DEF k
  <2>6. Typed(k) /\ k.eng[r].pe = t /\ \A q \in Role \ {r} : k.eng[q] = g.eng[q]
    BY <2>5 DEF Reached
  <2>7. Emits(g, k, r, yes) = "none"
    BY <2>4, <2>6 DEF Emits, Wordy
  <2>8. Process(g, r, e, x, yes) = k
    BY <2>6, <2>7, NoneMovesNothing DEF Process, Follow, k
  <2>9. Directed(g, k) = k
    BY ONLY <2>4, <2>6, r \in Role, Undirected
  <2>10. h = k
    BY <2>8, <2>9 DEF Handle
  <2> HIDE DEF h
  <2>11. ComesTo(g, k, t, k.tx) /\ Fit(k)
    <3>1. Fit(g)
      BY DEF Sound
    <3> QED BY <2>4, <2>5, <3>1, ReachedComes, ReachedFit
  <2>12. /\ t \in {"accept_dr_swap", "accept_pr_swap", "vcs_accept_swap"} => k.tx = Accept
         /\ t = "send_not_supported" => k.tx = Control(Refusal(e))
    <3>1. Sent(k, r, t, e)
      BY <1>1, <2>5, ReachedSends
    <3> QED BY <3>1 DEF Sent
  <2>13. Refusal(e) \in {"reject", "not_supported"}
    BY DEF Refusal
  <2>14. /\ Fit(h)
         /\ \/ ComesTo(g, h, Accepting(e), Accept)
            \/ \E u \in {"reject", "not_supported"} :
                 ComesTo(g, h, "send_not_supported", Control(u))
    BY <2>2, <2>3, <2>10, <2>11, <2>12, <2>13
  <2> QED BY <2>14 DEF h
<1> QED BY <1>2, <1>3

\* The event which a partner's question is.
Asked(type) ==
  CASE type = "dr_swap" -> "dr_swap_received"
    [] type = "pr_swap" -> "pr_swap_received"
    [] type = "vconn_swap" -> "vconn_swap_received"

\* What becomes of it: it is ignored, agreed to or refused.
AnswersTo(g, h, type) ==
  /\ Fit(h)
  /\ \/ ComesTo(g, h, En(g).pe, Idle)
     \/ /\ En(g).pe = "ready"
        /\ \/ ComesTo(g, h, Accepting(Asked(type)), Accept)
           \/ \E t \in {"reject", "not_supported"} :
                ComesTo(g, h, "send_not_supported", Control(t))

\* The partner's question.
LEMMA ContractAsked ==
  ASSUME NEW g, Sound(g), NEW r \in Role, r = g.client, g.tx # HardReset,
         Free(g) \/ En(g).pe = "vcs_send_ps_rdy",
         NEW m, m.type \in {"dr_swap", "pr_swap", "vconn_swap"}, NEW x \in Terms, NEW yes
  PROVE  AnswersTo(g, Received(g, m, x, yes), m.type)
<1> DEFINE h == Received(g, m, x, yes)
           s == g.eng[r].pe
           e == Asked(m.type)
<1>1. e \in Swapped /\ EventOf(g, r, m.type) = e
  BY DEF Asked, Swapped, EventOf
<1>2. PICK k : Hushed(g, k) /\ h = Handle(k, r, e, x, yes)
  <2>1. m.type # "bist_test_data" /\ m.type # "request"
    OBVIOUS
  <2> HIDE DEF e
  <2> QED BY <1>1, <2>1, ReceivedHandled
<1> HIDE DEF h
<1>3. /\ Sound(k) /\ Typed(k) /\ k.client = r /\ k.eng[r].pe = s /\ k.tx = Idle /\ En(k).pe = s
      /\ En(g).pe = s
  BY <1>2 DEF Hushed, En
<1>4. x \in Terms \cup {None}
  OBVIOUS
<1>5. CASE s = "ready"
  <2>1. Says(k, "ready", Idle)
    BY <1>3, <1>5 DEF Says
  <2> HIDE DEF e
  <2>2. /\ Fit(h)
        /\ \/ ComesTo(k, h, "ready", Idle)
           \/ ComesTo(k, h, Accepting(e), Accept)
           \/ \E t \in {"reject", "not_supported"} : ComesTo(k, h, "send_not_supported", Control(t))
    BY <1>1, <1>2, <1>3, <1>4, <2>1, ReadyAnswers
  <2>3. \A u, t : ComesTo(k, h, u, t) => ComesTo(g, h, u, t)
    BY <1>2, HushedOn
  <2> QED BY <1>3, <1>5, <2>2, <2>3 DEF AnswersTo, e, h
<1>6. CASE s # "ready"
  <2>1. s \in Asks \cup {"sink_tx_wait_dr", "sink_tx_wait_pr", "vcs_send_ps_rdy"}
    BY <1>3, <1>6 DEF Free, Quiet
  <2>2. s \in States(r)
    BY <1>3 DEF Typed
  <2>3. r = "sink" => s \notin {"sink_tx_wait_dr", "sink_tx_wait_pr"}
    BY <2>2 DEF States, SinkStates, SharedStates, DrsStates, VcsStates
  <2> HIDE DEF e, s
  <2>4. <<s, e>> \in Ignored(r)
    BY <1>1, <2>1, <2>3 DEF Ignored, Role
  <2>5. h = k
    BY <1>2, <1>3, <2>4, IgnoredHandled
  <2>6. ComesTo(g, k, s, Idle) /\ Fit(k)
    BY <1>2, <1>3, HushedComes
  <2> QED BY <1>3, <2>5, <2>6 DEF AnswersTo, h
<1> QED BY <1>5, <1>6

\* The partner's answer, or its PS_RDY.
LEMMA ContractAnswered ==
  ASSUME NEW g, Sound(g), NEW r \in Role, r = g.client, g.tx # HardReset,
         NEW m, NEW x \in Terms, NEW yes
  PROVE  LET h == Received(g, m, x, yes)
             s == g.eng[r].pe
         IN /\ s \in Asks /\ m.type = "reject" => ComesTo(g, h, "ready", Idle) /\ Fit(h)
            /\ s \in Asks /\ m.type = "not_supported" => ComesTo(g, h, s, Idle) /\ Fit(h)
            /\ s = "vcs_send_ps_rdy" /\ m.type = "ps_rdy" => ComesTo(g, h, s, Idle) /\ Fit(h)
            /\ s = "send_dr_swap" /\ m.type = "accept"
               /\ g.conn \in {"attached_snk", "attached_src"} => FlipsTo(g, h)
            /\ s = "vcs_send_swap" /\ m.type = "accept" /\ g.vconn \in {"off", "source"} =>
                 HandsTo(g, h)
            /\ s = "vcs_active" /\ m.type = "ps_rdy" /\ g.vconn = "wait" => HandedTo(g, h, "off")
<1> DEFINE h == Received(g, m, x, yes)
           s == g.eng[r].pe
           e == EventOf(g, r, m.type)
<1>1. ASSUME m.type \in {"accept", "reject", "ps_rdy", "not_supported"}
      PROVE  /\ e = IF m.type = "not_supported" THEN "unsupported" ELSE m.type
             /\ \E k : Hushed(g, k) /\ h = Handle(k, r, e, x, yes)
  <2>1. m.type # "bist_test_data" /\ m.type # "request"
    BY <1>1
  <2>2. e = IF m.type = "not_supported" THEN "unsupported" ELSE m.type
    BY <1>1 DEF EventOf
  <2> HIDE DEF e
  <2>3. \E k : Hushed(g, k) /\ h = Handle(k, r, e, x, yes)
    BY <2>1, ReceivedHandled DEF e
  <2> QED BY <2>2, <2>3
<1> HIDE DEF h, e
<1>2. x \in Terms \cup {None} /\ En(g).pe = s
  BY DEF En
<1>3. ASSUME NEW k, Hushed(g, k)
      PROVE  /\ Sound(k) /\ Typed(k) /\ r = k.client /\ k.eng[r].pe = s /\ k.tx = Idle
             /\ k.vconn = g.vconn /\ k.conn = g.conn
  BY <1>3 DEF Hushed
<1> HIDE DEF s
<1>4. ASSUME \/ s \in Asks /\ m.type = "not_supported"
             \/ s = "vcs_send_ps_rdy" /\ m.type = "ps_rdy"
      PROVE  ComesTo(g, h, s, Idle) /\ Fit(h)
  <2>1. PICK k : Hushed(g, k) /\ h = Handle(k, r, e, x, yes)
    BY <1>1, <1>4
  <2>2. <<s, e>> \in Ignored(r)
    BY <1>1, <1>4 DEF Ignored, Asks
  <2>3. Typed(k) /\ <<k.eng[r].pe, e>> \in Ignored(r)
    BY <1>3, <2>1, <2>2
  <2>4. h = k
    BY <2>1, <2>3, IgnoredHandled
  <2> QED BY <1>2, <2>1, <2>4, HushedComes
<1>5. ASSUME s \in Asks, m.type = "reject" PROVE ComesTo(g, h, "ready", Idle) /\ Fit(h)
  <2> DEFINE t == "ready"
  <2>1. PICK k : Hushed(g, k) /\ h = Handle(k, r, e, x, yes)
    BY <1>1, <1>5
  <2>2. <<s, e, t>> \in Ways(r)
    BY <1>1, <1>5 DEF Ways, SharedWays, Asks
  <2>3. t \in States(r) /\ t \in Harmless /\ t \notin Loud(r) /\ t # "hard_reset"
    BY DEF States, SinkStates, SourceStates, SharedStates, Harmless, Loud, SharedSends
  <2> HIDE DEF t
  <2>4. Sound(k) /\ r = k.client /\ k.tx = Idle /\ <<k.eng[r].pe, e, t>> \in Ways(r)
    BY <1>3, <2>1, <2>2
  <2>5. ComesTo(k, h, t, h.tx) /\ Fit(h) /\ Sent(h, r, t, e)
    BY ONLY <1>2, <2>1, <2>3, <2>4, r \in Role, Converse
  <2>6. h.tx = Idle
    BY <2>3, <2>5 DEF Sent
  <2>7. ComesTo(g, h, t, h.tx)
    BY <2>1, <2>5, HushedOn
  <2> QED BY <2>5, <2>6, <2>7 DEF t
<1>6. ASSUME s = "send_dr_swap", m.type = "accept", g.conn \in {"attached_snk", "attached_src"}
      PROVE  FlipsTo(g, h)
  <2>1. PICK k : Hushed(g, k) /\ h = Handle(k, r, e, x, yes)
    BY <1>1, <1>6
  <2>2. <<s, e, "dr_swap_change">> \in Ways(r) /\ s # "dr_swap_change"
    BY <1>1, <1>6 DEF Ways, SharedWays
  <2>3. /\ Sound(k) /\ r = k.client /\ k.tx = Idle /\ k.conn \in {"attached_snk", "attached_src"}
        /\ <<k.eng[r].pe, e, "dr_swap_change">> \in Ways(r) /\ k.eng[r].pe # "dr_swap_change"
    BY <1>3, <1>6, <2>1, <2>2
  <2>4. FlipsTo(k, h)
    BY ONLY <1>2, <2>1, <2>3, r \in Role, Flips
  <2> QED BY <2>1, <2>4, HushedOn
<1>7. ASSUME s = "vcs_send_swap", m.type = "accept", g.vconn \in {"off", "source"}
      PROVE  HandsTo(g, h)
  <2>1. PICK k : Hushed(g, k) /\ h = Handle(k, r, e, x, yes)
    BY <1>1, <1>7
  <2>2. <<s, e, "vcs_active">> \in Ways(r) /\ s # "vcs_active"
    BY <1>1, <1>7 DEF Ways, SharedWays
  <2>3. /\ Sound(k) /\ r = k.client /\ k.tx = Idle /\ k.vconn \in {"off", "source"}
        /\ <<k.eng[r].pe, e, "vcs_active">> \in Ways(r) /\ k.eng[r].pe # "vcs_active"
    BY <1>3, <1>7, <2>1, <2>2
  <2>4. HandsTo(k, h)
    BY ONLY <1>2, <2>1, <2>3, r \in Role, Hands
  <2> QED BY <2>1, <2>4, HushedOn
<1>8. ASSUME s = "vcs_active", m.type = "ps_rdy", g.vconn = "wait" PROVE HandedTo(g, h, "off")
  <2> DEFINE t == "vcs_partner_on"
  <2>1. PICK k : Hushed(g, k) /\ h = Handle(k, r, e, x, yes)
    BY <1>1, <1>8
  <2>2. <<s, e, t>> \in Ways(r) /\ s # t
    BY <1>1, <1>8 DEF Ways, SharedWays
  <2>3. /\ t \in {"vcs_partner_on", "vcs_ps_rdy_sent"}
        /\ t = "vcs_partner_on" => k.vconn = "wait"
        /\ t = "vcs_ps_rdy_sent" => k.vconn = "turn_on"
    BY <1>3, <1>8, <2>1
  <2>4. /\ Sound(k) /\ r = k.client /\ k.tx = Idle
        /\ <<k.eng[r].pe, e, t>> \in Ways(r) /\ k.eng[r].pe # t
    BY <1>3, <2>1, <2>2
  <2> HIDE DEF t
  <2>5. t = "vcs_partner_on" => HandedTo(k, h, "off")
    BY ONLY <1>2, <2>1, <2>3, <2>4, r \in Role, HandedOver
  <2> QED BY <2>1, <2>5, HushedOn DEF t
<1> QED BY <1>4, <1>5, <1>6, <1>7, <1>8 DEF h, s

-----------------------------------------------------------------------------
(***************************************************************************)
(* What leaves the engines and the connection where they are.              *)
(***************************************************************************)
\* The states in which the supply is on its way, or known to be off.
Moving == {"transition_supply_settle", "transition_to_default", "recover", "restore_default",
           "swap_supply_off", "swap_source_on"}

\* h is g in everything the meeting of two ports is about.
Like(g, h) ==
  /\ h.conn = g.conn /\ h.client = g.client /\ h.data = g.data
  /\ h.vconn = g.vconn /\ h.tx = g.tx /\ h.supply.out = g.supply.out
  /\ ~g.supply.pending \/ g.eng["source"].pe \in Moving => h.supply = g.supply
  /\ \A r \in Role : LET old == g.eng[r]
                         en == h.eng[r]
                     IN /\ en.pe = old.pe /\ en.explicit = old.explicit /\ en.terms = old.terms
                        /\ en.pending = old.pending /\ en.connected = old.connected
                        /\ en.attached = old.attached /\ en.deaf = old.deaf

\* So it is where the request parked is another, or what the port sees of Rp.
LEMMA ParkedLike ==
  ASSUME NEW g, Typed(g), NEW parked \in {"none", "pr_swap", "dr_swap"}, NEW ok \in BOOLEAN
  PROVE  /\ LET h == [g EXCEPT !.eng["sink"].parked = parked] IN Typed(h) /\ Like(g, h)
         /\ LET h == [g EXCEPT !.txok = ok]
            IN Typed(h) /\ Like(g, h) /\ h.eng = g.eng
<1> DEFINE en == [g.eng["sink"] EXCEPT !.parked = parked]
           h == [g EXCEPT !.eng["sink"] = en]
           k == [g EXCEPT !.txok = ok]
<1>1. g.eng["sink"] \in EngineType(SinkStates \cup SourceStates) /\ "sink" \in Role
  BY PortFields DEF Role
<1>2. /\ en \in EngineType(SinkStates \cup SourceStates)
      /\ LET old == g.eng["sink"]
         IN /\ en.pe = old.pe /\ en.explicit = old.explicit /\ en.terms = old.terms
            /\ en.pending = old.pending /\ en.connected = old.connected
            /\ en.attached = old.attached /\ en.deaf = old.deaf
  BY <1>1 DEF EngineType
<1>3. h = [g EXCEPT !.eng["sink"].parked = parked]
  BY DEF Typed
<1> HIDE DEF en
<1>4. Typed(h)
  BY <1>2 DEF Typed
<1>5. /\ h.conn = g.conn /\ h.client = g.client /\ h.data = g.data
      /\ h.vconn = g.vconn /\ h.tx = g.tx /\ h.supply = g.supply
      /\ h.eng["sink"] = en /\ h.eng["source"] = g.eng["source"]
  BY <1>1 DEF Typed, Role
<1>6. Typed(k)
  BY DEF Typed
<1>7. /\ k.conn = g.conn /\ k.client = g.client /\ k.data = g.data
      /\ k.vconn = g.vconn /\ k.tx = g.tx /\ k.supply = g.supply /\ k.eng = g.eng
  BY DEF Typed
<1> HIDE DEF h, k
<1>8. Like(g, h)
  BY <1>2, <1>5 DEF Like, Role
<1>9. Like(g, k)
  BY <1>7 DEF Like
<1> QED BY <1>3, <1>4, <1>6, <1>7, <1>8, <1>9 DEF k

\* To be like another carries on.
LEMMA LikeOn ==
  ASSUME NEW g, NEW h, NEW k, Like(g, h), Like(h, k)
  PROVE  Like(g, k)
  BY DEF Like, Role

\* A port like one that is fit is fit.
LEMMA LikeFit ==
  ASSUME NEW g, NEW h, Like(g, h), Fit(g)
  PROVE  Fit(h)
  BY DEF Like, Fit, Primed, Lit, Role

\* SinkTxOk seen where no request waits for it.
LEMMA RpLike ==
  ASSUME NEW g, Typed(g), g.eng["sink"].pe \notin Gates, NEW ok \in BOOLEAN,
         \/ ~ok \/ g.eng["sink"].parked = "none" \/ g.eng["sink"].pe # "ready"
  PROVE  LET h == sinkTxChanged(g, ok) IN Typed(h) /\ Like(g, h)
<1> DEFINE seen == [g EXCEPT !.txok = ok]
           cleared == [seen EXCEPT !.eng["sink"].parked = "none"]
<1>1. Typed(seen) /\ Like(g, seen) /\ seen.eng = g.eng
  BY ParkedLike
<1>2. sinkTxChanged(g, ok) = IF ok THEN firePending(fireGated(seen)) ELSE seen
  BY DEF sinkTxChanged
<1> HIDE DEF seen
<1>3. Typed(cleared) /\ Like(seen, cleared)
  BY <1>1, ParkedLike
<1>4. fireGated(seen) = seen
  BY <1>1 DEF fireGated
<1>5. ok => firePending(seen) = cleared
  BY <1>1 DEF firePending
<1> HIDE DEF cleared
<1>6. Like(g, cleared)
  BY <1>1, <1>3, LikeOn
<1> QED BY <1>1, <1>2, <1>3, <1>4, <1>5, <1>6

-----------------------------------------------------------------------------
(***************************************************************************)
(* Under the contract: the port's own requests, and its timers.            *)
(***************************************************************************)
\* The port is free afterwards.
FreeTo(g, h) ==
  Bound(g, h) /\ h.data = g.data /\ h.vconn = g.vconn /\ Free(h) /\ Fit(h)

\* An engine which rests in Ready, or waits for its turn or for the answer, goes
\* on to the next of these states.
LEMMA FreeMoves ==
  ASSUME NEW g, Typed(g), Fit(g), NEW r \in Role, r = g.client, g.tx = Idle, NEW e, NEW t,
         \/ t \in Asks \cup {"ready"}
         \/ r = "source" /\ t \in {"sink_tx_wait_dr", "sink_tx_wait_pr"},
         <<g.eng[r].pe, e, t>> \in Ways(r), NEW x \in Terms \cup {None}, NEW yes
  PROVE  LET h == Process(g, r, e, x, yes)
             k == Handle(g, r, e, x, yes)
         IN /\ FreeTo(g, h) /\ FreeTo(g, k) /\ Typed(h)
            /\ h.eng[r].pe = t /\ \A q \in Role \ {r} : h.eng[q] = g.eng[q]
<1> DEFINE h == Process(g, r, e, x, yes)
           k == Handle(g, r, e, x, yes)
<1>1. t \in States(r) /\ t \in Harmless /\ t \notin Wordy \cup Directing(r)
  BY DEF Asks, States, SinkStates, SourceStates, SharedStates, DrsStates, VcsStates, Harmless,
     Wordy, Gates, Directing
<1>2. Reached(g, h, r, t, e, x)
  BY <1>1, ProcessReaches
<1>3. Reached(g, k, r, t, e, x)
  BY <1>1, HandleReaches
<1> HIDE DEF h, k
<1>4. ASSUME NEW f, Reached(g, f, r, t, e, x) PROVE FreeTo(g, f)
  <2>1. ComesTo(g, f, t, f.tx) /\ Fit(f) /\ Sent(f, r, t, e)
    BY <1>1, <1>4, ReachedComes, ReachedFit, ReachedSends
  <2>2. t \notin Asks => t \notin Loud(r) /\ t # "hard_reset"
    BY DEF Loud, SharedSends, Asks
  <2>3. Free(f)
    BY <2>1, <2>2 DEF Free, Quiet, ComesTo, Says, Sent
  <2> QED BY <2>1, <2>3 DEF FreeTo, ComesTo
<1>5. Typed(h) /\ h.eng[r].pe = t /\ \A q \in Role \ {r} : h.eng[q] = g.eng[q]
  BY <1>2 DEF Reached
<1> QED BY <1>2, <1>3, <1>4, <1>5 DEF h, k

-----------------------------------------------------------------------------
(***************************************************************************)
(* Under the contract: the pair.                                           *)
(***************************************************************************)
\* The contract, whoever of the two sources; and what goes on under it.
Agreed(g, h) == Contracted(g, h) \/ Contracted(h, g)
Dealing(g, h, x, y) == Agreed(g, h) /\ (Conversing(g, h, x, y) \/ Conversing(h, g, y, x))

\* The meeting, from the side of either.
Pairs(g, h, x, y) == Meeting(g, h, x, y) \/ Meeting(h, g, y, x)

\* To meet is to meet from either side.
LEMMA EitherSide ==
  ASSUME NEW g, NEW h, NEW x, NEW y
  PROVE  /\ Facing(g, h) => Facing(h, g)
         /\ Agreed(g, h) => Agreed(h, g)
         /\ Dealing(g, h, x, y) => Dealing(h, g, y, x) /\ Pairs(g, h, x, y)
         /\ Pairs(g, h, x, y) => Pairs(h, g, y, x)
<1>1. Facing(g, h) => Facing(h, g)
  BY DEF Facing, Cable
<1>2. Agreed(g, h) => Agreed(h, g)
  BY DEF Agreed
<1>3. Dealing(g, h, x, y) => Dealing(h, g, y, x)
  BY <1>2 DEF Dealing
<1>4. Dealing(g, h, x, y) => Pairs(g, h, x, y)
  BY DEF Dealing, Agreed, Pairs, Meeting
<1>5. Pairs(g, h, x, y) => Pairs(h, g, y, x)
  BY DEF Pairs
<1> QED BY <1>1, <1>2, <1>3, <1>4, <1>5

\* Who is live under the contract.
LEMMA Dealers ==
  ASSUME NEW g, Sound(g), NEW h, Agreed(g, h)
  PROVE  /\ g.client \in Role /\ g.conn \in {"attached_snk", "attached_src"}
         /\ Contracted(g, h) => g.client = "source"
         /\ Contracted(h, g) => g.client = "sink"
<1>1. InOrder(g)
  BY DEF Sound
<1>2. CASE Contracted(g, h)
  BY <1>1, <1>2, Clients DEF Contracted, Src, Snk, Role
<1>3. CASE Contracted(h, g)
  BY <1>1, <1>3, Clients DEF Contracted, Src, Snk, Role
<1> QED BY <1>2, <1>3 DEF Agreed

\* The contract goes with either port, whoever sources.
LEMMA AgreedKept ==
  ASSUME NEW g, NEW h, NEW k, Agreed(g, h), Bound(g, k)
  PROVE  Agreed(k, h)
  BY ContractKept DEF Agreed

\* A port free for its partner stays in the conversation as long as it is.
LEMMA FreeStays ==
  ASSUME NEW g, NEW h, NEW k, NEW x, NEW y, NEW z, Free(g), FreeTo(g, k), Dealing(g, h, x, y),
         Answers(h, g, y, x) => En(k).pe = En(g).pe /\ k.tx = Idle
  PROVE  Dealing(k, h, z, y)
<1>1. Agreed(k, h)
  BY AgreedKept DEF Dealing, FreeTo
<1>2. k.data = g.data /\ k.vconn = g.vconn /\ Free(k)
  BY DEF FreeTo
<1>3. /\ Facing(g, h) => Facing(k, h) /\ Facing(h, k)
      /\ Facing(h, g) => Facing(k, h) /\ Facing(h, k)
      /\ Cable(g, h) => Cable(k, h)
      /\ Cable(h, g) => Cable(h, k)
  BY <1>2, EitherSide DEF Facing, Cable
<1>4. En(g).pe \in Asks \cup {"ready", "sink_tx_wait_dr", "sink_tx_wait_pr"}
  BY DEF Free, Quiet
<1>5. CASE Conversing(g, h, x, y)
  <2>1. ~Answers(g, h, x, y) /\ ~Concludes(g, x) /\ ~Flipping(g, x)
    BY <1>4 DEF Answers, Concludes, Flipping, Refusing, Says, Asks
  <2>2. ~HandsOver(g, h, x, y)
    BY <1>4 DEF HandsOver, Says, Quiet, SendsPsRdy, Asks
  <2>3. ASSUME TakeOver(g, h, x, y) PROVE TakeOver(k, h, z, y)
    BY <1>2, <1>4, <2>3 DEF TakeOver, Says, SendsPsRdy, Asks
  <2> QED BY <1>1, <1>2, <1>3, <1>5, <2>1, <2>2, <2>3 DEF Conversing, Dealing
<1>6. CASE Conversing(h, g, y, x)
  <2>1. ASSUME Answers(h, g, y, x) PROVE Answers(h, k, y, z)
    <3>1. En(k).pe = En(g).pe /\ k.tx = Idle
      BY <2>1
    <3> QED BY <1>2, <2>1, <3>1 DEF Answers
  <2>2. ASSUME HandsOver(h, g, y, x) PROVE HandsOver(h, k, y, z)
    BY <1>2, <1>4, <2>2 DEF HandsOver, Says, Quiet, SendsPsRdy, Asks
  <2>3. ~TakeOver(h, g, y, x)
    BY <1>4 DEF TakeOver, Says, SendsPsRdy, Asks
  <2>4. Conversing(h, k, y, z)
    BY <1>2, <1>3, <1>6, <2>1, <2>2, <2>3 DEF Conversing
  <2> QED BY <1>1, <2>4 DEF Dealing
<1> QED BY <1>5, <1>6 DEF Dealing

\* What a port transmits which is free for its partner is its question.
LEMMA FreeAsks ==
  ASSUME NEW g, Free(g), g.tx # Idle
  PROVE  En(g).pe \in Asks /\ g.tx = Question(En(g).pe)
  BY DEF Free, Quiet

\* The question sent, its answer is awaited.
LEMMA FreeConfirmed ==
  ASSUME NEW g, Sound(g), g.client \in Role, Free(g), g.tx # Idle
  PROVE  LET k == TxDone(g) IN FreeTo(g, k) /\ En(k).pe = En(g).pe /\ k.tx = Idle
<1> DEFINE k == TxDone(g)
<1>1. En(g).pe \in Asks
  BY FreeAsks
<1>2. ComesTo(g, k, En(g).pe, Idle) /\ Fit(k)
  BY <1>1, ContractConfirmed DEF En
<1> HIDE DEF k
<1>3. Free(k)
  BY <1>1, <1>2 DEF Free, ComesTo, Says
<1>4. FreeTo(g, k) /\ En(k).pe = En(g).pe /\ k.tx = Idle
  BY <1>2, <1>3 DEF FreeTo, ComesTo, Says
<1> QED BY <1>4 DEF k

\* The confirmation of what the port transmits, it being the one which answers.
LEMMA AnswererConfirmed ==
  ASSUME NEW g, Sound(g), NEW h, NEW x, NEW y, NEW z, Agreed(g, h), Conversing(g, h, x, y),
         x, g.tx # Idle, ~Free(g), z => TxDone(g).tx = g.tx
  PROVE  Fit(TxDone(g)) /\ Dealing(TxDone(g), h, z, y)
<1> DEFINE k == TxDone(g)
           r == g.client
<1>1. r \in Role /\ g.conn \in {"attached_snk", "attached_src"}
  BY Dealers
<1>2. /\ En(g).pe = "send_not_supported" \/ (r = "source" /\ En(g).pe = "transition_supply_ps_rdy") =>
           ComesTo(g, k, "ready", Idle) /\ Fit(k)
      /\ En(g).pe = "accept_dr_swap" => FlipsTo(g, k)
      /\ En(g).pe = "vcs_accept_swap" /\ g.vconn \in {"off", "source"} => HandsTo(g, k)
      /\ En(g).pe = "vcs_send_ps_rdy" /\ g.vconn = "turn_on" => HandedTo(g, k, "source")
  BY <1>1, ContractConfirmed DEF En
<1>0. z => k.tx = g.tx
  OBVIOUS
<1> SUFFICES Fit(k) /\ Dealing(k, h, z, y)
  OBVIOUS
<1> HIDE DEF k
<1>3. \A s : ComesTo(g, k, s, Idle) => Bound(g, k) /\ k.data = g.data /\ k.vconn = g.vconn
  BY DEF ComesTo
<1>4. ASSUME Bound(g, k) PROVE Agreed(k, h)
  BY <1>4, AgreedKept
<1>5. ASSUME Quiet(k, {"ready"}) PROVE Free(k)
  BY <1>5 DEF Free, Quiet
<1>6. g.data \in DataRole
  BY PortFields DEF Sound, InOrder, Engines
<1>7. CASE Facing(g, h) /\ Concludes(g, x) /\ Free(h)
  <2>1. r = "sink" => En(g).pe # "transition_supply_ps_rdy"
    <3>1. Typed(g)
      BY DEF Sound, InOrder, Engines
    <3> QED BY <1>1, <3>1 DEF Typed, En, States, SinkStates, SharedStates, DrsStates, VcsStates
  <2>2. ComesTo(g, k, "ready", Idle) /\ Fit(k)
    BY <1>1, <1>2, <1>7, <2>1 DEF Concludes, Refusing, Says, Role
  <2>3. Facing(k, h) /\ Free(k) /\ Agreed(k, h)
    BY <1>3, <1>4, <1>5, <1>7, <2>2 DEF Facing, Cable, ComesTo, Says, Quiet
  <2> QED BY <1>7, <2>2, <2>3 DEF Dealing, Conversing
<1>8. CASE Cable(g, h) /\ Flipping(g, x) /\ Free(h) /\ g.data = h.data
  <2>1. FlipsTo(g, k)
    BY <1>2, <1>8 DEF Flipping, Says
  <2>2. k.data # g.data /\ Cable(k, h) /\ Free(k) /\ Agreed(k, h)
    BY <1>4, <1>5, <1>6, <1>8, <2>1 DEF FlipsTo, Cable, Says, Quiet, Other, DataRole
  <2> QED BY <1>8, <2>1, <2>2 DEF Dealing, Conversing, Facing, FlipsTo
<1>9. CASE g.data # h.data /\ HandsOver(g, h, x, y)
  <2>1. CASE /\ Says(g, "vcs_accept_swap", Accept) /\ x
             /\ Quiet(h, {"vcs_active"}) /\ h.vconn = "wait" /\ g.vconn = "off" /\ Marked
    <3>1. HandsTo(g, k)
      BY <1>2, <2>1 DEF Says
    <3>2. SendsPsRdy(k, PsRdy) /\ Bound(g, k) /\ k.data = g.data /\ Fit(k)
      BY <2>1, <3>1 DEF HandsTo
    <3>3. ~z
      BY <1>0, <2>1, <3>2 DEF SendsPsRdy, Says, Accept, PsRdy, Control
    <3> QED BY <1>4, <1>9, <2>1, <3>2, <3>3 DEF Dealing, Conversing, HandsOver
  <2>2. CASE /\ Says(g, "vcs_accept_swap", Accept) /\ x
             /\ SendsPsRdy(h, PsRdy) /\ ~y /\ g.vconn = IF Marked THEN "source" ELSE "off"
    <3>1. HandsTo(g, k)
      BY <1>2, <2>2 DEF Says
    <3>2. CASE Marked
      <4>1. Says(k, "vcs_active", Idle) /\ k.vconn = "wait"
            /\ Bound(g, k) /\ k.data = g.data /\ Fit(k)
        BY <2>2, <3>1, <3>2 DEF HandsTo
      <4>2. HandsOver(k, h, z, y)
        BY <2>2, <3>2, <4>1 DEF HandsOver, Says, Quiet
      <4> QED BY <1>4, <1>9, <4>1, <4>2 DEF Dealing, Conversing
    <3>3. CASE ~Marked
      <4>1. SendsPsRdy(k, PsRdy) /\ Bound(g, k) /\ k.data = g.data /\ Fit(k)
        BY <2>2, <3>1, <3>3 DEF HandsTo
      <4>2. ~z
        BY <1>0, <2>2, <4>1 DEF SendsPsRdy, Says, Accept, PsRdy, Control
      <4>3. TakeOver(k, h, z, y)
        BY <2>2, <3>3, <4>1, <4>2 DEF TakeOver
      <4> QED BY <1>4, <1>9, <4>1, <4>3 DEF Dealing, Conversing
    <3> QED BY <3>2, <3>3
  <2>3. CASE Marked /\ SendsPsRdy(g, PsRdy) /\ x /\ Free(h) /\ h.vconn = "off"
    <3>1. HandedTo(g, k, "source")
      BY <1>2, <2>3 DEF SendsPsRdy, Says
    <3>2. Facing(k, h) /\ Free(k) /\ Agreed(k, h) /\ Fit(k)
      BY <1>4, <1>5, <1>9, <2>3, <3>1 DEF HandedTo, Facing, Cable, Says, Quiet
    <3> QED BY <2>3, <3>2 DEF Dealing, Conversing
  <2> QED BY <1>9, <2>1, <2>2, <2>3 DEF HandsOver, Quiet
<1>10. CASE g.data # h.data /\ TakeOver(g, h, x, y)
  <2>1. SendsPsRdy(h, Idle) /\ SendsPsRdy(g, PsRdy) /\ ~Marked
    BY <1>10 DEF TakeOver
  <2>2. HandedTo(g, k, "source")
    BY <1>2, <2>1 DEF SendsPsRdy, Says
  <2>3. TakeOver(k, h, z, y) /\ k.data = g.data /\ Fit(k) /\ Agreed(k, h)
    BY <1>4, <1>5, <2>1, <2>2 DEF HandedTo, TakeOver, Says, Quiet
  <2> QED BY <1>10, <2>3 DEF Dealing, Conversing
<1> QED BY <1>7, <1>8, <1>9, <1>10 DEF Conversing, Answers

\* A transmission confirmed under the contract.
LEMMA DealingConfirmed ==
  ASSUME NEW g, Sound(g), NEW h, NEW x, NEW y, NEW z, Dealing(g, h, x, y),
         x, g.tx # Idle, z => TxDone(g).tx = g.tx
  PROVE  Fit(TxDone(g)) /\ Dealing(TxDone(g), h, z, y)
<1> DEFINE k == TxDone(g)
<1>1. g.client \in Role
  BY Dealers DEF Dealing
<1>2. CASE Free(g)
  <2>1. FreeTo(g, k) /\ En(k).pe = En(g).pe /\ k.tx = Idle
    BY <1>1, <1>2, FreeConfirmed
  <2> HIDE DEF k
  <2>2. Dealing(k, h, z, y)
    BY <1>2, <2>1, FreeStays
  <2> QED BY <2>1, <2>2 DEF FreeTo, k
<1>3. CASE ~Free(g)
  <2>1. ~Conversing(h, g, y, x)
    BY <1>3 DEF Conversing, Answers, HandsOver, TakeOver, SendsPsRdy, Says, Quiet
  <2> QED BY <1>3, <2>1, AnswererConfirmed DEF Dealing
<1> QED BY <1>2, <1>3

\* What can be on its way when neither has heard what the other transmits.
LEMMA DealingSays ==
  ASSUME NEW g, NEW h, NEW x, NEW y, Dealing(g, h, x, y), ~x, ~y, g.tx # Idle
  PROVE  \/ Free(g) /\ Facing(g, h) /\ Free(h)
         \/ /\ Free(g) /\ g.data # h.data /\ ~Marked
            /\ SendsPsRdy(h, Idle) /\ g.vconn = "source"
         \/ Facing(g, h) /\ Answers(g, h, x, y) /\ h.tx = Idle
         \/ /\ g.data # h.data /\ SendsPsRdy(g, PsRdy)
            /\ \/ Marked /\ Quiet(h, {"vcs_active"}) /\ h.vconn = "wait"
               \/ ~Marked /\ SendsPsRdy(h, PsRdy)
<1>1. CASE Conversing(g, h, x, y)
  <2>1. ~Concludes(g, x) /\ ~Flipping(g, x) /\ ~HandsOver(g, h, x, y)
    BY DEF Concludes, Flipping, HandsOver, Quiet
  <2>2. Answers(g, h, x, y) => h.tx = Idle
    BY DEF Answers
  <2>3. ASSUME TakeOver(g, h, x, y)
        PROVE  ~Marked /\ \/ SendsPsRdy(g, PsRdy) /\ SendsPsRdy(h, PsRdy)
                          \/ SendsPsRdy(h, Idle) /\ Free(g) /\ g.vconn = "source"
    BY <2>3 DEF TakeOver
  <2> QED BY <1>1, <2>1, <2>2, <2>3 DEF Conversing
<1>2. CASE Conversing(h, g, y, x)
  <2>1. ~Answers(h, g, y, x) /\ ~Concludes(h, y) /\ ~Flipping(h, y)
    BY DEF Answers, Concludes, Flipping
  <2>2. ASSUME HandsOver(h, g, y, x)
        PROVE  Marked /\ Quiet(h, {"vcs_active"}) /\ h.vconn = "wait" /\ SendsPsRdy(g, PsRdy)
    BY <2>2 DEF HandsOver
  <2>3. ASSUME TakeOver(h, g, y, x)
        PROVE  ~Marked /\ SendsPsRdy(g, PsRdy) /\ SendsPsRdy(h, PsRdy)
    BY <2>3 DEF TakeOver, SendsPsRdy, Says
  <2>4. Facing(h, g) => Facing(g, h)
    BY EitherSide
  <2> QED BY <1>2, <2>1, <2>2, <2>3, <2>4 DEF Conversing
<1> QED BY <1>1, <1>2 DEF Dealing

\* A question, what it is for the partner and what agreeing to it is.
LEMMA Questions3 ==
  ASSUME NEW s \in Asks
  PROVE  LET m == Question(s)
             a == Accepting(Asked(m.type))
         IN /\ m.type \in {"dr_swap", "pr_swap", "vconn_swap"} /\ m # HardReset /\ m # Idle
            /\ s = "send_dr_swap" => a = "accept_dr_swap"
            /\ s = "send_pr_swap" => a = "accept_pr_swap"
            /\ s = "vcs_send_swap" => a = "vcs_accept_swap"
<1>1. CASE s = "send_dr_swap"
  BY <1>1 DEF Question, Control, SharedSends, Accepting, Asked, HardReset, Idle
<1>2. CASE s = "send_pr_swap"
  BY <1>2 DEF Question, Control, SharedSends, Accepting, Asked, HardReset, Idle
<1>3. CASE s = "vcs_send_swap"
  BY <1>3 DEF Question, Control, SharedSends, Accepting, Asked, HardReset, Idle
<1> QED BY <1>1, <1>2, <1>3 DEF Asks

\* A question is heard under the contract.
LEMMA QuestionHeard ==
  ASSUME NEW g, NEW h, Sound(h), NEW x, NEW y, Dealing(g, h, x, y),
         Free(g), g.tx # Idle, h.tx # HardReset,
         \/ Facing(g, h) /\ Free(h)
         \/ g.data # h.data /\ ~Marked /\ SendsPsRdy(h, Idle) /\ g.vconn = "source",
         NEW v \in Terms, NEW yes, NEW one, one, NEW no, ~no
  PROVE  Fit(Received(h, g.tx, v, yes)) /\ Dealing(g, Received(h, g.tx, v, yes), one, no)
<1> DEFINE k == Received(h, g.tx, v, yes)
           s == En(g).pe
           a == Accepting(Asked(g.tx.type))
<1>1. s \in Asks /\ g.tx = Question(s)
  BY FreeAsks
<1>2. /\ g.tx.type \in {"dr_swap", "pr_swap", "vconn_swap"}
      /\ s = "send_dr_swap" => a = "accept_dr_swap"
      /\ s = "send_pr_swap" => a = "accept_pr_swap"
      /\ s = "vcs_send_swap" => a = "vcs_accept_swap"
  BY <1>1, Questions3
<1>3. Agreed(g, h) /\ h.client \in Role /\ (Free(h) \/ En(h).pe = "vcs_send_ps_rdy")
  BY Dealers, EitherSide DEF Dealing, SendsPsRdy, Says
<1>4. AnswersTo(h, k, g.tx.type)
  <2> DEFINE m == g.tx
  <2>1. m.type \in {"dr_swap", "pr_swap", "vconn_swap"}
    BY <1>2
  <2> HIDE DEF m
  <2>2. AnswersTo(h, Received(h, m, v, yes), m.type)
    BY <1>3, <2>1, ContractAsked
  <2> QED BY <2>2 DEF m
<1> SUFFICES Fit(k) /\ Dealing(g, k, one, no)
  OBVIOUS
<1> HIDE DEF k, s, a
<1>5. Fit(k)
  BY <1>4 DEF AnswersTo
<1>6. ASSUME NEW t, NEW m, ComesTo(h, k, t, m)
      PROVE  /\ Says(k, t, m) /\ k.vconn = h.vconn /\ k.data = h.data /\ Agreed(g, k)
             /\ Facing(g, h) => Facing(g, k) /\ Facing(k, g)
  BY <1>3, <1>6, AgreedKept, EitherSide DEF ComesTo, Facing, Cable
<1>7. CASE Facing(g, h) /\ Free(h)
  <2>1. CASE ComesTo(h, k, En(h).pe, Idle)
    <3>1. Free(k)
      BY <1>6, <1>7, <2>1 DEF Free, Quiet, Says
    <3> QED BY <1>5, <1>6, <1>7, <2>1, <3>1 DEF Dealing, Conversing
  <2>2. CASE ComesTo(h, k, a, Accept)
    <3>1. Answers(k, g, no, one)
      BY <1>1, <1>2, <1>6, <2>2 DEF Answers, Asks, s
    <3> QED BY <1>5, <1>6, <1>7, <2>2, <3>1 DEF Dealing, Conversing
  <2>3. CASE \E t \in {"reject", "not_supported"} :
               ComesTo(h, k, "send_not_supported", Control(t))
    <3>1. PICK t \in {"reject", "not_supported"} :
            ComesTo(h, k, "send_not_supported", Control(t))
      BY <2>3
    <3>2. Refusing(k)
      BY <1>6, <3>1 DEF Refusing
    <3>3. Answers(k, g, no, one)
      BY <1>1, <3>2 DEF Answers, s
    <3> QED BY <1>5, <1>6, <1>7, <3>1, <3>3 DEF Dealing, Conversing
  <2> QED BY <1>4, <2>1, <2>2, <2>3 DEF AnswersTo, a
<1>8. CASE g.data # h.data /\ ~Marked /\ SendsPsRdy(h, Idle) /\ g.vconn = "source"
  <2>1. ComesTo(h, k, En(h).pe, Idle)
    BY <1>4, <1>8 DEF AnswersTo, SendsPsRdy, Says
  <2>2. SendsPsRdy(k, Idle)
    BY <1>6, <1>8, <2>1 DEF SendsPsRdy, Says
  <2>3. TakeOver(g, k, one, no)
    BY <1>8, <2>2 DEF TakeOver
  <2> QED BY <1>5, <1>6, <1>8, <2>1, <2>3 DEF Dealing, Conversing
<1> QED BY <1>7, <1>8

\* The PR_Swap agreed, the port is on its way off: the sink's connection waits.
OffTo(g, h) ==
  /\ h.client = g.client /\ h.data = g.data /\ h.vconn = g.vconn /\ h.supply = g.supply
  /\ h.eng["source"].attached = g.eng["source"].attached
  /\ Quiet(h, {"swap_transition_to_off"}) /\ Fit(h)
  /\ g.conn = "attached_snk" => h.conn = "standby_to_src"
  /\ g.conn = "attached_src" => h.conn = "attached_src"

\* So it is from a port whose transmission is over.
LEMMA HushedOff ==
  ASSUME NEW g, NEW k, Hushed(g, k), NEW h, OffTo(k, h)
  PROVE  OffTo(g, h)
  BY DEF Hushed, OffTo

\* The agreement reaches the engine.
LEMMA SwapsOff ==
  ASSUME NEW g, Sound(g), NEW r \in Role, r = g.client, g.tx = Idle, NEW e,
         g.conn = IF r = "sink" THEN "attached_snk" ELSE "attached_src",
         g.eng[r].pe # "swap_transition_to_off",
         <<g.eng[r].pe, e, "swap_transition_to_off">> \in Ways(r),
         NEW x \in Terms \cup {None}, NEW yes
  PROVE  OffTo(g, Handle(g, r, e, x, yes))
<1> DEFINE t == "swap_transition_to_off"
           p == Process(g, r, e, x, yes)
           h == Handle(g, r, e, x, yes)
<1>1. t \in States(r) /\ t \notin Wordy /\ t \notin Loud(r) /\ t # "hard_reset"
  BY DEF States, SinkStates, SourceStates, SharedStates, Wordy, Gates, Loud, SharedSends
<1>2. Typed(g) /\ Fit(g)
  BY DEF Sound, InOrder, Engines
<1>3. Reached(g, p, r, t, e, x)
  BY <1>1, <1>2, ProcessReaches
<1>4. h = Directed(g, p)
  BY DEF Handle
<1> HIDE DEF p, h
<1>5. /\ Typed(p) /\ p.conn = g.conn /\ p.client = g.client
      /\ \A q \in Role \ {r} : p.eng[q] = g.eng[q]
      /\ p.eng[r].pe = t /\ p.eng[r].attached = g.eng[r].attached
      /\ p.data = g.data /\ p.supply = g.supply /\ p.vconn = g.vconn
  BY <1>3 DEF Reached, Programmed, SupplyOff, SupplySafe5V, VconnNext, VconnHears
<1>6. p.tx = Idle
  BY <1>1, <1>3, ReachedQuiet
<1>7. Fit(p)
  BY <1>2, <1>3, ReachedFit
<1>8. CASE r = "sink"
  <2>1. h = [p EXCEPT !.conn = "standby_to_src"]
    BY <1>4, <1>5, <1>8 DEF Directed, Role
  <2>2. /\ h.conn = "standby_to_src" /\ h.client = p.client /\ h.eng = p.eng /\ h.data = p.data
        /\ h.supply = p.supply /\ h.vconn = p.vconn /\ h.tx = p.tx
    BY <1>5, <2>1 DEF Typed
  <2>3. Fit(h)
    BY <1>7, <2>2 DEF Fit, Primed, Lit
  <2> QED BY <1>5, <1>6, <1>8, <2>2, <2>3 DEF OffTo, Quiet, En, Role, h
<1>9. CASE r = "source"
  <2>1. h = p
    <3>1. t \notin Directing(r)
      BY <1>9 DEF Directing
    <3> QED BY <1>4, <1>5, <3>1, Undirected
  <2> QED BY <1>5, <1>6, <1>7, <1>9, <2>1 DEF OffTo, Quiet, En, Role, h
<1> QED BY <1>8, <1>9 DEF Role

\* The partner agrees to the PR_Swap; or its Accept has been sent.
LEMMA SwapAgreed ==
  ASSUME NEW g, Sound(g), NEW r \in Role, r = g.client,
         g.conn = IF r = "sink" THEN "attached_snk" ELSE "attached_src"
  PROVE  /\ g.eng[r].pe = "accept_pr_swap" => OffTo(g, TxDone(g))
         /\ g.eng[r].pe = "send_pr_swap" /\ g.tx # HardReset =>
              \A m, yes : \A x \in Terms : m.type = "accept" => OffTo(g, Received(g, m, x, yes))
<1> DEFINE t == "swap_transition_to_off"
<1>1. ASSUME g.eng[r].pe = "accept_pr_swap" PROVE OffTo(g, TxDone(g))
  <2> DEFINE e == "message_sent"
  <2>1. <<g.eng[r].pe, e, t>> \in Ways(r) /\ g.eng[r].pe # "send_capabilities"
    BY <1>1 DEF Ways, SharedWays
  <2> HIDE DEF e
  <2>2. PICK k, no : Hushed(g, k) /\ TxDone(g) = Handle(k, r, e, None, no)
    BY <2>1, SentHandled DEF e
  <2>3. /\ Sound(k) /\ r = k.client /\ k.tx = Idle /\ k.eng[r].pe # t
        /\ k.conn = (IF r = "sink" THEN "attached_snk" ELSE "attached_src")
        /\ <<k.eng[r].pe, e, t>> \in Ways(r) /\ None \in Terms \cup {None}
    BY <1>1, <2>1, <2>2 DEF Hushed
  <2>4. OffTo(k, Handle(k, r, e, None, no))
    BY ONLY <2>3, r \in Role, SwapsOff
  <2> QED BY <2>2, <2>4, HushedOff
<1>2. ASSUME g.eng[r].pe = "send_pr_swap", g.tx # HardReset,
             NEW m, NEW x \in Terms, NEW yes, m.type = "accept"
      PROVE  OffTo(g, Received(g, m, x, yes))
  <2> DEFINE e == EventOf(g, r, m.type)
  <2>1. e = "accept" /\ m.type # "bist_test_data" /\ m.type # "request"
    BY <1>2 DEF EventOf
  <2>2. <<g.eng[r].pe, e, t>> \in Ways(r)
    BY <1>2, <2>1 DEF Ways, SharedWays
  <2> HIDE DEF e
  <2>3. PICK k : Hushed(g, k) /\ Received(g, m, x, yes) = Handle(k, r, e, x, yes)
    BY <1>2, <2>1, ReceivedHandled DEF e
  <2>4. /\ Sound(k) /\ r = k.client /\ k.tx = Idle /\ k.eng[r].pe # t
        /\ k.conn = (IF r = "sink" THEN "attached_snk" ELSE "attached_src")
        /\ <<k.eng[r].pe, e, t>> \in Ways(r) /\ x \in Terms \cup {None}
    BY <1>2, <2>2, <2>3 DEF Hushed
  <2>5. OffTo(k, Handle(k, r, e, x, yes))
    BY ONLY <2>4, r \in Role, SwapsOff
  <2> QED BY <2>3, <2>5, HushedOff
<1> QED BY <1>1, <1>2

\* An answer is heard under the contract: agreed to, a PR_Swap begins.
LEMMA AnswerHeard ==
  ASSUME NEW g, Sound(g), NEW h, Sound(h), NEW x, NEW y, Agreed(g, h), Facing(g, h),
         Answers(g, h, x, y), h.tx = Idle,
         NEW v \in Terms, NEW yes, NEW one, one, NEW no, ~no
  PROVE  Fit(Received(h, g.tx, v, yes)) /\ Pairs(g, Received(h, g.tx, v, yes), one, no)
<1> DEFINE k == Received(h, g.tx, v, yes)
           r == h.client
           m == g.tx
<1>1. /\ r \in Role /\ h.conn = IF r = "sink" THEN "attached_snk" ELSE "attached_src"
      /\ Contracted(g, h) => r = "sink"
      /\ Contracted(h, g) => r = "source"
      /\ Agreed(h, g)
  <2>1. Agreed(h, g)
    BY EitherSide
  <2>2. r \in Role /\ (Contracted(g, h) => r = "sink") /\ (Contracted(h, g) => r = "source")
    BY <2>1, Dealers
  <2>3. /\ r = "sink" => h.conn = "attached_snk"
        /\ r = "source" => h.conn = "attached_src"
    BY <2>2 DEF Contracted, Src, Snk, Agreed
  <2> QED BY <2>1, <2>2, <2>3 DEF Role
<1>2. h.tx # HardReset /\ En(h) = h.eng[r] /\ En(h).pe \in Asks
  BY DEF Idle, HardReset, En, Answers
<1> DEFINE s == h.eng[r].pe
<1>3. /\ s \in Asks /\ m.type = "reject" => ComesTo(h, k, "ready", Idle) /\ Fit(k)
      /\ s \in Asks /\ m.type = "not_supported" => ComesTo(h, k, s, Idle) /\ Fit(k)
      /\ s = "send_dr_swap" /\ m.type = "accept" => FlipsTo(h, k)
      /\ s = "vcs_send_swap" /\ m.type = "accept" /\ h.vconn \in {"off", "source"} =>
           HandsTo(h, k)
      /\ s = "send_pr_swap" /\ m.type = "accept" => OffTo(h, k)
  <2>1. h.conn \in {"attached_snk", "attached_src"}
    BY <1>1
  <2> HIDE DEF m
  <2>2. LET f == Received(h, m, v, yes)
        IN /\ s \in Asks /\ m.type = "reject" => ComesTo(h, f, "ready", Idle) /\ Fit(f)
           /\ s \in Asks /\ m.type = "not_supported" => ComesTo(h, f, s, Idle) /\ Fit(f)
           /\ s = "send_dr_swap" /\ m.type = "accept" => FlipsTo(h, f)
           /\ s = "vcs_send_swap" /\ m.type = "accept" /\ h.vconn \in {"off", "source"} =>
                HandsTo(h, f)
    BY <1>1, <1>2, <2>1, ContractAnswered
  <2>3. s = "send_pr_swap" /\ m.type = "accept" => OffTo(h, Received(h, m, v, yes))
    BY <1>1, <1>2, SwapAgreed
  <2> QED BY <2>2, <2>3 DEF m
<1>4. g.data \in DataRole /\ h.data \in DataRole
  BY PortFields DEF Sound, InOrder, Engines
<1>5. ASSUME Dealing(g, k, one, no) PROVE Pairs(g, k, one, no)
  BY <1>5, EitherSide
<1> SUFFICES Fit(k) /\ Pairs(g, k, one, no)
  OBVIOUS
<1> HIDE DEF k
<1>6. ASSUME Bound(h, k) PROVE Agreed(g, k)
  BY <1>1, <1>6, AgreedKept, EitherSide
<1>7. ASSUME NEW t, ComesTo(h, k, t, Idle), t \in Asks \cup {"ready"}
      PROVE  Facing(g, k) /\ Agreed(g, k) /\ Free(k)
  BY <1>6, <1>7 DEF ComesTo, Facing, Cable, Free, Says, Quiet
<1>8. CASE Says(g, "accept_dr_swap", Accept) /\ En(h).pe = "send_dr_swap"
  <2>1. FlipsTo(h, k)
    BY <1>2, <1>3, <1>8 DEF Says, Accept, Control
  <2>2. Agreed(g, k) /\ Free(k) /\ Cable(g, k) /\ g.data = k.data /\ Flipping(g, one)
    BY <1>4, <1>6, <1>8, <2>1
    DEF FlipsTo, Free, Quiet, Says, Flipping, Facing, Cable, Other, DataRole
  <2> QED BY <1>5, <2>1, <2>2 DEF FlipsTo, Dealing, Conversing
<1>9. CASE Says(g, "vcs_accept_swap", Accept) /\ En(h).pe = "vcs_send_swap"
  <2>1. h.vconn \in {"off", "source"}
    BY DEF Facing, Cable
  <2>2. HandsTo(h, k)
    BY <1>2, <1>3, <1>9, <2>1 DEF Says, Accept, Control
  <2>3. Agreed(g, k) /\ g.data # k.data /\ Fit(k)
    BY <1>6, <2>2 DEF HandsTo, Facing
  <2>4. HandsOver(g, k, one, no)
    <3>1. CASE h.vconn = "off"
      <4>1. SendsPsRdy(k, PsRdy) /\ g.vconn = IF Marked THEN "source" ELSE "off"
        BY <2>2, <3>1 DEF HandsTo, Facing, Cable
      <4> QED BY <1>9, <4>1 DEF HandsOver
    <3>2. CASE h.vconn = "source"
      <4>1. Quiet(k, {"vcs_active"}) /\ k.vconn = "wait" /\ g.vconn = "off" /\ Marked
        BY <2>2, <3>2 DEF HandsTo, Facing, Cable, Says, Quiet
      <4> QED BY <1>9, <4>1 DEF HandsOver
    <3> QED BY <2>1, <3>1, <3>2
  <2> QED BY <1>5, <2>3, <2>4 DEF Dealing, Conversing
<1>10. CASE Refusing(g)
  <2>1. PICK t \in {"reject", "not_supported"} : Says(g, "send_not_supported", Control(t))
    BY <1>10 DEF Refusing
  <2>2. m.type = t
    BY <2>1 DEF Says, Control
  <2>3. Fit(k) /\ (ComesTo(h, k, "ready", Idle) \/ ComesTo(h, k, s, Idle))
    BY <1>2, <1>3, <2>1, <2>2
  <2>4. Facing(g, k) /\ Agreed(g, k) /\ Free(k)
    BY <1>2, <1>7, <2>3
  <2>5. Concludes(g, one)
    BY <1>10 DEF Concludes
  <2> QED BY <1>5, <2>3, <2>4, <2>5 DEF Dealing, Conversing
<1>11. CASE Says(g, "accept_pr_swap", Accept) /\ En(h).pe = "send_pr_swap"
  <2>1. OffTo(h, k)
    BY <1>2, <1>3, <1>11 DEF Says, Accept, Control
  <2>2. Fit(k) /\ Facing(g, k) /\ Facing(k, g)
    BY <2>1, EitherSide DEF OffTo, Facing, Cable
  <2>3. CASE Contracted(g, h)
    <3>1. Src(g) /\ Lit(g) /\ Snk(h)
      BY <2>3, TermsAssumption DEF Contracted, Lit
    <3>2. Swapping(g, k, one, no)
      BY <1>11, <2>1, <3>1 DEF Swapping, OffTo, Snk
    <3> QED BY <2>2, <3>2 DEF Pairs, Meeting
  <2>4. CASE Contracted(h, g)
    <3>1. Src(h) /\ Lit(h) /\ Snk(g)
      BY <2>4, TermsAssumption DEF Contracted, Lit
    <3>2. Src(k) /\ Lit(k)
      BY <2>1, <3>1 DEF OffTo, Src, Lit
    <3>3. k.supply = [out |-> En(g).terms, pending |-> FALSE]
      BY <2>1, <2>4 DEF OffTo, Contracted
    <3>4. Swapping(k, g, no, one)
      BY <1>11, <2>1, <3>1, <3>2, <3>3 DEF Swapping, OffTo
    <3> QED BY <2>2, <3>4 DEF Pairs, Meeting
  <2> QED BY <2>2, <2>3, <2>4 DEF Agreed
<1> QED BY <1>8, <1>9, <1>10, <1>11 DEF Answers

\* The PS_RDY of who takes VCONN over is heard.
LEMMA PsRdyHeard ==
  ASSUME NEW g, NEW h, Sound(h), Agreed(g, h), g.data # h.data, SendsPsRdy(g, PsRdy),
         \/ Marked /\ Quiet(h, {"vcs_active"}) /\ h.vconn = "wait"
         \/ ~Marked /\ SendsPsRdy(h, PsRdy),
         NEW v \in Terms, NEW yes, NEW one, one, NEW no, ~no
  PROVE  Fit(Received(h, g.tx, v, yes)) /\ Dealing(g, Received(h, g.tx, v, yes), one, no)
<1> DEFINE k == Received(h, g.tx, v, yes)
           r == h.client
           m == g.tx
           s == h.eng[r].pe
<1>1. r \in Role /\ Agreed(h, g)
  BY Dealers, EitherSide
<1>2. h.tx # HardReset /\ En(h) = h.eng[r] /\ m.type = "ps_rdy"
  BY DEF Idle, HardReset, PsRdy, Control, En, SendsPsRdy, Says, Quiet
<1>3. /\ s = "vcs_send_ps_rdy" => ComesTo(h, k, s, Idle) /\ Fit(k)
      /\ s = "vcs_active" /\ h.vconn = "wait" => HandedTo(h, k, "off")
  <2> HIDE DEF m
  <2>1. LET f == Received(h, m, v, yes)
        IN /\ s = "vcs_send_ps_rdy" => ComesTo(h, f, s, Idle) /\ Fit(f)
           /\ s = "vcs_active" /\ h.vconn = "wait" => HandedTo(h, f, "off")
    BY <1>1, <1>2, ContractAnswered
  <2> QED BY <2>1 DEF m
<1> SUFFICES Fit(k) /\ Dealing(g, k, one, no)
  OBVIOUS
<1> HIDE DEF k
<1>4. ASSUME Bound(h, k) PROVE Agreed(g, k)
  BY <1>1, <1>4, AgreedKept, EitherSide
<1>5. CASE Marked /\ Quiet(h, {"vcs_active"}) /\ h.vconn = "wait"
  <2>1. HandedTo(h, k, "off")
    BY <1>2, <1>3, <1>5 DEF Quiet
  <2>2. HandsOver(g, k, one, no) /\ Agreed(g, k) /\ g.data # k.data /\ Fit(k)
    BY <1>4, <1>5, <2>1 DEF HandedTo, HandsOver, Free, Says, Quiet
  <2> QED BY <2>2 DEF Dealing, Conversing
<1>6. CASE ~Marked /\ SendsPsRdy(h, PsRdy)
  <2>1. ComesTo(h, k, "vcs_send_ps_rdy", Idle) /\ Fit(k)
    BY <1>2, <1>3, <1>6 DEF SendsPsRdy, Says
  <2>2. TakeOver(g, k, one, no) /\ Agreed(g, k) /\ g.data # k.data
    BY <1>4, <1>6, <2>1 DEF ComesTo, TakeOver, SendsPsRdy, Says
  <2> QED BY <2>1, <2>2 DEF Dealing, Conversing
<1> QED BY <1>5, <1>6

\* A message of g is on its way to h which has not heard it, and the reverse; h
\* has heard it, as k.
Hears(g, h, x, y, v, one, no) ==
  /\ Sound(g) /\ Sound(h) /\ ~x /\ ~y /\ one /\ ~no /\ v \in Terms
  /\ g.tx \notin {Idle, HardReset} /\ h.tx # HardReset
Understood(g, k, one, no) == Fit(k) /\ Pairs(g, k, one, no)

\* A message is heard under the contract.
LEMMA DealingHeard ==
  ASSUME NEW g, NEW h, NEW x, NEW y, NEW v, NEW yes, NEW one, NEW no,
         Hears(g, h, x, y, v, one, no), Dealing(g, h, x, y)
  PROVE  Understood(g, Received(h, g.tx, v, yes), one, no)
<1> USE DEF Hears, Understood
<1> DEFINE k == Received(h, g.tx, v, yes)
<1>1. Agreed(g, h)
  BY DEF Dealing
<1>2. Dealing(g, k, one, no) => Pairs(g, k, one, no)
  BY EitherSide
<1>3. CASE Free(g) /\ Facing(g, h) /\ Free(h)
  BY <1>2, <1>3, QuestionHeard
<1>4. CASE /\ Free(g) /\ g.data # h.data /\ ~Marked
           /\ SendsPsRdy(h, Idle) /\ g.vconn = "source"
  BY <1>2, <1>4, QuestionHeard
<1>5. CASE Facing(g, h) /\ Answers(g, h, x, y) /\ h.tx = Idle
  BY <1>1, <1>5, AnswerHeard
<1>6. CASE /\ g.data # h.data /\ SendsPsRdy(g, PsRdy)
           /\ \/ Marked /\ Quiet(h, {"vcs_active"}) /\ h.vconn = "wait"
              \/ ~Marked /\ SendsPsRdy(h, PsRdy)
  BY <1>1, <1>2, <1>6, PsRdyHeard
<1> HIDE DEF k
<1>7. \/ Free(g) /\ Facing(g, h) /\ Free(h)
      \/ /\ Free(g) /\ g.data # h.data /\ ~Marked
         /\ SendsPsRdy(h, Idle) /\ g.vconn = "source"
      \/ Facing(g, h) /\ Answers(g, h, x, y) /\ h.tx = Idle
      \/ /\ g.data # h.data /\ SendsPsRdy(g, PsRdy)
         /\ \/ Marked /\ Quiet(h, {"vcs_active"}) /\ h.vconn = "wait"
            \/ ~Marked /\ SendsPsRdy(h, PsRdy)
  BY ONLY Dealing(g, h, x, y), ~x, ~y, g.tx # Idle, DealingSays
<1> QED BY ONLY <1>3, <1>4, <1>5, <1>6, <1>7

\* Under the contract, who waits for a timer or rests is free for its partner.
LEMMA DealingFree ==
  ASSUME NEW g, NEW h, NEW x, NEW y, Dealing(g, h, x, y),
         \/ g.tx = Idle /\ h.tx = Idle /\ En(g).pe \notin {"vcs_active", "vcs_send_ps_rdy"}
         \/ En(g).pe = "ready"
  PROVE  Free(g)
<1>1. PsRdy # Idle /\ Accept # Idle /\ \A t : Control(t) = Idle => t = "idle"
  BY DEF PsRdy, Accept, Control, Idle
<1>2. CASE Conversing(g, h, x, y)
  <2>1. ~Answers(g, h, x, y) /\ ~Concludes(g, x) /\ ~Flipping(g, x)
    BY <1>1 DEF Answers, Concludes, Flipping, Refusing, Says
  <2>2. ~HandsOver(g, h, x, y) /\ (TakeOver(g, h, x, y) => Free(g))
    BY <1>1 DEF HandsOver, TakeOver, Quiet, SendsPsRdy, Says
  <2>3. Free(g)
    BY <1>2, <2>1, <2>2 DEF Conversing
  <2> QED BY <2>3
<1>3. CASE Conversing(h, g, y, x)
  <2>1. Answers(h, g, y, x) => Free(g)
    BY DEF Answers
  <2>2. ~TakeOver(h, g, y, x) /\ (HandsOver(h, g, y, x) => Free(g))
    BY <1>1 DEF HandsOver, TakeOver, Quiet, SendsPsRdy, Says
  <2>3. Free(g)
    BY <1>3, <2>1, <2>2 DEF Conversing
  <2> QED BY <2>3
<1> QED BY <1>2, <1>3 DEF Dealing

\* Only the live engine has a timer running.
LEMMA TimedLive ==
  ASSUME NEW g, InOrder(g), NEW r \in Role, g.eng[r].pe \in Timed(r)
  PROVE  r = g.client /\ En(g) = g.eng[r]
<1>1. Resting(r) \notin Timed(r)
  BY DEF Resting, Timed, SinkTimed, SourceTimed, SharedTimed, Role
<1>2. g.client # r => g.eng[r].pe = Resting(r)
  BY DEF InOrder, Solo, Rests
<1> QED BY <1>1, <1>2 DEF En

\* A timer runs out under the contract.
LEMMA DealingTimeout ==
  ASSUME NEW g, Sound(g), NEW h, NEW x, NEW y, NEW z, Dealing(g, h, x, y),
         g.tx = Idle, h.tx = Idle, NEW r \in Role, g.eng[r].pe \in Timed(r)
  PROVE  Fit(PeTimeout(g, r)) /\ Dealing(PeTimeout(g, r), h, z, y)
<1> DEFINE k == PeTimeout(g, r)
           s == g.eng[r].pe
           e == "timeout"
           t == IF s \in Asks THEN "ready"
                ELSE IF s = "sink_tx_wait_dr" THEN "send_dr_swap" ELSE "send_pr_swap"
<1>1. r = g.client /\ En(g) = g.eng[r]
  BY TimedLive DEF Sound
<1>2. s \notin {"vcs_active", "vcs_send_ps_rdy", "ready"}
  BY DEF Timed, SinkTimed, SourceTimed, SharedTimed
<1>3. Free(g)
  BY <1>1, <1>2, DealingFree
<1>4. s \in Asks \/ (r = "source" /\ s \in {"sink_tx_wait_dr", "sink_tx_wait_pr"})
  <2>1. s \in Asks \cup {"sink_tx_wait_dr", "sink_tx_wait_pr"}
    BY <1>1, <1>2, <1>3 DEF Free, Quiet
  <2>2. r = "sink" => s \notin {"sink_tx_wait_dr", "sink_tx_wait_pr"}
    BY DEF Timed, SinkTimed, SharedTimed
  <2> QED BY <2>1, <2>2 DEF Role
<1>5. <<s, e, t>> \in Ways(r) /\ t \in Asks \cup {"ready"}
  BY <1>4 DEF Ways, SharedWays, SourceWays, Asks
<1>6. Typed(g) /\ Fit(g) /\ None \in Terms \cup {None}
  BY DEF Sound, InOrder, Engines
<1> HIDE DEF s, e, t
<1>7. \E no : k = Handle(g, r, e, None, no)
  BY DEF PeTimeout, e
<1>8. PICK no : k = Handle(g, r, e, None, no)
  BY <1>7
<1>9. FreeTo(g, k)
  <2>1. <<g.eng[r].pe, e, t>> \in Ways(r)
    BY <1>5 DEF s
  <2> QED BY ONLY <1>1, <1>5, <1>6, <1>8, <2>1, g.tx = Idle, r \in Role, FreeMoves
<1> HIDE DEF k
<1>10. ~Answers(h, g, y, x)
  BY DEF Answers, Refusing, Says, Accept, Control, Idle
<1>11. Dealing(k, h, z, y)
  BY <1>3, <1>9, <1>10, FreeStays
<1> QED BY <1>9, <1>11 DEF FreeTo, k

\* Like g under the contract is as free.
LEMMA LikeFree ==
  ASSUME NEW g, NEW h, g.client \in Role, Like(g, h), Fit(g)
  PROVE  Bound(g, h) /\ Fit(h) /\ (Free(g) => FreeTo(g, h))
<1>1. Fit(h)
  BY LikeFit
<1>2. /\ Bound(g, h) /\ h.data = g.data /\ h.vconn = g.vconn
      /\ En(h).pe = En(g).pe /\ h.tx = g.tx
  BY DEF Like, Bound, En
<1>3. Free(g) => Free(h)
  BY <1>2 DEF Free, Quiet
<1> QED BY <1>1, <1>2, <1>3 DEF FreeTo

\* The application asks for a swap.
LEMMA AskFrees ==
  ASSUME NEW g, Sound(g), g.client \in Role, Says(g, "ready", Idle)
  PROVE  /\ \A seq \in {"pr_swap", "dr_swap"} : FreeTo(g, AskSwap(g, seq))
         /\ FreeTo(g, AskVconnSwap(g))
<1> DEFINE r == g.client
<1>1. /\ r \in Role /\ Typed(g) /\ Fit(g) /\ None \in Terms \cup {None} /\ r = g.client
      /\ g.eng[r].pe = "ready" /\ g.tx = Idle /\ Free(g)
  BY DEF Sound, InOrder, Engines, Says, En, Free, Quiet
<1> HIDE DEF r
<1>2. ASSUME NEW e, NEW t,
             t \in Asks \/ (r = "source" /\ t \in {"sink_tx_wait_dr", "sink_tx_wait_pr"}),
             <<"ready", e, t>> \in Ways(r), NEW no
      PROVE  FreeTo(g, Handle(g, r, e, None, no))
  <2>1. <<g.eng[r].pe, e, t>> \in Ways(r)
    BY <1>1, <1>2
  <2>2. \/ t \in Asks \cup {"ready"}
        \/ r = "source" /\ t \in {"sink_tx_wait_dr", "sink_tx_wait_pr"}
    BY <1>2
  <2> QED BY ONLY <1>1, <2>1, <2>2, FreeMoves
<1>3. ASSUME NEW seq \in {"pr_swap", "dr_swap"} PROVE FreeTo(g, AskSwap(g, seq))
  <2>1. CASE r = "sink" /\ ~SinkTxAllows(g)
    <3> DEFINE h == [g EXCEPT !.eng["sink"].parked = seq]
    <3>1. AskSwap(g, seq) = h
      BY <1>1, <2>1 DEF AskSwap
    <3>2. Like(g, h)
      BY <1>1, ParkedLike
    <3> HIDE DEF h
    <3> QED BY <1>1, <3>1, <3>2, LikeFree
  <2>2. CASE ~(r = "sink" /\ ~SinkTxAllows(g))
    <3> DEFINE e == IF r = "sink" \/ ~Rev3 THEN Swap(seq)
                    ELSE IF seq = "pr_swap" THEN "begin_pr_swap" ELSE "begin_dr_swap"
               t == IF r = "sink" \/ ~Rev3 THEN Swap(seq)
                    ELSE IF seq = "pr_swap" THEN "sink_tx_wait_pr" ELSE "sink_tx_wait_dr"
    <3>1. <<"ready", e, t>> \in Ways(r)
          /\ (t \in Asks \/ (r = "source" /\ t \in {"sink_tx_wait_dr", "sink_tx_wait_pr"}))
      BY <1>1 DEF Ways, SharedWays, SourceWays, Swap, Asks, Role
    <3>2. \E no : AskSwap(g, seq) = Handle(g, r, e, None, no)
      BY <1>1, <2>2 DEF AskSwap
    <3> HIDE DEF e, t
    <3> QED BY <1>2, <3>1, <3>2
  <2> QED BY <2>1, <2>2
<1>4. FreeTo(g, AskVconnSwap(g))
  <2> DEFINE e == "send_vconn_swap"
             t == "vcs_send_swap"
  <2>1. <<"ready", e, t>> \in Ways(r) /\ t \in Asks
    BY DEF Ways, SharedWays, Asks
  <2>2. \E no : AskVconnSwap(g) = Handle(g, r, e, None, no)
    BY <1>1 DEF AskVconnSwap
  <2> HIDE DEF e, t
  <2> QED BY <1>2, <2>1, <2>2
<1> QED BY <1>3, <1>4

-----------------------------------------------------------------------------
(***************************************************************************)
(* Outside the contract: the moves of one engine.                          *)
(***************************************************************************)
\* The states whose entry writes more than Moved says.
Marks == {"startup", "transition_to_default", "ready", "swap_source_on", "dr_swap_change",
          "vcs_active", "vcs_partner_on", "vcs_ps_rdy_sent"}

\* h is g with the engine r moved to the state t by the event e, the message of
\* that state on its way.
Moved(g, h, r, t, e, x) ==
  LET old == g.eng[r]
      en == h.eng[r]
  IN /\ h.conn = g.conn /\ h.client = g.client /\ h.data = g.data
     /\ t # "hard_reset" \/ g.vconn # "timeout" => h.vconn = g.vconn
     /\ \A q \in Role \ {r} : h.eng[q] = g.eng[q]
     /\ en.pe = t /\ en.explicit = old.explicit /\ en.connected = old.connected
     /\ en.attached = (old.attached \/ (t = "send_capabilities" /\ e = "attached"))
     /\ en.terms = IF t = "transition_sink" THEN old.pending
                   ELSE IF t = "transition_supply" THEN x ELSE old.terms
     /\ en.pending = IF t = "select_capability" /\ e = "capabilities_evaluated" THEN x
                     ELSE old.pending
     /\ h.supply = IF r = "source" THEN Programmed(g.supply, t, en.terms) ELSE g.supply
     /\ Typed(h) /\ Fit(h) /\ Sent(h, r, t, e)

\* Entering such a state moves the port.
LEMMA ReachedMoved ==
  ASSUME NEW g, Typed(g), Fit(g), NEW h, NEW r \in Role, r = g.client, g.tx = Idle,
         NEW t, t \notin Marks, NEW e, NEW x, Reached(g, h, r, t, e, x)
  PROVE  Moved(g, h, r, t, e, x)
<1> DEFINE old == g.eng[r]
           en == h.eng[r]
<1>1. /\ h.conn = g.conn /\ h.client = g.client /\ h.data = g.data
      /\ \A q \in Role \ {r} : h.eng[q] = g.eng[q]
      /\ h.supply = (IF r = "source" THEN Programmed(g.supply, t, en.terms) ELSE g.supply)
      /\ h.vconn = VconnNext(g.vconn, VconnHears(t)) /\ Typed(h)
  BY DEF Reached, Marks
<1>2. t # "hard_reset" \/ g.vconn # "timeout" => h.vconn = g.vconn
  BY <1>1 DEF VconnNext, VconnHears, Marks
<1>3. /\ en.pe = t /\ en.explicit = old.explicit /\ en.connected = old.connected
      /\ en.terms = IF t = "transition_sink" THEN old.pending
                    ELSE IF t = "transition_supply" THEN x ELSE old.terms
      /\ en.pending = IF t = "select_capability" /\ e = "capabilities_evaluated" THEN x
                      ELSE old.pending
  BY DEF Reached, Marks
<1>4. old.attached \in BOOLEAN
  BY PortFields DEF EngineType
<1>5. en.attached = (old.attached \/ (t = "send_capabilities" /\ e = "attached"))
  BY <1>4 DEF Reached, Marks
<1>6. Fit(h)
  BY ReachedFit
<1>7. Sent(h, r, t, e)
  BY ReachedSends
<1> HIDE DEF old, en
<1> QED BY <1>1, <1>2, <1>3, <1>5, <1>6, <1>7 DEF Moved, old, en

\* An event whose way leads there.
LEMMA HandleMoves ==
  ASSUME NEW g, Typed(g), Fit(g), NEW r \in Role, r = g.client, g.tx = Idle, NEW e,
         NEW t \in States(r), t \notin Marks \cup Wordy \cup Directing(r),
         <<g.eng[r].pe, e, t>> \in Ways(r), NEW x \in Terms \cup {None}, NEW yes
  PROVE  Moved(g, Handle(g, r, e, x, yes), r, t, e, x)
  BY HandleReaches, ReachedMoved

\* What moves from a port whose transmission is over moves from that port.
LEMMA HushedMoved ==
  ASSUME NEW g, NEW k, Hushed(g, k), NEW h, NEW r, NEW t, NEW e, NEW x, Moved(k, h, r, t, e, x)
  PROVE  Moved(g, h, r, t, e, x)
  BY DEF Hushed, Moved

\* The confirmation of a transmission.
LEMMA ConfirmMoves ==
  ASSUME NEW g, Sound(g), NEW r \in Role, r = g.client, g.eng[r].pe # "send_capabilities",
         NEW t \in States(r), t \notin Marks \cup Wordy \cup Directing(r),
         <<g.eng[r].pe, "message_sent", t>> \in Ways(r)
  PROVE  Moved(g, TxDone(g), r, t, "message_sent", None)
<1> DEFINE e == "message_sent"
<1>1. PICK k, no : Hushed(g, k) /\ TxDone(g) = Handle(k, r, e, None, no)
  BY SentHandled
<1>2. /\ Typed(k) /\ Fit(k) /\ r = k.client /\ k.tx = Idle
      /\ <<k.eng[r].pe, e, t>> \in Ways(r) /\ None \in Terms \cup {None}
  BY <1>1 DEF Hushed, Sound
<1> HIDE DEF e
<1>3. Moved(k, Handle(k, r, e, None, no), r, t, e, None)
  BY ONLY <1>2, r \in Role, t \in States(r), t \notin Marks \cup Wordy \cup Directing(r),
     HandleMoves
<1>4. Moved(g, TxDone(g), r, t, e, None)
  BY <1>1, <1>3, HushedMoved
<1> QED BY <1>4 DEF e

\* The message of the partner.
LEMMA HearMoves ==
  ASSUME NEW g, Sound(g), NEW r \in Role, r = g.client, g.tx # HardReset,
         NEW m, m.type \notin {"bist_test_data", "request"}, NEW e, e = EventOf(g, r, m.type),
         NEW t \in States(r), t \notin Marks \cup Wordy \cup Directing(r),
         <<g.eng[r].pe, e, t>> \in Ways(r), NEW x \in Terms, NEW yes
  PROVE  Moved(g, Received(g, m, x, yes), r, t, e, x)
<1>1. PICK k : Hushed(g, k) /\ Received(g, m, x, yes) = Handle(k, r, e, x, yes)
  BY ReceivedHandled
<1>2. /\ Typed(k) /\ Fit(k) /\ r = k.client /\ k.tx = Idle
      /\ <<k.eng[r].pe, e, t>> \in Ways(r) /\ x \in Terms \cup {None}
  BY <1>1 DEF Hushed, Sound
<1>3. Moved(k, Handle(k, r, e, x, yes), r, t, e, x)
  BY ONLY <1>2, r \in Role, t \in States(r), t \notin Marks \cup Wordy \cup Directing(r),
     HandleMoves
<1> QED BY <1>1, <1>3, HushedMoved

\* What is ignored ends a transmission, and no more.
LEMMA ConfirmIgnored ==
  ASSUME NEW g, Sound(g), NEW r \in Role, r = g.client, g.eng[r].pe # "send_capabilities",
         <<g.eng[r].pe, "message_sent">> \in Ignored(r)
  PROVE  Hushed(g, TxDone(g))
<1> DEFINE e == "message_sent"
<1>1. PICK k, no : Hushed(g, k) /\ TxDone(g) = Handle(k, r, e, None, no)
  BY SentHandled
<1>2. Typed(k) /\ <<k.eng[r].pe, e>> \in Ignored(r)
  BY <1>1 DEF Hushed
<1> HIDE DEF e
<1>3. Handle(k, r, e, None, no) = k
  BY ONLY <1>2, r \in Role, IgnoredHandled
<1> QED BY <1>1, <1>3

\* Nor does a message which is ignored do more.
LEMMA HearIgnored ==
  ASSUME NEW g, Sound(g), NEW r \in Role, r = g.client, g.tx # HardReset,
         NEW m, m.type \notin {"bist_test_data", "request"}, NEW e, e = EventOf(g, r, m.type),
         <<g.eng[r].pe, e>> \in Ignored(r), NEW x, NEW yes
  PROVE  Hushed(g, Received(g, m, x, yes))
<1>1. PICK k : Hushed(g, k) /\ Received(g, m, x, yes) = Handle(k, r, e, x, yes)
  BY ReceivedHandled
<1>2. Typed(k) /\ <<k.eng[r].pe, e>> \in Ignored(r)
  BY <1>1 DEF Hushed
<1>3. Handle(k, r, e, x, yes) = k
  BY ONLY <1>2, r \in Role, IgnoredHandled
<1> QED BY <1>1, <1>3

\* A source goes to the state t, a sink does.
SourceGoes(g, k, t, e, x) ==
  /\ Src(k) /\ k.client = "source" /\ k.data = g.data /\ k.vconn = g.vconn
  /\ En(k).pe = t /\ En(k).explicit = En(g).explicit /\ En(k).connected = En(g).connected
  /\ En(k).terms = IF t = "transition_supply" THEN x ELSE En(g).terms
  /\ k.supply = Programmed(g.supply, t, En(k).terms)
  /\ Fit(k) /\ Sent(k, "source", t, e)
SinkGoes(g, k, t, e, x) ==
  /\ k.conn = g.conn /\ k.client = "sink" /\ k.data = g.data /\ k.vconn = g.vconn
  /\ En(k).pe = t /\ En(k).explicit = En(g).explicit
  /\ En(k).terms = IF t = "transition_sink" THEN En(g).pending ELSE En(g).terms
  /\ En(k).pending = IF t = "select_capability" /\ e = "capabilities_evaluated" THEN x
                     ELSE En(g).pending
  /\ Fit(k) /\ Sent(k, "sink", t, e)

\* So it does where its engine moves.
LEMMA MovedGoes ==
  ASSUME NEW g, NEW k, NEW t, NEW e, NEW x, g.vconn # "timeout"
  PROVE  /\ Src(g) /\ g.client = "source" /\ t # "transition_sink" /\ Moved(g, k, "source", t, e, x)
              => SourceGoes(g, k, t, e, x)
         /\ g.client = "sink" /\ t # "transition_supply" /\ Moved(g, k, "sink", t, e, x)
              => SinkGoes(g, k, t, e, x)
  BY DEF Moved, SourceGoes, SinkGoes, Src, En

\* The ports face each other as long as neither data role nor VCONN moves.
LEMMA FacingKept ==
  ASSUME NEW g, NEW h, NEW k, k.data = g.data, k.vconn = g.vconn
  PROVE  /\ Facing(g, h) => Facing(k, h) /\ g.vconn # "timeout"
         /\ Facing(h, g) => Facing(h, k) /\ g.vconn # "timeout"
  BY DEF Facing, Cable

\* The offer sent, the partner is known.
Known(g, k) ==
  /\ Src(k) /\ k.client = "source" /\ k.data = g.data /\ k.vconn = g.vconn
  /\ Says(k, "send_capabilities", Idle) /\ En(k).connected /\ En(k).explicit = En(g).explicit
  /\ k.supply = g.supply /\ Fit(k)

\* The confirmation of an offer.
LEMMA OfferConfirmed ==
  ASSUME NEW g, Sound(g), Src(g), En(g).pe = "send_capabilities"
  PROVE  Known(g, TxDone(g))
<1> DEFINE sent == [g EXCEPT !.tx = Idle]
           k == [sent EXCEPT !.eng["source"].connected = TRUE]
           en == [g.eng["source"] EXCEPT !.connected = TRUE]
<1>1. /\ Typed(g) /\ g.client = "source" /\ En(g) = g.eng["source"] /\ "source" \in Role
  BY Clients DEF Sound, Role
<1>2. TxDone(g) = k
  BY <1>1 DEF TxDone
<1>3. g.eng["source"] \in EngineType(SinkStates \cup SourceStates)
  BY <1>1, PortFields
<1>4. /\ en.pe = "send_capabilities" /\ en.connected /\ en.explicit = En(g).explicit
      /\ en.attached = g.eng["source"].attached /\ en.deaf = g.eng["source"].deaf
  BY <1>1, <1>3 DEF EngineType
<1> HIDE DEF en
<1>5. Hushed(g, sent)
  BY <1>1, SentSame
<1> HIDE DEF sent
<1>6. sent.eng["source"] = g.eng["source"] /\ Typed(sent)
  BY <1>5 DEF Hushed
<1>7. k = [sent EXCEPT !.eng["source"] = en]
  BY <1>6 DEF en, Typed
<1>8. /\ k.conn = sent.conn /\ k.client = sent.client /\ k.data = sent.data
      /\ k.vconn = sent.vconn /\ k.supply = sent.supply /\ k.tx = sent.tx
      /\ k.eng["source"] = en /\ \A q \in Role \ {"source"} : k.eng[q] = sent.eng[q]
  BY <1>1, <1>6, <1>7 DEF Typed
<1> HIDE DEF k
<1>9. /\ k.conn = g.conn /\ k.client = "source" /\ k.data = g.data
      /\ k.vconn = g.vconn /\ k.supply = g.supply /\ k.tx = Idle
      /\ \A q \in Role \ {"source"} : k.eng[q] = g.eng[q]
  BY <1>1, <1>5, <1>8 DEF Hushed
<1>10. Fit(g)
  BY DEF Sound
<1>11. Fit(k)
  BY <1>4, <1>8, <1>9, <1>10 DEF Fit, Primed, Lit
<1>12. Known(g, k)
  BY <1>4, <1>8, <1>9, <1>11 DEF Known, Says, Src, En
<1> QED BY <1>2, <1>12

\* A Reject sent before there was a contract ends in a hard reset.
LEMMA RejectConfirmed ==
  ASSUME NEW g, Sound(g), Src(g), Says(g, "capability_response", Control("reject")),
         ~En(g).explicit
  PROVE  Moved(g, TxDone(g), "source", "hard_reset", "message_sent", None)
<1> DEFINE e == "message_sent"
           s == "capability_response"
           t == "hard_reset"
           q == "explicit_contract_holds"
           r == "source"
<1>1. g.client = r /\ En(g) = g.eng[r] /\ r \in Role
  BY Clients DEF Sound, Role
<1>2. PICK k, no : Hushed(g, k) /\ TxDone(g) = Handle(k, r, e, None, no)
  BY <1>1, SentHandled DEF Says
<1>3. /\ Typed(k) /\ Fit(k) /\ k.client = r /\ k.tx = Idle /\ k.eng[r].pe = s
      /\ ~k.eng[r].explicit /\ None \in Terms \cup {None}
  BY <1>1, <1>2 DEF Hushed, Sound, Says
<1> DEFINE f == Step(k, r, e, None, no)
           o == "ready"
<1>4. q \notin Holds(k, r, no)
  BY <1>3 DEF Holds
<1>5. DecidesFor(k, r, e, no, t)
  <2>1. Decides(r, k.eng[r].pe, e, q, o, t)
    BY <1>3, SourceDecides
  <2>2. t = IF q \in Holds(k, r, no) THEN o ELSE t
    BY <1>4
  <2> HIDE DEF e, s, q, t, o, r
  <2> QED BY <2>1, <2>2 DEF DecidesFor
<1>6. t \in States(r) /\ t \notin Wordy \cup Directing(r) \cup Marks
  BY DEF States, SourceStates, SharedStates, Wordy, Gates, Directing, Marks
<1> HIDE DEF e, s, q, t, o, r
<1>8. Reached(k, f, r, t, e, None)
  BY ONLY <1>1, <1>3, <1>5, <1>6, DecidedReaches
<1> HIDE DEF f
<1>9. Emits(k, f, r, no) = "none" /\ f.eng[r].pe = t /\ Typed(f)
  BY <1>6, <1>8 DEF Reached, Emits, Wordy
<1>10. Process(k, r, e, None, no) = f
  BY <1>1, <1>9, NoneMovesNothing DEF Process, Follow, f
<1>11. \A p \in Role \ {r} : f.eng[p] = k.eng[p]
  BY <1>8 DEF Reached
<1>12. Directed(k, f) = f
  BY ONLY <1>1, <1>6, <1>9, <1>11, Undirected
<1>13. TxDone(g) = f
  BY <1>2, <1>10, <1>12 DEF Handle
<1>14. Moved(k, f, r, t, e, None)
  BY <1>1, <1>3, <1>6, <1>8, ReachedMoved
<1> QED BY <1>2, <1>13, <1>14, HushedMoved DEF t, e, r

-----------------------------------------------------------------------------
(***************************************************************************)
(* Outside the contract: a transmission is confirmed.                      *)
(***************************************************************************)
\* What is on its way is a message.
LEMMA Messages ==
  /\ Caps # Idle /\ Caps # HardReset /\ Accept # Idle /\ Accept # HardReset
  /\ PsRdy # Idle /\ PsRdy # HardReset /\ Idle # HardReset
  /\ Control("reject") # Idle /\ Control("reject") # HardReset
  /\ \A t : Request(t) # Idle /\ Request(t) # HardReset
  /\ Caps.type = "source_capabilities" /\ Accept.type = "accept" /\ PsRdy.type = "ps_rdy"
  /\ Control("reject").type = "reject"
  /\ \A t : Request(t).type = "request" /\ Request(t).terms = t
  BY DEF Caps, Accept, PsRdy, Control, Request, Idle, HardReset

\* The source's, on the way to a contract.
LEMMA NegotiatingConfirmed ==
  ASSUME NEW g, Sound(g), NEW h, NEW x, NEW y, NEW z, Facing(g, h), Negotiating(g, h, x, y),
         x, g.tx \notin {Idle, HardReset}, z => TxDone(g).tx = g.tx
  PROVE  LET k == TxDone(g) IN Fit(k) /\ Facing(k, h) /\ Negotiating(k, h, z, y)
<1> DEFINE k == TxDone(g)
           e == "message_sent"
<1>1. /\ g.client = "source" /\ En(g) = g.eng["source"] /\ "source" \in Role
      /\ Src(g) /\ Fresh(g, h) /\ Lit(g) /\ g.vconn # "timeout"
  BY Clients DEF Sound, Negotiating, Facing, Cable
<1>2. ASSUME NEW t, SourceGoes(g, k, t, e, None),
             t \in {"transition_supply_delay", "swap_source_start", "hard_reset"}
      PROVE  /\ Fit(k) /\ Facing(k, h) /\ Src(k) /\ Fresh(k, h) /\ Lit(k)
             /\ En(k).pe = t /\ En(k).terms = En(g).terms
             /\ k.tx = IF t = "hard_reset" THEN HardReset ELSE Idle
  <2> HIDE DEF k, e
  <2>1. k.supply = g.supply
    BY <1>2 DEF SourceGoes, Programmed, SupplyOff, SupplySafe5V
  <2>2. k.data = g.data /\ k.vconn = g.vconn /\ Fit(k) /\ Src(k) /\ En(k).pe = t
        /\ En(k).explicit = En(g).explicit /\ En(k).terms = En(g).terms /\ Sent(k, "source", t, e)
    BY <1>2 DEF SourceGoes
  <2>3. k.tx = IF t = "hard_reset" THEN HardReset ELSE Idle
    BY <1>2, <2>2 DEF Sent, Loud, SharedSends
  <2> QED BY <1>1, <1>2, <2>1, <2>2, <2>3, FacingKept DEF Lit, Fresh
<1>3. CASE Offered(g, h) \/ Requested(g, h, x, y)
  <2>1. Known(g, k)
    BY <1>1, <1>3, OfferConfirmed DEF Offered, Requested, Offers, Says
  <2> HIDE DEF k
  <2>2. Facing(k, h) /\ Fit(k) /\ Offers(k) /\ k.tx = Idle /\ Src(k) /\ Fresh(k, h) /\ Lit(k)
    BY <1>1, <2>1, FacingKept DEF Known, Offers, Says, Fresh, Lit
  <2>3. Offered(k, h) \/ Requested(k, h, z, y)
    BY <1>3, <2>2 DEF Offered, Requested
  <2> QED BY <2>2, <2>3 DEF Negotiating, k
<1>4. CASE Answered(g, h, x, y)
  BY <1>4 DEF Answered
<1>5. CASE Supplies(g, h, x)
  <2> DEFINE t == "transition_supply_delay"
  <2>1. En(g).pe = "transition_supply"
    BY <1>5, Messages DEF Supplies, Says
  <2>2. <<g.eng["source"].pe, e, t>> \in Ways("source") /\ t \in States("source")
        /\ t \notin Marks \cup Wordy \cup Directing("source")
    BY <1>1, <2>1 DEF Ways, SourceWays, States, SourceStates, Marks, Wordy, Gates, Directing
  <2>3. Moved(g, k, "source", t, e, None)
    BY <1>1, <2>1, <2>2, ConfirmMoves
  <2> HIDE DEF k
  <2>4. SourceGoes(g, k, t, e, None)
    BY <1>1, <2>3, MovedGoes
  <2>5. /\ Fit(k) /\ Facing(k, h) /\ Src(k) /\ Fresh(k, h) /\ Lit(k)
        /\ Says(k, t, Idle) /\ En(k).terms = En(g).terms
    BY <1>2, <2>4 DEF Says
  <2>6. Supplies(k, h, z)
    BY <1>5, <2>5 DEF Supplies
  <2> QED BY <2>5, <2>6 DEF Negotiating, k
<1>6. CASE Anew(g, h, x)
  <2>1. CASE Says(g, "capability_response", Control("reject"))
    <3> DEFINE t == "hard_reset"
    <3>1. Moved(g, k, "source", t, e, None)
      BY <1>1, <2>1, RejectConfirmed DEF Fresh
    <3> HIDE DEF k
    <3>2. SourceGoes(g, k, t, e, None)
      BY <1>1, <3>1, MovedGoes
    <3>3. /\ Fit(k) /\ Facing(k, h) /\ Src(k) /\ Fresh(k, h) /\ Lit(k)
          /\ Says(k, t, HardReset)
      BY <1>2, <3>2 DEF Says
    <3>4. ~z
      BY <2>1, <3>3, Messages DEF Says, k
    <3>5. Anew(k, h, z)
      BY <1>6, <3>3, <3>4 DEF Anew
    <3> QED BY <3>3, <3>5 DEF Negotiating, k
  <2>2. CASE Says(g, "swap_source_on_ps_rdy", PsRdy)
    <3> DEFINE t == "swap_source_start"
    <3>1. <<g.eng["source"].pe, e, t>> \in Ways("source") /\ t \in States("source")
          /\ t \notin Marks \cup Wordy \cup Directing("source")
      BY <1>1, <2>2
      DEF Says, Ways, SourceWays, States, SourceStates, Marks, Wordy, Gates, Directing
    <3>2. Moved(g, k, "source", t, e, None)
      BY <1>1, <2>2, <3>1, ConfirmMoves DEF Says
    <3> HIDE DEF k
    <3>3. SourceGoes(g, k, t, e, None)
      BY <1>1, <3>2, MovedGoes
    <3>4. /\ Fit(k) /\ Facing(k, h) /\ Src(k) /\ Fresh(k, h) /\ Lit(k)
          /\ Says(k, t, Idle)
      BY <1>2, <3>3 DEF Says
    <3>5. Anew(k, h, z)
      BY <1>6, <3>4 DEF Anew
    <3> QED BY <3>4, <3>5 DEF Negotiating, k
  <2> QED BY <1>6, <2>1, <2>2 DEF Anew, Says
<1> QED BY <1>3, <1>4, <1>5, <1>6 DEF Negotiating

\* What the one transmits of whom the pair has it first.
LEMMA FirstConfirmed ==
  ASSUME NEW g, Sound(g), NEW h, NEW x, NEW y, NEW z, Meeting(g, h, x, y),
         x, g.tx \notin {Idle, HardReset}, z => TxDone(g).tx = g.tx
  PROVE  Fit(TxDone(g)) /\ Pairs(TxDone(g), h, z, y)
<1> DEFINE k == TxDone(g)
<1>1. CASE Parting(g, h)
  BY <1>1, Clients DEF Parting, Sound
<1>2. CASE Facing(g, h) /\ Negotiating(g, h, x, y)
  <2>1. Fit(k) /\ Facing(k, h) /\ Negotiating(k, h, z, y)
    BY <1>2, NegotiatingConfirmed
  <2> QED BY <2>1 DEF Meeting, Pairs
<1>3. CASE Facing(g, h) /\ Resetting(g, h, x)
  <2>1. Src(g) /\ Offers(g) /\ Fresh(g, h) /\ h.conn = "hard_reset_recover_snk" /\ Lit(g)
        /\ Quiet(h, {"discovery"})
    BY <1>3 DEF Resetting, Says
  <2>2. Known(g, k)
    BY <2>1, OfferConfirmed DEF Offers, Says
  <2> HIDE DEF k
  <2>3. Facing(k, h) /\ Fit(k) /\ Offers(k) /\ Src(k) /\ Fresh(k, h) /\ Lit(k)
    BY <1>3, <2>1, <2>2, FacingKept DEF Known, Offers, Says, Fresh, Lit
  <2>4. Resetting(k, h, z)
    BY <2>1, <2>3 DEF Resetting
  <2> QED BY <2>3, <2>4 DEF Meeting, Pairs, k
<1>4. CASE Facing(g, h) /\ Swapping(g, h, x, y)
  <2>1. Src(g) /\ Says(g, "accept_pr_swap", Accept) /\ Lit(g)
        /\ h.conn = "standby_to_src" /\ Quiet(h, {"swap_transition_to_off"})
    BY <1>4 DEF Swapping, Quiet
  <2>2. g.client = "source" /\ En(g) = g.eng["source"] /\ g.conn = "attached_src"
        /\ g.eng["source"].attached
    BY <2>1, Clients DEF Sound, Src
  <2>3. OffTo(g, k)
    <3> DEFINE r == "source"
    <3>1. r \in Role /\ r = g.client /\ g.eng[r].pe = "accept_pr_swap"
          /\ g.conn = (IF r = "sink" THEN "attached_snk" ELSE "attached_src")
      BY <2>1, <2>2 DEF Role, Says
    <3> HIDE DEF r
    <3> QED BY <3>1, SwapAgreed
  <2> HIDE DEF k
  <2>4. Src(k) /\ Lit(k) /\ Quiet(k, {"swap_transition_to_off"}) /\ Fit(k) /\ Facing(k, h)
    BY <1>4, <2>1, <2>2, <2>3, FacingKept DEF OffTo, Src, Lit
  <2>5. Swapping(k, h, z, y)
    BY <2>1, <2>4 DEF Swapping
  <2> QED BY <2>4, <2>5 DEF Meeting, Pairs, k
<1>5. CASE Taking(g, h, x, y)
  BY <1>5 DEF Taking, Quiet
<1>6. CASE Contracted(g, h) /\ (Conversing(g, h, x, y) \/ Conversing(h, g, y, x))
  <2>1. Dealing(g, h, x, y)
    BY <1>6 DEF Dealing, Agreed
  <2>2. Fit(k) /\ Dealing(k, h, z, y)
    BY <2>1, DealingConfirmed
  <2> QED BY <2>2, EitherSide
<1> QED BY <1>1, <1>2, <1>3, <1>4, <1>5, <1>6 DEF Meeting

\* A port whose transmission is over meets its partner as before.
LEMMA HushedFields ==
  ASSUME NEW g, NEW k, Hushed(g, k)
  PROVE  /\ k.conn = g.conn /\ k.data = g.data /\ k.vconn = g.vconn /\ k.supply = g.supply
         /\ En(k) = En(g) /\ k.eng = g.eng /\ k.tx = Idle /\ Fit(k)
  BY DEF Hushed, En, Sound

\* And what the other one transmits.
LEMMA SecondConfirmed ==
  ASSUME NEW g, Sound(g), NEW h, NEW x, NEW y, NEW z, Meeting(h, g, y, x),
         x, g.tx \notin {Idle, HardReset}, z => TxDone(g).tx = g.tx
  PROVE  Fit(TxDone(g)) /\ Pairs(TxDone(g), h, z, y)
<1> DEFINE k == TxDone(g)
           r == "sink"
<1>1. CASE Parting(h, g)
  BY <1>1, Clients DEF Parting, Sound, Waits, Quiet
<1>2. CASE Facing(h, g) /\ Negotiating(h, g, y, x)
  <2>1. Answered(h, g, y, x) /\ Src(h) /\ Fresh(h, g) /\ Lit(h)
    BY <1>2 DEF Negotiating, Offered, Requested, Supplies, Anew, Waits, Quiet
  <2>2. Requests(g) /\ Snk(g)
    BY <2>1 DEF Answered, Requests
  <2>3. r = g.client /\ r \in Role /\ En(g) = g.eng[r] /\ g.eng[r].pe = "select_capability"
    BY <2>2, Clients DEF Sound, Snk, Role, Requests
  <2>4. <<g.eng[r].pe, "message_sent">> \in Ignored(r) /\ g.eng[r].pe # "send_capabilities"
    BY <2>3 DEF Ignored
  <2>5. Hushed(g, k)
    BY <2>3, <2>4, ConfirmIgnored
  <2> HIDE DEF k, r
  <2>6. Requests(k) /\ k.tx = Idle /\ En(k) = En(g) /\ Facing(h, k) /\ Fit(k)
    BY <1>2, <2>2, <2>5, HushedFields, FacingKept DEF Requests, Snk
  <2>7. Answered(h, k, y, z) /\ Fresh(h, k)
    BY <2>1, <2>6 DEF Answered, Fresh
  <2> QED BY <2>1, <2>6, <2>7 DEF Negotiating, Meeting, Pairs, k
<1>3. CASE Facing(h, g) /\ Resetting(h, g, y)
  BY <1>3 DEF Resetting, Quiet
<1>4. CASE Facing(h, g) /\ Swapping(h, g, y, x)
  <2>1. /\ Src(h) /\ Quiet(h, {"swap_transition_to_off"}) /\ Lit(h)
        /\ Snk(g) /\ Says(g, "accept_pr_swap", Accept)
    BY <1>4 DEF Swapping, Quiet
  <2>2. OffTo(g, k) /\ g.conn = "attached_snk"
    <3>1. r \in Role /\ r = g.client /\ g.eng[r].pe = "accept_pr_swap"
          /\ g.conn = (IF r = "sink" THEN "attached_snk" ELSE "attached_src")
      BY <2>1, Clients DEF Role, Says, Sound, Snk
    <3> HIDE DEF r
    <3>2. OffTo(g, k)
      BY <3>1, SwapAgreed
    <3> QED BY <2>1, <3>2 DEF Snk
  <2> HIDE DEF k
  <2>3. k.conn = "standby_to_src" /\ Quiet(k, {"swap_transition_to_off"}) /\ Fit(k)
        /\ Facing(h, k)
    BY <1>4, <2>2, FacingKept DEF OffTo
  <2>4. Swapping(h, k, y, z)
    BY <2>1, <2>3 DEF Swapping
  <2> QED BY <2>3, <2>4 DEF Meeting, Pairs, k
<1>5. CASE Facing(h, g) /\ Taking(h, g, y, x)
  <2>1. g.conn = "standby_to_snk" /\ En(g).pe = "swap_wait_source_on"
    BY <1>5 DEF Taking
  <2>2. r = g.client /\ r \in Role /\ En(g) = g.eng[r]
        /\ g.eng[r].pe = "swap_wait_source_on"
    BY <2>1, Clients DEF Sound, Role
  <2>3. <<g.eng[r].pe, "message_sent">> \in Ignored(r) /\ g.eng[r].pe # "send_capabilities"
    BY <2>2 DEF Ignored
  <2>4. Hushed(g, k)
    BY <2>2, <2>3, ConfirmIgnored
  <2> HIDE DEF k, r
  <2>5. k.conn = g.conn /\ k.tx = Idle /\ En(k) = En(g) /\ Facing(h, k) /\ Fit(k)
    BY <1>5, <2>4, HushedFields, FacingKept
  <2>6. Taking(h, k, y, z)
    BY <1>5, <2>1, <2>5 DEF Taking, Fresh
  <2> QED BY <2>5, <2>6 DEF Meeting, Pairs, k
<1>6. CASE Contracted(h, g) /\ (Conversing(h, g, y, x) \/ Conversing(g, h, x, y))
  <2>1. Dealing(g, h, x, y)
    BY <1>6 DEF Dealing, Agreed
  <2>2. Fit(k) /\ Dealing(k, h, z, y)
    BY <2>1, DealingConfirmed
  <2> QED BY <2>2, EitherSide
<1> QED BY <1>1, <1>2, <1>3, <1>4, <1>5, <1>6 DEF Meeting

\* A transmission is confirmed.
LEMMA PairConfirmed ==
  ASSUME NEW g, Sound(g), NEW h, NEW x, NEW y, NEW z, Pairs(g, h, x, y),
         x, g.tx \notin {Idle, HardReset}, z => TxDone(g).tx = g.tx
  PROVE  Fit(TxDone(g)) /\ Pairs(TxDone(g), h, z, y)
  BY FirstConfirmed, SecondConfirmed DEF Pairs

-----------------------------------------------------------------------------
(***************************************************************************)
(* What the connection machine is directed to make of a port.              *)
(***************************************************************************)
\* The port is the new source of the swap, its supply on the way to vSafe5V.
NewSource(g, k) ==
  /\ k.conn = "attached_src" /\ k.client = "source" /\ k.eng["source"].attached
  /\ Quiet(k, {"swap_source_on"}) /\ ~En(k).explicit /\ k.supply = Safe5V
  /\ k.data = g.data /\ k.vconn = g.vconn /\ Fit(k)

\* The old sink takes over as the source.
LEMMA TurnsSource ==
  ASSUME NEW g, Sound(g), g.client = "sink", g.tx = Idle
  PROVE  NewSource(g, CompleteToSource(g))
<1> DEFINE conn == [g EXCEPT !.conn = "attached_src"]
           there == AnnounceData(conn)
           off == vbusRemoved(there)
           taken == takeLayer(off, "source")
           r == "source"
           e == "attached_swap"
           t == "swap_source_on"
           k == Process(taken, r, e, None, FALSE)
<1>1. k = CompleteToSource(g)
  BY DEF CompleteToSource
<1>2. Engines(g) /\ Rests(g, "source") /\ "source" \in Role /\ "attached_src" \in Conn
  BY DEF Sound, InOrder, Solo, Role, Conn
<1>3. /\ Engines(conn) /\ conn.eng = g.eng /\ conn.conn = "attached_src"
      /\ conn.client = "sink" /\ conn.tx = Idle /\ conn.vconn = g.vconn
      /\ conn.data = g.data
  BY <1>2, ConnKeeps DEF Around
<1> HIDE DEF conn
<1>4. Announced(conn, there)
  BY <1>3, AnnounceKeeps
<1> HIDE DEF there
<1>5. Engines(there) /\ Retired(there, off, "sink")
  BY <1>4, SinkRetires DEF Announced
<1> HIDE DEF off
<1>6. /\ Engines(off) /\ off.conn = "attached_src" /\ off.tx = Idle
      /\ off.vconn = g.vconn /\ off.data = g.data /\ ~off.eng["sink"].deaf
      /\ off.eng["source"] = there.eng["source"]
  BY <1>3, <1>4, <1>5 DEF Retired, Announced, Rests, Role
<1>7. /\ off.eng["source"].pe = "startup" /\ ~off.eng["source"].explicit
      /\ ~off.eng["source"].deaf
  BY <1>2, <1>3, <1>4, <1>6 DEF Announced, Rests, Resting
<1>8. /\ Engines(taken) /\ taken.eng = off.eng /\ taken.conn = "attached_src"
      /\ taken.client = "source" /\ taken.tx = Idle /\ taken.vconn = g.vconn
      /\ taken.data = g.data
  BY <1>2, <1>6, TakeKeeps DEF Around
<1> HIDE DEF taken
<1>9. /\ Typed(taken) /\ <<taken.eng[r].pe, e, t>> \in Ways(r) /\ t \in States(r)
      /\ t \notin Wordy /\ None \in Terms \cup {None} /\ r \in Role
  BY <1>2, <1>7, <1>8
  DEF Engines, Ways, SourceWays, States, SourceStates, Wordy, Gates
<1>10. PICK no : no = FALSE
  OBVIOUS
<1> HIDE DEF e, t, r
<1>11. Reached(taken, Process(taken, r, e, None, no), r, t, e, None)
  BY ONLY <1>9, ProcessReaches
<1>12. Reached(taken, k, r, t, e, None)
  BY <1>10, <1>11 DEF k
<1> HIDE DEF k
<1>13. Sent(k, r, t, e)
  BY <1>8, <1>9, <1>12, ReachedSends DEF r
<1>14. /\ k.conn = "attached_src" /\ k.client = "source" /\ k.data = g.data
       /\ k.eng["sink"] = off.eng["sink"] /\ k.eng["source"].attached
       /\ k.eng["source"].pe = "swap_source_on" /\ ~k.eng["source"].explicit
       /\ ~k.eng["source"].deaf
  BY <1>7, <1>8, <1>12 DEF Reached, t, r, Role
<1>15. k.supply = Safe5V /\ k.vconn = g.vconn
  BY <1>8, <1>12
  DEF Reached, t, r, Programmed, SupplyOff, SupplySafe5V, Safe5V, VconnHears, VconnNext
<1>16. k.tx = Idle
  BY <1>13 DEF Sent, t, r, Loud, SharedSends
<1>17. Fit(k)
  BY <1>6, <1>14 DEF Fit, Primed, Role
<1> QED BY <1>1, <1>14, <1>15, <1>16, <1>17 DEF NewSource, Quiet, En

\* The port is the new sink of the swap, its supply off.
NewSink(g, k) ==
  /\ k.conn = "standby_to_snk" /\ k.client = "sink"
  /\ Says(k, "swap_wait_source_on", PsRdy) /\ ~En(k).explicit
  /\ k.data = g.data /\ k.vconn = g.vconn /\ Fit(k)

\* The old source takes over as the sink.
LEMMA TurnsSink ==
  ASSUME NEW g, Sound(g), g.client = "source", g.tx = Idle
  PROVE  NewSink(g, BeginSwapToSink(g))
<1> DEFINE conn == [g EXCEPT !.conn = "standby_to_snk"]
           taken == takeLayer(conn, "sink")
           r == "sink"
           e == "swap_wait_source_on"
           h == Process(taken, r, e, None, FALSE)
           k == detached(h)
<1>1. k = BeginSwapToSink(g)
  BY DEF BeginSwapToSink
<1>2. Engines(g) /\ Rests(g, "sink") /\ r \in Role /\ "standby_to_snk" \in Conn
  BY DEF Sound, InOrder, Solo, Role, Conn
<1>3. /\ Engines(conn) /\ conn.eng = g.eng /\ conn.conn = "standby_to_snk"
      /\ conn.tx = Idle /\ conn.vconn = g.vconn /\ conn.data = g.data
  BY <1>2, ConnKeeps DEF Around
<1> HIDE DEF conn
<1>4. /\ Engines(taken) /\ taken.eng = g.eng /\ taken.conn = "standby_to_snk"
      /\ taken.client = r /\ taken.tx = Idle /\ taken.vconn = g.vconn
      /\ taken.data = g.data
  BY <1>2, <1>3, TakeKeeps DEF Around
<1> HIDE DEF taken
<1>5. /\ Typed(taken) /\ <<taken.eng[r].pe, e, e>> \in Ways(r) /\ e \in States(r)
      /\ e \notin Wordy /\ None \in Terms \cup {None} /\ ~taken.eng[r].deaf
  BY <1>2, <1>4
  DEF Engines, Ways, SinkWays, States, SinkStates, Wordy, Gates, Rests, Resting
<1>6. Plain(e)
  BY DEF Plain
<1>7. PICK no : no = FALSE
  OBVIOUS
<1> HIDE DEF e, r
<1>8. Reached(taken, Process(taken, r, e, None, no), r, e, e, None)
  BY ONLY <1>2, <1>5, ProcessReaches
<1>9. Engines(Process(taken, r, e, None, no))
  <2>1. e \in {"capabilities_evaluated", "source_capabilities"} => None \in Terms
    BY <1>6 DEF Plain
  <2> QED BY <1>2, <1>4, <1>5, <2>1, ProcessKeeps
<1>10. Reached(taken, h, r, e, e, None) /\ Engines(h)
  BY <1>7, <1>8, <1>9 DEF h
<1> HIDE DEF h
<1>11. Sent(h, r, e, e)
  BY <1>2, <1>4, <1>10, ReachedSends
<1>12. /\ h.conn = "standby_to_snk" /\ h.client = "sink" /\ h.data = g.data
       /\ h.eng["sink"].pe = "swap_wait_source_on" /\ ~h.eng["sink"].explicit
       /\ ~h.eng["sink"].deaf
  BY <1>2, <1>4, <1>10 DEF Reached, e, r, Rests
<1>13. h.vconn = g.vconn
  BY <1>4, <1>10 DEF Reached, e, VconnHears, VconnNext
<1>14. h.tx = PsRdy
  BY <1>11 DEF Sent, e, r
<1>15. Retired(h, k, "source")
  BY <1>10, SourceRetires
<1> HIDE DEF k
<1>16. /\ k.conn = "standby_to_snk" /\ k.client = "sink" /\ k.data = g.data
       /\ k.eng["sink"] = h.eng["sink"] /\ k.tx = PsRdy /\ k.vconn = g.vconn
       /\ k.supply.out = "safe5v" /\ ~k.eng["source"].deaf
  BY <1>12, <1>13, <1>14, <1>15 DEF Retired, Rests, Role, Safe5V
<1>17. Fit(k)
  BY <1>12, <1>16 DEF Fit, Primed, Lit, Role
<1> QED BY <1>1, <1>12, <1>16, <1>17 DEF NewSink, Says, En

\* The sink hears of VBUS and waits for an offer; nothing else moves.
Wakes(g, k) ==
  /\ k.eng["sink"].pe \in {"wait_for_capabilities", "wait_no_response"}
  /\ k.eng["sink"].explicit = g.eng["sink"].explicit
  /\ k.conn = g.conn /\ k.client = g.client /\ k.data = g.data
  /\ k.vconn = g.vconn /\ k.supply = g.supply /\ k.tx = Idle
  /\ k.eng["source"] = g.eng["source"] /\ Typed(k) /\ Fit(k)

\* VBUS is there.
LEMMA SinkWakes ==
  ASSUME NEW g, Typed(g), Fit(g), g.client = "sink", g.tx = Idle,
         g.eng["sink"].pe = "discovery"
  PROVE  Wakes(g, Process(g, "sink", "vbus_present", None, FALSE))
<1> DEFINE r == "sink"
           e == "vbus_present"
           q == "no_hard_reset_yet"
           t == "wait_for_capabilities"
           o == "wait_no_response"
<1>1. PICK no : no = FALSE
  OBVIOUS
<1> DEFINE u == IF q \in Holds(g, r, no) THEN t ELSE o
           f == Step(g, r, e, None, no)
<1>2. r \in Role /\ None \in Terms \cup {None} /\ r = g.client
  BY DEF Role
<1>3. DecidesFor(g, r, e, no, u)
  <2>1. Decides(r, g.eng[r].pe, e, q, t, o)
    BY SinkDecides
  <2> HIDE DEF e, q, t, o, r
  <2> QED BY <2>1 DEF DecidesFor
<1>4. u \in {"wait_for_capabilities", "wait_no_response"}
  OBVIOUS
<1> HIDE DEF u
<1>5. u \in States(r) /\ u \notin Wordy \cup Marks /\ u # "discovery"
  BY <1>4 DEF States, SinkStates, Wordy, Gates, Marks
<1> HIDE DEF e, q, t, o, r
<1>6. Reached(g, f, r, u, e, None)
  BY ONLY <1>2, <1>3, <1>5, Typed(g), DecidedReaches
<1> HIDE DEF f
<1>7. Emits(g, f, r, no) = "none" /\ f.eng[r].pe = u /\ Typed(f)
  BY <1>5, <1>6 DEF Reached, Emits, Wordy
<1>8. Process(g, r, e, None, no) = f
  BY <1>2, <1>7, NoneMovesNothing DEF Process, Follow, f
<1>9. Moved(g, f, r, u, e, None)
  BY ONLY <1>2, <1>5, <1>6, Typed(g), Fit(g), g.tx = Idle, ReachedMoved
<1>10. f.tx = Idle
  BY <1>4, <1>9 DEF Moved, Sent, Loud, SharedSends, r
<1>11. /\ f.conn = g.conn /\ f.client = g.client /\ f.data = g.data
       /\ f.vconn = g.vconn /\ f.supply = g.supply
       /\ f.eng["source"] = g.eng["source"] /\ Fit(f)
       /\ f.eng["sink"].pe = u /\ f.eng["sink"].explicit = g.eng["sink"].explicit
  BY <1>4, <1>9 DEF Moved, r, Role
<1>12. Wakes(g, f)
  BY <1>4, <1>7, <1>10, <1>11 DEF Wakes
<1> QED BY <1>1, <1>8, <1>12 DEF r, e

\* The port is an attached sink which waits for an offer.
Reattached(g, k) ==
  /\ Waits(k) /\ k.client = "sink" /\ En(k).explicit = g.eng["sink"].explicit
  /\ k.data = g.data /\ k.vconn = g.vconn /\ Fit(k)

\* Where no request is in its gate and the engine not in Ready, the sink enters
\* Attached.SNK with nothing but the announcement.
LEMMA SinkAttaches ==
  ASSUME NEW g, Engines(g), Fit(g), g.eng["sink"].pe \notin Gates \cup {"ready"},
         NEW ok \in BOOLEAN
  PROVE  LET h == sinkTxChanged(AnnounceData([g EXCEPT !.conn = "attached_snk"]), ok)
         IN /\ Typed(h) /\ Fit(h) /\ h.conn = "attached_snk" /\ h.client = g.client
            /\ h.tx = g.tx /\ h.data = g.data /\ h.vconn = g.vconn
            /\ h.eng["sink"].pe = g.eng["sink"].pe
            /\ h.eng["sink"].explicit = g.eng["sink"].explicit
<1> DEFINE conn == [g EXCEPT !.conn = "attached_snk"]
           there == AnnounceData(conn)
           h == sinkTxChanged(there, ok)
<1>1. "attached_snk" \in Conn /\ "sink" \in Role /\ "source" \in Role
  BY DEF Conn, Role
<1>2. /\ Engines(conn) /\ conn.eng = g.eng /\ conn.conn = "attached_snk"
      /\ conn.client = g.client /\ conn.tx = g.tx /\ conn.vconn = g.vconn
      /\ conn.data = g.data /\ conn.supply = g.supply
  BY <1>1, ConnKeeps DEF Around
<1> HIDE DEF conn
<1>3. Announced(conn, there)
  BY <1>2, AnnounceKeeps
<1> HIDE DEF there
<1>4. /\ Typed(there) /\ there.conn = "attached_snk" /\ there.client = g.client
      /\ there.tx = g.tx /\ there.vconn = g.vconn /\ there.data = g.data
      /\ there.eng["sink"].pe = g.eng["sink"].pe
      /\ there.eng["sink"].explicit = g.eng["sink"].explicit
  BY <1>1, <1>2, <1>3 DEF Announced, Engines
<1>5. Fit(there)
  BY <1>2, <1>3 DEF Announced, Fit, Primed, Lit, Role
<1>6. Typed(h) /\ Like(there, h)
  BY <1>4, RpLike
<1> HIDE DEF h
<1>7. Fit(h)
  BY <1>5, <1>6, LikeFit
<1>8. /\ h.conn = "attached_snk" /\ h.client = g.client
      /\ h.tx = g.tx /\ h.data = g.data /\ h.vconn = g.vconn
      /\ h.eng["sink"].pe = g.eng["sink"].pe
      /\ h.eng["sink"].explicit = g.eng["sink"].explicit
  BY <1>1, <1>4, <1>6 DEF Like
<1> QED BY <1>6, <1>7, <1>8 DEF h, there, conn

\* The new sink sees the new source.
LEMMA SinkCompletes ==
  ASSUME NEW g, Sound(g), g.client = "sink", g.tx = Idle,
         g.eng["sink"].pe = "swap_source_on_seen"
  PROVE  Reattached(g, CompleteToSink(g))
<1> DEFINE there == sinkTxChanged(AnnounceData([g EXCEPT !.conn = "attached_snk"]), g.txok)
           r == "sink"
           e == "swap_done"
           t == "discovery"
           h == Process(there, r, e, None, FALSE)
           k == Process(h, r, "vbus_present", None, FALSE)
<1>1. k = CompleteToSink(g)
  BY DEF CompleteToSink
<1>2. Engines(g) /\ Fit(g) /\ g.txok \in BOOLEAN
  BY PortFields DEF Sound, InOrder, Engines
<1>3. g.eng["sink"].pe \notin Gates \cup {"ready"}
  BY DEF Gates
<1>4. /\ Typed(there) /\ Fit(there) /\ there.conn = "attached_snk" /\ there.client = r
      /\ there.tx = Idle /\ there.data = g.data /\ there.vconn = g.vconn
      /\ there.eng[r].pe = "swap_source_on_seen"
      /\ there.eng[r].explicit = g.eng[r].explicit
  BY <1>2, <1>3, SinkAttaches
<1> HIDE DEF there
<1>5. /\ r \in Role /\ <<there.eng[r].pe, e, t>> \in Ways(r) /\ t \in States(r)
      /\ t \notin Wordy \cup Marks /\ None \in Terms \cup {None}
  BY <1>4
  DEF Role, Ways, SinkWays, States, SinkStates, SharedStates, Wordy, Gates, Marks
<1>6. PICK no : no = FALSE
  OBVIOUS
<1> HIDE DEF e, t, r
<1>7. Reached(there, Process(there, r, e, None, no), r, t, e, None)
  BY ONLY <1>4, <1>5, ProcessReaches
<1>8. Reached(there, h, r, t, e, None)
  BY <1>6, <1>7 DEF h
<1> HIDE DEF h
<1>9. Moved(there, h, r, t, e, None)
  BY ONLY <1>4, <1>5, <1>8, ReachedMoved
<1>10. /\ Typed(h) /\ Fit(h) /\ h.client = "sink" /\ h.conn = "attached_snk"
       /\ h.data = g.data /\ h.vconn = g.vconn /\ h.eng["sink"].pe = "discovery"
       /\ h.eng["sink"].explicit = g.eng["sink"].explicit
  BY <1>4, <1>9 DEF Moved, t, r
<1>11. h.tx = Idle
  BY <1>9 DEF Moved, Sent, Loud, SharedSends, t, r
<1>12. Wakes(h, k)
  BY <1>10, <1>11, SinkWakes DEF r
<1> HIDE DEF k
<1> QED BY <1>1, <1>10, <1>12 DEF Wakes, Reattached, Waits, Snk, Quiet, En

\* A resting sink enters Attached.SNK and hears of VBUS.
LEMMA SinkSeesVbus ==
  ASSUME NEW g, Engines(g), Fit(g), g.tx = Idle, g.eng["sink"].pe = "discovery",
         NEW ok \in BOOLEAN
  PROVE  LET there == sinkTxChanged(AnnounceData([g EXCEPT !.conn = "attached_snk"]), ok)
         IN Reattached(g, vbusPresent(there))
<1> DEFINE there == sinkTxChanged(AnnounceData([g EXCEPT !.conn = "attached_snk"]), ok)
           taken == takeLayer(there, "sink")
           k == Process(taken, "sink", "vbus_present", None, FALSE)
<1>1. k = vbusPresent(there)
  BY DEF vbusPresent
<1>3. g.eng["sink"].pe \notin Gates \cup {"ready"}
  BY DEF Gates
<1>4. /\ Typed(there) /\ Fit(there) /\ there.conn = "attached_snk" /\ there.client = g.client
      /\ there.tx = Idle /\ there.data = g.data /\ there.vconn = g.vconn
      /\ there.eng["sink"].pe = "discovery"
      /\ there.eng["sink"].explicit = g.eng["sink"].explicit
  BY <1>3, SinkAttaches
<1> HIDE DEF there
<1>5. /\ Typed(taken) /\ taken.eng = there.eng /\ taken.conn = there.conn
      /\ taken.client = "sink" /\ taken.tx = there.tx /\ taken.data = there.data
      /\ taken.vconn = there.vconn /\ taken.supply = there.supply
  <2>1. there.eng["sink"] \in EngineType(SinkStates \cup SourceStates) /\ "sink" \in Role
    BY <1>4, PortFields DEF Role
  <2>2. there.eng["sink"].role \in DataRole
    BY <2>1 DEF EngineType
  <2> QED BY <1>4, <2>1, <2>2 DEF takeLayer, Typed
<1> HIDE DEF taken
<1>6. Fit(taken)
  BY <1>4, <1>5 DEF Fit, Primed, Lit
<1>7. Wakes(taken, k)
  BY <1>4, <1>5, <1>6, SinkWakes
<1> HIDE DEF k
<1> QED BY <1>1, <1>4, <1>5, <1>7 DEF there, Wakes, Reattached, Waits, Snk, Quiet, En

\* VBUS is back in the window of a hard reset.
LEMMA WindowCloses ==
  ASSUME NEW g, Sound(g), g.conn = "hard_reset_recover_snk", Quiet(g, {"discovery"}),
         NEW ok \in BOOLEAN
  PROVE  Reattached(g, WindowVbusBack(g, ok))
<1>1. Engines(g) /\ Fit(g) /\ g.eng["sink"].pe = "discovery" /\ g.tx = Idle
  BY Clients DEF Sound, InOrder, Quiet, En
<1> QED BY <1>1, SinkSeesVbus DEF WindowVbusBack

\* The live sink engine passes through Startup, or on to Discovery.
Passed(g, h, t) ==
  /\ Typed(h) /\ Fit(h) /\ h.client = "sink" /\ h.tx = Idle /\ h.conn = g.conn
  /\ h.data = g.data /\ h.vconn = g.vconn /\ h.eng["sink"].pe = t
  /\ h.eng["sink"].explicit = (g.eng["sink"].explicit /\ t = "discovery")

\* It does by the events whose way leads there.
LEMMA SinkPasses ==
  ASSUME NEW g, Typed(g), Fit(g), g.client = "sink", g.tx = Idle,
         NEW e, NEW t \in {"startup", "discovery"}, <<g.eng["sink"].pe, e, t>> \in Ways("sink")
  PROVE  Passed(g, Process(g, "sink", e, None, FALSE), t)
<1> DEFINE r == "sink"
           h == Process(g, r, e, None, FALSE)
<1>1. r \in Role /\ r = g.client /\ t \in States(r) /\ t \notin Wordy
      /\ None \in Terms \cup {None} /\ <<g.eng[r].pe, e, t>> \in Ways(r)
  BY DEF Role, States, SinkStates, SharedStates, Wordy, Gates
<1>2. PICK no : no = FALSE
  OBVIOUS
<1> HIDE DEF r
<1>3. Reached(g, Process(g, r, e, None, no), r, t, e, None)
  BY ONLY <1>1, Typed(g), ProcessReaches
<1>4. Reached(g, h, r, t, e, None)
  BY <1>2, <1>3
<1> HIDE DEF h
<1>5. Sent(h, r, t, e)
  BY <1>1, <1>4, ReachedSends
<1>6. h.tx = Idle
  BY <1>5 DEF Sent, Loud, SharedSends, r
<1>7. Fit(h)
  BY <1>4, ReachedFit, <1>1
<1>8. g.vconn = VconnNext(g.vconn, VconnHears(t))
  BY DEF VconnNext, VconnHears
<1>9. g.eng[r].explicit \in BOOLEAN
  BY <1>1, PortFields DEF EngineType
<1>10. /\ Typed(h) /\ h.client = "sink" /\ h.conn = g.conn /\ h.data = g.data
       /\ h.vconn = g.vconn /\ h.eng["sink"].pe = t
       /\ h.eng["sink"].explicit = (g.eng["sink"].explicit /\ t = "discovery")
  BY <1>1, <1>4, <1>8, <1>9 DEF Reached, r
<1> QED BY <1>6, <1>7, <1>10 DEF Passed, h, r

\* The signal of a hard reset at the engine, heard or sent.
LEMMA ResetHandled ==
  ASSUME NEW g, Sound(g), NEW r \in Role, r = g.client
  PROVE  \E k, no : /\ Hushed(g, k)
                    /\ HardResetHeard(g) = Handle(k, r, "hard_reset_received", None, no)
                    /\ HardResetSent(g) = Handle(k, r, "hard_reset_complete", None, no)
<1> DEFINE k == [g EXCEPT !.tx = Idle]
           h == [g EXCEPT !.tx = Idle, !.eng[g.client].deaf = FALSE]
<1>1. Hushed(g, k)
  BY SentSame DEF Role
<1>2. Typed(g) /\ ~g.eng[r].deaf /\ g.eng[r] \in EngineType(SinkStates \cup SourceStates)
  BY PortFields DEF Sound, InOrder, Engines, Fit
<1>3. [g.eng[r] EXCEPT !.deaf = FALSE] = g.eng[r]
  BY <1>2 DEF EngineType
<1>4. [g.eng EXCEPT ![r].deaf = FALSE] = g.eng
  BY <1>2, <1>3, PortFields
<1>5. h = k
  BY <1>2, <1>4 DEF Typed
<1>6. PICK no : no = FALSE
  OBVIOUS
<1>7. /\ HardResetHeard(g) = Handle(k, r, "hard_reset_received", None, no)
      /\ HardResetSent(g) = Handle(k, r, "hard_reset_complete", None, no)
  BY <1>5, <1>6 DEF HardResetHeard, HardResetSent
<1> HIDE DEF k, h
<1> QED BY <1>1, <1>7

\* A sink which waits for an offer, in the window of the hard reset it heard.
InWindow(g, k) ==
  /\ k.conn = "hard_reset_snk" /\ k.client = "sink" /\ Quiet(k, {"discovery"})
  /\ ~En(k).explicit /\ k.data = g.data /\ k.vconn = g.vconn /\ Fit(k)

\* A sink which waits hears the hard reset.
LEMMA SinkResets ==
  ASSUME NEW g, Sound(g), Waits(g)
  PROVE  InWindow(g, HardResetHeard(g))
<1> DEFINE r == "sink"
           e == "hard_reset_received"
           t == "transition_to_default"
<1>1. r \in Role /\ g.client = r /\ Engines(g) /\ Rests(g, "source") /\ g.conn = "attached_snk"
      /\ g.eng[r].pe \in {"wait_for_capabilities", "wait_no_response"}
  BY Clients DEF Role, Waits, Snk, Sound, InOrder, Solo, Quiet, En
<1>2. PICK k, no : Hushed(g, k) /\ HardResetHeard(g) = Handle(k, r, e, None, no)
  BY <1>1, ResetHandled
<1> DEFINE f == Process(k, r, e, None, no)
<1>3. /\ Typed(k) /\ Fit(k) /\ InOrder(k) /\ k.client = r /\ k.tx = Idle /\ ~k.eng[r].deaf
      /\ k.eng = g.eng /\ k.conn = "attached_snk" /\ k.data = g.data /\ k.vconn = g.vconn
      /\ None \in Terms \cup {None}
  BY <1>1, <1>2 DEF Hushed, Sound, Fit
<1>4. /\ <<k.eng[r].pe, e, t>> \in Ways(r) /\ t \in States(r) /\ t \notin Wordy
      /\ k.eng[r].pe # t
  BY <1>1, <1>3
  DEF Ways, SinkWays, States, SinkStates, SharedStates, Wordy, Gates
<1>5. InOrder(f)
  <2>1. e \notin {"capabilities_evaluated", "source_capabilities"}
    OBVIOUS
  <2> HIDE DEF e, r
  <2> QED BY <1>1, <1>3, <2>1, LiveProcess
<1> HIDE DEF e, t, r
<1>6. Reached(k, f, r, t, e, None)
  BY ONLY <1>1, <1>3, <1>4, ProcessReaches
<1> HIDE DEF f
<1>7. Sent(f, r, t, e) /\ Fit(f)
  BY <1>1, <1>3, <1>6, ReachedSends, ReachedFit
<1>8. /\ f.eng["sink"].pe = "transition_to_default" /\ f.eng["sink"].pe # k.eng["sink"].pe
      /\ f.eng["source"] = k.eng["source"] /\ f.conn = "attached_snk" /\ f.client = "sink"
      /\ ~f.eng["sink"].explicit /\ f.data = g.data /\ f.vconn = g.vconn /\ f.tx = Idle
  <2>1. f.tx = Idle
    BY <1>7 DEF Sent, Loud, SharedSends, t, r
  <2>2. f.vconn = k.vconn
    BY <1>6 DEF Reached, VconnHears, VconnNext, t
  <2> QED BY <1>3, <1>4, <1>6, <2>1, <2>2 DEF Reached, t, r, Role
<1>9. Directed(k, f) = SinkAfterHardReset(f)
  BY <1>8 DEF Directed
<1> DEFINE window == [f EXCEPT !.conn = "hard_reset_snk"]
           start == Process(window, "sink", "default_level_reached", None, FALSE)
           done == Process(start, "sink", "started", None, FALSE)
<1>10. SinkAfterHardReset(f) = done
  BY <1>8 DEF SinkAfterHardReset
<1>11. /\ Typed(window) /\ window.eng = f.eng /\ window.conn = "hard_reset_snk"
       /\ window.client = "sink" /\ window.tx = Idle /\ window.vconn = g.vconn
       /\ window.data = g.data /\ window.supply = f.supply
  <2>1. Engines(f) /\ "hard_reset_snk" \in Conn
    BY <1>5 DEF InOrder, Conn
  <2>2. /\ Around(f, window) /\ window.conn = "hard_reset_snk" /\ window.client = f.client
        /\ window.tx = f.tx /\ window.vconn = f.vconn
        /\ window.data = f.data /\ window.supply = f.supply
    BY <2>1, ConnKeeps
  <2> HIDE DEF window
  <2> QED BY <1>8, <2>2 DEF Around, Engines
<1> HIDE DEF window
<1>12. Fit(window)
  BY <1>7, <1>11 DEF Fit, Primed, Lit
<1>13. Passed(window, start, "startup")
  <2>1. <<window.eng["sink"].pe, "default_level_reached", "startup">> \in Ways("sink")
    BY <1>8, <1>11 DEF Ways, SinkWays
  <2> QED BY <1>11, <1>12, <2>1, SinkPasses
<1> HIDE DEF start
<1>14. Passed(start, done, "discovery")
  <2>1. <<start.eng["sink"].pe, "started", "discovery">> \in Ways("sink")
    BY <1>13 DEF Passed, Ways, SinkWays
  <2>2. Typed(start) /\ Fit(start) /\ start.client = "sink" /\ start.tx = Idle
    BY <1>13 DEF Passed
  <2> QED BY <2>1, <2>2, SinkPasses
<1> HIDE DEF done
<1>15. InWindow(g, done)
  BY <1>11, <1>13, <1>14 DEF Passed, InWindow, Quiet, En
<1> QED BY <1>2, <1>9, <1>10, <1>15 DEF Handle, f

\* The connection over, the port is fit for the next.
LEMMA Disconnects ==
  ASSUME NEW g, Sound(g), NEW to \in {"detached", "error_recovery"}
  PROVE  Fit(Disconnect(g, to)) /\ Disconnect(g, to).conn = to
<1> DEFINE off == VconnNext(g.vconn, "detached")
           quiet == Layer([g EXCEPT !.conn = to], Idle, off)
           k == Retire(quiet)
<1>1. Engines(g) /\ Typed(g) /\ Fit(g) /\ to \in Conn /\ Idle \in TxType /\ off \in VconnState
  BY DEF Sound, InOrder, Engines, Conn, Idle, TxType, VconnNext, VconnState
<1>2. k = Disconnect(g, to)
  BY <1>1 DEF Disconnect, Layer, Typed
<1> HIDE DEF off
<1>3. Engines(quiet) /\ quiet.eng = g.eng /\ quiet.client = g.client /\ quiet.supply = g.supply
  <2> DEFINE conn == [g EXCEPT !.conn = to]
  <2>1. Around(g, conn) /\ conn.client = g.client /\ conn.supply = g.supply
    BY <1>1, ConnKeeps
  <2> HIDE DEF conn
  <2>2. /\ Around(conn, quiet) /\ quiet.client = conn.client /\ quiet.supply = conn.supply
    BY <1>1, <2>1, LayerKeeps DEF Around, conn
  <2> QED BY <2>1, <2>2 DEF Around
<1> HIDE DEF quiet
<1>4. InOrder(k) /\ k.conn = to
  BY <1>2, DisconnectKeeps DEF Sound
<1>5. \A r \in Role : ~k.eng[r].deaf
  BY <1>4 DEF InOrder, Solo, ClientIn, Rests, Role
<1>6. Lit(k)
  <2>1. CASE g.client = "source"
    <3>1. Retired(quiet, k, "source")
      BY <1>3, <2>1, SourceRetires DEF Retire
    <3> QED BY <3>1 DEF Retired, Safe5V, Lit
  <2>2. CASE g.client # "source"
    <3>1. Lit(g)
      BY <1>1, <2>2 DEF Fit, Primed, Sound, InOrder, Solo, Rests, Resting, Role
    <3>2. g.client = "sink" => Retired(quiet, k, "sink")
      BY <1>3, SinkRetires DEF Retire
    <3>3. k.supply = g.supply
      <4>1. CASE g.client = "sink"
        BY <1>3, <3>2, <4>1 DEF Retired
      <4>2. CASE g.client # "sink"
        BY <1>3, <2>2, <4>2 DEF Retire
      <4> QED BY <4>1, <4>2
    <3> QED BY <3>1, <3>3 DEF Lit
  <2> QED BY <2>1, <2>2
<1> QED BY <1>2, <1>4, <1>5, <1>6 DEF Fit, Primed

\* The data role of the attachment is set.
LEMMA DataKeeps ==
  ASSUME NEW g, Engines(g), NEW d \in DataRole
  PROVE  LET h == [g EXCEPT !.data = d]
         IN /\ Around(g, h) /\ h.conn = g.conn /\ h.client = g.client
            /\ h.tx = g.tx /\ h.vconn = g.vconn /\ h.data = d /\ h.supply = g.supply
<1> DEFINE h == [g EXCEPT !.data = d]
<1>1. Typed(g)
  BY DEF Engines
<1>2. /\ h.power = g.power /\ h.rp = g.rp /\ h.eng = g.eng
      /\ h.conn = g.conn /\ h.client = g.client /\ h.tx = g.tx /\ h.vconn = g.vconn
      /\ h.data = d /\ h.supply = g.supply
  BY <1>1 DEF Typed
<1>3. Typed(h)
  BY <1>1 DEF Typed
<1>4. Around(g, h)
  <2> HIDE DEF h
  <2> QED BY <1>2, <1>3, AroundKeeps
<1> QED BY <1>2, <1>4

\* A port nobody uses is at rest, its supply at vSafe5V or not used since.
LEMMA Unused ==
  ASSUME NEW g, Sound(g), Apart(g.conn)
  PROVE  /\ Engines(g) /\ Fit(g) /\ g.tx = Idle /\ g.vconn = "off" /\ g.client = "none"
         /\ Lit(g) /\ \A r \in Role : g.eng[r].pe = Resting(r) /\ ~g.eng[r].explicit
  BY Clients DEF Sound, InOrder, Solo, Rests, Resting, Fit, Primed, Role, Apart

\* A port attaches as the sink.
LEMMA SinkAttached ==
  ASSUME NEW g, Sound(g), Apart(g.conn), NEW ok \in BOOLEAN, NEW ra
  PROVE  LET k == Attached(g, "sink", ok, ra)
         IN Waits(k) /\ ~En(k).explicit /\ k.data = "ufp" /\ k.vconn = "off" /\ Fit(k)
<1> DEFINE d == [g EXCEPT !.data = "ufp"]
           there == sinkTxChanged(AnnounceData([d EXCEPT !.conn = "attached_snk"]), ok)
           k == vbusPresent(there)
<1>1. Engines(g) /\ Typed(g) /\ Fit(g) /\ g.tx = Idle /\ g.vconn = "off"
      /\ g.eng["sink"].pe = "discovery" /\ ~g.eng["sink"].explicit
  BY Unused DEF Engines, Role, Resting
<1>2. [d EXCEPT !.conn = "attached_snk"] = [g EXCEPT !.conn = "attached_snk", !.data = "ufp"]
  BY <1>1 DEF Typed
<1>3. k = Attached(g, "sink", ok, ra)
  BY <1>2 DEF Attached, defaultDataRole
<1>4. /\ Around(g, d) /\ d.tx = g.tx /\ d.vconn = g.vconn /\ d.data = "ufp"
      /\ d.supply = g.supply
  <2>1. "ufp" \in DataRole
    BY DEF DataRole
  <2> QED BY <1>1, <2>1, DataKeeps
<1> HIDE DEF d
<1>5. Fit(d)
  BY <1>1, <1>4 DEF Around, Fit, Primed, Lit
<1>6. Reattached(d, k)
  BY <1>1, <1>4, <1>5, SinkSeesVbus DEF Around
<1> HIDE DEF k
<1> QED BY <1>1, <1>3, <1>4, <1>6 DEF Reattached, Around

\* A port attaches as the source.
LEMMA SourceAttached ==
  ASSUME NEW g, Sound(g), Apart(g.conn), NEW ok
  PROVE  LET k == Attached(g, "source", ok, Ra)
         IN /\ Src(k) /\ Says(k, "send_capabilities", Caps) /\ ~En(k).explicit /\ Lit(k)
            /\ k.data = "dfp" /\ k.vconn = (IF Marked THEN "source" ELSE "off") /\ Fit(k)
<1> DEFINE d == [g EXCEPT !.data = "dfp"]
           conn == [d EXCEPT !.conn = "attached_src"]
           there == AnnounceData(conn)
           vconn == IF Marked THEN "source" ELSE "off"
           lit == [there EXCEPT !.vconn = vconn]
           taken == takeLayer(lit, "source")
           r == "source"
           e == "attached"
           t == "send_capabilities"
           k == Process(taken, r, e, None, FALSE)
<1>1. Engines(g) /\ Typed(g) /\ Fit(g) /\ g.tx = Idle /\ g.vconn = "off" /\ Lit(g)
      /\ g.eng["source"].pe = "startup" /\ ~g.eng["source"].explicit
  BY Unused DEF Engines, Role, Resting
<1>2. conn = [g EXCEPT !.conn = "attached_src", !.data = "dfp"]
  BY <1>1 DEF Typed
<1>3. vconn = IF Ra /\ "vconn" \in Features
              THEN VconnNext(g.vconn, "attached_source_ra") ELSE g.vconn
  BY <1>1 DEF Marked, VconnNext
<1>4. k = Attached(g, "source", ok, Ra)
  BY <1>2, <1>3 DEF Attached, defaultDataRole
<1>5. vconn \in VconnState /\ "dfp" \in DataRole /\ "attached_src" \in Conn /\ r \in Role
  BY DEF VconnState, DataRole, Conn, Role
<1>6. Around(g, d) /\ d.tx = g.tx /\ d.data = "dfp" /\ d.supply = g.supply
  BY <1>1, <1>5, DataKeeps
<1> HIDE DEF d, vconn
<1>7. /\ Around(d, conn) /\ conn.conn = "attached_src" /\ conn.tx = d.tx
      /\ conn.data = d.data /\ conn.supply = d.supply
  BY <1>5, <1>6, ConnKeeps DEF Around
<1> HIDE DEF conn
<1>8. Announced(conn, there) /\ Engines(conn)
  BY <1>7, AnnounceKeeps DEF Around
<1>9. Engines(there)
  BY <1>8 DEF Announced
<1> HIDE DEF there
<1>10. /\ Typed(lit) /\ lit.eng = there.eng /\ lit.power = there.power /\ lit.rp = there.rp
       /\ lit.conn = there.conn /\ lit.tx = there.tx /\ lit.data = there.data
       /\ lit.supply = there.supply /\ lit.vconn = vconn
  BY <1>5, <1>9 DEF Engines, Typed
<1> HIDE DEF lit
<1>11. Engines(lit)
  BY <1>9, <1>10, AroundKeeps DEF Around
<1>12. /\ Around(lit, taken) /\ taken.conn = lit.conn /\ taken.client = r
       /\ taken.tx = lit.tx /\ taken.vconn = lit.vconn
       /\ taken.data = lit.data /\ taken.supply = lit.supply
  BY <1>5, <1>11, TakeKeeps
<1> HIDE DEF taken
<1>13. /\ Typed(taken) /\ taken.client = r /\ taken.tx = Idle /\ taken.conn = "attached_src"
       /\ taken.data = "dfp" /\ taken.vconn = vconn /\ taken.supply = g.supply
       /\ taken.eng[r].pe = "startup" /\ ~taken.eng[r].explicit
       /\ \A q \in Role : ~taken.eng[q].deaf
  BY <1>1, <1>5, <1>6, <1>7, <1>8, <1>10, <1>12 DEF Around, Engines, Announced, Fit
<1>14. Fit(taken)
  BY <1>1, <1>13 DEF Fit, Primed, Lit
<1>15. /\ <<taken.eng[r].pe, e, t>> \in Ways(r) /\ t \in States(r) /\ t \notin Wordy \cup Marks
       /\ None \in Terms \cup {None}
  BY <1>13 DEF Ways, SourceWays, States, SourceStates, Wordy, Gates, Marks
<1>16. PICK no : no = FALSE
  OBVIOUS
<1> HIDE DEF e, t, r
<1>17. Reached(taken, Process(taken, r, e, None, no), r, t, e, None)
  BY ONLY <1>5, <1>13, <1>15, ProcessReaches
<1>18. Reached(taken, k, r, t, e, None)
  BY <1>16, <1>17 DEF k
<1> HIDE DEF k
<1>19. Moved(taken, k, r, t, e, None)
  BY ONLY <1>5, <1>13, <1>14, <1>15, <1>18, ReachedMoved
<1>20. /\ k.conn = "attached_src" /\ k.client = r /\ k.data = "dfp" /\ Fit(k)
       /\ k.eng[r].pe = t /\ ~k.eng[r].explicit /\ k.eng[r].attached
       /\ Sent(k, r, t, e)
  BY <1>13, <1>19 DEF Moved, t, e
<1>21. k.vconn = vconn /\ k.supply = g.supply
  BY <1>13, <1>19 DEF Moved, t, Programmed, SupplyOff, SupplySafe5V, r
<1> QED
  BY <1>1, <1>4, <1>20, <1>21 DEF Src, Says, En, Lit, Sent, r, t, vconn

-----------------------------------------------------------------------------
(***************************************************************************)
(* Outside the contract: a message is heard.                               *)
(***************************************************************************)
\* The sink asks for one of the terms.
Requesting(h, k) ==
  /\ Requests(k) /\ k.tx = Request(En(k).pending) /\ En(k).explicit = En(h).explicit
  /\ k.data = h.data /\ k.vconn = h.vconn /\ Fit(k)

\* It picks them from the offer.
LEMMA OfferHeard ==
  ASSUME NEW h, Sound(h), Waits(h), NEW v \in Terms, NEW yes
  PROVE  Requesting(h, Received(h, Caps, v, yes))
<1> DEFINE r == "sink"
           e == "source_capabilities"
           s == "evaluate_capability"
           w == "capabilities_evaluated"
           t == "select_capability"
<1>1. /\ r \in Role /\ h.client = r /\ r = h.client /\ h.conn = "attached_snk" /\ h.tx # HardReset
      /\ h.eng[r].pe \in {"wait_for_capabilities", "wait_no_response"}
  BY Clients, Messages DEF Role, Waits, Snk, Sound, Quiet, En
<1>2. /\ Caps.type # "bist_test_data" /\ Caps.type # "request" /\ EventOf(h, r, Caps.type) = e
  BY Messages DEF EventOf
<1>3. \E f : Hushed(h, f) /\ Received(h, Caps, v, yes) = Handle(f, r, e, v, yes)
  BY <1>1, <1>2, ReceivedHandled
<1>4. PICK f : Hushed(h, f) /\ Received(h, Caps, v, yes) = Handle(f, r, e, v, yes)
  BY <1>3
<1> DEFINE k == Handle(f, r, e, v, yes)
<1>5. /\ Typed(f) /\ Fit(f) /\ f.client = r /\ r = f.client /\ f.tx = Idle /\ f.eng = h.eng
      /\ f.conn = "attached_snk" /\ f.data = h.data /\ f.vconn = h.vconn /\ v \in Terms \cup {None}
  BY <1>1, <1>4 DEF Hushed, Sound
<1>6. /\ <<f.eng[r].pe, e, s>> \in Ways(r) /\ s # f.eng[r].pe /\ <<s, w, t>> \in Ways(r)
      /\ s \in States(r) /\ t \in States(r) /\ t \notin Directing(r)
      /\ s \notin Marks /\ t \notin Marks /\ WordAt(s, yes) = w
  BY <1>1, <1>5 DEF Ways, SinkWays, States, SinkStates, Directing, Marks, WordAt
<1>7. \A i : Reached(f, i, r, s, e, v) => Emits(f, i, r, yes) = w
  BY <1>6, WordSaid
<1>0. s \notin Loud(r) /\ s # "hard_reset" /\ s # "select_capability"
  BY DEF Loud, SharedSends
<1> HIDE DEF r, e, s, w, t, k
<1>8. \E i : Reached(f, i, r, s, e, v) /\ Reached(i, k, r, t, w, v)
  BY ONLY <1>1, <1>5, <1>6, <1>7, HandleGoesOn DEF k
<1>9. PICK i : Reached(f, i, r, s, e, v) /\ Reached(i, k, r, t, w, v)
  BY <1>8
<1>10. Moved(f, i, r, s, e, v)
  BY ONLY <1>1, <1>5, <1>6, <1>9, ReachedMoved
<1>11. i.tx = Idle /\ Typed(i) /\ Fit(i) /\ i.client = r /\ r = i.client
  BY <1>0, <1>5, <1>10 DEF Moved, Sent
<1>12. Moved(i, k, r, t, w, v)
  BY ONLY <1>1, <1>6, <1>9, <1>11, ReachedMoved
<1>13. /\ i.conn = "attached_snk" /\ i.data = h.data /\ i.vconn = h.vconn
       /\ i.eng[r].explicit = h.eng[r].explicit
  BY <1>0, <1>5, <1>10 DEF Moved
<1>14. /\ k.conn = "attached_snk" /\ k.client = r /\ k.data = h.data /\ k.vconn = h.vconn
       /\ k.eng[r].explicit = h.eng[r].explicit /\ k.eng[r].pe = t /\ k.eng[r].pending = v
       /\ Fit(k) /\ Sent(k, r, t, w)
  BY <1>11, <1>12, <1>13 DEF Moved, t, w
<1>15. k.tx = Request(v)
  BY <1>14 DEF Sent, r, t
<1> QED BY <1>1, <1>4, <1>14, <1>15 DEF Requesting, Requests, Snk, En, t, k

\* The source grants the terms asked for, or does not.
Granting(g, k, terms) ==
  /\ \/ Says(k, "transition_supply", Accept) /\ En(k).terms = terms
     \/ Says(k, "capability_response", Control("reject"))
  /\ Src(k) /\ En(k).explicit = En(g).explicit
  /\ k.data = g.data /\ k.vconn = g.vconn /\ k.supply = g.supply /\ Fit(k)

\* It hears the Request.
LEMMA RequestHeard ==
  ASSUME NEW g, Sound(g), Src(g), Offers(g), NEW p \in Terms, NEW v, NEW yes
  PROVE  Granting(g, Received(g, Request(p), v, yes), p)
<1> DEFINE r == "source"
           e == "request"
           s == "negotiate_capability"
           w == IF yes THEN "request_ok" ELSE "request_bad"
           t == IF yes THEN "transition_supply" ELSE "capability_response"
           m == Request(p)
<1>1. /\ r \in Role /\ g.client = r /\ r = g.client /\ g.conn = "attached_src" /\ g.tx # HardReset
      /\ g.eng[r].pe = "send_capabilities" /\ g.eng["source"].attached /\ g.eng[r].attached
  BY Clients, Messages DEF Role, Offers, Says, Src, Sound, En
<1>2. m.type = "request" /\ m.terms = p /\ EventOf(g, r, m.type) = e /\ m.type # "bist_test_data"
  BY Messages DEF EventOf
<1> HIDE DEF m
<1>3. \E f : Hushed(g, f) /\ Received(g, m, v, yes) = Handle(f, r, e, p, yes)
  BY <1>1, <1>2, ReceivedHandled
<1>4. PICK f : Hushed(g, f) /\ Received(g, m, v, yes) = Handle(f, r, e, p, yes)
  BY <1>3
<1> DEFINE k == Handle(f, r, e, p, yes)
<1>5. /\ Typed(f) /\ Fit(f) /\ f.client = r /\ r = f.client /\ f.tx = Idle /\ f.eng = g.eng
      /\ f.conn = "attached_src" /\ f.data = g.data /\ f.vconn = g.vconn /\ f.supply = g.supply
      /\ p \in Terms \cup {None}
  BY <1>1, <1>4 DEF Hushed, Sound
<1>6. /\ <<f.eng[r].pe, e, s>> \in Ways(r) /\ s # f.eng[r].pe /\ <<s, w, t>> \in Ways(r)
      /\ s \in States(r) /\ t \in States(r) /\ t \notin Directing(r)
      /\ s \notin Marks /\ t \notin Marks /\ WordAt(s, yes) = w
  BY <1>1, <1>5 DEF Ways, SourceWays, States, SourceStates, Directing, Marks, WordAt
<1>7. \A i : Reached(f, i, r, s, e, p) => Emits(f, i, r, yes) = w
  BY <1>6, WordSaid
<1>0. /\ s \notin Loud(r) /\ s \notin {"hard_reset", "select_capability", "transition_supply"}
      /\ t \in {"transition_supply", "capability_response"} /\ s # "send_capabilities"
      /\ s \notin SupplyOff \cup SupplySafe5V \cup {"transition_supply_settle"}
      /\ t \notin SupplyOff \cup SupplySafe5V \cup {"transition_supply_settle"}
  BY DEF Loud, SharedSends, SupplyOff, SupplySafe5V
<1> HIDE DEF r, e, s, w, t, k
<1>8. \E i : Reached(f, i, r, s, e, p) /\ Reached(i, k, r, t, w, p)
  BY ONLY <1>1, <1>5, <1>6, <1>7, HandleGoesOn DEF k
<1>9. PICK i : Reached(f, i, r, s, e, p) /\ Reached(i, k, r, t, w, p)
  BY <1>8
<1>10. Moved(f, i, r, s, e, p)
  BY ONLY <1>1, <1>5, <1>6, <1>9, ReachedMoved
<1>11. i.tx = Idle /\ Typed(i) /\ Fit(i) /\ i.client = r /\ r = i.client
  BY <1>0, <1>5, <1>10 DEF Moved, Sent
<1>12. Moved(i, k, r, t, w, p)
  BY ONLY <1>1, <1>6, <1>9, <1>11, ReachedMoved
<1>13. /\ i.conn = "attached_src" /\ i.data = g.data /\ i.vconn = g.vconn
       /\ i.eng[r].explicit = g.eng[r].explicit /\ i.eng[r].attached /\ i.supply = g.supply
  <2>1. i.supply = f.supply
    BY <1>0, <1>10 DEF Moved, Programmed
  <2> QED BY <1>0, <1>1, <1>5, <1>10, <2>1 DEF Moved
<1>14. /\ k.conn = "attached_src" /\ k.client = r /\ k.data = g.data /\ k.vconn = g.vconn
       /\ k.eng[r].explicit = g.eng[r].explicit /\ k.eng[r].attached
       /\ k.eng[r].pe = t /\ Fit(k) /\ Sent(k, r, t, w) /\ k.supply = g.supply
       /\ t = "transition_supply" => k.eng[r].terms = p
  <2>1. k.supply = i.supply
    BY <1>0, <1>12 DEF Moved, Programmed
  <2>2. t = "transition_supply" => k.eng[r].terms = p
    BY <1>12 DEF Moved
  <2> QED BY <1>0, <1>11, <1>12, <1>13, <2>1, <2>2 DEF Moved
<1>15. /\ t = "transition_supply" => k.tx = Accept
       /\ t = "capability_response" => k.tx = Control("reject")
  BY <1>14 DEF Sent, r
<1>16. k.client = "source" /\ En(k) = k.eng[r] /\ En(g) = g.eng[r] /\ k.eng["source"].attached
  BY <1>1, <1>14 DEF En, r
<1>17. \/ Says(k, "transition_supply", Accept) /\ En(k).terms = p
       \/ Says(k, "capability_response", Control("reject"))
  BY <1>0, <1>14, <1>15, <1>16 DEF Says
<1> QED BY <1>4, <1>14, <1>16, <1>17 DEF Granting, Src, k, m

\* The Reject of its Request sends the sink back to where it waits for an offer.
LEMMA RejectHeard ==
  ASSUME NEW h, Sound(h), Requests(h), ~En(h).explicit, h.tx # HardReset, NEW v \in Terms, NEW yes
  PROVE  Reattached(h, Received(h, Control("reject"), v, yes))
<1> DEFINE e == "reject"
           s == "select_capability"
           o == "wait_for_capabilities"
           t == "ready"
           q == "explicit_contract_holds"
           r == "sink"
           m == Control("reject")
<1>1. /\ r \in Role /\ h.client = r /\ r = h.client /\ h.conn = "attached_snk"
      /\ En(h) = h.eng[r] /\ h.eng[r].pe = s /\ ~h.eng[r].explicit
  BY Clients DEF Role, Requests, Snk, Sound, En
<1>2. m.type \notin {"bist_test_data", "request"} /\ EventOf(h, r, m.type) = e
  BY Messages DEF EventOf
<1> HIDE DEF m
<1>3. \E k : Hushed(h, k) /\ Received(h, m, v, yes) = Handle(k, r, e, v, yes)
  BY <1>1, <1>2, ReceivedHandled
<1>4. PICK k : Hushed(h, k) /\ Received(h, m, v, yes) = Handle(k, r, e, v, yes)
  BY <1>3
<1>5. /\ Typed(k) /\ Fit(k) /\ k.client = r /\ r = k.client /\ k.tx = Idle /\ k.eng[r].pe = s
      /\ ~k.eng[r].explicit /\ v \in Terms \cup {None} /\ k.conn = "attached_snk"
      /\ k.data = h.data /\ k.vconn = h.vconn
  BY <1>1, <1>4 DEF Hushed, Sound
<1> DEFINE f == Step(k, r, e, v, yes)
<1>6. q \notin Holds(k, r, yes)
  BY <1>5 DEF Holds
<1>7. DecidesFor(k, r, e, yes, o)
  <2>1. Decides(r, k.eng[r].pe, e, q, t, o)
    BY <1>5, SinkDecides
  <2>2. o = IF q \in Holds(k, r, yes) THEN t ELSE o
    BY <1>6
  <2> HIDE DEF e, s, q, t, o, r
  <2> QED BY <2>1, <2>2 DEF DecidesFor
<1>8. o \in States(r) /\ o \notin Wordy \cup Directing(r) \cup Marks /\ o \notin Loud(r)
      /\ o # "hard_reset"
  BY DEF States, SinkStates, Wordy, Gates, Directing, Marks, Loud, SharedSends
<1> HIDE DEF e, s, q, t, o, r
<1>9. Reached(k, f, r, o, e, v)
  BY ONLY <1>1, <1>5, <1>7, <1>8, DecidedReaches
<1> HIDE DEF f
<1>10. Emits(k, f, r, yes) = "none" /\ f.eng[r].pe = o /\ Typed(f)
  BY <1>8, <1>9 DEF Reached, Emits, Wordy
<1>11. Process(k, r, e, v, yes) = f
  BY <1>1, <1>10, NoneMovesNothing DEF Process, Follow, f
<1>12. \A p \in Role \ {r} : f.eng[p] = k.eng[p]
  BY <1>9 DEF Reached
<1>13. Directed(k, f) = f
  <2>1. r \in Role /\ f.eng[r].pe \notin Directing(r)
    BY <1>1, <1>8, <1>10
  <2> QED BY ONLY <2>1, <1>12, Undirected
<1>14. Received(h, m, v, yes) = f
  BY <1>4, <1>11, <1>13 DEF Handle
<1>15. Moved(k, f, r, o, e, v)
  BY ONLY <1>1, <1>5, <1>8, <1>9, ReachedMoved
<1>16. /\ f.conn = "attached_snk" /\ f.client = r /\ f.data = h.data /\ f.vconn = h.vconn
       /\ f.eng[r].explicit = k.eng[r].explicit /\ Fit(f) /\ f.tx = Idle
  BY <1>5, <1>8, <1>15 DEF Moved, Sent
<1>17. k.eng = h.eng
  BY <1>4 DEF Hushed
<1>18. Waits(f) /\ f.client = "sink" /\ En(f).explicit = h.eng["sink"].explicit
  BY <1>10, <1>16, <1>17 DEF Waits, Snk, Quiet, En, o, r
<1> QED BY <1>14, <1>16, <1>18 DEF Reattached, m

\* The sink engine hears the PS_RDY of a swap.
Stepped(h, f, t) ==
  /\ Sound(f) /\ f.client = "sink" /\ f.conn = h.conn /\ f.tx = Idle /\ f.eng["sink"].pe = t
  /\ f.eng["sink"].explicit = h.eng["sink"].explicit /\ f.eng["source"] = h.eng["source"]
  /\ f.data = h.data /\ f.vconn = h.vconn

\* Which directs the connection machine.
Directs(h, i, t) == \E k, f : k.eng = h.eng /\ Stepped(h, f, t) /\ i = Directed(k, f)

\* Every PS_RDY of a PR_Swap does.
LEMMA SwapPsRdyHeard ==
  ASSUME NEW h, Sound(h), h.client = "sink", h.tx # HardReset,
         NEW t \in {"swap_assert_rp", "swap_source_on_seen"},
         <<h.eng["sink"].pe, "ps_rdy", t>> \in Ways("sink"), h.eng["sink"].pe # t,
         NEW v \in Terms, NEW yes
  PROVE  Directs(h, Received(h, PsRdy, v, yes), t)
<1> DEFINE e == "ps_rdy"
           r == "sink"
           m == PsRdy
<1>1. r \in Role /\ r = h.client
  BY DEF Role
<1>2. m.type \notin {"bist_test_data", "request"} /\ EventOf(h, r, m.type) = e
  BY Messages DEF EventOf
<1> HIDE DEF m
<1>3. \E k : Hushed(h, k) /\ Received(h, m, v, yes) = Handle(k, r, e, v, yes)
  BY <1>1, <1>2, ReceivedHandled
<1>4. PICK k : Hushed(h, k) /\ Received(h, m, v, yes) = Handle(k, r, e, v, yes)
  BY <1>3
<1> DEFINE f == Process(k, r, e, v, yes)
<1>5. /\ Typed(k) /\ Fit(k) /\ InOrder(k) /\ k.client = r /\ r = k.client /\ k.tx = Idle
      /\ k.eng = h.eng /\ ~k.eng[r].deaf /\ v \in Terms \cup {None} /\ k.conn = h.conn
      /\ k.data = h.data /\ k.vconn = h.vconn /\ <<k.eng[r].pe, e, t>> \in Ways(r)
  BY <1>1, <1>4 DEF Hushed, Sound, Fit
<1>6. t \in States(r) /\ t \notin Wordy /\ t \notin Loud(r) /\ t \notin Marks /\ t # "hard_reset"
      /\ t \notin {"startup", "transition_to_default"}
  BY DEF States, SinkStates, Wordy, Gates, Marks, Loud, SharedSends
<1>7. InOrder(f)
  <2>1. e \notin {"capabilities_evaluated", "source_capabilities"}
    OBVIOUS
  <2> HIDE DEF e, r
  <2> QED BY <1>1, <1>5, <2>1, LiveProcess
<1> HIDE DEF e, r
<1>8. Reached(k, f, r, t, e, v)
  BY ONLY <1>1, <1>5, <1>6, ProcessReaches
<1> HIDE DEF f
<1>9. Moved(k, f, r, t, e, v)
  BY ONLY <1>1, <1>5, <1>6, <1>8, ReachedMoved
<1>10. /\ f.conn = h.conn /\ f.client = r /\ f.data = h.data /\ f.vconn = h.vconn /\ f.tx = Idle
       /\ f.eng[r].pe = t /\ f.eng[r].explicit = h.eng[r].explicit /\ Fit(f)
       /\ \A q \in Role \ {r} : f.eng[q] = h.eng[q]
  BY <1>5, <1>6, <1>9 DEF Moved, Sent
<1>11. Stepped(h, f, t)
  BY <1>7, <1>10 DEF Stepped, Sound, r, Role
<1>12. Received(h, m, v, yes) = Directed(k, f)
  BY <1>4 DEF Handle, f
<1> QED BY <1>5, <1>11, <1>12 DEF m, Directs

\* The old source is off the supply: the old sink takes over.
LEMMA SourceTakesOver ==
  ASSUME NEW h, Sound(h), h.conn = "standby_to_src", Quiet(h, {"swap_transition_to_off"}),
         NEW v \in Terms, NEW yes
  PROVE  NewSource(h, Received(h, PsRdy, v, yes))
<1> DEFINE t == "swap_assert_rp"
<1>1. h.client = "sink" /\ h.eng["sink"].pe = "swap_transition_to_off" /\ h.tx # HardReset
  BY Clients, Messages DEF Sound, Quiet, En
<1>2. <<h.eng["sink"].pe, "ps_rdy", t>> \in Ways("sink") /\ h.eng["sink"].pe # t
      /\ t \in {"swap_assert_rp", "swap_source_on_seen"}
  BY <1>1 DEF Ways, SinkWays
<1> HIDE DEF t
<1>3. Directs(h, Received(h, PsRdy, v, yes), t)
  BY ONLY <1>1, <1>2, Sound(h), v \in Terms, SwapPsRdyHeard
<1>4. PICK k, f : k.eng = h.eng /\ Stepped(h, f, t) /\ Received(h, PsRdy, v, yes) = Directed(k, f)
  BY <1>3 DEF Directs
<1>5. Directed(k, f) = CompleteToSource(f)
  BY <1>1, <1>4 DEF Directed, Stepped, t
<1>6. NewSource(f, CompleteToSource(f))
  BY <1>4, TurnsSource DEF Stepped
<1> QED BY <1>4, <1>5, <1>6 DEF NewSource, Stepped

\* The new source is on: the old one waits for its offer.
LEMMA SinkTakesOver ==
  ASSUME NEW h, Sound(h), h.conn = "standby_to_snk", En(h).pe = "swap_wait_source_on",
         h.tx # HardReset, NEW v \in Terms, NEW yes
  PROVE  Reattached(h, Received(h, PsRdy, v, yes))
<1> DEFINE t == "swap_source_on_seen"
<1>1. h.client = "sink" /\ h.eng["sink"].pe = "swap_wait_source_on" /\ h.tx # HardReset
  BY Clients DEF Sound, En
<1>2. <<h.eng["sink"].pe, "ps_rdy", t>> \in Ways("sink") /\ h.eng["sink"].pe # t
      /\ t \in {"swap_assert_rp", "swap_source_on_seen"}
  BY <1>1 DEF Ways, SinkWays
<1> HIDE DEF t
<1>3. Directs(h, Received(h, PsRdy, v, yes), t)
  BY ONLY <1>1, <1>2, Sound(h), v \in Terms, SwapPsRdyHeard
<1>4. PICK k, f : k.eng = h.eng /\ Stepped(h, f, t) /\ Received(h, PsRdy, v, yes) = Directed(k, f)
  BY <1>3 DEF Directs
<1>5. Directed(k, f) = CompleteToSink(f)
  BY <1>1, <1>4 DEF Directed, Stepped, t
<1>6. Reattached(f, CompleteToSink(f))
  BY <1>4, SinkCompletes DEF Stepped, t
<1> QED BY <1>4, <1>5, <1>6 DEF Reattached, Stepped

\* The answer to the Request, and the PS_RDY which ends the way to the contract.
LEMMA NegotiatingHeard ==
  ASSUME NEW g, NEW h, NEW x, NEW y, NEW v, NEW yes, NEW one, NEW no,
         Hears(g, h, x, y, v, one, no), Facing(g, h), Negotiating(g, h, x, y)
  PROVE  Understood(g, Received(h, g.tx, v, yes), one, no)
<1> USE DEF Hears, Understood
<1> DEFINE k == Received(h, g.tx, v, yes)
           r == "sink"
<1>1. /\ g.client = "source" /\ Src(g) /\ Fresh(g, h) /\ Lit(g) /\ h.vconn # "timeout"
      /\ r \in Role
  BY Clients DEF Sound, Negotiating, Facing, Cable, Role
<1>2. ASSUME k.data = h.data, k.vconn = h.vconn PROVE Facing(g, k)
  BY <1>2 DEF Facing, Cable
<1> SUFFICES Fit(k) /\ Meeting(g, k, one, no)
  BY DEF Pairs
<1>3. CASE Offered(g, h)
  <2>1. g.tx = Caps /\ Waits(h)
    BY <1>3 DEF Offered, Offers, Says
  <2>2. Requesting(h, k)
    BY <2>1, OfferHeard
  <2> HIDE DEF k
  <2>3. Fresh(g, k) /\ Facing(g, k) /\ Fit(k)
    BY <1>1, <1>2, <2>2 DEF Requesting, Fresh
  <2>4. Requested(g, k, one, no)
    BY <1>3, <2>2 DEF Requested, Requesting, Offered
  <2> QED BY <1>1, <2>3, <2>4 DEF Negotiating, Meeting
<1>4. CASE Requested(g, h, x, y)
  BY <1>4 DEF Requested
<1>5. CASE Answered(g, h, x, y)
  <2>1. Requests(h) /\ Snk(h)
    BY <1>5 DEF Answered, Requests
  <2>2. r = h.client /\ En(h) = h.eng[r] /\ h.eng[r].pe = "select_capability"
    BY <2>1, Clients DEF Sound, Snk, Requests
  <2>3. CASE Says(g, "transition_supply", Accept) /\ En(g).terms = En(h).pending
    <3> DEFINE e == "accept"
               t == "transition_sink"
               m == Accept
    <3>1. /\ m.type \notin {"bist_test_data", "request"} /\ e = EventOf(h, r, m.type)
          /\ <<h.eng[r].pe, e, t>> \in Ways(r) /\ t \in States(r)
          /\ t \notin Marks \cup Wordy \cup Directing(r)
      BY <2>2, Messages
      DEF EventOf, Ways, SinkWays, States, SinkStates, Marks, Wordy, Gates, Directing
    <3>2. m = g.tx
      BY <2>3 DEF Says
    <3> HIDE DEF m, e, t
    <3>3. Moved(h, Received(h, m, v, yes), r, t, e, v)
      BY <1>1, <2>2, <3>1, HearMoves
    <3>4. Moved(h, k, r, t, e, v)
      BY <3>2, <3>3
    <3> HIDE DEF k
    <3>5. SinkGoes(h, k, t, e, v)
      BY <1>1, <2>2, <3>4, MovedGoes DEF t
    <3>6. /\ Fit(k) /\ Facing(g, k) /\ Snk(k) /\ Quiet(k, {"transition_sink"})
          /\ ~En(k).explicit /\ En(k).terms = En(h).pending
      BY <1>1, <1>2, <2>1, <3>5 DEF SinkGoes, Snk, Quiet, Sent, Loud, SharedSends, t, Fresh
    <3>7. Supplies(g, k, one)
      BY <2>1, <2>3, <3>6 DEF Supplies, Requests
    <3> QED BY <1>1, <3>6, <3>7 DEF Negotiating, Meeting, Fresh
  <2>4. CASE Says(g, "capability_response", Control("reject"))
    <3>1. Reattached(h, k)
      <4>1. Reattached(h, Received(h, Control("reject"), v, yes))
        BY <1>1, <2>1, RejectHeard DEF Fresh
      <4> QED BY <2>4, <4>1 DEF Says
    <3> HIDE DEF k
    <3>2. Fit(k) /\ Facing(g, k) /\ Waits(k) /\ Fresh(g, k)
      BY <1>1, <1>2, <2>2, <3>1 DEF Reattached, Fresh
    <3>3. Anew(g, k, one)
      BY <2>4, <3>2 DEF Anew
    <3> QED BY <1>1, <3>2, <3>3 DEF Negotiating, Meeting
  <2> QED BY <1>5, <2>3, <2>4 DEF Answered
<1>6. CASE Supplies(g, h, x)
  <2>1. /\ Says(g, "transition_supply_ps_rdy", PsRdy)
        /\ g.supply = [out |-> En(g).terms, pending |-> FALSE]
        /\ Snk(h) /\ Quiet(h, {"transition_sink"})
        /\ En(h).terms = En(g).terms /\ En(h).terms \in Terms
    BY <1>6 DEF Supplies, Says
  <2>2. r = h.client /\ En(h) = h.eng[r] /\ h.eng[r].pe = "transition_sink"
    BY <2>1, Clients DEF Sound, Snk, Quiet
  <2> DEFINE e == "ps_rdy"
             t == "ready"
             m == PsRdy
  <2>3. /\ m.type \notin {"bist_test_data", "request"} /\ e = EventOf(h, r, m.type)
        /\ <<h.eng[r].pe, e, t>> \in Ways(r) /\ t \in States(r) /\ t \in Harmless
        /\ t \notin Loud(r) /\ t # "hard_reset"
    BY <2>2, Messages
    DEF EventOf, Ways, SinkWays, States, SinkStates, SharedStates, Harmless, Loud, SharedSends
  <2>4. m = g.tx
    BY <2>1 DEF Says
  <2> HIDE DEF m, e, r
  <2>5. \E f : Hushed(h, f) /\ Received(h, m, v, yes) = Handle(f, r, e, v, yes)
    BY <1>1, <2>2, <2>3, ReceivedHandled
  <2>6. PICK f : Hushed(h, f) /\ Received(h, m, v, yes) = Handle(f, r, e, v, yes)
    BY <2>5
  <2>7. /\ Sound(f) /\ r = f.client /\ f.tx = Idle /\ <<f.eng[r].pe, e, t>> \in Ways(r)
        /\ v \in Terms \cup {None}
    BY <2>2, <2>3, <2>6 DEF Hushed
  <2> HIDE DEF t
  <2>8. LET i == Handle(f, r, e, v, yes)
        IN ComesTo(f, i, t, i.tx) /\ Fit(i) /\ Sent(i, r, t, e)
    BY ONLY <1>1, <2>3, <2>7, Converse
  <2>9. ComesTo(f, k, t, k.tx) /\ Fit(k) /\ Sent(k, r, t, e)
    BY <2>4, <2>6, <2>8
  <2> HIDE DEF k
  <2>10. k.tx = Idle
    BY <2>3, <2>9 DEF Sent
  <2>11. ComesTo(h, k, t, Idle)
    BY <2>6, <2>9, <2>10, HushedOn
  <2>12. Facing(g, k) /\ Free(k)
    BY <1>2, <2>11 DEF ComesTo, Free, Says, Quiet, t
  <2>13. Contracted(g, k)
    BY <1>1, <2>1, <2>11 DEF ComesTo, Bound, Contracted, Snk
  <2>14. Concludes(g, one)
    BY <2>1 DEF Concludes
  <2> QED BY <2>9, <2>12, <2>13, <2>14 DEF Meeting, Conversing
<1>7. CASE Anew(g, h, x)
  BY <1>7 DEF Anew, Says
<1> QED BY <1>3, <1>4, <1>5, <1>6, <1>7 DEF Negotiating

\* What the one transmits of whom the pair has it first.
LEMMA FirstHeard ==
  ASSUME NEW g, NEW h, NEW x, NEW y, NEW v, NEW yes, NEW one, NEW no,
         Hears(g, h, x, y, v, one, no), Meeting(g, h, x, y)
  PROVE  Understood(g, Received(h, g.tx, v, yes), one, no)
<1> USE DEF Hears, Understood
<1> DEFINE k == Received(h, g.tx, v, yes)
<1>1. CASE Parting(g, h)
  BY <1>1, Clients DEF Parting, Sound
<1>2. CASE Facing(g, h) /\ Negotiating(g, h, x, y)
  <2> HIDE DEF Hears, Understood, k
  <2>1. Understood(g, Received(h, g.tx, v, yes), one, no)
    BY <1>2, NegotiatingHeard
  <2> QED BY <2>1
<1>3. CASE Facing(g, h) /\ Resetting(g, h, x)
  <2> DEFINE r == "sink"
             e == "source_capabilities"
             m == Caps
  <2>1. /\ Src(g) /\ Offers(g) /\ Fresh(g, h) /\ h.conn = "hard_reset_recover_snk" /\ Lit(g)
        /\ Quiet(h, {"discovery"})
    BY <1>3 DEF Resetting, Says
  <2>2. r = h.client /\ r \in Role /\ h.eng[r].pe = "discovery" /\ m = g.tx
    BY <2>1, Clients DEF Sound, Role, Quiet, En, Offers, Says
  <2>3. /\ m.type \notin {"bist_test_data", "request"} /\ e = EventOf(h, r, m.type)
        /\ <<h.eng[r].pe, e>> \in Ignored(r)
    BY <2>2, Messages DEF EventOf, Ignored
  <2> HIDE DEF m, e, r
  <2>4. Hushed(h, Received(h, m, v, yes))
    BY <2>2, <2>3, HearIgnored
  <2>5. Hushed(h, k)
    BY <2>2, <2>4
  <2> HIDE DEF k
  <2>6. k.conn = h.conn /\ k.tx = Idle /\ En(k) = En(h) /\ Facing(g, k) /\ Fit(k)
    BY <1>3, <2>5, HushedFields, FacingKept
  <2>7. Resetting(g, k, one)
    BY <2>1, <2>6 DEF Resetting, Fresh, Quiet
  <2> QED BY <2>6, <2>7 DEF Meeting, Pairs, k
<1>4. CASE Facing(g, h) /\ Swapping(g, h, x, y)
  <2>1. /\ g.conn = "standby_to_snk" /\ Says(g, "swap_wait_source_on", PsRdy) /\ ~En(g).explicit
        /\ h.conn = "standby_to_src" /\ Quiet(h, {"swap_transition_to_off"})
    BY <1>4 DEF Swapping, Quiet
  <2>2. NewSource(h, k)
    <3>1. NewSource(h, Received(h, PsRdy, v, yes))
      BY <2>1, SourceTakesOver
    <3> QED BY <2>1, <3>1 DEF Says
  <2> HIDE DEF k
  <2>3. Facing(k, g) /\ Fit(k) /\ Src(k) /\ Fresh(k, g) /\ Lit(k) /\ k.supply.pending
        /\ Quiet(k, {"swap_source_on"})
    BY <1>4, <2>1, <2>2 DEF NewSource, Facing, Cable, Src, Fresh, Lit, Safe5V
  <2>4. Taking(k, g, no, one)
    BY <2>1, <2>3 DEF Taking, Says
  <2> QED BY <2>3, <2>4 DEF Meeting, Pairs, k
<1>5. CASE Facing(g, h) /\ Taking(g, h, x, y)
  <2>1. /\ Src(g) /\ Fresh(g, h) /\ Lit(g) /\ Says(g, "swap_source_on_ps_rdy", PsRdy)
        /\ h.conn = "standby_to_snk" /\ En(h).pe = "swap_wait_source_on"
    BY <1>5 DEF Taking, Quiet
  <2>2. h.client = "sink" /\ En(h) = h.eng["sink"]
    BY <2>1, Clients DEF Sound
  <2>3. Reattached(h, k)
    <3>1. Reattached(h, Received(h, PsRdy, v, yes))
      BY <2>1, SinkTakesOver
    <3> QED BY <2>1, <3>1 DEF Says
  <2> HIDE DEF k
  <2>4. Facing(g, k) /\ Fit(k) /\ Waits(k) /\ Fresh(g, k)
    BY <1>5, <2>1, <2>2, <2>3 DEF Reattached, Facing, Cable, Fresh
  <2>5. Anew(g, k, one)
    BY <2>1, <2>4 DEF Anew
  <2> QED BY <2>1, <2>4, <2>5 DEF Negotiating, Meeting, Pairs, k
<1>6. CASE Contracted(g, h) /\ (Conversing(g, h, x, y) \/ Conversing(h, g, y, x))
  <2>1. Dealing(g, h, x, y)
    BY <1>6 DEF Dealing, Agreed
  <2> HIDE DEF Hears, Understood, k
  <2> QED BY <2>1, DealingHeard
<1> QED BY <1>1, <1>2, <1>3, <1>4, <1>5, <1>6 DEF Meeting

\* And what the other one transmits.
LEMMA SecondHeard ==
  ASSUME NEW g, NEW h, NEW x, NEW y, NEW v, NEW yes, NEW one, NEW no,
         Hears(g, h, x, y, v, one, no), Meeting(h, g, y, x)
  PROVE  Understood(g, Received(h, g.tx, v, yes), one, no)
<1> USE DEF Hears, Understood
<1> DEFINE k == Received(h, g.tx, v, yes)
<1>1. CASE Parting(h, g)
  BY <1>1, Clients DEF Parting, Sound, Waits, Quiet
<1>2. CASE Facing(h, g) /\ Negotiating(h, g, y, x)
  <2>1. Requested(h, g, y, x) /\ Src(h) /\ Fresh(h, g) /\ Lit(h)
    BY <1>2 DEF Negotiating, Offered, Answered, Supplies, Anew, Waits, Quiet
  <2> DEFINE p == En(g).pending
  <2>2. Offers(h) /\ Requests(g) /\ p \in Terms /\ g.tx = Request(p)
    BY <2>1 DEF Requested, Requests
  <2>3. Granting(h, k, p)
    <3>1. Granting(h, Received(h, Request(p), v, yes), p)
      BY <2>1, <2>2, RequestHeard
    <3> QED BY <2>2, <3>1
  <2> HIDE DEF k
  <2>4. Src(k) /\ Fresh(k, g) /\ Lit(k) /\ Facing(k, g) /\ Fit(k)
    BY <1>2, <2>1, <2>3 DEF Granting, Fresh, Lit, Facing, Cable
  <2>5. Answered(k, g, no, one)
    BY <2>2, <2>3 DEF Granting, Answered
  <2> QED BY <2>4, <2>5 DEF Negotiating, Meeting, Pairs, k
<1>3. CASE Facing(h, g) /\ Resetting(h, g, y)
  BY <1>3 DEF Resetting, Quiet
<1>4. CASE Facing(h, g) /\ Swapping(h, g, y, x)
  BY <1>4 DEF Swapping, Quiet
<1>5. CASE Facing(h, g) /\ Taking(h, g, y, x)
  BY <1>5 DEF Taking
<1>6. CASE Contracted(h, g) /\ (Conversing(h, g, y, x) \/ Conversing(g, h, x, y))
  <2>1. Dealing(g, h, x, y)
    BY <1>6 DEF Dealing, Agreed
  <2> HIDE DEF Hears, Understood, k
  <2> QED BY <2>1, DealingHeard
<1> QED BY <1>1, <1>2, <1>3, <1>4, <1>5, <1>6 DEF Meeting

\* A message is heard.
LEMMA PairHeard ==
  ASSUME NEW g, NEW h, NEW x, NEW y, NEW v, NEW yes, NEW one, NEW no,
         Hears(g, h, x, y, v, one, no), Pairs(g, h, x, y)
  PROVE  Understood(g, Received(h, g.tx, v, yes), one, no)
<1>1. CASE Meeting(g, h, x, y)
  BY <1>1, FirstHeard
<1>2. CASE Meeting(h, g, y, x)
  BY <1>2, SecondHeard
<1> QED BY <1>1, <1>2 DEF Pairs

-----------------------------------------------------------------------------
(***************************************************************************)
(* A hard reset on the wire.                                               *)
(***************************************************************************)
\* The source signals it, and the sink has heard it or waits for an offer.
Signalling(g, h, x) ==
  /\ Facing(g, h) /\ Src(g) /\ Fresh(g, h) /\ Lit(g)
  /\ Says(g, "hard_reset", HardReset)
  /\ \/ ~x /\ Waits(h)
     \/ x /\ h.conn = "hard_reset_snk" /\ Quiet(h, {"discovery"})

\* Who signals a hard reset is a source whose partner did not answer.
LEMMA SourceSignals ==
  ASSUME NEW g, Sound(g), NEW h, Sound(h), NEW x, NEW y, Pairs(g, h, x, y), g.tx = HardReset
  PROVE  Signalling(g, h, x)
<1>1. /\ HardReset # Idle /\ HardReset # PsRdy /\ HardReset # Accept /\ HardReset # Caps
      /\ \A s \in Asks : HardReset # Question(s)
      /\ \A t : HardReset = Control(t) => t = "hard_reset"
      /\ \A t : HardReset # Request(t)
  BY DEF HardReset, Idle, PsRdy, Accept, Caps, Question, Asks, SharedSends, Control, Request
<1>2. CASE Parting(g, h) \/ Parting(h, g)
  BY <1>1, <1>2, Clients DEF Parting, Sound, Waits, Quiet
<1>3. CASE Facing(g, h) /\ Negotiating(g, h, x, y)
  <2>1. ~Offered(g, h) /\ ~Requested(g, h, x, y) /\ ~Answered(g, h, x, y) /\ ~Supplies(g, h, x)
    BY <1>1 DEF Offered, Requested, Offers, Answered, Supplies, Says
  <2>2. Anew(g, h, x) => Says(g, "hard_reset", HardReset) /\ ~x /\ Waits(h)
    BY <1>1 DEF Anew, Says
  <2> QED BY <1>3, <2>1, <2>2 DEF Negotiating, Signalling
<1>4. CASE Facing(h, g) /\ Negotiating(h, g, y, x)
  <2>1. ~Waits(g) /\ ~Quiet(g, {"transition_sink"})
    BY <1>1 DEF Waits, Quiet
  <2>2. ~Requested(h, g, y, x) /\ ~Answered(h, g, y, x)
    BY <1>1 DEF Requested, Answered
  <2> QED BY <1>4, <2>1, <2>2 DEF Negotiating, Offered, Supplies, Anew
<1>5. CASE Facing(g, h) /\ Resetting(g, h, x)
  BY <1>1, <1>5 DEF Resetting, Says, Offers, Signalling
<1>6. CASE Facing(h, g) /\ (Resetting(h, g, y) \/ Swapping(h, g, y, x) \/ Taking(h, g, y, x))
  BY <1>1, <1>6 DEF Resetting, Swapping, Taking, Quiet, Says
<1>7. CASE Facing(g, h) /\ (Swapping(g, h, x, y) \/ Taking(g, h, x, y))
  BY <1>1, <1>7 DEF Swapping, Taking, Quiet, Says
<1>8. ASSUME NEW i, NEW k, NEW u, NEW v, Conversing(i, k, u, v) PROVE i.tx # HardReset /\ k.tx # HardReset
  <2>1. \A p : Free(p) => p.tx # HardReset
    BY <1>1 DEF Free, Quiet
  <2>2. \A p, s : Refusing(p) \/ Says(p, s, Accept) \/ Says(p, s, PsRdy) \/ Says(p, s, Idle)
                    => p.tx # HardReset
    BY <1>1 DEF Refusing, Says
  <2>3. Answers(i, k, u, v) \/ Concludes(i, u) \/ Flipping(i, u) => i.tx # HardReset
    BY <2>2 DEF Answers, Concludes, Flipping
  <2>4. \A p, m : SendsPsRdy(p, m) => Says(p, "vcs_send_ps_rdy", m)
    BY DEF SendsPsRdy
  <2>5. HandsOver(i, k, u, v) => i.tx # HardReset /\ k.tx # HardReset
    BY <1>1, <2>1, <2>2, <2>4 DEF HandsOver, Quiet
  <2>6. TakeOver(i, k, u, v) => i.tx # HardReset /\ k.tx # HardReset
    BY <2>1, <2>2, <2>4 DEF TakeOver
  <2>7. Answers(i, k, u, v) => Free(k)
    BY DEF Answers
  <2> QED BY <1>8, <2>1, <2>3, <2>5, <2>6, <2>7 DEF Conversing
<1>9. ~Conversing(g, h, x, y) /\ ~Conversing(h, g, y, x)
  BY <1>8
<1> QED BY <1>2, <1>3, <1>4, <1>5, <1>6, <1>7, <1>9 DEF Pairs, Meeting

\* The sink hears it.
LEMMA PairSignal ==
  ASSUME NEW g, Sound(g), NEW h, Sound(h), NEW x, NEW y, Pairs(g, h, x, y),
         g.tx = HardReset, ~x, NEW one, one, NEW no
  PROVE  Fit(HardResetHeard(h)) /\ Pairs(g, HardResetHeard(h), one, no)
<1> DEFINE k == HardResetHeard(h)
<1>1. Signalling(g, h, x)
  BY SourceSignals
<1>2. InWindow(h, k)
  BY <1>1, SinkResets DEF Signalling
<1> HIDE DEF k
<1>3. Facing(g, k) /\ Fit(k) /\ Fresh(g, k)
  BY <1>1, <1>2, FacingKept DEF Signalling, InWindow, Fresh
<1>4. Resetting(g, k, one)
  BY <1>1, <1>2, <1>3 DEF Signalling, InWindow, Resetting
<1> QED BY <1>3, <1>4 DEF Pairs, Meeting, k

\* The source goes on to vSafe0V.
LEMMA PairSignalled ==
  ASSUME NEW g, Sound(g), NEW h, Sound(h), NEW x, NEW y, NEW z, Pairs(g, h, x, y),
         g.tx = HardReset, x
  PROVE  Fit(HardResetSent(g)) /\ Pairs(HardResetSent(g), h, z, y)
<1> DEFINE k == HardResetSent(g)
           r == "source"
           e == "hard_reset_complete"
           t == "transition_to_default"
<1>1. Signalling(g, h, x) /\ h.conn = "hard_reset_snk" /\ Quiet(h, {"discovery"})
  BY SourceSignals DEF Signalling
<1>2. r \in Role /\ r = g.client /\ g.eng[r].pe = "hard_reset"
  BY <1>1, Clients DEF Role, Sound, Signalling, Says
<1>3. \E f, no : Hushed(g, f) /\ HardResetSent(g) = Handle(f, r, e, None, no)
  BY <1>2, ResetHandled
<1>4. PICK f, no : Hushed(g, f) /\ HardResetSent(g) = Handle(f, r, e, None, no)
  BY <1>3
<1>5. /\ Typed(f) /\ <<f.eng[r].pe, e, t>> \in Ways(r) /\ t \in States(r)
      /\ t \notin Wordy \cup Directing(r) /\ None \in Terms \cup {None}
      /\ r = f.client /\ f.tx = Idle /\ Fit(f)
  BY <1>2, <1>4
  DEF Hushed, Sound, Ways, SharedWays, States, SourceStates, SharedStates, Wordy, Gates, Directing
<1> HIDE DEF e, t, r
<1>6. Reached(f, Handle(f, r, e, None, no), r, t, e, None)
  BY ONLY <1>2, <1>5, HandleReaches
<1>7. Reached(f, k, r, t, e, None)
  BY <1>4, <1>6
<1> HIDE DEF k
<1>8. Sent(k, r, t, e) /\ Fit(k)
  BY <1>2, <1>5, <1>7, ReachedSends, ReachedFit
<1>9. /\ k.conn = "attached_src" /\ k.client = "source" /\ k.eng["source"].attached
      /\ k.eng["source"].pe = "transition_to_default" /\ ~k.eng["source"].explicit
      /\ k.data = g.data /\ k.vconn = g.vconn
  BY <1>1, <1>2, <1>4, <1>7
  DEF Reached, Hushed, Signalling, Src, r, t, VconnNext, VconnHears
<1>10. k.supply = [out |-> "off", pending |-> TRUE]
  BY <1>7 DEF Reached, r, t, Programmed, SupplyOff
<1>11. k.tx = Idle
  BY <1>8 DEF Sent, Loud, SharedSends, t, r
<1>12. Facing(k, h) /\ Fresh(k, h) /\ Src(k) /\ Says(k, "transition_to_default", Idle)
  BY <1>1, <1>9, <1>11, FacingKept DEF Signalling, Fresh, Src, Says, En
<1>13. Resetting(k, h, z)
  BY <1>1, <1>10, <1>12 DEF Resetting
<1> QED BY <1>8, <1>12, <1>13 DEF Pairs, Meeting, k

-----------------------------------------------------------------------------
(***************************************************************************)
(* A port which is the same in everything the meeting is about.            *)
(***************************************************************************)
\* Live, it is at the same and transmits the same.
Selfsame(g, k) ==
  /\ k.conn = g.conn /\ k.data = g.data /\ k.vconn = g.vconn /\ k.tx = g.tx
  /\ En(k).pe = En(g).pe /\ En(k).explicit = En(g).explicit /\ En(k).terms = En(g).terms
  /\ En(k).pending = En(g).pending /\ En(k).connected = En(g).connected
  /\ k.supply.out = g.supply.out /\ (~g.supply.pending => k.supply = g.supply)
  /\ Src(g) => Src(k) /\ (En(g).pe \in Moving => k.supply = g.supply)

\* A port like a live one is the same to its partner.
LEMMA LikeSelfsame ==
  ASSUME NEW g, Sound(g), NEW k, Like(g, k), ~Apart(g.conn)
  PROVE  Selfsame(g, k)
<1>1. g.client \in Role
  BY PortFields DEF Sound, InOrder, Engines, ClientIn, Conn, Role, Apart
<1>2. Src(g) => g.client = "source"
  BY Clients DEF Sound
<1>3. Src(g) => Src(k) /\ (En(g).pe \in Moving => k.supply = g.supply)
  BY <1>2 DEF Like, En, Src, Role
<1> QED BY <1>1, <1>3 DEF Like, Selfsame, En

\* On the source's side of a meeting without a contract.
LEMMA SelfsameSource ==
  ASSUME NEW g, NEW k, NEW h, NEW x, NEW y, Selfsame(g, k), Facing(g, h)
  PROVE  /\ Negotiating(g, h, x, y) => Negotiating(k, h, x, y)
         /\ Resetting(g, h, x) => Resetting(k, h, x)
         /\ Swapping(g, h, x, y) => Swapping(k, h, x, y)
         /\ Taking(g, h, x, y) => Taking(k, h, x, y)
<1>1. /\ \A s, m : Says(g, s, m) => Says(k, s, m)
      /\ \A S : Quiet(g, S) => Quiet(k, S)
      /\ Offers(g) => Offers(k)
      /\ Lit(g) => Lit(k)
      /\ Fresh(g, h) => Fresh(k, h)
  BY DEF Selfsame, Says, Quiet, Offers, Lit, Fresh
<1>2. ASSUME Negotiating(g, h, x, y) PROVE Negotiating(k, h, x, y)
  <2>1. Src(g) /\ Src(k) /\ Fresh(k, h) /\ Lit(k)
    BY <1>1, <1>2 DEF Negotiating, Selfsame
  <2>2. /\ Offered(g, h) => Offered(k, h)
        /\ Requested(g, h, x, y) => Requested(k, h, x, y)
        /\ Answered(g, h, x, y) => Answered(k, h, x, y)
        /\ Anew(g, h, x) => Anew(k, h, x)
    BY <1>1 DEF Selfsame, Offered, Requested, Answered, Anew
  <2>3. Supplies(g, h, x) => Supplies(k, h, x)
    BY <1>1, <2>1 DEF Selfsame, Supplies, Says, Moving
  <2> QED BY <1>2, <2>1, <2>2, <2>3 DEF Negotiating
<1>3. Resetting(g, h, x) => Resetting(k, h, x)
  BY <1>1 DEF Selfsame, Resetting, Says, Moving
<1>4. Swapping(g, h, x, y) => Swapping(k, h, x, y)
  BY <1>1 DEF Selfsame, Swapping, Quiet, Moving
<1>5. Taking(g, h, x, y) => Taking(k, h, x, y)
  BY <1>1 DEF Selfsame, Taking, Quiet, Moving
<1> QED BY <1>2, <1>3, <1>4, <1>5

\* And on the sink's.
LEMMA SelfsameSink ==
  ASSUME NEW g, NEW k, NEW h, NEW x, NEW y, Selfsame(g, k)
  PROVE  /\ Negotiating(h, g, y, x) => Negotiating(h, k, y, x)
         /\ Resetting(h, g, y) => Resetting(h, k, y)
         /\ Swapping(h, g, y, x) => Swapping(h, k, y, x)
         /\ Taking(h, g, y, x) => Taking(h, k, y, x)
<1>1. /\ \A s, m : Says(g, s, m) => Says(k, s, m)
      /\ \A S : Quiet(g, S) => Quiet(k, S)
      /\ Snk(g) => Snk(k)
      /\ Waits(g) => Waits(k)
      /\ Requests(g) => Requests(k)
      /\ Fresh(h, g) => Fresh(h, k)
  BY DEF Selfsame, Says, Quiet, Snk, Waits, Requests, Fresh
<1>2. Negotiating(h, g, y, x) => Negotiating(h, k, y, x)
  <2>1. /\ Offered(h, g) => Offered(h, k)
        /\ Requested(h, g, y, x) => Requested(h, k, y, x)
        /\ Answered(h, g, y, x) => Answered(h, k, y, x)
        /\ Supplies(h, g, y) => Supplies(h, k, y)
        /\ Anew(h, g, y) => Anew(h, k, y)
    BY <1>1 DEF Selfsame, Offered, Requested, Answered, Supplies, Anew
  <2> QED BY <1>1, <2>1 DEF Negotiating
<1>3. Resetting(h, g, y) => Resetting(h, k, y)
  BY <1>1 DEF Selfsame, Resetting
<1>4. Swapping(h, g, y, x) => Swapping(h, k, y, x)
  BY <1>1 DEF Selfsame, Swapping
<1>5. Taking(h, g, y, x) => Taking(h, k, y, x)
  BY <1>1 DEF Selfsame, Taking, Fresh
<1> QED BY <1>2, <1>3, <1>4, <1>5

\* And under the contract.
LEMMA SelfsameDeals ==
  ASSUME NEW g, NEW k, NEW h, NEW x, NEW y, Selfsame(g, k)
  PROVE  Dealing(g, h, x, y) => Dealing(k, h, x, y)
<1>1. /\ \A s, m : Says(g, s, m) => Says(k, s, m)
      /\ \A S : Quiet(g, S) => Quiet(k, S)
      /\ Free(g) => Free(k)
      /\ Refusing(g) => Refusing(k)
      /\ \A m : SendsPsRdy(g, m) => SendsPsRdy(k, m)
  BY DEF Selfsame, Says, Quiet, Free, Refusing, SendsPsRdy
<1>2. /\ Agreed(g, h) => Agreed(k, h)
      /\ Facing(g, h) => Facing(k, h)
      /\ Facing(h, g) => Facing(h, k)
      /\ Cable(g, h) => Cable(k, h)
      /\ Cable(h, g) => Cable(h, k)
  BY DEF Selfsame, Agreed, Contracted, Snk, Facing, Cable
<1>3. Conversing(g, h, x, y) => Conversing(k, h, x, y)
  <2>1. /\ Answers(g, h, x, y) => Answers(k, h, x, y)
        /\ Concludes(g, x) => Concludes(k, x)
        /\ Flipping(g, x) => Flipping(k, x)
    BY <1>1 DEF Answers, Concludes, Flipping
  <2>2. HandsOver(g, h, x, y) => HandsOver(k, h, x, y)
    BY <1>1 DEF Selfsame, HandsOver
  <2>3. TakeOver(g, h, x, y) => TakeOver(k, h, x, y)
    BY <1>1 DEF Selfsame, TakeOver
  <2> QED BY <1>1, <1>2, <2>1, <2>2, <2>3 DEF Conversing, Selfsame
<1>4. Conversing(h, g, y, x) => Conversing(h, k, y, x)
  <2>1. Answers(h, g, y, x) => Answers(h, k, y, x)
    BY <1>1 DEF Selfsame, Answers
  <2>2. HandsOver(h, g, y, x) => HandsOver(h, k, y, x)
    BY <1>1 DEF Selfsame, HandsOver
  <2>3. TakeOver(h, g, y, x) => TakeOver(h, k, y, x)
    BY <1>1 DEF Selfsame, TakeOver
  <2> QED BY <1>1, <1>2, <2>1, <2>2, <2>3 DEF Conversing, Selfsame
<1> QED BY <1>2, <1>3, <1>4 DEF Dealing

\* A port like it meets the partner as it did.
LEMMA LikeMeets ==
  ASSUME NEW g, Sound(g), NEW k, Like(g, k), NEW h, NEW x, NEW y, Pairs(g, h, x, y)
  PROVE  Fit(k) /\ Pairs(k, h, x, y)
<1>1. Fit(k)
  BY LikeFit DEF Sound
<1>2. CASE Apart(g.conn)
  <2>1. k.conn = g.conn
    BY DEF Like
  <2>2. CASE Meeting(g, h, x, y)
    <3>1. Parting(g, h)
      BY <1>2, <2>2
      DEF Meeting, Apart, Src, Contracted, Negotiating, Resetting, Swapping, Taking
    <3> QED BY <1>1, <2>1, <3>1 DEF Parting, Pairs, Meeting
  <2>3. CASE Meeting(h, g, y, x)
    <3>1. Parting(h, g)
      BY <1>2, <2>3
      DEF Meeting, Apart, Snk, Contracted, Negotiating, Resetting, Swapping, Taking,
          Offered, Requested, Answered, Supplies, Anew, Waits, Requests
    <3>2. Parting(h, k)
      BY <1>2, <2>1, <3>1 DEF Parting
    <3> QED BY <1>1, <3>2 DEF Pairs, Meeting
  <2> QED BY <2>2, <2>3 DEF Pairs
<1>3. CASE ~Apart(g.conn)
  <2>1. Selfsame(g, k)
    BY <1>3, LikeSelfsame
  <2>2. (Facing(g, h) => Facing(k, h)) /\ (Facing(h, g) => Facing(h, k))
    BY <2>1 DEF Selfsame, Facing, Cable
  <2>3. Dealing(g, h, x, y) => Pairs(k, h, x, y)
    BY <2>1, SelfsameDeals, EitherSide
  <2>4. CASE Meeting(g, h, x, y)
    <3>1. ~Parting(g, h)
      BY <1>3 DEF Parting
    <3>2. CASE Facing(g, h) /\ (Negotiating(g, h, x, y) \/ Resetting(g, h, x)
                                \/ Swapping(g, h, x, y) \/ Taking(g, h, x, y))
      <4>1. Meeting(k, h, x, y)
        BY <2>1, <2>2, <3>2, SelfsameSource DEF Meeting
      <4> QED BY <1>1, <4>1 DEF Pairs
    <3>3. CASE Contracted(g, h) /\ (Conversing(g, h, x, y) \/ Conversing(h, g, y, x))
      BY <1>1, <2>3, <3>3 DEF Dealing, Agreed
    <3> QED BY <2>4, <3>1, <3>2, <3>3 DEF Meeting
  <2>5. CASE Meeting(h, g, y, x)
    <3>1. Parting(h, g) => Parting(h, k)
      BY <2>1 DEF Parting, Selfsame, Waits, Snk, Quiet
    <3>2. CASE Facing(h, g) /\ (Negotiating(h, g, y, x) \/ Resetting(h, g, y)
                                \/ Swapping(h, g, y, x) \/ Taking(h, g, y, x))
      <4>1. Meeting(h, k, y, x)
        BY <2>1, <2>2, <3>2, SelfsameSink DEF Meeting
      <4> QED BY <1>1, <4>1 DEF Pairs
    <3>3. CASE Contracted(h, g) /\ (Conversing(h, g, y, x) \/ Conversing(g, h, x, y))
      BY <1>1, <2>3, <3>3 DEF Dealing, Agreed
    <3> QED BY <1>1, <2>5, <3>1, <3>2, <3>3 DEF Meeting, Pairs
  <2> QED BY <2>4, <2>5 DEF Pairs
<1> QED BY <1>2, <1>3

-----------------------------------------------------------------------------
(***************************************************************************)
(* The supply settles.                                                     *)
(***************************************************************************)
\* Where an engine can be under the contract.
Dealt == Asks \cup
  {"ready", "sink_tx_wait_dr", "sink_tx_wait_pr", "send_not_supported", "accept_dr_swap",
   "accept_pr_swap", "vcs_accept_swap", "vcs_active", "vcs_send_ps_rdy",
   "transition_supply_ps_rdy"}

\* Nowhere else.
LEMMA DealingAt ==
  ASSUME NEW g, NEW h, NEW x, NEW y, Dealing(g, h, x, y)
  PROVE  En(g).pe \in Dealt
<1>1. Free(g) => En(g).pe \in Dealt
  BY DEF Free, Quiet, Dealt
<1>2. CASE Conversing(g, h, x, y)
  <2>1. Answers(g, h, x, y) \/ Concludes(g, x) \/ Flipping(g, x) => En(g).pe \in Dealt
    BY DEF Answers, Concludes, Flipping, Refusing, Says, Dealt
  <2>2. HandsOver(g, h, x, y) \/ TakeOver(g, h, x, y) => En(g).pe \in Dealt
    BY <1>1 DEF HandsOver, TakeOver, SendsPsRdy, Quiet, Says, Dealt
  <2> QED BY <1>1, <1>2, <2>1, <2>2 DEF Conversing
<1>3. CASE Conversing(h, g, y, x)
  <2>1. HandsOver(h, g, y, x) \/ TakeOver(h, g, y, x) => En(g).pe \in Dealt
    BY <1>1 DEF HandsOver, TakeOver, SendsPsRdy, Quiet, Says, Dealt
  <2>2. Answers(h, g, y, x) => Free(g)
    BY DEF Answers
  <2> QED BY <1>1, <1>3, <2>1, <2>2 DEF Conversing
<1> QED BY <1>2, <1>3 DEF Dealing

\* Who sources in a state in which its supply moves, and where its partner is.
Awaited(g, h) ==
  /\ Snk(h) /\ Quiet(h, {"transition_sink"})
  /\ En(h).terms = En(g).terms /\ En(h).terms \in Terms
Withdrawing(g, h) ==
  \/ /\ Says(g, "transition_supply_settle", Idle) /\ Awaited(g, h)
     /\ g.supply = [out |-> En(g).terms, pending |-> TRUE] /\ Fresh(g, h)
  \/ /\ Says(g, "transition_to_default", Idle) /\ h.conn = "hard_reset_snk"
     /\ g.supply = [out |-> "off", pending |-> TRUE] /\ Fresh(g, h) /\ Quiet(h, {"discovery"})
  \/ /\ Says(g, "recover", Idle) /\ h.conn \in {"hard_reset_snk", "hard_reset_recover_snk"}
     /\ g.supply = [out |-> "off", pending |-> FALSE] /\ Fresh(g, h) /\ Quiet(h, {"discovery"})
  \/ /\ Says(g, "restore_default", Idle) /\ h.conn = "hard_reset_recover_snk"
     /\ g.supply = [out |-> "safe5v", pending |-> TRUE] /\ Fresh(g, h) /\ Quiet(h, {"discovery"})
  \/ /\ Says(g, "swap_supply_off", Idle) /\ g.supply.pending
     /\ h.conn = "standby_to_src" /\ Quiet(h, {"swap_transition_to_off"})
Rising(g, h, y) ==
  /\ Says(g, "swap_source_on", Idle) /\ g.supply.pending /\ Lit(g) /\ Fresh(g, h)
  /\ h.conn = "standby_to_snk" /\ En(h).pe = "swap_wait_source_on"
  /\ h.tx = Idle \/ (h.tx = PsRdy /\ y)

\* A source whose supply moves is in one of them.
LEMMA SourceMoves ==
  ASSUME NEW g, Sound(g), NEW h, NEW x, NEW y, Pairs(g, h, x, y),
         g.client = "source", g.eng["source"].pe \in Moving
  PROVE  Facing(g, h) /\ Src(g) /\ (Withdrawing(g, h) \/ Rising(g, h, y))
<1>1. En(g) = g.eng["source"] /\ En(g).pe \in Moving
  BY DEF En
<1>2. ~Dealing(g, h, x, y)
  BY <1>1, DealingAt DEF Moving, Dealt, Asks
<1>3. Snk(g) \/ Apart(g.conn) => FALSE
  BY Clients DEF Sound, Snk
<1>4. ~Meeting(h, g, y, x)
  <2>1. ~Parting(h, g)
    BY <1>3 DEF Parting, Waits
  <2>2. ~Negotiating(h, g, y, x)
    BY <1>3 DEF Negotiating, Offered, Requested, Answered, Supplies, Anew, Waits, Requests
  <2>3. ~Resetting(h, g, y) /\ ~Swapping(h, g, y, x) /\ ~Taking(h, g, y, x)
    BY <1>1, <1>3 DEF Moving, Resetting, Swapping, Taking, Quiet, Says
  <2> QED BY <1>2, <2>1, <2>2, <2>3 DEF Meeting, Dealing, Agreed
<1>5. Facing(g, h) /\ (\/ Negotiating(g, h, x, y) \/ Resetting(g, h, x)
                       \/ Swapping(g, h, x, y) \/ Taking(g, h, x, y))
  BY <1>2, <1>3, <1>4 DEF Pairs, Meeting, Parting, Dealing, Agreed
<1>6. CASE Negotiating(g, h, x, y)
  <2>1. Supplies(g, h, x)
    BY <1>1, <1>6
    DEF Moving, Negotiating, Offered, Requested, Answered, Anew, Offers, Says
  <2>2. Says(g, "transition_supply_settle", Idle)
        /\ g.supply = [out |-> En(g).terms, pending |-> TRUE]
    BY <1>1, <2>1 DEF Moving, Supplies, Says
  <2> QED BY <1>5, <1>6, <2>1, <2>2 DEF Negotiating, Supplies, Withdrawing, Awaited
<1>7. CASE Resetting(g, h, x)
  BY <1>1, <1>5, <1>7 DEF Moving, Resetting, Offers, Says, Withdrawing
<1>8. CASE Swapping(g, h, x, y)
  BY <1>1, <1>3, <1>5, <1>8, Clients DEF Moving, Swapping, Quiet, Says, Withdrawing, Sound
<1>9. CASE Taking(g, h, x, y)
  BY <1>1, <1>5, <1>9 DEF Moving, Taking, Quiet, Says, Rising
<1> QED BY <1>5, <1>6, <1>7, <1>8, <1>9

\* The port with its supply there, which the event finds.
Steady(g, k) ==
  /\ Sound(k) /\ Typed(k) /\ k.eng = g.eng /\ k.tx = g.tx
  /\ k.conn = g.conn /\ k.client = g.client /\ k.data = g.data /\ k.vconn = g.vconn
  /\ k.supply = [out |-> g.supply.out, pending |-> FALSE]

\* The event finds such a port.
LEMMA SettleHandled ==
  ASSUME NEW g, Sound(g)
  PROVE  \E k, no : /\ Steady(g, k)
                    /\ SupplySettled(g) = Handle(k, "source", "supply_settled", None, no)
<1> DEFINE supply == [g.supply EXCEPT !.pending = FALSE]
           seen == [g EXCEPT !.supply = supply]
<1>1. Typed(g) /\ g.supply \in SupplyType
  BY PortFields DEF Sound, InOrder, Engines
<1>2. supply \in SupplyType /\ supply = [out |-> g.supply.out, pending |-> FALSE]
  <2>1. supply \in SupplyType
    BY <1>1 DEF SupplyType
  <2>2. supply.out = g.supply.out /\ supply.pending = FALSE
    BY <1>1 DEF SupplyType
  <2> HIDE DEF supply
  <2>3. supply = [out |-> g.supply.out, pending |-> FALSE]
    BY <2>1, <2>2 DEF SupplyType
  <2> QED BY <2>1, <2>3
<1>3. seen = [g EXCEPT !.supply.pending = FALSE]
  BY <1>1 DEF Typed
<1> HIDE DEF supply
<1>4. /\ seen.power = g.power /\ seen.rp = g.rp /\ seen.eng = g.eng /\ seen.tx = g.tx
      /\ seen.conn = g.conn /\ seen.client = g.client /\ seen.vconn = g.vconn
      /\ seen.data = g.data /\ seen.supply = supply
  BY <1>1 DEF Typed
<1>5. Typed(seen)
  BY <1>1, <1>2 DEF Typed, SupplyType
<1>6. SupplySettled(g) = Handle(seen, "source", "supply_settled", None, FALSE)
  BY <1>3 DEF SupplySettled
<1> HIDE DEF seen
<1>7. InOrder(seen)
  <2>1. Around(g, seen)
    BY <1>4, <1>5, AroundKeeps DEF Sound, InOrder
  <2> QED BY <1>4, <2>1 DEF Sound, InOrder, Around, Solo, Rests, Loose
<1>8. Steady(g, seen)
  BY <1>2, <1>4, <1>5, <1>7 DEF Steady, Sound, Fit, Primed, Lit
<1> QED BY <1>6, <1>8

\* The source goes on to the state the table has for it.
LEMMA SettleGoes ==
  ASSUME NEW g, Sound(g), Src(g), g.tx = Idle, g.vconn # "timeout",
         NEW t \in SourceStates, t \notin Marks \cup Wordy \cup Directing("source"),
         t # "transition_sink", <<g.eng["source"].pe, "supply_settled", t>> \in Ways("source")
  PROVE  \E k : Steady(g, k) /\ SourceGoes(k, SupplySettled(g), t, "supply_settled", None)
<1> DEFINE r == "source"
           e == "supply_settled"
<1>1. \E k, no : Steady(g, k) /\ SupplySettled(g) = Handle(k, r, e, None, no)
  BY SettleHandled
<1>2. PICK k, no : Steady(g, k) /\ SupplySettled(g) = Handle(k, r, e, None, no)
  BY <1>1
<1>3. /\ Typed(k) /\ Fit(k) /\ r \in Role /\ r = k.client /\ k.tx = Idle /\ t \in States(r)
      /\ t \notin Marks \cup Wordy \cup Directing(r)
      /\ <<k.eng[r].pe, e, t>> \in Ways(r) /\ None \in Terms \cup {None}
  BY <1>2, Clients DEF Steady, Sound, Role, States
<1>4. Src(k) /\ k.vconn # "timeout"
  BY <1>2 DEF Steady, Src
<1> HIDE DEF e
<1>5. Moved(k, Handle(k, r, e, None, no), r, t, e, None)
  BY ONLY <1>3, HandleMoves
<1>6. SourceGoes(k, Handle(k, r, e, None, no), t, e, None)
  BY <1>3, <1>4, <1>5, MovedGoes
<1> QED BY <1>2, <1>6 DEF e

\* What it finds settled is no more.
LEMMA SettleIgnored ==
  ASSUME NEW g, Sound(g), <<g.eng["source"].pe, "supply_settled">> \in Ignored("source"),
         g.eng["source"].pe \notin Moving
  PROVE  Like(g, SupplySettled(g))
<1> DEFINE r == "source"
           e == "supply_settled"
<1>1. \E k, no : Steady(g, k) /\ SupplySettled(g) = Handle(k, r, e, None, no)
  BY SettleHandled
<1>2. PICK k, no : Steady(g, k) /\ SupplySettled(g) = Handle(k, r, e, None, no)
  BY <1>1
<1>3. Typed(k) /\ <<k.eng[r].pe, e>> \in Ignored(r) /\ r \in Role
  BY <1>2 DEF Steady, Role
<1> HIDE DEF e, r
<1>4. Handle(k, r, e, None, no) = k
  BY ONLY <1>3, IgnoredHandled
<1>5. g.supply \in SupplyType
  BY PortFields DEF Sound, InOrder, Engines
<1>6. ~g.supply.pending => g.supply = [out |-> g.supply.out, pending |-> FALSE]
  BY <1>5 DEF SupplyType
<1>7. Like(g, k)
  BY <1>2, <1>6 DEF Steady, Like
<1> QED BY <1>2, <1>4, <1>7

\* Back at vSafe5V after the hard reset, the source makes an offer.
LEMMA SettleOffers ==
  ASSUME NEW g, Sound(g), Src(g), g.tx = Idle, g.vconn # "timeout",
         g.eng["source"].pe = "restore_default"
  PROVE  \E k : Steady(g, k) /\ SourceGoes(k, SupplySettled(g), "send_capabilities",
                                           "supply_settled", None)
<1> DEFINE r == "source"
           e == "supply_settled"
           q == "still_attached"
           t == "send_capabilities"
           o == "startup"
<1>1. \E k, no : Steady(g, k) /\ SupplySettled(g) = Handle(k, r, e, None, no)
  BY SettleHandled
<1>2. PICK k, no : Steady(g, k) /\ SupplySettled(g) = Handle(k, r, e, None, no)
  BY <1>1
<1>3. /\ Typed(k) /\ Fit(k) /\ r \in Role /\ r = k.client /\ k.tx = Idle /\ t \in States(r)
      /\ t \notin Marks \cup Wordy \cup Directing(r) /\ None \in Terms \cup {None}
      /\ k.eng[r].pe = "restore_default" /\ k.eng[r].attached
  BY <1>2, Clients
  DEF Steady, Sound, Role, States, SourceStates, Marks, Wordy, Gates, Directing, Src
<1>4. Src(k) /\ k.vconn # "timeout"
  BY <1>2 DEF Steady, Src
<1>5. DecidesFor(k, r, e, no, t)
  <2>1. Decides(r, k.eng[r].pe, e, q, t, o)
    BY <1>3, SourceDecides
  <2>2. q \in Holds(k, r, no)
    BY <1>3 DEF Holds
  <2> HIDE DEF e, q, t, o, r
  <2> QED BY <2>1, <2>2 DEF DecidesFor
<1> DEFINE f == Step(k, r, e, None, no)
<1> HIDE DEF e, q, t, o
<1>6. Reached(k, f, r, t, e, None)
  BY ONLY <1>3, <1>5, DecidedReaches
<1> HIDE DEF f
<1>7. Emits(k, f, r, no) = "none" /\ f.eng[r].pe = t /\ Typed(f)
      /\ \A p \in Role \ {r} : f.eng[p] = k.eng[p]
  BY <1>3, <1>6 DEF Reached, Emits, Wordy
<1>8. Process(k, r, e, None, no) = f
  BY <1>3, <1>7, NoneMovesNothing DEF Process, Follow, f
<1>9. Directed(k, f) = f
  <2>1. f.eng[r].pe \notin Directing(r)
    BY <1>3, <1>7
  <2>2. r \in Role /\ \A p \in Role \ {r} : f.eng[p] = k.eng[p]
    BY <1>3, <1>7
  <2> HIDE DEF r
  <2> QED BY ONLY <2>1, <2>2, Undirected
<1>10. Moved(k, f, r, t, e, None)
  BY ONLY <1>3, <1>6, ReachedMoved
<1>11. SourceGoes(k, f, t, e, None)
  BY <1>3, <1>4, <1>10, MovedGoes DEF t
<1>12. SourceGoes(k, SupplySettled(g), t, e, None)
  BY <1>2, <1>8, <1>9, <1>11 DEF Handle
<1> QED BY <1>2, <1>12 DEF e, t

\* Off, the old source of a swap becomes the sink.
LEMMA SettleSwaps ==
  ASSUME NEW g, Sound(g), Src(g), g.tx = Idle, g.eng["source"].pe = "swap_supply_off"
  PROVE  NewSink(g, SupplySettled(g))
<1> DEFINE r == "source"
           e == "supply_settled"
           t == "swap_assert_rd"
<1>1. \E k, no : Steady(g, k) /\ SupplySettled(g) = Handle(k, r, e, None, no)
  BY SettleHandled
<1>2. PICK k, no : Steady(g, k) /\ SupplySettled(g) = Handle(k, r, e, None, no)
  BY <1>1
<1>3. /\ Typed(k) /\ Fit(k) /\ InOrder(k) /\ r \in Role /\ r = k.client /\ k.tx = Idle
      /\ t \in States(r) /\ t \notin Wordy /\ None \in Terms \cup {None} /\ ~k.eng[r].deaf
      /\ <<k.eng[r].pe, e, t>> \in Ways(r) /\ k.conn = "attached_src" /\ k.eng[r].pe # t
      /\ k.data = g.data /\ k.vconn = g.vconn
  BY <1>2, Clients
  DEF Steady, Sound, Role, States, SourceStates, Wordy, Gates, Ways, SourceWays, Src, Fit
<1>4. e \notin {"capabilities_evaluated", "source_capabilities"}
  OBVIOUS
<1> DEFINE f == Process(k, r, e, None, no)
<1> HIDE DEF e, t
<1>5. InOrder(f)
  <2> HIDE DEF r
  <2> QED BY <1>3, <1>4, LiveProcess
<1>6. Reached(k, f, r, t, e, None)
  <2> HIDE DEF r
  <2> QED BY ONLY <1>3, ProcessReaches
<1> HIDE DEF f
<1>7. Sent(f, r, t, e) /\ Fit(f)
  BY <1>3, <1>6, ReachedSends, ReachedFit
<1>8. f.tx = Idle
  BY <1>7 DEF Sent, Loud, SharedSends, t, r
<1>9. /\ f.eng["source"].pe = "swap_assert_rd" /\ f.eng["source"].pe # k.eng["source"].pe
      /\ f.eng["sink"] = k.eng["sink"] /\ f.conn = "attached_src" /\ f.client = "source"
      /\ f.data = g.data /\ f.vconn = g.vconn
  BY <1>3, <1>6 DEF Reached, VconnHears, VconnNext, r, t, Role
<1>10. Directed(k, f) = BeginSwapToSink(f)
  BY <1>9 DEF Directed
<1>11. NewSink(f, BeginSwapToSink(f))
  BY <1>5, <1>7, <1>8, <1>9, TurnsSink DEF Sound
<1>12. SupplySettled(g) = BeginSwapToSink(f)
  BY <1>2, <1>10 DEF Handle, f
<1> QED BY <1>9, <1>11, <1>12 DEF NewSink

\* The supply of one of the two settles.
LEMMA PairSettled ==
  ASSUME NEW g, Sound(g), NEW h, Sound(h), NEW x \in BOOLEAN, NEW y, Pairs(g, h, x, y),
         g.supply.pending, NEW z \in BOOLEAN,
         z <=> (x /\ SupplySettled(g).tx = g.tx)
  PROVE  Fit(SupplySettled(g)) /\ Pairs(SupplySettled(g), h, z, y)
<1> DEFINE f == SupplySettled(g)
           s == g.eng["source"].pe
<1>1. CASE s \notin Moving
  <2>1. <<s, "supply_settled">> \in Ignored("source")
    <3>1. s \in SourceStates
      BY PortFields DEF Sound, InOrder, Engines, States, Role
    <3> QED BY <1>1, <3>1 DEF Ignored, Moving
  <2>2. Like(g, f)
    BY <1>1, <2>1, SettleIgnored
  <2>3. z = x
    BY <2>2 DEF Like
  <2> QED BY <2>2, <2>3, LikeMeets
<1>2. CASE s \in Moving
  <2>1. s # "startup"
    BY <1>2 DEF Moving
  <2>2. g.client = "source" /\ En(g) = g.eng["source"]
    BY <2>1 DEF Sound, InOrder, Solo, Rests, Resting, Role, En
  <2>3. Facing(g, h) /\ Src(g) /\ (Withdrawing(g, h) \/ Rising(g, h, y))
    BY <1>2, <2>2, SourceMoves
  <2>4. g.tx = Idle /\ g.vconn # "timeout"
    BY <2>3 DEF Withdrawing, Rising, Says, Facing, Cable
  <2>5. ASSUME NEW k, Steady(g, k), NEW t, NEW e, SourceGoes(k, f, t, e, None),
               t # "transition_supply"
        PROVE  /\ Facing(f, h) /\ Src(f) /\ Fit(f) /\ (Fresh(g, h) => Fresh(f, h))
               /\ En(f).pe = t /\ En(f).terms = En(g).terms
               /\ f.supply = Programmed(k.supply, t, En(f).terms) /\ Sent(f, "source", t, e)
    <3>1. En(k) = En(g)
      BY <2>5 DEF Steady, En
    <3> HIDE DEF f
    <3> QED BY <2>3, <2>5, <3>1 DEF SourceGoes, Steady, Facing, Cable, Fresh
  <2>6. CASE s = "transition_supply_settle"
    <3> DEFINE t == "transition_supply_ps_rdy"
    <3>1. /\ t \in SourceStates /\ t \notin Marks \cup Wordy \cup Directing("source")
          /\ t # "transition_sink" /\ <<s, "supply_settled", t>> \in Ways("source")
      BY <2>6 DEF SourceStates, Marks, Wordy, Gates, Directing, Ways, SourceWays
    <3>2. PICK k : Steady(g, k) /\ SourceGoes(k, f, t, "supply_settled", None)
      BY <2>3, <2>4, <3>1, SettleGoes
    <3>3. Awaited(g, h) /\ g.supply.out = En(g).terms /\ Fresh(g, h) /\ Lit(g)
      BY <2>2, <2>3, <2>6, TermsAssumption DEF Withdrawing, Awaited, Rising, Says, Lit
    <3> HIDE DEF f
    <3>4. /\ Facing(f, h) /\ Src(f) /\ Fit(f) /\ Fresh(f, h) /\ En(f).pe = t
          /\ En(f).terms = En(g).terms /\ f.supply = [out |-> g.supply.out, pending |-> FALSE]
          /\ Sent(f, "source", t, "supply_settled")
      BY <2>5, <3>2, <3>3 DEF Programmed, SupplyOff, SupplySafe5V, Steady
    <3>5. f.tx = PsRdy
      BY <3>4 DEF Sent
    <3>6. ~z
      BY <2>4, <3>5 DEF f, PsRdy, Control, Idle
    <3>7. Supplies(f, h, z)
      BY <3>3, <3>4, <3>5, <3>6 DEF Supplies, Awaited, Says
    <3>8. Lit(f)
      BY <3>3, <3>4 DEF Lit
    <3> QED BY <3>4, <3>7, <3>8 DEF Negotiating, Meeting, Pairs, f
  <2>7. CASE s = "transition_to_default"
    <3> DEFINE t == "recover"
    <3>1. /\ t \in SourceStates /\ t \notin Marks \cup Wordy \cup Directing("source")
          /\ t # "transition_sink" /\ <<s, "supply_settled", t>> \in Ways("source")
      BY <2>7 DEF SourceStates, Marks, Wordy, Gates, Directing, Ways, SourceWays
    <3>2. PICK k : Steady(g, k) /\ SourceGoes(k, f, t, "supply_settled", None)
      BY <2>3, <2>4, <3>1, SettleGoes
    <3>3. /\ h.conn = "hard_reset_snk" /\ Quiet(h, {"discovery"}) /\ Fresh(g, h)
          /\ g.supply = [out |-> "off", pending |-> TRUE]
      BY <2>2, <2>3, <2>7 DEF Withdrawing, Rising, Says
    <3> HIDE DEF f
    <3>4. /\ Facing(f, h) /\ Src(f) /\ Fit(f) /\ Fresh(f, h) /\ En(f).pe = t
          /\ f.supply = [out |-> "off", pending |-> FALSE]
          /\ Sent(f, "source", t, "supply_settled")
      BY <2>5, <3>2, <3>3 DEF Programmed, SupplyOff, SupplySafe5V, Steady
    <3>5. f.tx = Idle
      BY <3>4 DEF Sent, Loud, SharedSends
    <3>6. Resetting(f, h, z)
      BY <3>3, <3>4, <3>5 DEF Resetting, Says
    <3> QED BY <3>4, <3>6 DEF Meeting, Pairs, f
  <2>8. CASE s = "restore_default"
    <3> DEFINE t == "send_capabilities"
    <3>2. PICK k : Steady(g, k) /\ SourceGoes(k, f, t, "supply_settled", None)
      BY <2>3, <2>4, <2>8, SettleOffers
    <3>3. /\ h.conn = "hard_reset_recover_snk" /\ Quiet(h, {"discovery"}) /\ Fresh(g, h)
          /\ g.supply.out = "safe5v"
      BY <2>2, <2>3, <2>8 DEF Withdrawing, Rising, Says
    <3> HIDE DEF f
    <3>4. /\ Facing(f, h) /\ Src(f) /\ Fit(f) /\ Fresh(f, h) /\ En(f).pe = t
          /\ f.supply.out = "safe5v" /\ Sent(f, "source", t, "supply_settled")
      BY <2>5, <3>2, <3>3 DEF Programmed, SupplyOff, SupplySafe5V, Steady
    <3>5. f.tx = Caps
      BY <3>4 DEF Sent
    <3>6. Resetting(f, h, z)
      BY <3>3, <3>4, <3>5 DEF Resetting, Offers, Says, Lit
    <3> QED BY <3>4, <3>6 DEF Meeting, Pairs, f
  <2>9. CASE s = "swap_supply_off"
    <3>1. NewSink(g, f)
      BY <2>3, <2>4, <2>9, SettleSwaps
    <3>2. h.conn = "standby_to_src" /\ Quiet(h, {"swap_transition_to_off"})
      BY <2>2, <2>3, <2>9 DEF Withdrawing, Rising, Says
    <3> HIDE DEF f
    <3>3. Facing(f, h) /\ Fit(f)
      BY <2>3, <3>1 DEF NewSink, Facing, Cable
    <3>4. ~z
      BY <2>4, <3>1 DEF NewSink, Says, f, PsRdy, Control, Idle
    <3>5. Swapping(f, h, z, y)
      BY <3>1, <3>2, <3>4 DEF NewSink, Swapping
    <3> QED BY <3>3, <3>5 DEF Meeting, Pairs, f
  <2>10. CASE s = "swap_source_on"
    <3> DEFINE t == "swap_source_on_ps_rdy"
    <3>1. /\ t \in SourceStates /\ t \notin Marks \cup Wordy \cup Directing("source")
          /\ t # "transition_sink" /\ <<s, "supply_settled", t>> \in Ways("source")
      BY <2>10 DEF SourceStates, Marks, Wordy, Gates, Directing, Ways, SourceWays
    <3>2. PICK k : Steady(g, k) /\ SourceGoes(k, f, t, "supply_settled", None)
      BY <2>3, <2>4, <3>1, SettleGoes
    <3>3. Rising(g, h, y)
      BY <2>2, <2>3, <2>10 DEF Withdrawing, Says
    <3> HIDE DEF f
    <3>4. /\ Facing(f, h) /\ Src(f) /\ Fit(f) /\ Fresh(f, h) /\ En(f).pe = t
          /\ f.supply.out = g.supply.out
          /\ Sent(f, "source", t, "supply_settled")
      BY <2>5, <3>2, <3>3 DEF Programmed, SupplyOff, SupplySafe5V, Steady, Rising
    <3>5. f.tx = PsRdy
      BY <3>4 DEF Sent
    <3>6. ~z
      BY <2>4, <3>5 DEF f, PsRdy, Control, Idle
    <3>7. Taking(f, h, z, y)
      BY <3>3, <3>4, <3>5, <3>6 DEF Taking, Rising, Says, Lit
    <3> QED BY <3>4, <3>7 DEF Meeting, Pairs, f
  <2>11. s # "recover"
    BY <2>2, <2>3 DEF Withdrawing, Rising, Says
  <2> QED BY <1>2, <2>6, <2>7, <2>8, <2>9, <2>10, <2>11 DEF Moving
<1> QED BY <1>1, <1>2

-----------------------------------------------------------------------------
(***************************************************************************)
(* The sink sees Rp, the application asks.                                 *)
(***************************************************************************)
\* Where a live sink engine can be.
LEMMA SinkAt ==
  ASSUME NEW g, Sound(g), NEW h, NEW x, NEW y, Pairs(g, h, x, y), g.client = "sink"
  PROVE  /\ En(g) = g.eng["sink"]
         /\ \/ Dealing(g, h, x, y)
            \/ En(g).pe \in {"wait_for_capabilities", "wait_no_response", "select_capability",
                             "transition_sink", "discovery", "swap_transition_to_off",
                             "swap_wait_source_on", "accept_pr_swap"}
<1>1. En(g) = g.eng["sink"] /\ ~Src(g) /\ ~Apart(g.conn)
  BY Clients DEF Sound, En
<1>2. CASE Meeting(g, h, x, y)
  <2>1. ~Parting(g, h) /\ ~Negotiating(g, h, x, y) /\ ~Resetting(g, h, x) /\ ~Taking(g, h, x, y)
    BY <1>1 DEF Parting, Negotiating, Resetting, Taking
  <2>2. Swapping(g, h, x, y) => En(g).pe = "swap_wait_source_on"
    BY <1>1 DEF Swapping, Says
  <2> QED BY <1>1, <1>2, <2>1, <2>2 DEF Meeting, Dealing, Agreed
<1>3. CASE Meeting(h, g, y, x)
  <2>1. Parting(h, g) => Waits(g)
    BY <1>1 DEF Parting
  <2>2. Negotiating(h, g, y, x) =>
          Waits(g) \/ Requests(g) \/ Quiet(g, {"transition_sink"})
    BY DEF Negotiating, Offered, Requested, Answered, Supplies, Anew
  <2>3. /\ Resetting(h, g, y) => Quiet(g, {"discovery"})
        /\ Swapping(h, g, y, x) => En(g).pe \in {"swap_transition_to_off", "accept_pr_swap"}
        /\ Taking(h, g, y, x) => En(g).pe = "swap_wait_source_on"
    BY DEF Resetting, Swapping, Taking, Quiet, Says
  <2> QED BY <1>1, <1>3, <2>1, <2>2, <2>3 DEF Meeting, Waits, Requests, Quiet, Dealing, Agreed
<1> QED BY <1>2, <1>3 DEF Pairs

\* An engine in Ready is under the contract, and free.
LEMMA ReadyDeals ==
  ASSUME NEW g, Sound(g), NEW h, Sound(h), NEW x, NEW y, Pairs(g, h, x, y),
         g.client \in Role, En(g).pe = "ready"
  PROVE  Dealing(g, h, x, y) /\ Free(g) /\ g.tx = Idle /\ ~Answers(h, g, y, x)
<1>1. Dealing(g, h, x, y)
  <2>1. CASE g.client = "sink"
    BY <2>1, SinkAt
  <2>2. CASE g.client = "source"
    <3>1. ~Apart(g.conn) /\ ~Snk(g) /\ g.conn \notin {"standby_to_snk", "standby_to_src"}
      BY <2>2, Clients DEF Sound, Snk
    <3>2. ~Meeting(h, g, y, x) \/ Dealing(g, h, x, y)
      <4>1. ~Parting(h, g) /\ ~Negotiating(h, g, y, x)
        BY <3>1
        DEF Parting, Negotiating, Offered, Requested, Answered, Supplies, Anew, Waits, Requests
      <4>2. ~Resetting(h, g, y) /\ ~Swapping(h, g, y, x) /\ ~Taking(h, g, y, x)
        BY <3>1 DEF Resetting, Swapping, Taking, Quiet, Says
      <4> QED BY <4>1, <4>2 DEF Meeting, Dealing, Agreed
    <3>3. ~Meeting(g, h, x, y) \/ Dealing(g, h, x, y)
      <4>1. ~Parting(g, h) /\ ~Negotiating(g, h, x, y)
        BY <3>1
        DEF Parting, Negotiating, Offered, Requested, Answered, Supplies, Anew, Offers, Says
      <4>2. ~Resetting(g, h, x) /\ ~Swapping(g, h, x, y) /\ ~Taking(g, h, x, y)
        BY DEF Resetting, Swapping, Taking, Quiet, Says, Offers
      <4> QED BY <4>1, <4>2 DEF Meeting, Dealing, Agreed
    <3> QED BY <3>2, <3>3 DEF Pairs
  <2> QED BY <2>1, <2>2 DEF Role
<1>2. Free(g)
  BY <1>1, DealingFree
<1>3. g.tx = Idle /\ En(g).pe \notin Asks
  BY <1>2 DEF Free, Quiet, Asks
<1>4. ~Answers(h, g, y, x)
  BY <1>3 DEF Answers
<1> QED BY <1>1, <1>2, <1>3, <1>4

\* An engine in Ready which stays free stays in the conversation.
LEMMA ReadyStays ==
  ASSUME NEW g, Sound(g), NEW h, Sound(h), NEW x, NEW y, Pairs(g, h, x, y),
         g.client \in Role, En(g).pe = "ready", NEW k, FreeTo(g, k), NEW z
  PROVE  Fit(k) /\ Pairs(k, h, z, y)
<1>1. Dealing(g, h, x, y) /\ Free(g) /\ ~Answers(h, g, y, x)
  BY ReadyDeals
<1>2. Dealing(k, h, z, y)
  BY <1>1, FreeStays
<1> QED BY <1>2, EitherSide DEF FreeTo

\* The application asks for a swap.
LEMMA PairAsks ==
  ASSUME NEW g, Sound(g), NEW h, Sound(h), NEW x, NEW y, Pairs(g, h, x, y),
         g.client \in Role, En(g).pe = "ready", NEW z
  PROVE  /\ \A seq \in {"pr_swap", "dr_swap"} :
              Fit(AskSwap(g, seq)) /\ Pairs(AskSwap(g, seq), h, z, y)
         /\ Fit(AskVconnSwap(g)) /\ Pairs(AskVconnSwap(g), h, z, y)
<1>1. Says(g, "ready", Idle)
  BY ReadyDeals DEF Says
<1>2. /\ \A seq \in {"pr_swap", "dr_swap"} : FreeTo(g, AskSwap(g, seq))
      /\ FreeTo(g, AskVconnSwap(g))
  BY <1>1, AskFrees
<1> QED BY <1>2, ReadyStays

\* Nothing is directed where no engine moves.
LEMMA LikeUndirected ==
  ASSUME NEW g, NEW h, Like(g, h)
  PROVE  Directed(g, h) = h
  BY DEF Like, Directed, Role

\* The sink sees Rp.
LEMMA PairSeesRp ==
  ASSUME NEW g, Sound(g), NEW h, Sound(h), NEW x \in BOOLEAN, NEW y, Pairs(g, h, x, y),
         g.conn = "attached_snk", NEW ok \in BOOLEAN,
         NEW z \in BOOLEAN, z <=> (x /\ RpSeen(g, ok).tx = g.tx)
  PROVE  Fit(RpSeen(g, ok)) /\ Pairs(RpSeen(g, ok), h, z, y)
<1>1. /\ Typed(g) /\ Fit(g) /\ g.client = "sink" /\ En(g) = g.eng["sink"] /\ "sink" \in Role
      /\ None \in Terms \cup {None}
  BY Clients DEF Sound, Role
<1>2. En(g).pe \notin Gates
  <2>1. Dealing(g, h, x, y) => En(g).pe \in Dealt
    BY DealingAt
  <2> QED BY <1>1, <2>1, SinkAt DEF Gates, Dealt, Asks
<1>3. CASE ~ok \/ g.eng["sink"].parked = "none" \/ g.eng["sink"].pe # "ready"
  <2>1. Like(g, sinkTxChanged(g, ok))
    BY <1>1, <1>2, <1>3, RpLike
  <2>2. RpSeen(g, ok) = sinkTxChanged(g, ok)
    BY <2>1, LikeUndirected DEF RpSeen
  <2>3. z = x
    BY <2>1, <2>2 DEF Like
  <2> QED BY <2>1, <2>2, <2>3, LikeMeets
<1>4. CASE ok /\ g.eng["sink"].parked # "none" /\ g.eng["sink"].pe = "ready"
  <2> DEFINE seen == [g EXCEPT !.txok = ok]
             parked == g.eng["sink"].parked
             cleared == [seen EXCEPT !.eng["sink"].parked = "none"]
             r == "sink"
             e == Swap(parked)
  <2>1. Typed(seen) /\ Like(g, seen) /\ seen.eng = g.eng
    BY <1>1, ParkedLike
  <2>2. sinkTxChanged(g, ok) = IF ok THEN firePending(fireGated(seen)) ELSE seen
    BY DEF sinkTxChanged
  <2> HIDE DEF seen
  <2>3. Typed(cleared) /\ Like(seen, cleared)
    BY <2>1, ParkedLike
  <2>4. fireGated(seen) = seen
    BY <1>1, <1>2, <2>1 DEF fireGated
  <2>5. firePending(seen) = Process(cleared, "sink", Swap(parked), None, FALSE)
    BY <1>4, <2>1 DEF firePending
  <2> HIDE DEF cleared
  <2>6. sinkTxChanged(g, ok) = Process(cleared, "sink", Swap(parked), None, FALSE)
    BY <1>4, <2>2, <2>4, <2>5
  <2>7. Like(g, cleared) /\ Fit(cleared)
    <3>1. Like(g, cleared)
      BY <2>1, <2>3, LikeOn
    <3> QED BY <1>1, <3>1, LikeFit
  <2>8. g.tx = Idle
    BY <1>1, <1>4, ReadyDeals
  <2>9. parked \in {"pr_swap", "dr_swap"}
    BY <1>1, <1>4, PortFields DEF EngineType
  <2>10. /\ cleared.client = r /\ cleared.tx = Idle /\ cleared.eng[r].pe = "ready"
         /\ <<cleared.eng[r].pe, e, e>> \in Ways(r) /\ e \in Asks \cup {"ready"} /\ e \in Asks
    BY <1>1, <1>4, <2>7, <2>8, <2>9 DEF Like, Ways, SharedWays, Swap, Asks
  <2>11. PICK no : no = FALSE
    OBVIOUS
  <2> DEFINE k == Process(cleared, r, e, None, no)
  <2> HIDE DEF e, r
  <2>12. /\ FreeTo(cleared, k) /\ k.eng[r].pe = e
         /\ \A q \in Role \ {r} : k.eng[q] = cleared.eng[q]
    <3>1. r \in Role
      BY <1>1 DEF r
    <3> QED BY ONLY <1>1, <2>3, <2>7, <2>10, <3>1, FreeMoves
  <2>13. sinkTxChanged(g, ok) = k
    BY <2>6, <2>11 DEF k, e, r
  <2> HIDE DEF k
  <2>14. FreeTo(g, k)
    <3>1. Bound(g, cleared)
      BY <1>1, <2>7, LikeFree
    <3> QED BY <2>7, <2>12, <3>1 DEF FreeTo, Bound, Like
  <2>15. Directed(g, k) = k
    <3>1. k.eng["sink"].pe \notin Directing("sink")
      BY <2>10, <2>12 DEF r, Asks, Directing
    <3>2. k.eng["source"].pe = g.eng["source"].pe
      BY <2>7, <2>12 DEF r, Role, Like
    <3> QED BY <3>1, <3>2 DEF Directed, Directing
  <2>16. RpSeen(g, ok) = k
    BY <2>13, <2>15 DEF RpSeen
  <2>17. En(g).pe = "ready" /\ g.client \in Role
    BY <1>1, <1>4
  <2>18. Fit(k) /\ Pairs(k, h, z, y)
    BY <2>14, <2>17, ReadyStays
  <2> QED BY <2>16, <2>18
<1> QED BY <1>3, <1>4

-----------------------------------------------------------------------------
(***************************************************************************)
(* VBUS, and the attachment.                                               *)
(***************************************************************************)
\* The sink's side of a meeting, by the state of its connection machine.
LEMMA SinkConn ==
  ASSUME NEW g, Sound(g), NEW h, Sound(h), NEW x, NEW y, Pairs(g, h, x, y)
  PROVE  /\ g.conn \in {"hard_reset_snk", "hard_reset_recover_snk"} =>
              Facing(h, g) /\ Resetting(h, g, y)
         /\ Snk(g) => \/ Parting(h, g)
                      \/ Src(h) /\ (Lit(h) \/ h.supply.pending \/ h.supply.out \in Terms)
<1>1. CASE Meeting(g, h, x, y)
  <2>1. g.conn \in {"attached_snk", "hard_reset_snk", "hard_reset_recover_snk"} =>
          Contracted(h, g) /\ Snk(g)
    BY <1>1, Clients
    DEF Sound, Meeting, Parting, Apart, Negotiating, Resetting, Swapping, Taking, Src, Contracted, Snk
  <2> QED BY <2>1 DEF Contracted, Snk
<1>2. CASE Meeting(h, g, y, x)
  <2>1. CASE Parting(h, g)
    BY <2>1 DEF Parting, Waits, Snk, Apart
  <2>2. CASE Facing(h, g) /\ Negotiating(h, g, y, x)
    BY <2>2
    DEF Negotiating, Offered, Requested, Answered, Supplies, Anew, Waits, Requests, Snk
  <2>3. CASE Facing(h, g) /\ Resetting(h, g, y)
    BY <2>3 DEF Resetting, Snk
  <2>4. CASE Facing(h, g) /\ Swapping(h, g, y, x)
    BY <2>4 DEF Swapping, Snk
  <2>5. CASE Facing(h, g) /\ Taking(h, g, y, x)
    BY <2>5 DEF Taking, Snk
  <2>6. CASE Contracted(h, g)
    BY <2>6 DEF Contracted, Snk
  <2> QED BY <1>2, <2>1, <2>2, <2>3, <2>4, <2>5, <2>6 DEF Meeting
<1> QED BY <1>1, <1>2 DEF Pairs

\* Which states of the connection machines meet.
LEMMA ConnsMeet ==
  ASSUME NEW g, Sound(g), NEW h, Sound(h), NEW x, NEW y, Pairs(g, h, x, y)
  PROVE  /\ Apart(h.conn) => Parting(h, g) /\ g.tx = Idle
         /\ g.conn = "attached_src" => h.conn # "attached_src" /\ ~Apart(h.conn)
<1>1. /\ Apart(h.conn) => ~Src(h) /\ ~Snk(h)
      /\ Apart(g.conn) \/ Waits(g) => g.tx = Idle
  BY Clients DEF Sound, Apart, Src, Snk, Waits, Quiet
<1>2. \A p, q, u, v : Negotiating(p, q, u, v) => Src(p) /\ Snk(q)
  BY DEF Negotiating, Offered, Requested, Answered, Supplies, Anew, Waits, Requests
<1>3. \A p, q, u, v : Contracted(p, q) => Src(p) /\ Snk(q)
  BY DEF Contracted
<1>4. \A p, q, u, v : \/ Resetting(p, q, u) \/ Swapping(p, q, u, v) \/ Taking(p, q, u, v)
                      => /\ p.conn \in {"attached_src", "standby_to_snk"}
                         /\ q.conn \in {"attached_snk", "hard_reset_snk", "standby_to_src",
                                        "hard_reset_recover_snk", "standby_to_snk"}
  BY DEF Resetting, Swapping, Taking, Src, Snk
<1>5. \A p, q : Parting(p, q) => Apart(p.conn) /\ (Apart(q.conn) \/ Waits(q))
  BY DEF Parting
<1>6. ASSUME NEW p, NEW q, NEW u, NEW v, Meeting(p, q, u, v)
      PROVE  \/ Parting(p, q)
             \/ /\ p.conn \in {"attached_src", "standby_to_snk"}
                /\ q.conn \in {"attached_snk", "hard_reset_snk", "standby_to_src",
                               "hard_reset_recover_snk", "standby_to_snk"}
  BY <1>2, <1>3, <1>4, <1>6 DEF Meeting, Src, Snk
<1>7. CASE Meeting(g, h, x, y)
  BY <1>1, <1>5, <1>6, <1>7 DEF Apart, Waits, Snk, Parting
<1>8. CASE Meeting(h, g, y, x)
  BY <1>1, <1>5, <1>6, <1>8 DEF Apart, Waits, Snk, Parting
<1> QED BY <1>7, <1>8 DEF Pairs

\* A change of the connection machine's state alone.
LEMMA ConnMoves ==
  ASSUME NEW g, Sound(g), NEW c \in Conn
  PROVE  LET k == [g EXCEPT !.conn = c]
         IN /\ k.conn = c /\ k.eng = g.eng /\ k.client = g.client /\ k.data = g.data
            /\ k.vconn = g.vconn /\ k.tx = g.tx /\ k.supply = g.supply /\ Fit(k)
<1> DEFINE k == [g EXCEPT !.conn = c]
<1>1. /\ k.conn = c /\ k.eng = g.eng /\ k.client = g.client /\ k.data = g.data
      /\ k.vconn = g.vconn /\ k.tx = g.tx /\ k.supply = g.supply
  BY PortFields DEF Sound, InOrder, Engines, Typed
<1> HIDE DEF k
<1>2. Fit(k)
  BY <1>1 DEF Sound, Fit, Primed, Lit
<1> QED BY <1>1, <1>2 DEF k

\* VBUS goes in the window.
LEMMA PairSeesVbusGo ==
  ASSUME NEW g, Sound(g), NEW h, Sound(h), NEW x, NEW y, Pairs(g, h, x, y),
         g.conn = "hard_reset_snk", ~Lit(h), ~h.supply.pending, NEW z
  PROVE  Fit(WindowVbusGone(g)) /\ Pairs(WindowVbusGone(g), h, z, y)
<1> DEFINE k == WindowVbusGone(g)
<1>1. Facing(h, g) /\ Resetting(h, g, y)
  BY SinkConn
<1>2. /\ k.conn = "hard_reset_recover_snk" /\ k.eng = g.eng /\ k.client = g.client
      /\ k.data = g.data /\ k.vconn = g.vconn /\ k.tx = g.tx /\ k.supply = g.supply /\ Fit(k)
  BY ConnMoves DEF WindowVbusGone, Conn
<1> HIDE DEF k
<1>3. Facing(h, k) /\ En(k) = En(g)
  BY <1>1, <1>2 DEF Facing, Cable, En
<1>4. Resetting(h, k, y)
  BY <1>1, <1>2, <1>3 DEF Resetting, Quiet, Fresh, Offers
<1> QED BY <1>2, <1>3, <1>4 DEF Meeting, Pairs, k

\* And comes back.
LEMMA PairSeesVbusBack ==
  ASSUME NEW g, Sound(g), NEW h, Sound(h), NEW x, NEW y, Pairs(g, h, x, y),
         g.conn = "hard_reset_recover_snk", Lit(h), ~h.supply.pending, NEW ok \in BOOLEAN, NEW z
  PROVE  Fit(WindowVbusBack(g, ok)) /\ Pairs(WindowVbusBack(g, ok), h, z, y)
<1> DEFINE k == WindowVbusBack(g, ok)
<1>1. Facing(h, g) /\ Resetting(h, g, y)
  BY SinkConn
<1>2. Src(h) /\ Fresh(h, g) /\ Offers(h) /\ Quiet(g, {"discovery"})
  BY <1>1 DEF Resetting, Lit
<1>3. Reattached(g, k) /\ En(g) = g.eng["sink"]
  BY <1>2, WindowCloses, Clients DEF Sound
<1> HIDE DEF k
<1>4. Facing(h, k) /\ Fit(k) /\ Waits(k) /\ Fresh(h, k)
  BY <1>1, <1>2, <1>3 DEF Reattached, Facing, Cable, Fresh
<1>5. Negotiating(h, k, y, z)
  BY <1>2, <1>4 DEF Negotiating, Offered
<1> QED BY <1>4, <1>5 DEF Meeting, Pairs, k

\* The attached sink sees it go: the source had given up.
LEMMA PairSeesSourceGo ==
  ASSUME NEW g, Sound(g), NEW h, Sound(h), NEW x, NEW y, Pairs(g, h, x, y), Snk(g),
         Src(h) => ~Lit(h) /\ ~h.supply.pending, NEW z
  PROVE  Fit(Detached(g)) /\ Pairs(Detached(g), h, z, y)
<1> DEFINE k == Detached(g)
<1>1. Parting(h, g)
  BY SinkConn, TermsAssumption DEF Lit
<1>2. Fit(k) /\ k.conn = "detached"
  <2>1. "detached" \in {"detached", "error_recovery"}
    OBVIOUS
  <2> QED BY <2>1, Disconnects DEF Detached
<1> HIDE DEF k
<1>3. Parting(h, k)
  BY <1>1, <1>2 DEF Parting, Apart
<1> QED BY <1>2, <1>3 DEF Meeting, Pairs, k

\* The recovery of a port is over.
LEMMA PairRecovers ==
  ASSUME NEW g, Sound(g), NEW h, Apart(h.conn), NEW z, NEW y
  PROVE  LET k == [g EXCEPT !.conn = "detached"] IN Fit(k) /\ Pairs(k, h, z, y)
<1> DEFINE k == [g EXCEPT !.conn = "detached"]
<1>1. k.conn = "detached" /\ Fit(k)
  BY ConnMoves DEF Conn
<1>2. Parting(k, h)
  BY <1>1 DEF Parting, Apart
<1> QED BY <1>1, <1>2 DEF Meeting, Pairs

\* g attaches as the source of h.
LEMMA PairAttaches ==
  ASSUME NEW g, Sound(g), Apart(g.conn), NEW h, Sound(h), Apart(h.conn), NEW no \in BOOLEAN,
         NEW x, NEW y
  PROVE  LET k == Attached(g, "source", no, Ra)
             i == Attached(h, "sink", no, Ra)
         IN Fit(k) /\ Fit(i) /\ Pairs(k, i, x, y)
<1> DEFINE k == Attached(g, "source", no, Ra)
           i == Attached(h, "sink", no, Ra)
<1>1. /\ Src(k) /\ Says(k, "send_capabilities", Caps) /\ ~En(k).explicit /\ Lit(k)
      /\ k.data = "dfp" /\ k.vconn = (IF Marked THEN "source" ELSE "off") /\ Fit(k)
  BY SourceAttached
<1>2. Waits(i) /\ ~En(i).explicit /\ i.data = "ufp" /\ i.vconn = "off" /\ Fit(i)
  BY SinkAttached
<1> HIDE DEF k, i
<1>3. Facing(k, i) /\ Fresh(k, i)
  BY <1>1, <1>2 DEF Facing, Cable, Fresh
<1>4. Negotiating(k, i, x, y)
  BY <1>1, <1>2, <1>3 DEF Negotiating, Offered, Offers
<1> QED BY <1>1, <1>2, <1>3, <1>4 DEF Meeting, Pairs, k, i

-----------------------------------------------------------------------------
(***************************************************************************)
(* Nothing is under way: the timers.                                       *)
(***************************************************************************)
\* Neither of the two is busy (PdContract's Busy).
Lull(g, h) ==
  /\ g.tx = Idle /\ h.tx = Idle /\ ~g.supply.pending /\ ~h.supply.pending
  /\ g.conn \in {"hard_reset_snk", "attached_snk"} => h.conn = "attached_src" /\ Lit(h)
  /\ h.conn \in {"hard_reset_snk", "attached_snk"} => g.conn = "attached_src" /\ Lit(g)
  /\ g.conn = "hard_reset_recover_snk" => ~(h.conn = "attached_src" /\ Lit(h))
  /\ h.conn = "hard_reset_recover_snk" => ~(g.conn = "attached_src" /\ Lit(g))

\* Outside the contract, the source pauses then.
Pausing(g, h) ==
  /\ Facing(g, h) /\ Src(g)
  /\ \/ Says(g, "send_capabilities", Idle) /\ En(g).connected /\ Waits(h) /\ Fresh(g, h) /\ Lit(g)
     \/ Says(g, "transition_supply_delay", Idle) /\ Awaited(g, h) /\ Fresh(g, h) /\ Lit(g)
     \/ Says(g, "swap_source_start", Idle) /\ Waits(h) /\ Fresh(g, h) /\ Lit(g)
     \/ /\ Says(g, "recover", Idle) /\ h.conn = "hard_reset_recover_snk"
        /\ Fresh(g, h) /\ Quiet(h, {"discovery"})
     \/ /\ Quiet(g, {"swap_transition_to_off"}) /\ Lit(g)
        /\ h.conn = "standby_to_src" /\ Quiet(h, {"swap_transition_to_off"})

\* What a meeting is then, from the side of the source.
LEMMA MeetingLulls ==
  ASSUME NEW g, NEW h, NEW x, NEW y, Meeting(g, h, x, y), Lull(g, h)
  PROVE  Dealing(g, h, x, y) \/ Pausing(g, h) \/ (Apart(g.conn) /\ Apart(h.conn))
<1>1. /\ g.tx = Idle /\ h.tx = Idle /\ ~g.supply.pending
      /\ h.conn \in {"hard_reset_snk", "attached_snk"} => g.conn = "attached_src" /\ Lit(g)
      /\ h.conn = "hard_reset_recover_snk" => ~(g.conn = "attached_src" /\ Lit(g))
  BY DEF Lull
<1>2. /\ Accept # Idle /\ PsRdy # Idle /\ Caps # Idle /\ HardReset # Idle
      /\ Control("reject") # Idle /\ \A terms : Request(terms) # Idle
  BY DEF Accept, PsRdy, Caps, HardReset, Idle, Control, Request
<1>3. CASE Parting(g, h)
  BY <1>1, <1>3 DEF Parting, Waits, Snk, Apart
<1>4. CASE Facing(g, h) /\ Negotiating(g, h, x, y)
  BY <1>1, <1>2, <1>4
  DEF Negotiating, Offered, Requested, Answered, Supplies, Anew, Offers, Says, Pausing, Awaited
<1>5. CASE Facing(g, h) /\ Resetting(g, h, x)
  BY <1>1, <1>2, <1>5 DEF Resetting, Says, Pausing, Src, Lit
<1>6. CASE Facing(g, h) /\ Swapping(g, h, x, y)
  BY <1>1, <1>2, <1>6 DEF Swapping, Says, Pausing
<1>7. CASE Facing(g, h) /\ Taking(g, h, x, y)
  BY <1>1, <1>2, <1>7 DEF Taking, Says
<1> QED BY <1>3, <1>4, <1>5, <1>6, <1>7 DEF Meeting, Dealing, Agreed

\* A partner once known answers the offer no more: a hard reset, or the end.
LEMMA SilenceDecided ==
  ASSUME NEW g, Typed(g), g.eng["source"].pe = "send_capabilities",
         g.eng["source"].connected, NEW x, NEW yes
  PROVE  \E u \in {"hard_reset", "error_recovery"} :
           Step(g, "source", "timeout", x, yes) =
             Enter(g, "source", Context("source", g.eng["source"], u, "timeout", x), "timeout")
<1> DEFINE r == "source"
           s == "send_capabilities"
           e == "timeout"
           q == "pd_was_connected"
           l == "hard_resets_left"
           holds == Holds(g, r, yes)
           taken == Taken(g, r, e, yes)
           a == <<s, e, {q, l}, {}, "hard_reset">>
           b == <<s, e, {q}, {l}, "error_recovery">>
           other == CHOOSE other \in taken : TRUE
<1>1. a \in SourceRows /\ b \in SourceRows
  BY DEF SourceRows, AdvertisementRows, When
<1>2. q \in holds
  BY DEF Holds
<1>3. \A row : row \in taken <=> /\ row \in SourceRows /\ row[1] = s /\ row[2] = e
                                 /\ row[3] \subseteq holds /\ row[4] \cap holds = {}
  BY DEF Taken, Rows, States, SourceStates, Role, SharedStates
<1> HIDE DEF holds, taken
<1>4. taken # {}
  <2>1. CASE l \in holds
    <3>1. a \in taken
      BY <1>1, <1>2, <1>3, <2>1
    <3> QED BY <3>1
  <2>2. CASE l \notin holds
    <3>1. b \in taken
      BY <1>1, <1>2, <1>3, <2>2
    <3> QED BY <3>1
  <2> QED BY <2>1, <2>2
<1>5. other \in taken
  BY <1>4
<1>6. Step(g, r, e, x, yes) = Enter(g, r, Context(r, g.eng[r], other[5], e, x), e)
  BY <1>4 DEF Step, Take, taken
<1> HIDE DEF other
<1>7. other[5] \in {"hard_reset", "error_recovery"}
  <2>1. q \notin other[4]
    BY <1>2, <1>3, <1>5
  <2> QED BY <1>3, <1>5, <2>1, SourceDecides
<1> QED BY <1>6, <1>7

\* So a hard reset goes out, or the connection is over.
LEMMA SilenceGoes ==
  ASSUME NEW g, Sound(g), Src(g), Says(g, "send_capabilities", Idle), En(g).connected,
         g.vconn # "timeout"
  PROVE  LET k == PeTimeout(g, "source")
         IN \/ SourceGoes(g, k, "hard_reset", "timeout", None)
            \/ Fit(k) /\ k.conn = "error_recovery"
<1> DEFINE r == "source"
           e == "timeout"
<1>1. /\ Typed(g) /\ Fit(g) /\ InOrder(g) /\ r \in Role /\ r = g.client /\ g.tx = Idle
      /\ None \in Terms \cup {None} /\ g.eng[r].pe = "send_capabilities" /\ g.eng[r].connected
      /\ ~g.eng[r].deaf /\ g.conn = "attached_src"
  BY Clients DEF Sound, Role, Src, Says, En, InOrder, Engines, Fit
<1>2. PICK no : no = FALSE
  OBVIOUS
<1> DEFINE f == Step(g, r, e, None, no)
           i == Process(g, r, e, None, no)
<1>3. \E u \in {"hard_reset", "error_recovery"} :
        f = Enter(g, r, Context(r, g.eng[r], u, e, None), e)
  BY <1>1, SilenceDecided
<1>4. PICK u \in {"hard_reset", "error_recovery"} :
        f = Enter(g, r, Context(r, g.eng[r], u, e, None), e)
  BY <1>3
<1>5. u \in States(r) /\ u \notin Marks \cup Wordy
  BY DEF States, SourceStates, SharedStates, Marks, Wordy, Gates
<1>6. e \notin {"capabilities_evaluated", "source_capabilities"}
  OBVIOUS
<1> HIDE DEF e
<1>7. Reached(g, f, r, u, e, None)
  <2> HIDE DEF r, f
  <2> QED BY ONLY <1>1, <1>4, <1>5, EnterReaches
<1> HIDE DEF f
<1>8. Emits(g, f, r, no) = "none" /\ f.eng[r].pe = u /\ Typed(f)
      /\ \A p \in Role \ {r} : f.eng[p] = g.eng[p]
  BY <1>5, <1>7 DEF Reached, Emits, Wordy
<1>9. i = f
  BY <1>1, <1>8, NoneMovesNothing DEF Process, Follow, f
<1> HIDE DEF i
<1>10. PeTimeout(g, r) = Directed(g, f)
  BY <1>2, <1>9 DEF PeTimeout, Handle, i, e
<1>11. CASE u = "hard_reset"
  <2>1. f.eng[r].pe \notin Directing(r)
    BY <1>8, <1>11 DEF Directing
  <2>2. Directed(g, f) = f
    <3>1. r \in Role /\ \A p \in Role \ {r} : f.eng[p] = g.eng[p]
      BY <1>1, <1>8
    <3> HIDE DEF r
    <3> QED BY ONLY <2>1, <3>1, Undirected
  <2>3. Moved(g, f, r, u, e, None)
    <3> HIDE DEF r
    <3> QED BY ONLY <1>1, <1>5, <1>7, ReachedMoved
  <2>4. SourceGoes(g, f, u, e, None)
    BY <1>1, <1>11, <2>3, MovedGoes
  <2> QED BY <1>10, <1>11, <2>2, <2>4 DEF e
<1>12. CASE u = "error_recovery"
  <2>1. InOrder(f)
    <3> HIDE DEF r
    <3>1. InOrder(i)
      BY <1>1, <1>6, LiveProcess DEF i
    <3> QED BY <1>9, <3>1
  <2>2. Sound(f)
    <3> HIDE DEF r
    <3> QED BY <1>1, <1>7, <1>5, <2>1, ReachedFit DEF Sound, Marks
  <2>3. /\ f.eng["source"].pe = "error_recovery" /\ f.eng["source"].pe # g.eng["source"].pe
        /\ f.eng["sink"] = g.eng["sink"]
    BY <1>1, <1>8, <1>12 DEF Role
  <2>4. Directed(g, f) = Disconnect(f, "error_recovery")
    BY <2>3 DEF Directed
  <2>5. "error_recovery" \in {"detached", "error_recovery"}
    OBVIOUS
  <2> QED BY <1>10, <2>2, <2>4, <2>5, Disconnects
<1> QED BY <1>11, <1>12

\* Where the source pauses, its timer is the one which runs out: that of the
\* sink, if it has one, takes longer.
Outlasted(g, h) ==
  \A r, q \in Role : g.eng[r].pe \in Timed(r) /\ h.eng[q].pe \in Timed(q) =>
    ~(Duration(h.eng[q].pe) <= Duration(g.eng[r].pe))

\* So the source's timer runs, and no timer of the sink is as short.
LEMMA SourceIsFirst ==
  ASSUME NEW g, Sound(g), NEW h, Sound(h), Pausing(g, h)
  PROVE  /\ g.client = "source" /\ g.eng["source"].pe \in Timed("source")
         /\ Outlasted(g, h)
<1> DEFINE s == En(g).pe
           t == En(h).pe
<1>1. g.client = "source" /\ En(g) = g.eng["source"]
  BY Clients DEF Sound, Pausing, Src, En
<1>2. h.client = "sink" /\ En(h) = h.eng["sink"]
  <2>1. h.conn \in {"attached_snk", "hard_reset_recover_snk", "standby_to_src"}
    BY DEF Pausing, Waits, Awaited, Snk
  <2>2. h.client = "sink"
    BY <2>1, Clients DEF Sound
  <2> QED BY <2>2 DEF En
<1>3. /\ s \in {"send_capabilities", "transition_supply_delay", "swap_source_start", "recover",
                "swap_transition_to_off"}
      /\ \/ s \in {"send_capabilities", "swap_source_start"}
            /\ t \in {"wait_for_capabilities", "wait_no_response"}
         \/ s = "transition_supply_delay" /\ t = "transition_sink"
         \/ t \in {"discovery", "swap_transition_to_off"}
  BY DEF Pausing, Says, Waits, Awaited, Quiet
<1>4. s \in Timed("source") /\ (t \in {"discovery", "swap_transition_to_off"} => t \notin Timed("sink"))
  BY <1>3 DEF Timed, SourceTimed, SinkTimed, SharedTimed
<1>5. /\ \A r \in Role : g.eng[r].pe \in Timed(r) => g.eng[r].pe = s
      /\ \A q \in Role : h.eng[q].pe \in Timed(q) => h.eng[q].pe = t /\ q = "sink"
  BY <1>1, <1>2, TimedLive DEF Sound
<1>6. /\ Duration("send_capabilities") = 27 /\ Duration("swap_source_start") = 30
      /\ Duration("transition_supply_delay") = 30
      /\ Duration("wait_for_capabilities") = 465 /\ Duration("wait_no_response") = 5000
      /\ Duration("transition_sink") = 500
  BY DEF Duration
<1>7. t \in Timed("sink") => ~(Duration(t) <= Duration(s))
  BY <1>3, <1>4, <1>6
<1> HIDE DEF s, t
<1>8. Outlasted(g, h)
  BY <1>5, <1>7 DEF Outlasted
<1> QED BY <1>1, <1>4, <1>8 DEF s

\* The source's timer.
LEMMA PauseEnds ==
  ASSUME NEW g, Sound(g), NEW h, Sound(h), NEW x \in BOOLEAN, NEW y, Pausing(g, h),
         NEW z \in BOOLEAN, z <=> (x /\ PeTimeout(g, "source").tx = g.tx)
  PROVE  Fit(PeTimeout(g, "source")) /\ Pairs(PeTimeout(g, "source"), h, z, y)
<1> DEFINE r == "source"
           e == "timeout"
           f == PeTimeout(g, r)
           s == En(g).pe
<1>1. /\ Typed(g) /\ Fit(g) /\ g.client = "source" /\ En(g) = g.eng["source"] /\ r \in Role
      /\ g.tx = Idle /\ Src(g) /\ Facing(g, h) /\ g.vconn # "timeout"
      /\ None \in Terms \cup {None} /\ g.supply \in SupplyType
  BY Clients, PortFields
  DEF Sound, InOrder, Engines, Pausing, Src, Says, Quiet, Facing, Cable, En, Role
<1>2. PICK no : no = FALSE
  OBVIOUS
<1>3. ASSUME NEW t \in SourceStates, t \notin Marks \cup Wordy \cup Directing(r),
             t # "transition_sink", <<s, e, t>> \in Ways(r)
      PROVE  SourceGoes(g, f, t, e, None)
  <2>1. f = Handle(g, r, e, None, no)
    BY <1>2 DEF PeTimeout
  <2>2. <<g.eng[r].pe, e, t>> \in Ways(r) /\ t \in States(r) /\ r = g.client
    BY <1>1, <1>3 DEF States
  <2> HIDE DEF f, e, r
  <2>3. Moved(g, Handle(g, r, e, None, no), r, t, e, None)
    BY ONLY <1>1, <1>3, <2>2, HandleMoves
  <2> QED BY <1>1, <1>3, <2>1, <2>3, MovedGoes DEF r
<1>4. ASSUME NEW t, SourceGoes(g, f, t, e, None), t # "transition_supply"
      PROVE  /\ Facing(f, h) /\ Src(f) /\ Fit(f) /\ (Fresh(g, h) => Fresh(f, h))
             /\ En(f).pe = t /\ En(f).terms = En(g).terms
             /\ f.supply = Programmed(g.supply, t, En(f).terms) /\ Sent(f, r, t, e)
  <2> HIDE DEF f
  <2> QED BY <1>1, <1>4 DEF SourceGoes, Facing, Cable, Fresh
<1>5. CASE s = "send_capabilities"
  <2>1. Says(g, "send_capabilities", Idle) /\ En(g).connected /\ Waits(h) /\ Fresh(g, h) /\ Lit(g)
    BY <1>5 DEF Pausing, Says, Quiet
  <2>2. \/ SourceGoes(g, f, "hard_reset", e, None)
        \/ Fit(f) /\ f.conn = "error_recovery"
    BY <1>1, <2>1, SilenceGoes
  <2>3. CASE SourceGoes(g, f, "hard_reset", e, None)
    <3> HIDE DEF f
    <3>1. /\ Facing(f, h) /\ Src(f) /\ Fit(f) /\ Fresh(f, h) /\ En(f).pe = "hard_reset"
          /\ f.supply = g.supply /\ Sent(f, r, "hard_reset", e)
      BY <1>4, <2>1, <2>3 DEF Programmed, SupplyOff, SupplySafe5V
    <3>2. f.tx = HardReset
      BY <3>1 DEF Sent
    <3>3. ~z
      BY <1>1, <3>2 DEF f, HardReset, Idle
    <3>4. Negotiating(f, h, z, y)
      BY <2>1, <3>1, <3>2, <3>3 DEF Negotiating, Anew, Says, Lit
    <3> QED BY <3>1, <3>4 DEF Meeting, Pairs, f
  <2>4. CASE Fit(f) /\ f.conn = "error_recovery"
    <3>1. Parting(f, h)
      BY <2>1, <2>4 DEF Parting, Apart, Fresh
    <3> QED BY <2>4, <3>1 DEF Meeting, Pairs
  <2> QED BY <2>2, <2>3, <2>4
<1>6. CASE s = "transition_supply_delay"
  <2> DEFINE t == "transition_supply_settle"
  <2>1. Awaited(g, h) /\ Fresh(g, h)
    BY <1>6 DEF Pausing, Says, Quiet
  <2>2. SourceGoes(g, f, t, e, None)
    BY <1>3, <1>6 DEF SourceStates, Marks, Wordy, Gates, Directing, Ways, SourceWays
  <2> HIDE DEF f
  <2>3. /\ Facing(f, h) /\ Src(f) /\ Fit(f) /\ Fresh(f, h) /\ En(f).pe = t
        /\ En(f).terms = En(g).terms /\ f.supply = [out |-> En(f).terms, pending |-> TRUE]
        /\ Sent(f, r, t, e)
    BY <1>4, <2>1, <2>2 DEF Programmed
  <2>4. f.tx = Idle
    BY <2>3 DEF Sent, Loud, SharedSends
  <2>5. Supplies(f, h, z)
    BY <2>1, <2>3, <2>4 DEF Supplies, Awaited, Says
  <2>6. Lit(f)
    BY <2>1, <2>3, TermsAssumption DEF Lit, Awaited
  <2> QED BY <2>3, <2>5, <2>6 DEF Negotiating, Meeting, Pairs, f
<1>7. CASE s = "swap_source_start"
  <2> DEFINE t == "send_capabilities"
  <2>1. Waits(h) /\ Fresh(g, h) /\ Lit(g)
    BY <1>7 DEF Pausing, Says, Quiet
  <2>2. SourceGoes(g, f, t, e, None)
    BY <1>3, <1>7 DEF SourceStates, Marks, Wordy, Gates, Directing, Ways, SourceWays
  <2> HIDE DEF f
  <2>3. /\ Facing(f, h) /\ Src(f) /\ Fit(f) /\ Fresh(f, h) /\ En(f).pe = t
        /\ f.supply = g.supply /\ Sent(f, r, t, e)
    BY <1>4, <2>1, <2>2 DEF Programmed, SupplyOff, SupplySafe5V
  <2>4. f.tx = Caps
    BY <2>3 DEF Sent
  <2>5. Negotiating(f, h, z, y)
    BY <2>1, <2>3, <2>4 DEF Negotiating, Offered, Offers, Says, Lit
  <2> QED BY <2>3, <2>5 DEF Meeting, Pairs, f
<1>8. CASE s = "recover"
  <2> DEFINE t == "restore_default"
  <2>1. h.conn = "hard_reset_recover_snk" /\ Quiet(h, {"discovery"}) /\ Fresh(g, h)
    BY <1>8 DEF Pausing, Says, Quiet
  <2>2. SourceGoes(g, f, t, e, None)
    BY <1>3, <1>8 DEF SourceStates, Marks, Wordy, Gates, Directing, Ways, SourceWays
  <2> HIDE DEF f
  <2>3. /\ Facing(f, h) /\ Src(f) /\ Fit(f) /\ Fresh(f, h) /\ En(f).pe = t
        /\ f.supply = [out |-> "safe5v", pending |-> TRUE] /\ Sent(f, r, t, e)
    BY <1>4, <2>1, <2>2 DEF Programmed, SupplyOff, SupplySafe5V
  <2>4. f.tx = Idle
    BY <2>3 DEF Sent, Loud, SharedSends
  <2>5. Resetting(f, h, z)
    BY <2>1, <2>3, <2>4 DEF Resetting, Says
  <2> QED BY <2>3, <2>5 DEF Meeting, Pairs, f
<1>9. CASE s = "swap_transition_to_off"
  <2> DEFINE t == "swap_supply_off"
  <2>1. h.conn = "standby_to_src" /\ Quiet(h, {"swap_transition_to_off"})
    BY <1>9 DEF Pausing, Says, Quiet
  <2>2. SourceGoes(g, f, t, e, None)
    BY <1>3, <1>9 DEF SourceStates, Marks, Wordy, Gates, Directing, Ways, SourceWays
  <2> HIDE DEF f
  <2>3. /\ Facing(f, h) /\ Src(f) /\ Fit(f) /\ En(f).pe = t
        /\ f.supply.pending /\ Sent(f, r, t, e)
    BY <1>4, <2>2 DEF Programmed, SupplyOff, SupplySafe5V
  <2>4. f.tx = Idle
    BY <2>3 DEF Sent, Loud, SharedSends
  <2>5. Swapping(f, h, z, y)
    BY <2>1, <2>3, <2>4 DEF Swapping, Quiet
  <2> QED BY <2>3, <2>5 DEF Meeting, Pairs, f
<1> QED BY <1>5, <1>6, <1>7, <1>8, <1>9 DEF Pausing, Says, Quiet

\* What a meeting is when nothing is under way.
LEMMA PairLulls ==
  ASSUME NEW g, NEW h, NEW x, NEW y, Pairs(g, h, x, y), Lull(g, h)
  PROVE  \/ Dealing(g, h, x, y) \/ Pausing(g, h) \/ Pausing(h, g)
         \/ Apart(g.conn) /\ Apart(h.conn)
<1>1. Lull(h, g)
  BY DEF Lull
<1>2. Dealing(h, g, y, x) => Dealing(g, h, x, y)
  BY EitherSide
<1> QED BY <1>1, <1>2, MeetingLulls DEF Pairs

\* A timer of an engine runs out in its turn.
LEMMA PairTimesOut ==
  ASSUME NEW g, Sound(g), NEW h, Sound(h), NEW x \in BOOLEAN, NEW y, Pairs(g, h, x, y),
         Lull(g, h), NEW r \in Role, g.eng[r].pe \in Timed(r),
         \A q \in Role : h.eng[q].pe \in Timed(q) =>
           Duration(g.eng[r].pe) <= Duration(h.eng[q].pe),
         NEW z \in BOOLEAN, z <=> (x /\ PeTimeout(g, r).tx = g.tx)
  PROVE  Fit(PeTimeout(g, r)) /\ Pairs(PeTimeout(g, r), h, z, y)
<1>1. CASE Dealing(g, h, x, y)
  <2>1. g.tx = Idle /\ h.tx = Idle
    BY DEF Lull
  <2>2. Fit(PeTimeout(g, r)) /\ Dealing(PeTimeout(g, r), h, z, y)
    BY <1>1, <2>1, DealingTimeout
  <2> QED BY <2>2, EitherSide
<1>2. CASE Pausing(g, h)
  <2>1. r = "source"
    BY <1>2, SourceIsFirst, TimedLive DEF Sound
  <2> QED BY <1>2, <2>1, PauseEnds
<1>3. CASE Pausing(h, g)
  <2>1. h.eng["source"].pe \in Timed("source") /\ Outlasted(h, g) /\ "source" \in Role
    BY <1>3, SourceIsFirst DEF Role
  <2> QED BY <2>1 DEF Outlasted
<1>4. CASE Apart(g.conn)
  <2>1. g.eng[r].pe = Resting(r)
    BY <1>4, Unused
  <2> QED BY <2>1 DEF Resting, Timed, SinkTimed, SourceTimed, SharedTimed, Role
<1> QED BY <1>1, <1>2, <1>3, <1>4, PairLulls

\* The VCONN machine does not wait then, and where the connection machine does,
\* a timer of the source is to run out first.
LEMMA PairWaits ==
  ASSUME NEW g, Sound(g), NEW h, Sound(h), NEW x, NEW y, Pairs(g, h, x, y), Lull(g, h)
  PROVE  /\ g.vconn # "wait"
         /\ g.conn \in TimedConn =>
              \E q \in Role : /\ h.eng[q].pe \in Timed(q)
                              /\ ~(ConnDuration(g.conn) <= Duration(h.eng[q].pe))
<1>1. g.tx = Idle /\ h.tx = Idle
  BY DEF Lull
<1>2. \A p, q : Facing(p, q) => p.vconn # "wait" /\ q.vconn # "wait"
  BY DEF Facing, Cable
<1>3. CASE Dealing(g, h, x, y)
  <2>1. g.conn \notin TimedConn
    BY <1>3 DEF Dealing, Agreed, Contracted, Src, Snk, TimedConn
  <2>2. Accept # Idle /\ PsRdy # Idle
    BY DEF Accept, PsRdy, Control, Idle
  <2>3. ASSUME NEW i, NEW k, NEW u, NEW v, Conversing(i, k, u, v), i.tx = Idle, k.tx = Idle
        PROVE  i.vconn # "wait" /\ k.vconn # "wait"
    <3>1. ~Flipping(i, u) /\ ~HandsOver(i, k, u, v)
      BY <2>2, <2>3 DEF Flipping, HandsOver, SendsPsRdy, Says
    <3>2. TakeOver(i, k, u, v) => i.vconn = "source" /\ k.vconn = "turn_on"
      BY <2>2, <2>3 DEF TakeOver, SendsPsRdy, Says
    <3> QED BY <1>2, <2>3, <3>1, <3>2 DEF Conversing
  <2>4. g.vconn # "wait"
    BY <1>1, <1>3, <2>3 DEF Dealing
  <2> QED BY <2>1, <2>4
<1>4. CASE Pausing(g, h)
  <2>1. g.conn \notin TimedConn
    BY <1>4 DEF Pausing, Src, TimedConn
  <2> QED BY <1>2, <1>4, <2>1 DEF Pausing
<1>5. CASE Pausing(h, g)
  <2> DEFINE s == h.eng["source"].pe
  <2>1. /\ "source" \in Role /\ s \in Timed("source") /\ s = En(h).pe
    BY <1>5, SourceIsFirst DEF Role, En
  <2>2. g.conn \in TimedConn => \/ g.conn = "hard_reset_recover_snk" /\ s = "recover"
                                \/ g.conn = "standby_to_src" /\ s = "swap_transition_to_off"
    BY <1>5, <2>1 DEF Pausing, Waits, Awaited, Snk, TimedConn, Says, Quiet
  <2>3. /\ ConnDuration("hard_reset_recover_snk") = 6000 /\ Duration("recover") = 800
        /\ ConnDuration("standby_to_src") = 835 /\ Duration("swap_transition_to_off") = 30
    BY DEF ConnDuration, Duration
  <2>4. g.conn \in TimedConn => ~(ConnDuration(g.conn) <= Duration(s))
    BY <2>2, <2>3
  <2>5. g.vconn # "wait"
    BY <1>2, <1>5 DEF Pausing
  <2> QED BY <2>1, <2>4, <2>5
<1>6. CASE Apart(g.conn)
  BY <1>6, Unused DEF Apart, TimedConn
<1> QED BY <1>3, <1>4, <1>5, <1>6, PairLulls

\* The one which meets a source, or comes to, is none.
LEMMA OtherNoSource ==
  ASSUME NEW g, NEW h, NEW x, NEW y, Meeting(g, h, x, y)
  PROVE  h.conn # "attached_src"
<1> SUFFICES ASSUME h.conn = "attached_src" PROVE FALSE
  OBVIOUS
<1>1. ~Parting(g, h) /\ ~Contracted(g, h)
  BY DEF Parting, Apart, Waits, Contracted, Snk
<1>2. ~Negotiating(g, h, x, y)
  BY DEF Negotiating, Offered, Requested, Answered, Supplies, Anew, Waits, Requests, Snk
<1>3. ~Resetting(g, h, x) /\ ~Swapping(g, h, x, y) /\ ~Taking(g, h, x, y)
  BY DEF Resetting, Swapping, Taking, Snk
<1> QED BY <1>1, <1>2, <1>3 DEF Meeting

\* So of the two one at most sources.
LEMMA OneSources ==
  ASSUME NEW g, NEW h, NEW x, NEW y, Pairs(g, h, x, y)
  PROVE  ~(g.conn = "attached_src" /\ h.conn = "attached_src")
  BY OtherNoSource DEF Pairs

SourceSupplies(g) == g.supply.pending \/ g.supply.out \in Terms \cup {"safe5v", "off"}
\* The supply of a source is at an operating point, at vSafe5V, off, or on its way.
LEMMA SuppliesKnown ==
  ASSUME NEW g, NEW h, NEW x, NEW y, Pairs(g, h, x, y), g.conn = "attached_src"
  PROVE  SourceSupplies(g)
<1>1. CASE Meeting(g, h, x, y)
  BY <1>1
  DEF Meeting, Parting, Apart, Negotiating, Resetting, Swapping, Taking, Contracted, Lit,
      SourceSupplies
<1>2. CASE Meeting(h, g, y, x)
  BY <1>2, OtherNoSource
<1> QED BY <1>1, <1>2 DEF Pairs

-----------------------------------------------------------------------------
(***************************************************************************)
(* The pair: every step which is no fault leaves it undisturbed.           *)
(***************************************************************************)
NoFault == \A kind : ~Fault(kind)

\* The two ports, from the side of p.
LEMMA PairMeets ==
  ASSUME PairInOrder, Undisturbed, NEW p \in Port
  PROVE  /\ Peer(p) \in Port /\ Peer(p) # p /\ Peer(Peer(p)) = p
         /\ Sound(ports[p]) /\ Sound(ports[Peer(p)])
         /\ heard[p] \in BOOLEAN /\ heard[Peer(p)] \in BOOLEAN
         /\ Pairs(ports[p], ports[Peer(p)], heard[p], heard[Peer(p)])
         /\ Pairs(ports[Peer(p)], ports[p], heard[Peer(p)], heard[p])
<1>1. Peer(p) \in Port /\ Peer(p) # p /\ Peer(Peer(p)) = p /\ \A q \in Port : q # p => q = Peer(p)
  BY Peers
<1>2. heard[p] \in BOOLEAN /\ heard[Peer(p)] \in BOOLEAN
  BY <1>1 DEF PairInOrder
<1>3. Sound(ports[p]) /\ Sound(ports[Peer(p)])
  BY <1>1 DEF Undisturbed
<1>4. PICK q \in Port : Meeting(ports[q], ports[Peer(q)], heard[q], heard[Peer(q)])
  BY DEF Undisturbed
<1>5. q = p \/ (q = Peer(p) /\ Peer(q) = p)
  BY <1>1
<1>6. /\ Pairs(ports[p], ports[Peer(p)], heard[p], heard[Peer(p)])
      /\ Pairs(ports[Peer(p)], ports[p], heard[Peer(p)], heard[p])
  BY <1>4, <1>5 DEF Pairs
<1> QED BY <1>1, <1>2, <1>3, <1>6

\* And back.
LEMMA MeetsAgain ==
  ASSUME PairInOrder', NEW p \in Port, Fit(ports'[p]), Fit(ports'[Peer(p)]),
         Pairs(ports'[p], ports'[Peer(p)], heard'[p], heard'[Peer(p)])
  PROVE  Undisturbed'
<1>1. Peer(p) \in Port /\ Peer(Peer(p)) = p /\ \A q \in Port : q # p => q = Peer(p)
  BY Peers
<1>2. \A q \in Port : Sound(ports'[q])
  BY <1>1 DEF PairInOrder, Sound
<1>3. \/ Meeting(ports'[p], ports'[Peer(p)], heard'[p], heard'[Peer(p)])
      \/ Meeting(ports'[Peer(p)], ports'[Peer(Peer(p))], heard'[Peer(p)], heard'[Peer(Peer(p))])
  BY <1>1 DEF Pairs
<1>4. \E q \in Port : Meeting(ports'[q], ports'[Peer(q)], heard'[q], heard'[Peer(q)])
  BY <1>1, <1>3
<1> QED BY <1>2, <1>4 DEF Undisturbed

\* One of the two becomes k.
LEMMA BecomesMeets ==
  ASSUME PairInOrder, PairInOrder', Undisturbed, NEW p \in Port, NEW k, Becomes(p, k), Fit(k),
         \A z \in BOOLEAN : (z <=> (heard[p] /\ k.tx = ports[p].tx)) =>
           Pairs(k, ports[Peer(p)], z, heard[Peer(p)])
  PROVE  Undisturbed'
<1> DEFINE q == Peer(p)
           z == heard[p] /\ k.tx = ports[p].tx
<1>1. q \in Port /\ q # p /\ Sound(ports[q])
  BY PairMeets
<1>2. /\ ports'[p] = k /\ ports'[q] = ports[q] /\ heard'[q] = heard[q]
      /\ heard'[p] = z
  BY <1>1 DEF Becomes, PairInOrder
<1>3. heard'[p] \in BOOLEAN /\ (heard'[p] <=> (heard[p] /\ k.tx = ports[p].tx))
  BY <1>2
<1> HIDE DEF z
<1>4. Pairs(k, ports[q], heard'[p], heard[q])
  BY <1>3
<1> QED BY <1>1, <1>2, <1>4, MeetsAgain DEF Sound

\* The wire.
LEMMA WireMeets ==
  ASSUME PairInOrder, PairInOrder', Undisturbed, NoFault, NEW p \in Port,
         Deliver(p) \/ Confirm(p) \/ Fail(p) \/ Signal(p) \/ Signalled(p)
  PROVE  Undisturbed'
<1> DEFINE q == Peer(p)
           g == ports[p]
           h == ports[q]
           x == heard[p]
           y == heard[q]
<1>1. /\ q \in Port /\ q # p /\ Sound(g) /\ Sound(h) /\ x \in BOOLEAN /\ y \in BOOLEAN
      /\ Pairs(g, h, x, y)
  BY PairMeets
<1>2. ~live(q) => g.tx = Idle
  BY <1>1, ConnsMeet, Clients DEF live, Sound, InOrder, ClientIn, Apart
<1>3. CASE Deliver(p)
  <2>1. g.tx \notin {Idle, HardReset} /\ ~x /\ h.tx # HardReset /\ ~y
    BY <1>3 DEF Deliver, Transmitting, NoFault
  <2>2. PICK v \in Terms, yes \in BOOLEAN :
          /\ ports' = [ports EXCEPT ![q] = Received(h, g.tx, v, yes)]
          /\ heard' = [r \in Port |-> r = p]
    BY <1>3 DEF Deliver
  <2>3. /\ ports'[p] = g /\ ports'[q] = Received(h, g.tx, v, yes) /\ heard'[p] /\ ~heard'[q]
    BY <1>1, <2>2 DEF PairInOrder
  <2> HIDE DEF g, h, x, y, q
  <2>4. Hears(g, h, x, y, v, heard'[p], heard'[q])
    BY <1>1, <2>1, <2>3 DEF Hears
  <2>5. Understood(g, Received(h, g.tx, v, yes), heard'[p], heard'[q])
    BY ONLY <1>1, <2>4, PairHeard
  <2>6. Fit(ports'[p]) /\ Fit(ports'[q]) /\ Pairs(ports'[p], ports'[q], heard'[p], heard'[q])
    BY <1>1, <2>3, <2>5 DEF Understood, Sound
  <2> QED BY <2>6, MeetsAgain DEF q
<1>4. CASE Confirm(p)
  <2>1. g.tx \notin {Idle, HardReset} /\ x /\ Becomes(p, TxDone(g))
    BY <1>4 DEF Confirm, Transmitting
  <2>2. ASSUME NEW z \in BOOLEAN, z <=> (x /\ TxDone(g).tx = g.tx)
        PROVE  Fit(TxDone(g)) /\ Pairs(TxDone(g), h, z, y)
    <3>1. z => TxDone(g).tx = g.tx
      BY <2>2
    <3> HIDE DEF g, h, x, y
    <3> QED BY ONLY <1>1, <2>1, <3>1, PairConfirmed
  <2>3. Fit(TxDone(g))
    BY <2>2
  <2> QED BY <2>1, <2>2, <2>3, BecomesMeets
<1>5. CASE Fail(p)
  BY <1>2, <1>5 DEF Fail, NoFault, Transmitting
<1>6. CASE Signal(p)
  <2>1. /\ g.tx = HardReset /\ ~x
        /\ ports' = [ports EXCEPT ![q] = HardResetHeard(h)]
        /\ heard' = [r \in Port |-> r = p]
    BY <1>6 DEF Signal
  <2>2. ports'[p] = g /\ ports'[q] = HardResetHeard(h) /\ heard'[p]
    BY <1>1, <2>1 DEF PairInOrder
  <2>3. Fit(HardResetHeard(h)) /\ Pairs(g, HardResetHeard(h), heard'[p], heard'[q])
    <3> HIDE DEF g, h, x, y, q
    <3> QED BY <1>1, <2>1, <2>2, PairSignal
  <2> QED BY <1>1, <2>2, <2>3, MeetsAgain DEF Sound
<1>7. CASE Signalled(p)
  <2>1. g.tx = HardReset /\ x /\ Becomes(p, HardResetSent(g))
    BY <1>2, <1>7 DEF Signalled, NoFault, Idle, HardReset
  <2>2. \A z : Fit(HardResetSent(g)) /\ Pairs(HardResetSent(g), h, z, y)
    <3> HIDE DEF g, h, x, y
    <3> QED BY ONLY <1>1, <2>1, PairSignalled
  <2> QED BY <2>1, <2>2, BecomesMeets
<1> QED BY <1>3, <1>4, <1>5, <1>6, <1>7

\* The supply, VBUS, the CC line.
LEMMA LineMeets ==
  ASSUME PairInOrder, PairInOrder', Undisturbed, NEW p \in Port,
         Settle(p) \/ VbusChanged(p) \/ CcOpen(p) \/ SeeRp(p) \/ RecoveryOver(p)
  PROVE  Undisturbed'
<1> DEFINE q == Peer(p)
           g == ports[p]
           h == ports[q]
           x == heard[p]
           y == heard[q]
<1>1. /\ q \in Port /\ q # p /\ Sound(g) /\ Sound(h) /\ x \in BOOLEAN /\ y \in BOOLEAN
      /\ Pairs(g, h, x, y)
  BY PairMeets
<1>2. \E ok \in BOOLEAN : ok = SinkTxOk(p)
  BY DEF SinkTxOk
<1>3. PICK ok \in BOOLEAN : ok = SinkTxOk(p)
  BY <1>2
<1>4. \A r \in Port : r = p \/ r = q
  BY Peers
<1>5. ASSUME NEW k, Becomes(p, k), Fit(k), \A z : Pairs(k, h, z, y) PROVE Undisturbed'
  BY <1>5, BecomesMeets
<1>6. CASE Settle(p)
  <2>1. g.supply.pending /\ Becomes(p, SupplySettled(g))
    BY <1>6 DEF Settle
  <2>2. \A z \in BOOLEAN : (z <=> (x /\ SupplySettled(g).tx = g.tx)) =>
          Fit(SupplySettled(g)) /\ Pairs(SupplySettled(g), h, z, y)
    <3> HIDE DEF g, h, x, y
    <3> QED BY ONLY <1>1, <2>1, PairSettled
  <2>3. Fit(SupplySettled(g))
    <3>1. \E z \in BOOLEAN : z <=> (x /\ SupplySettled(g).tx = g.tx)
      OBVIOUS
    <3> HIDE DEF g, h, x, y
    <3> QED BY <2>2, <3>1
  <2> QED BY <2>1, <2>2, <2>3, BecomesMeets
<1>7. CASE VbusOff /\ g.conn = "hard_reset_snk" /\ Becomes(p, WindowVbusGone(g))
  <2>1. Src(h)
    <3> HIDE DEF g, h, x, y
    <3> QED BY <1>1, <1>7, SinkConn DEF Resetting
  <2>2. ~Lit(h) /\ ~h.supply.pending
    BY <1>1, <1>7, <2>1 DEF VbusOff, Sourcing, Src, Lit
  <2>3. \A z : Fit(WindowVbusGone(g)) /\ Pairs(WindowVbusGone(g), h, z, y)
    <3> HIDE DEF g, h, x, y
    <3> QED BY <1>1, <1>7, <2>2, PairSeesVbusGo
  <2> QED BY <1>5, <1>7, <2>3
<1>8. CASE VbusOff /\ g.conn = "attached_snk" /\ Becomes(p, Detached(g))
  <2>1. Snk(g) /\ (Src(h) => ~Lit(h) /\ ~h.supply.pending)
    BY <1>1, <1>8 DEF VbusOff, Sourcing, Src, Snk, Lit
  <2>2. \A z : Fit(Detached(g)) /\ Pairs(Detached(g), h, z, y)
    <3> HIDE DEF g, h, x, y
    <3> QED BY <1>1, <2>1, PairSeesSourceGo
  <2> QED BY <1>5, <1>8, <2>2
<1>9. CASE VbusOn /\ g.conn = "hard_reset_recover_snk" /\ Becomes(p, WindowVbusBack(g, SinkTxOk(p)))
  <2>1. /\ h.conn = "attached_src" /\ ~h.supply.pending
        /\ h.supply.out # "off"
    BY <1>4, <1>9 DEF VbusOn, Sourcing
  <2>2. Pairs(h, g, y, x)
    BY <1>1 DEF Pairs
  <2>3. Lit(h)
    BY <2>1, <2>2, SuppliesKnown DEF Lit, SourceSupplies
  <2>4. \A z : Fit(WindowVbusBack(g, ok)) /\ Pairs(WindowVbusBack(g, ok), h, z, y)
    <3> HIDE DEF g, h, x, y
    <3> QED BY <1>1, <1>9, <2>1, <2>3, PairSeesVbusBack
  <2> QED BY <1>3, <1>5, <1>9, <2>4
<1>10. CASE CcOpen(p)
  <2>1. g.conn = "attached_src" /\ (Apart(h.conn) \/ h.conn = "attached_src")
    BY <1>10 DEF CcOpen, Sourcing, Apart
  <2> HIDE DEF g, h, x, y
  <2> QED BY <1>1, <2>1, ConnsMeet
<1>11. CASE SeeRp(p)
  <2>1. g.conn = "attached_snk" /\ Becomes(p, RpSeen(g, ok))
    BY <1>3, <1>11 DEF SeeRp
  <2>2. \A z \in BOOLEAN : (z <=> (x /\ RpSeen(g, ok).tx = g.tx)) =>
          Fit(RpSeen(g, ok)) /\ Pairs(RpSeen(g, ok), h, z, y)
    <3> HIDE DEF g, h, x, y
    <3> QED BY ONLY <1>1, <2>1, ok \in BOOLEAN, PairSeesRp
  <2>3. Fit(RpSeen(g, ok))
    <3>1. \E z \in BOOLEAN : z <=> (x /\ RpSeen(g, ok).tx = g.tx)
      OBVIOUS
    <3> HIDE DEF g, h, x, y
    <3> QED BY <2>2, <3>1
  <2> QED BY <2>1, <2>2, <2>3, BecomesMeets
<1>12. CASE RecoveryOver(p)
  <2>1. Apart(h.conn) /\ Becomes(p, [g EXCEPT !.conn = "detached"])
    BY <1>12 DEF RecoveryOver, Apart
  <2> DEFINE k == [g EXCEPT !.conn = "detached"]
  <2>2. \A z : Fit(k) /\ Pairs(k, h, z, y)
    <3> HIDE DEF g, h, x, y
    <3> QED BY <1>1, <2>1, PairRecovers
  <2> HIDE DEF k
  <2>3. Becomes(p, k)
    BY <2>1 DEF k
  <2> QED BY <1>5, <2>2, <2>3
<1> QED BY <1>6, <1>7, <1>8, <1>9, <1>10, <1>11, <1>12 DEF VbusChanged

\* The plug.
LEMMA PlugMeets ==
  ASSUME PairInOrder, PairInOrder', Undisturbed, NoFault, Unplug \/ \E p \in Port : Attach(p)
  PROVE  Undisturbed'
<1>1. ~Unplug
  BY DEF Unplug, NoFault
<1>2. PICK p \in Port : Attach(p)
  BY <1>1
<1> DEFINE q == Peer(p)
<1>3. q \in Port /\ q # p /\ Sound(ports[p]) /\ Sound(ports[q])
  BY PairMeets
<1>4. \E no \in BOOLEAN : no = FALSE
  OBVIOUS
<1>5. PICK no \in BOOLEAN : no = FALSE
  BY <1>4
<1>6. /\ Apart(ports[p].conn) /\ Apart(ports[q].conn)
      /\ ports'[p] = Attached(ports[p], "source", no, Ra)
      /\ ports'[q] = Attached(ports[q], "sink", no, Ra)
  BY <1>2, <1>3, <1>5 DEF Attach, Apart
<1>7. /\ Fit(ports'[p]) /\ Fit(ports'[q])
      /\ Pairs(ports'[p], ports'[q], heard'[p], heard'[q])
  BY <1>3, <1>6, PairAttaches
<1> QED BY <1>7, MeetsAgain

\* In a timer's turn nothing is under way.
LEMMA TurnLulls ==
  ASSUME PairInOrder, Undisturbed, NoFault, NEW p \in Port, NEW d, Expires(d)
  PROVE  Lull(ports[p], ports[Peer(p)]) /\ InTurn(d)
<1> DEFINE q == Peer(p)
<1>1. q \in Port /\ q # p /\ Peer(q) = p /\ \A r \in Port : r = p \/ r = q
  BY Peers
<1>2. InTurn(d)
  BY DEF Expires, NoFault
<1>3. ~Busy(p) /\ ~Busy(q)
  BY <1>1, <1>2 DEF InTurn
<1>4. /\ ports[p].tx = Idle /\ ports[q].tx = Idle
      /\ ~ports[p].supply.pending /\ ~ports[q].supply.pending
  BY <1>3 DEF Busy
<1>5. SourceSupplies(ports[p]) \/ ports[p].conn # "attached_src"
  BY PairMeets, SuppliesKnown
<1>6. SourceSupplies(ports[q]) \/ ports[q].conn # "attached_src"
  BY PairMeets, SuppliesKnown
<1>7. ASSUME NEW r \in Port, NEW s \in Port, \A t \in Port : t = r \/ t = s, ~Busy(r),
             ~ports[s].supply.pending, ~ports[r].supply.pending,
             SourceSupplies(ports[s]) \/ ports[s].conn # "attached_src"
      PROVE  /\ ports[r].conn \in {"hard_reset_snk", "attached_snk"} =>
                  ports[s].conn = "attached_src" /\ Lit(ports[s])
             /\ ports[r].conn = "hard_reset_recover_snk" =>
                  ~(ports[s].conn = "attached_src" /\ Lit(ports[s]))
  <2>1. CASE ports[r].conn \in {"hard_reset_snk", "attached_snk"}
    <3>1. ~VbusOff
      BY <1>7, <2>1 DEF Busy
    <3>2. PICK t \in Port : Sourcing(t) /\ ~(ports[t].supply.out = "off" /\ ~ports[t].supply.pending)
      BY <3>1 DEF VbusOff
    <3> QED BY <1>7, <2>1, <3>2 DEF Sourcing, Lit, SourceSupplies
  <2>2. CASE ports[r].conn = "hard_reset_recover_snk"
    <3>1. ~VbusOn
      BY <1>7, <2>2 DEF Busy
    <3> QED BY <1>7, <2>2, <3>1 DEF VbusOn, Sourcing, Lit
  <2> QED BY <2>1, <2>2
<1>8. Lull(ports[p], ports[q])
  BY <1>1, <1>3, <1>4, <1>5, <1>6, <1>7 DEF Lull
<1> QED BY <1>2, <1>8

\* The timers.
LEMMA TimersMeet ==
  ASSUME PairInOrder, PairInOrder', Undisturbed, NoFault, NEW p \in Port,
         PeTimer(p) \/ VconnTimer(p) \/ ConnTimer(p)
  PROVE  Undisturbed'
<1> DEFINE q == Peer(p)
           g == ports[p]
           h == ports[q]
           x == heard[p]
           y == heard[q]
<1>1. /\ q \in Port /\ Sound(g) /\ Sound(h) /\ x \in BOOLEAN /\ y \in BOOLEAN
      /\ Pairs(g, h, x, y)
  BY PairMeets
<1>2. \A r \in Role : h.eng[r].pe \in Timed(r) => Duration(h.eng[r].pe) \in Running(q)
  BY DEF Running
<1>3. CASE PeTimer(p)
  <2>1. PICK r \in Role : /\ g.eng[r].pe \in Timed(r) /\ Expires(Duration(g.eng[r].pe))
                          /\ Becomes(p, PeTimeout(g, r))
    BY <1>3 DEF PeTimer
  <2>2. Lull(g, h) /\ InTurn(Duration(g.eng[r].pe))
    BY <2>1, TurnLulls
  <2>3. \A s \in Role : h.eng[s].pe \in Timed(s) =>
          Duration(g.eng[r].pe) <= Duration(h.eng[s].pe)
    BY <1>1, <1>2, <2>2 DEF InTurn
  <2>4. \A z \in BOOLEAN : (z <=> (x /\ PeTimeout(g, r).tx = g.tx)) =>
          Fit(PeTimeout(g, r)) /\ Pairs(PeTimeout(g, r), h, z, y)
    <3> HIDE DEF g, h, x, y
    <3> QED BY ONLY <1>1, <2>1, <2>2, <2>3, PairTimesOut
  <2>5. Fit(PeTimeout(g, r))
    <3>1. \E z \in BOOLEAN : z <=> (x /\ PeTimeout(g, r).tx = g.tx)
      OBVIOUS
    <3> HIDE DEF g, h, x, y
    <3> QED BY <2>4, <3>1
  <2> QED BY <2>1, <2>4, <2>5, BecomesMeets
<1>4. CASE VconnTimer(p)
  <2>1. g.vconn = "wait" /\ Lull(g, h)
    BY <1>4, TurnLulls DEF VconnTimer
  <2> HIDE DEF g, h, x, y
  <2> QED BY <1>1, <2>1, PairWaits
<1>5. CASE ConnTimer(p)
  <2>1. g.conn \in TimedConn /\ Lull(g, h) /\ InTurn(ConnDuration(g.conn))
    BY <1>5, TurnLulls DEF ConnTimer
  <2>2. PICK r \in Role : /\ h.eng[r].pe \in Timed(r)
                          /\ ~(ConnDuration(g.conn) <= Duration(h.eng[r].pe))
    <3> HIDE DEF g, h, x, y
    <3> QED BY <1>1, <2>1, PairWaits
  <2> QED BY <1>1, <1>2, <2>1, <2>2 DEF InTurn
<1> QED BY <1>3, <1>4, <1>5

\* The applications.
LEMMA AskMeets ==
  ASSUME PairInOrder, PairInOrder', Undisturbed, NEW p \in Port, Ask(p)
  PROVE  Undisturbed'
<1> DEFINE g == ports[p]
           h == ports[Peer(p)]
           x == heard[p]
           y == heard[Peer(p)]
<1>1. Sound(g) /\ Sound(h) /\ Pairs(g, h, x, y)
  BY PairMeets
<1>2. g.client \in Role /\ En(g).pe = "ready"
  BY <1>1, Clients DEF Ask, live, Engine, En, Sound
<1>3. ASSUME NEW k, Becomes(p, k), Fit(k), \A z : Pairs(k, h, z, y) PROVE Undisturbed'
  BY <1>3, BecomesMeets
<1>4. \A z : /\ \A seq \in {"pr_swap", "dr_swap"} :
                  Fit(AskSwap(g, seq)) /\ Pairs(AskSwap(g, seq), h, z, y)
             /\ Fit(AskVconnSwap(g)) /\ Pairs(AskVconnSwap(g), h, z, y)
  <2> HIDE DEF g, h, x, y
  <2> QED BY ONLY <1>1, <1>2, PairAsks
<1>5. CASE \E seq \in {"pr_swap", "dr_swap"} \cap Features : Becomes(p, AskSwap(g, seq))
  <2>1. PICK seq \in {"pr_swap", "dr_swap"} : Becomes(p, AskSwap(g, seq))
    BY <1>5
  <2> QED BY <1>3, <1>4, <2>1
<1>6. CASE Becomes(p, AskVconnSwap(g))
  BY <1>3, <1>4, <1>6
<1> QED BY <1>5, <1>6 DEF Ask

\* Every step which is no fault leaves the number of faults and the pair alone.
LEMMA UndisturbedKept ==
  ASSUME PairInOrder, [Next]_vars, NoFault
  PROVE  faults' = faults /\ (Undisturbed => Undisturbed')
<1>1. PairInOrder'
  BY PairOrderKept
<1>2. ASSUME Undisturbed PROVE Undisturbed'
  <2>1. CASE Unplug
    BY <1>1, <1>2, <2>1, PlugMeets
  <2>2. ASSUME NEW p \in Port, Progress(p) PROVE Undisturbed'
    BY <1>1, <1>2, <2>2, WireMeets, LineMeets, PlugMeets, TimersMeet DEF Progress
  <2>3. ASSUME NEW p \in Port, Ask(p) PROVE Undisturbed'
    BY <1>1, <1>2, <2>3, AskMeets
  <2>4. CASE UNCHANGED vars
    BY <1>2, <2>4 DEF vars, Undisturbed
  <2> QED BY <2>1, <2>2, <2>3, <2>4 DEF Next
<1>3. faults' = faults
  <2>1. ASSUME NEW p \in Port, Progress(p) PROVE faults' = faults
    <3>1. CASE Deliver(p) \/ Confirm(p) \/ Fail(p) \/ Signal(p) \/ Signalled(p)
      BY <3>1 DEF NoFault, Faultless, Deliver, Confirm, Fail, Signal, Signalled
    <3>2. CASE Settle(p) \/ VbusChanged(p) \/ CcOpen(p) \/ SeeRp(p) \/ RecoveryOver(p) \/ Attach(p)
      BY <3>2 DEF Faultless, Settle, VbusChanged, CcOpen, SeeRp, RecoveryOver, Attach
    <3>3. CASE PeTimer(p) \/ VconnTimer(p) \/ ConnTimer(p)
      BY <3>3 DEF NoFault, Faultless, PeTimer, VconnTimer, ConnTimer, Expires
    <3> QED BY <2>1, <3>1, <3>2, <3>3 DEF Progress
  <2>2. ASSUME NEW p \in Port, Ask(p) PROVE faults' = faults
    BY <2>2 DEF Ask, Faultless
  <2>3. ~Unplug
    BY DEF Unplug, NoFault
  <2> QED BY <2>1, <2>2, <2>3 DEF Next, vars
<1> QED BY <1>2, <1>3

\* A fault counts.
LEMMA FaultCounts ==
  ASSUME PairInOrder, faults' = 0
  PROVE  NoFault
<1>1. faults \in Nat
  BY BudgetAssumption DEF PairInOrder
<1>2. faults + 1 # 0
  BY <1>1
<1> QED BY <1>2 DEF NoFault, Fault

\* Before the first attach the two are apart.
LEMMA StartsUndisturbed ==
  ASSUME Init
  PROVE  Undisturbed
<1>1. \A p \in Port : ports[p] = NewPort
  BY DEF Init
<1>2. Sound(NewPort)
  <2>1. InOrder(NewPort)
    BY NewPortInOrder
  <2>2. Fit(NewPort)
    BY DEF Fit, Primed, Lit, NewPort, NewEngine, Role
  <2> QED BY <2>1, <2>2 DEF Sound
<1>3. Apart(NewPort.conn)
  BY DEF Apart, NewPort
<1>4. A \in Port /\ Peer(A) \in Port
  BY DEF Port, Peer
<1>5. Meeting(ports[A], ports[Peer(A)], heard[A], heard[Peer(A)])
  BY <1>1, <1>3, <1>4 DEF Meeting, Parting
<1> QED BY <1>1, <1>2, <1>4, <1>5 DEF Undisturbed

\* As long as nothing goes wrong the two ports stand to each other as Meeting
\* lists, whatever the applications ask for and the policies refuse.
THEOREM NothingWrongUndisturbed == Spec => [](faults = 0 => Undisturbed)
<1> DEFINE Inv == PairInOrder /\ (faults = 0 => Undisturbed)
<1>1. Init => Inv
  BY NewPortInOrder, BudgetAssumption, StartsUndisturbed DEF Init, PairInOrder
<1>2. Inv /\ [Next]_vars => Inv'
  <2> SUFFICES ASSUME Inv, [Next]_vars PROVE Inv'
    OBVIOUS
  <2>1. PairInOrder'
    BY PairOrderKept
  <2>2. ASSUME faults' = 0 PROVE Undisturbed'
    <3>1. NoFault
      BY <2>2, FaultCounts
    <3> QED BY <2>2, <3>1, UndisturbedKept
  <2> QED BY <2>1, <2>2
<1>3. Inv => (faults = 0 => Undisturbed)
  OBVIOUS
<1> QED BY <1>1, <1>2, <1>3, PTL DEF Spec

\* Two ports at rest are under a contract, and face each other.
LEMMA SettledDeals ==
  ASSUME PairInOrder, Undisturbed, Settled, NEW p \in Port
  PROVE  Agreed(ports[p], ports[Peer(p)]) /\ Facing(ports[p], ports[Peer(p)])
<1> DEFINE q == Peer(p)
           g == ports[p]
           h == ports[q]
           x == heard[p]
           y == heard[q]
<1>1. q \in Port /\ Sound(g) /\ Sound(h) /\ Pairs(g, h, x, y) /\ Pairs(h, g, y, x)
  BY PairMeets
<1>2. /\ g.client \in Role /\ En(g).pe = "ready"
      /\ h.client \in Role /\ En(h).pe = "ready"
  BY <1>1, Clients DEF Settled, live, Engine, En, Sound
<1> HIDE DEF g, h, x, y
<1>3. /\ Dealing(g, h, x, y) /\ g.tx = Idle /\ ~Answers(h, g, y, x)
      /\ h.tx = Idle /\ ~Answers(g, h, x, y)
  BY <1>1, <1>2, ReadyDeals
<1>4. Accept # Idle /\ PsRdy # Idle /\ \A t : Control(t) = Idle => t = "idle"
  BY DEF Accept, PsRdy, Control, Idle
<1>5. ASSUME NEW i, NEW k, NEW u, NEW v, Conversing(i, k, u, v), ~Answers(i, k, u, v),
             i.tx = Idle, k.tx = Idle, En(i).pe = "ready", En(k).pe = "ready"
      PROVE  Facing(i, k)
  <2>1. ~Concludes(i, u) /\ ~Flipping(i, u)
    BY <1>4, <1>5 DEF Concludes, Flipping, Refusing, Says
  <2>2. ~HandsOver(i, k, u, v) /\ ~TakeOver(i, k, u, v)
    BY <1>4, <1>5 DEF HandsOver, TakeOver, SendsPsRdy, Says, Quiet
  <2> QED BY <1>5, <2>1, <2>2 DEF Conversing
<1>6. Facing(g, h)
  BY <1>2, <1>3, <1>5, EitherSide DEF Dealing
<1> QED BY <1>3, <1>6 DEF Dealing, g, h

\* So the supply stands at the terms of both.
LEMMA SettledAgrees ==
  ASSUME PairInOrder, Undisturbed
  PROVE  Agreement
<1> SUFFICES ASSUME Settled
             PROVE  \E p \in Port :
                      /\ Sourcing(p) /\ ports[Peer(p)].conn = "attached_snk"
                      /\ Engine(p).terms = Engine(Peer(p)).terms
                      /\ ports[p].supply = [out |-> Engine(p).terms, pending |-> FALSE]
  BY DEF Agreement
<1>1. A \in Port
  BY DEF Port
<1>2. PICK p \in Port : Contracted(ports[p], ports[Peer(p)])
  <2>1. Agreed(ports[A], ports[Peer(A)])
    BY <1>1, SettledDeals
  <2> QED BY <1>1, <2>1, Peers DEF Agreed
<1>3. ~ports[p].supply.pending /\ ports[p].supply \in SupplyType
  BY PortFields DEF Settled, Busy, PairInOrder, InOrder, Engines
<1>4. ports[p].supply.out = Engine(p).terms /\ Engine(p).terms = Engine(Peer(p)).terms
  BY <1>2 DEF Contracted, En, Engine
<1>5. ports[p].supply = [out |-> Engine(p).terms, pending |-> FALSE]
  BY <1>3, <1>4 DEF SupplyType
<1> QED BY <1>2, <1>4, <1>5 DEF Contracted, Src, Snk, Sourcing

\* As long as nothing goes wrong, two ports at rest agree on who sources and on
\* what, and the supply stands there - after any number of swaps.
THEOREM AgreedUnlessFaulty == Spec => [](faults = 0 => Agreement)
<1>1. PairInOrder /\ (faults = 0 => Undisturbed) => (faults = 0 => Agreement)
  BY SettledAgrees
<1> QED BY <1>1, PairStaysInOrder, NothingWrongUndisturbed, PTL

\* And their attachments have opposite data roles.
THEOREM DataRolesOpposite == Spec => []OppositeDataRoles
<1>1. ASSUME PairInOrder, faults = 0 => Undisturbed PROVE OppositeDataRoles
  <2> SUFFICES ASSUME Settled, faults = 0 PROVE ports[A].data # ports[B].data
    BY DEF OppositeDataRoles
  <2>1. A \in Port /\ Peer(A) = B
    BY DEF Port, Peer
  <2>2. Facing(ports[A], ports[Peer(A)])
    BY <1>1, <2>1, SettledDeals
  <2> QED BY <2>1, <2>2 DEF Facing
<1> QED BY <1>1, PairStaysInOrder, NothingWrongUndisturbed, PTL

\* And exactly one of them powers the cable which asks for VCONN.
THEOREM VconnSourceOne == Spec => []OneVconnSource
<1>1. ASSUME PairInOrder, faults = 0 => Undisturbed PROVE OneVconnSource
  <2> SUFFICES ASSUME Settled, faults = 0, Ra, "vconn" \in Features
               PROVE  \E p \in Port : ports[p].vconn = "source" /\ ports[Peer(p)].vconn = "off"
    BY DEF OneVconnSource
  <2>1. A \in Port /\ Peer(A) \in Port /\ Peer(Peer(A)) = A
    BY Peers DEF Port
  <2>2. Facing(ports[A], ports[Peer(A)])
    BY <1>1, <2>1, SettledDeals
  <2>3. \/ ports[A].vconn = "source" /\ ports[Peer(A)].vconn = "off"
        \/ ports[A].vconn = "off" /\ ports[Peer(A)].vconn = "source"
    BY <2>2 DEF Facing, Cable, Marked
  <2> QED BY <2>1, <2>3
<1> QED BY <1>1, PairStaysInOrder, NothingWrongUndisturbed, PTL

\* An engine of such a pair never stands in the termination flip for a connection
\* machine which does not follow it.
LEMMA FlipFollowed ==
  ASSUME NEW g, NEW h, NEW x, NEW y, Sound(g), Pairs(g, h, x, y)
  PROVE  ~HeldBack(g)
<1> SUFFICES ASSUME g.eng["sink"].pe = "swap_assert_rp" PROVE FALSE
  BY DEF HeldBack
<1>1. g.client = "sink"
  BY DEF Sound, InOrder, Solo, Rests, Role, Resting
<1>2. g.conn \notin {"attached_src", "detached", "error_recovery"}
  BY <1>1 DEF Sound, InOrder, ClientIn
<1>3. En(g).pe = "swap_assert_rp"
  BY <1>1 DEF En
<1>4. ~Free(g) /\ ~Refusing(g)
  BY <1>3 DEF Free, Refusing, Says, Quiet, Asks
<1>5. ASSUME NEW k, NEW v, NEW w PROVE ~Conversing(g, k, v, w) /\ ~Conversing(k, g, v, w)
  BY <1>3, <1>4
  DEF Conversing, Answers, Concludes, Flipping, HandsOver, TakeOver, SendsPsRdy, Says, Quiet
<1>6. ASSUME Meeting(g, h, x, y) PROVE FALSE
  <2>1. ~Src(g) /\ ~Apart(g.conn)
    BY <1>2 DEF Src, Apart
  <2>2. ~Swapping(g, h, x, y)
    BY <1>3, <2>1 DEF Swapping, Says
  <2> QED BY <1>6, <2>1, <2>2 DEF Meeting, Parting, Negotiating, Resetting, Taking, Contracted
<1>7. ASSUME Meeting(h, g, y, x) PROVE FALSE
  <2>1. ~Parting(h, g)
    BY <1>2, <1>3 DEF Parting, Apart, Waits, Quiet
  <2>2. ~Negotiating(h, g, y, x)
    BY <1>3
    DEF Negotiating, Offered, Requested, Answered, Supplies, Anew, Waits, Requests, Quiet
  <2>3. ~Resetting(h, g, y) /\ ~Swapping(h, g, y, x) /\ ~Taking(h, g, y, x)
    BY <1>3 DEF Resetting, Swapping, Taking, Quiet, Says
  <2> QED BY <1>5, <1>7, <2>1, <2>2, <2>3 DEF Meeting
<1> QED BY <1>6, <1>7 DEF Pairs

\* As long as nothing goes wrong no engine is found in a state it should only pass
\* through: every handler which enters one of those also leaves it.
THEOREM ThroughUnlessFaulty == Spec => [](faults = 0 => NothingInTransit)
<1>1. PairInOrder /\ Undisturbed => ~\E p \in Port : HeldBack(ports[p])
  BY PairMeets, FlipFollowed
<1> QED BY <1>1, PairStaysInOrder, NothingHeld, NothingWrongUndisturbed, PTL

-----------------------------------------------------------------------------
(***************************************************************************)
(* Who drives VBUS, and who draws from it.                                 *)
(***************************************************************************)
Limit(g) == g.power["sink"].limit

\* Only the sink under an explicit contract may draw more than the default.
LEMMA LoadOf ==
  ASSUME NEW g, Sound(g), Limit(g) \in Terms
  PROVE  /\ g.client = "sink" /\ En(g).explicit /\ En(g).terms = Limit(g)
         /\ En(g).pe \notin StandbyLimited
         /\ g.conn \notin {"attached_src", "detached", "error_recovery"}
<1>1. /\ g.eng["sink"].explicit /\ g.eng["sink"].terms = Limit(g)
      /\ g.eng["sink"].pe \notin StandbyLimited
  BY DEF Sound, InOrder, Engines, Drawing, Limit
<1>2. g.client = "sink"
  BY <1>1 DEF Sound, InOrder, Solo, Rests, Role
<1>3. g.conn \notin {"attached_src", "detached", "error_recovery"}
  BY <1>2 DEF Sound, InOrder, ClientIn
<1> QED BY <1>1, <1>2, <1>3 DEF En

\* Its partner is the source, whose supply stands there.
LEMMA LoadCarried ==
  ASSUME NEW g, Sound(g), NEW h, Sound(h), NEW x, NEW y, Pairs(g, h, x, y), Limit(h) \in Terms
  PROVE  g.conn = "attached_src" /\ g.supply = [out |-> Limit(h), pending |-> FALSE]
<1>1. /\ h.client = "sink" /\ En(h).explicit /\ En(h).terms = Limit(h)
      /\ En(h).pe \notin StandbyLimited
      /\ h.conn \notin {"attached_src", "detached", "error_recovery"}
  BY LoadOf
<1>2. En(h).pe # "swap_transition_to_off"
  BY <1>1 DEF StandbyLimited
<1>3. CASE Meeting(g, h, x, y)
  <2>1. ~Parting(g, h) /\ ~Negotiating(g, h, x, y) /\ ~Resetting(g, h, x) /\ ~Taking(g, h, x, y)
    BY <1>1 DEF Parting, Apart, Negotiating, Resetting, Taking, Fresh
  <2>2. Swapping(g, h, x, y) => Src(g) /\ g.supply = [out |-> En(h).terms, pending |-> FALSE]
    BY <1>2 DEF Swapping, Quiet
  <2>3. Contracted(g, h) => Src(g) /\ g.supply = [out |-> En(h).terms, pending |-> FALSE]
    BY DEF Contracted
  <2> QED BY <1>1, <1>3, <2>1, <2>2, <2>3 DEF Meeting, Src
<1>4. CASE Meeting(h, g, y, x)
  <2>1. ~Src(h) /\ ~Parting(h, g)
    BY <1>1 DEF Src, Parting, Apart
  <2>2. ~Negotiating(h, g, y, x) /\ ~Resetting(h, g, y) /\ ~Taking(h, g, y, x)
        /\ ~Contracted(h, g)
    BY <2>1 DEF Negotiating, Resetting, Taking, Contracted
  <2>3. ~Swapping(h, g, y, x)
    BY <1>1, <2>1 DEF Swapping
  <2> QED BY <1>4, <2>1, <2>2, <2>3 DEF Meeting
<1> QED BY <1>3, <1>4 DEF Pairs

\* As long as nothing goes wrong the two never drive VBUS against each other,
\* whatever swaps they are asked for, those of VCONN included.
THEOREM OneDrivesUnlessFaulty == Spec => [](faults = 0 => NeverBothDrive)
<1>1. ASSUME PairInOrder, Undisturbed PROVE NeverBothDrive
  <2>1. A \in Port /\ Peer(A) = B
    BY DEF Port, Peer
  <2>2. Pairs(ports[A], ports[B], heard[A], heard[B])
    BY <1>1, <2>1, PairMeets
  <2> QED BY <2>2, OneSources DEF NeverBothDrive, Sourcing
<1> QED BY <1>1, PairStaysInOrder, NothingWrongUndisturbed, PTL

\* What the two promise each other about power, as a picture of each state:
\* one at most sources, and what a sink may draw is what its source provides.
Carries(p, q) ==
  /\ Sourcing(p) =>
       /\ ~Sourcing(q)
       /\ Provided = IF ports[p].supply.pending THEN "changing" ELSE ports[p].supply.out
  /\ ~Sourcing(p) /\ ~Sourcing(q) => Provided = "off"
  /\ Limit(ports[q]) \in Terms =>
       /\ Sourcing(p) /\ ports[p].supply = [out |-> Limit(ports[q]), pending |-> FALSE]
       /\ Limit(ports[p]) \notin Terms /\ Drawn = Limit(ports[q])
  /\ Limit(ports[p]) \notin Terms /\ Limit(ports[q]) \notin Terms => Drawn = None
Powering ==
  /\ \A p \in Port : Carries(p, Peer(p))
  /\ Provided \in Terms \cup {"safe5v", "off", "changing"}

\* It holds as long as nothing goes wrong.
LEMMA PowerPicture ==
  ASSUME PairInOrder, Undisturbed, faults = 0
  PROVE  Powering
<1> SUFFICES ASSUME NEW p \in Port
             PROVE  Carries(p, Peer(p)) /\ Provided \in Terms \cup {"safe5v", "off", "changing"}
  <2>1. A \in Port
    BY DEF Port
  <2> QED BY <2>1 DEF Powering
<1> DEFINE q == Peer(p)
<1>1. /\ q \in Port /\ Sound(ports[p]) /\ Sound(ports[q])
      /\ Pairs(ports[p], ports[q], heard[p], heard[q])
      /\ Pairs(ports[q], ports[p], heard[q], heard[p])
  BY PairMeets
<1>2. \A r \in Port : r = p \/ r = q
  BY Peers
<1>3. /\ Sourcing(p) => SourceSupplies(ports[p])
      /\ Sourcing(q) => SourceSupplies(ports[q])
  BY <1>1, SuppliesKnown DEF Sourcing
<1>4. ~(Sourcing(p) /\ Sourcing(q))
  BY <1>1, OneSources DEF Sourcing
<1>5. Promised
  <2>1. A \in Port /\ B \in Port /\ A # B
    BY PairAssumption DEF Port
  <2>2. NeverBothDrive
    BY <1>2, <1>4, <2>1 DEF NeverBothDrive
  <2> QED BY <2>2 DEF Promised
<1>6. Limit(ports[q]) \in Terms =>
        Sourcing(p) /\ ports[p].supply = [out |-> Limit(ports[q]), pending |-> FALSE]
  BY <1>1, LoadCarried DEF Sourcing
<1>7. Limit(ports[p]) \in Terms => Sourcing(q)
  BY <1>1, LoadCarried DEF Sourcing
<1> HIDE DEF q
<1>8. Sourcing(p) =>
        Provided = IF ports[p].supply.pending THEN "changing" ELSE ports[p].supply.out
  <2> SUFFICES ASSUME Sourcing(p)
               PROVE  Provided = IF ports[p].supply.pending THEN "changing" ELSE ports[p].supply.out
    OBVIOUS
  <2>1. (CHOOSE r \in Port : Sourcing(r)) = p
    BY <1>2, <1>4
  <2> QED BY <1>5, <2>1 DEF Provided
<1>14. Sourcing(q) =>
         Provided = IF ports[q].supply.pending THEN "changing" ELSE ports[q].supply.out
  <2> SUFFICES ASSUME Sourcing(q)
               PROVE  Provided = IF ports[q].supply.pending THEN "changing" ELSE ports[q].supply.out
    OBVIOUS
  <2>1. (CHOOSE r \in Port : Sourcing(r)) = q
    BY <1>1, <1>2, <1>4
  <2> QED BY <1>5, <1>1, <2>1 DEF Provided
<1>9. ~Sourcing(p) /\ ~Sourcing(q) => Provided = "off"
  BY <1>2 DEF Provided
<1>10. {ports[r].power["sink"].limit : r \in Port} = {Limit(ports[p]), Limit(ports[q])}
  BY <1>1, <1>2 DEF Limit
<1>11. Limit(ports[q]) \in Terms => Limit(ports[p]) \notin Terms
  BY <1>4, <1>6, <1>7
<1>12. Limit(ports[q]) \in Terms => Drawn = Limit(ports[q])
  <2> SUFFICES ASSUME Limit(ports[q]) \in Terms PROVE Drawn = Limit(ports[q])
    OBVIOUS
  <2>1. {ports[r].power["sink"].limit : r \in Port} \cap Terms = {Limit(ports[q])}
    BY <1>10, <1>11
  <2> QED BY <1>5, <2>1 DEF Drawn
<1>13. Limit(ports[p]) \notin Terms /\ Limit(ports[q]) \notin Terms => Drawn = None
  BY <1>10 DEF Drawn
<1>15. Provided \in Terms \cup {"safe5v", "off", "changing"}
  BY <1>3, <1>8, <1>9, <1>14 DEF SourceSupplies
<1>16. Carries(p, q)
  BY <1>4, <1>6, <1>8, <1>9, <1>11, <1>12, <1>13 DEF Carries
<1> QED BY <1>15, <1>16 DEF q

\* A step moves one port, or attaches both.
LEMMA OneMoves ==
  ASSUME PairInOrder, [Next]_vars, NoFault
  PROVE  \/ \E p \in Port : ports'[p] = ports[p]
         \/ \E p \in Port : Attach(p)
<1>1. DOMAIN ports = Port /\ \A p \in Port : Peer(p) \in Port /\ Peer(p) # p
  BY Peers DEF PairInOrder
<1>2. ~Unplug
  BY DEF Unplug, NoFault
<1>3. ASSUME NEW p \in Port, NEW g, ports' = [ports EXCEPT ![p] = g]
      PROVE  \E q \in Port : ports'[q] = ports[q]
  <2>1. ports'[Peer(p)] = ports[Peer(p)]
    BY <1>1, <1>3
  <2> QED BY <1>1, <2>1
<1>4. ASSUME NEW p \in Port, NEW g, Becomes(p, g) PROVE \E q \in Port : ports'[q] = ports[q]
  BY <1>3, <1>4 DEF Becomes
<1>5. ASSUME NEW p \in Port, Deliver(p) \/ Fail(p) \/ Signal(p)
      PROVE  \E q \in Port : ports'[q] = ports[q]
  BY <1>1, <1>3, <1>5 DEF Deliver, Fail, Signal
<1>6. ASSUME NEW p \in Port, Progress(p), ~Attach(p), ~(Deliver(p) \/ Fail(p) \/ Signal(p))
      PROVE  \E q \in Port : ports'[q] = ports[q]
  BY <1>4, <1>6
  DEF Progress, Confirm, Signalled, Settle, VbusChanged, CcOpen, SeeRp, RecoveryOver, PeTimer,
      VconnTimer, ConnTimer
<1>7. ASSUME NEW p \in Port, Ask(p) PROVE \E q \in Port : ports'[q] = ports[q]
  BY <1>4, <1>7 DEF Ask
<1>8. A \in Port
  BY DEF Port
<1>9. CASE UNCHANGED vars
  BY <1>8, <1>9 DEF vars
<1> QED BY <1>2, <1>5, <1>6, <1>7, <1>9 DEF Next

\* Two that attach draw nothing yet.
LEMMA AttachUnloaded ==
  ASSUME PairInOrder, Undisturbed, Undisturbed', NEW p \in Port, Attach(p), NEW q \in Port
  PROVE  Limit(ports[q]) \notin Terms /\ Limit(ports'[q]) \notin Terms
<1>1. PICK no \in BOOLEAN : no = FALSE
  OBVIOUS
<1>2. \A r \in Port : Sound(ports'[r])
  BY DEF Undisturbed
<1>3. \A r \in Port : Limit(ports[r]) \notin Terms
  <2> SUFFICES ASSUME NEW r \in Port, Limit(ports[r]) \in Terms PROVE FALSE
    OBVIOUS
  <2>1. Sound(ports[r]) /\ ports[r].conn = "detached"
    BY DEF Attach, Undisturbed
  <2> QED BY <2>1, LoadOf
<1>4. /\ Sound(ports[p]) /\ Apart(ports[p].conn)
      /\ ports'[p] = Attached(ports[p], "source", no, Ra)
  BY <1>1 DEF Attach, Apart, Undisturbed
<1>5. Src(ports'[p])
  BY <1>4, SourceAttached
<1>6. Limit(ports'[p]) \notin Terms
  BY <1>2, <1>5, LoadOf DEF Src
<1>7. CASE q # p
  <2>1. /\ Sound(ports[q]) /\ Apart(ports[q].conn)
        /\ ports'[q] = Attached(ports[q], "sink", no, Ra)
    BY <1>1, <1>7 DEF Attach, Apart, Undisturbed
  <2>2. ~En(ports'[q]).explicit
    BY <2>1, SinkAttached
  <2> QED BY <1>2, <1>3, <2>2, LoadOf
<1> QED BY <1>3, <1>6, <1>7

\* A step is one of the promise: the load is dropped while the supply stands, or
\* taken on there; the supply moves while nothing is drawn.
LEMMA StepPromised ==
  ASSUME PairInOrder, PairInOrder', Undisturbed, Undisturbed', Powering, Powering',
         [Next]_vars, NoFault
  PROVE  [Promise!Next]_<<Provided, Drawn>>
<1>1. None \notin Terms
  BY TermsAssumption
<1>2. Provided' \in Promise!Supply
  BY DEF Powering, Promise!Supply
<1>3. ASSUME Drawn = None, Drawn' = None PROVE Promise!Next
  BY <1>2, <1>3 DEF Promise!Next, Promise!Program
<1>4. ASSUME NEW p \in Port, Attach(p) PROVE Promise!Next
  <2>1. p \in Port /\ Peer(p) \in Port
    BY Peers
  <2>2. \A q \in Port : Limit(ports[q]) \notin Terms /\ Limit(ports'[q]) \notin Terms
    BY <1>4, AttachUnloaded
  <2> QED BY <1>3, <2>1, <2>2 DEF Powering, Carries
<1>5. ASSUME NEW p \in Port, ports'[p] = ports[p]
      PROVE  Promise!Next \/ UNCHANGED <<Provided, Drawn>>
  <2> DEFINE q == Peer(p)
             g == ports[p]
             now == Limit(ports[q])
             then == Limit(ports'[q])
  <2>1. q \in Port /\ Peer(q) = p
    BY Peers
  <2>2. Carries(p, q) /\ Carries(q, p) /\ Carries(p, q)' /\ Carries(q, p)'
    BY <2>1 DEF Powering
  <2>3. ASSUME NEW t \in Terms, g.conn = "attached_src", g.supply = [out |-> t, pending |-> FALSE]
        PROVE  Provided = t /\ Provided' = t
    BY <1>5, <2>2, <2>3 DEF Carries, Sourcing
  <2>4. CASE Limit(g) \in Terms
    <3>1. Drawn = Limit(g) /\ Provided = Limit(g)
      BY <2>2, <2>4 DEF Carries
    <3>2. Drawn' = Limit(g) /\ Provided' = Limit(g)
      BY <1>5, <2>2, <2>4 DEF Carries
    <3> QED BY <3>1, <3>2
  <2>5. CASE Limit(g) \notin Terms /\ now \in Terms
    <3>1. /\ g.conn = "attached_src" /\ g.supply = [out |-> now, pending |-> FALSE]
          /\ Drawn = now
      BY <2>2, <2>5 DEF Carries, Sourcing
    <3>2. Provided = now /\ Provided' = now
      BY <2>3, <2>5, <3>1
    <3>3. CASE then \in Terms
      <4>1. g.supply = [out |-> then, pending |-> FALSE] /\ Drawn' = then
        BY <1>5, <2>2, <3>3 DEF Carries
      <4> QED BY <3>1, <3>2, <4>1
    <3>4. CASE then \notin Terms
      <4>1. Drawn' = None
        BY <1>5, <2>2, <2>5, <3>4 DEF Carries
      <4> QED BY <1>1, <2>5, <3>1, <3>2, <4>1 DEF Promise!Next, Promise!Release
    <3> QED BY <3>3, <3>4
  <2>6. CASE Limit(g) \notin Terms /\ now \notin Terms
    <3>1. Drawn = None
      BY <2>2, <2>6 DEF Carries
    <3>2. CASE then \in Terms
      <4>1. /\ g.conn = "attached_src" /\ g.supply = [out |-> then, pending |-> FALSE]
            /\ Drawn' = then
        BY <1>5, <2>2, <3>2 DEF Carries, Sourcing
      <4>2. Provided = then /\ Provided' = then
        BY <2>3, <3>2, <4>1
      <4> QED BY <3>1, <3>2, <4>1, <4>2 DEF Promise!Next, Promise!Draw
    <3>3. CASE then \notin Terms
      <4>1. Drawn' = None
        BY <1>5, <2>2, <2>6, <3>3 DEF Carries
      <4> QED BY <1>3, <3>1, <4>1
    <3> QED BY <3>2, <3>3
  <2> QED BY <2>4, <2>5, <2>6
<1> QED BY <1>4, <1>5, OneMoves

\* As long as nothing goes wrong the two ports keep what PowerContract promises:
\* the sink draws an operating point only while the supply stands at it, and the
\* source moves the supply, or stops being one, only while nothing is drawn -
\* through contracts, refusals, resets before a contract and PR_Swaps.
THEOREM PowerKeptUnlessFaulty == Spec /\ [](faults = 0) => KeepsPowerContract
<1>1. PairInOrder /\ (faults = 0 => Undisturbed) /\ faults = 0 => Undisturbed /\ Powering
  BY PowerPicture
<1>2. Init /\ Powering => Promise!Init
  <2> SUFFICES ASSUME Init, Powering PROVE Promise!Init
    OBVIOUS
  <2>1. A \in Port /\ Peer(A) \in Port
    BY Peers DEF Port
  <2>2. \A p \in Port : ports[p].conn = "detached" /\ Limit(ports[p]) = "default"
    BY DEF Init, NewPort, Limit, Role
  <2>3. "default" \notin Terms
    BY TermsAssumption
  <2>4. Carries(A, Peer(A))
    BY <2>1 DEF Powering
  <2> QED BY <2>1, <2>2, <2>3, <2>4 DEF Carries, Sourcing, Promise!Init
<1>3. /\ PairInOrder /\ PairInOrder' /\ Undisturbed /\ Undisturbed' /\ Powering /\ Powering'
      /\ (faults = 0)' /\ [Next]_vars
      => [Promise!Next]_<<Provided, Drawn>>
  BY FaultCounts, StepPromised
<1> QED
  BY <1>1, <1>2, <1>3, PairStaysInOrder, NothingWrongUndisturbed, PTL
  DEF Spec, KeepsPowerContract, Promise!Spec
=============================================================================
