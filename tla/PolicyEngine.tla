---------------------------- MODULE PolicyEngine ----------------------------
(***************************************************************************)
(* Common ground of the USB PD policy engines (state/PolicyEngine.hpp and  *)
(* layer/PolicyEngine.hpp): the messages, the guards, and the part of the  *)
(* tables which the sink's and the source's share - the service states,    *)
(* the DR_Swap and VCONN_Swap exchanges, the resets.                       *)
(*                                                                         *)
(* A table is a set of rows <<from, event, yes, no, to>>: the row is taken *)
(* when every guard of `yes' and none of `no' holds, which makes the order *)
(* of the code's rows explicit.  States carry the code's names without the *)
(* prefix pe_snk_ or pe_src_; the sub-states of the swap exchanges stand   *)
(* next to the engine's own states, and an exchange's final state without  *)
(* an entry action (pe_swap_refused, pe_vcs_hand_off_failed) is replaced   *)
(* by the state its word leads to.                                         *)
(***************************************************************************)
EXTENDS Naturals

CONSTANTS
  Terms,             \* the operating points a contract can be about
  At5V,              \* those of them at vSafe5V
  Features,          \* the swap features the port's policy answers for
  DualRole,          \* the port has the other role's capabilities to show
  Rev3,              \* the partners talk PD revision 3
  nHardResetCount,   \* 2 in the code (spec::n_hard_reset_count)
  nCapsCount,        \* 50 in the code (spec::n_caps_count)
  None               \* "no operating point": a zeroed contract

ASSUME TermsAssumption ==
  /\ At5V \subseteq Terms /\ None \notin Terms
  /\ "off" \notin Terms /\ "default" \notin Terms /\ "standby" \notin Terms
ASSUME FeaturesAssumption == Features \subseteq {"pr_swap", "dr_swap", "vconn"}
ASSUME DualRoleAssumption == DualRole \in BOOLEAN /\ Rev3 \in BOOLEAN
ASSUME CountsAssumption == nHardResetCount \in Nat /\ nCapsCount \in Nat

Role == {"sink", "source"}
DataRole == {"ufp", "dfp"}

Other(d) == IF d = "ufp" THEN "dfp" ELSE "ufp"
defaultDataRole(r) == IF r = "sink" THEN "ufp" ELSE "dfp"

(***************************************************************************)
(* Messages: the type and, for a Request, the operating point asked for.   *)
(* "other" is any message the engines do not know, "chunked" a chunked     *)
(* extended one.                                                           *)
(***************************************************************************)
ControlType ==
  {"accept", "reject", "wait", "ps_rdy", "soft_reset", "not_supported",
   "dr_swap", "pr_swap", "vconn_swap", "get_sink_cap", "get_source_cap"}

DataType ==
  {"source_capabilities", "sink_capabilities", "request",
   "bist_carrier", "bist_test_data", "chunked", "other"}

Control(type) == [type |-> type, terms |-> None]
Request(terms) == [type |-> "request", terms |-> terms]

Message == [type : (ControlType \cup DataType) \ {"request"}, terms : {None}]
           \cup [type : {"request"}, terms : Terms]

\* What the layer is busy with instead of a message: nothing, the signal.
Idle == [type |-> "idle", terms |-> None]
HardReset == [type |-> "hard_reset", terms |-> None]

(***************************************************************************)
(* Rows.                                                                   *)
(***************************************************************************)
When(from, event, yes, no, to) == {<<from, event, yes, no, to>>}

On(from, event, to) == When(from, event, {}, {}, to)

If(from, event, guard, to, otherwise) ==
  When(from, event, {guard}, {}, to) \cup When(from, event, {}, {guard}, otherwise)

FromAny(states, event, to) == UNION {On(s, event, to) : s \in states}

\* mutant of Service: the answer sent, the state is not left
ServiceForever(event, state) ==
  On("ready", event, state) \cup On(state, "protocol_error", "send_soft_reset")

\* An answer is sent from Ready; when it is lost, the soft reset follows.
Service(event, state) ==
  On("ready", event, state)
  \cup On(state, "message_sent", "ready")
  \cup On(state, "protocol_error", "send_soft_reset")

ServiceRows ==
  Service("send_sink_capabilities", "give_sink_cap")
  \cup Service("unsupported", "send_not_supported")
  \cup On("ready", "bist_carrier", "bist_carrier")
  \cup On("bist_carrier", "timeout", "ready")
  \cup On("ready", "chunked_message", "chunk_received")
  \cup On("chunk_received", "timeout", "send_not_supported")

\* PE_DRS_*; the retry after a Wait is the engine's own (`retry').
DrsStates == {"send_dr_swap", "accept_dr_swap", "dr_swap_change", "dr_swap_wait"}

\* mutant of DataSwapRows: the port which accepted the swap does not change
DataSwapRowsOneSided(retry) ==
  On("ready", "send_dr_swap", "send_dr_swap")
  \cup On("send_dr_swap", "accept", "dr_swap_change")
  \cup UNION {On("send_dr_swap", e, "ready") : e \in {"reject", "timeout"}}
  \cup If("ready", "dr_swap_received", "dr_swap_allowed",
          "accept_dr_swap", "send_not_supported")
  \cup On("accept_dr_swap", "message_sent", "ready")
  \cup On("dr_swap_change", "swap_finished", "ready")
  \cup FromAny(DrsStates, "protocol_error", "send_soft_reset")

DataSwapRows(retry) ==
  On("ready", "send_dr_swap", "send_dr_swap")
  \cup On("send_dr_swap", "accept", "dr_swap_change")
  \cup On("send_dr_swap", "reject", "ready")
  \cup On("send_dr_swap", "timeout", "ready")
  \cup On("send_dr_swap", "wait", "dr_swap_wait")
  \cup On("dr_swap_wait", "timeout", retry)
  \cup If("ready", "dr_swap_received", "dr_swap_allowed",
          "accept_dr_swap", "send_not_supported")
  \cup On("accept_dr_swap", "message_sent", "dr_swap_change")
  \cup On("dr_swap_change", "swap_finished", "ready")
  \cup FromAny(DrsStates, "protocol_error", "send_soft_reset")

\* PE_VCS_*: a held VCONN source role is always given away, taking it is
\* the policy's decision.
VcsStates ==
  {"vcs_send_swap", "vcs_accept_swap", "vcs_active", "vcs_send_ps_rdy",
   "vcs_partner_on", "vcs_ps_rdy_sent"}

VconnSwapRows ==
  On("ready", "send_vconn_swap", "vcs_send_swap")
  \cup On("vcs_send_swap", "accept", "vcs_active")
  \cup On("vcs_send_swap", "reject", "ready")
  \cup On("vcs_send_swap", "wait", "ready")
  \cup On("vcs_send_swap", "timeout", "ready")
  \cup When("ready", "vconn_swap_received",
            {"vconn_source_role_held"}, {}, "vcs_accept_swap")
  \cup When("ready", "vconn_swap_received",
            {"vconn_swap_allowed"}, {"vconn_source_role_held"}, "vcs_accept_swap")
  \cup When("ready", "vconn_swap_received",
            {}, {"vconn_source_role_held", "vconn_swap_allowed"}, "send_not_supported")
  \cup On("vcs_accept_swap", "message_sent", "vcs_active")
  \cup On("vcs_active", "ps_rdy", "vcs_partner_on")
  \cup On("vcs_active", "send_vconn_ps_rdy", "vcs_send_ps_rdy")
  \cup On("vcs_send_ps_rdy", "message_sent", "vcs_ps_rdy_sent")
  \cup On("vcs_send_ps_rdy", "protocol_error", "hard_reset")
  \cup FromAny({"vcs_partner_on", "vcs_ps_rdy_sent"}, "swap_finished", "ready")
  \cup FromAny(VcsStates \ {"vcs_send_ps_rdy"}, "protocol_error", "send_soft_reset")
  \cup FromAny(VcsStates, "hard_reset_request", "hard_reset")

\* PE_PRS_*, up to the agreement.
PowerSwapRows(retry) ==
  On("ready", "send_pr_swap", "send_pr_swap")
  \cup On("send_pr_swap", "accept", "swap_transition_to_off")
  \cup On("send_pr_swap", "reject", "ready")
  \cup On("send_pr_swap", "timeout", "ready")
  \cup On("send_pr_swap", "wait", "pr_swap_wait")
  \cup On("pr_swap_wait", "timeout", retry)
  \cup If("ready", "pr_swap_received", "pr_swap_allowed",
          "accept_pr_swap", "send_not_supported")
  \cup On("accept_pr_swap", "message_sent", "swap_transition_to_off")
  \cup FromAny({"send_pr_swap", "accept_pr_swap", "pr_swap_wait",
                "swap_transition_to_off"}, "protocol_error", "send_soft_reset")

\* The resets; `restart' is where the negotiation starts over.
ResetRows(states, restart) ==
  FromAny(states, "soft_reset_received", "soft_reset")
  \cup On("soft_reset", "message_sent", restart)
  \cup On("soft_reset", "protocol_error", "hard_reset")
  \cup On("send_soft_reset", "accept", restart)
  \cup On("send_soft_reset", "timeout", "hard_reset")
  \cup On("send_soft_reset", "protocol_error", "hard_reset")
  \cup On("hard_reset", "hard_reset_complete", "transition_to_default")
  \cup FromAny(states, "hard_reset_received", "transition_to_default")

SharedStates ==
  DrsStates \cup VcsStates \cup
  {"startup", "discovery", "ready", "give_sink_cap", "send_not_supported",
   "bist_carrier", "chunk_received", "send_pr_swap", "accept_pr_swap",
   "pr_swap_wait", "swap_transition_to_off", "soft_reset", "send_soft_reset",
   "hard_reset", "transition_to_default", "error_recovery"}

\* The shared states which a timer bounds.
SharedTimed ==
  {"chunk_received", "bist_carrier", "send_dr_swap", "dr_swap_wait",
   "vcs_send_swap", "send_pr_swap", "pr_swap_wait", "send_soft_reset"}

(***************************************************************************)
(* The messages the shared states send on entry by the event `e', the      *)
(* refusal of a swap being Reject where the feature exists.                *)
(***************************************************************************)
Refusal(e) ==
  IF \/ e = "pr_swap_received" /\ "pr_swap" \in Features
     \/ e = "dr_swap_received" /\ "dr_swap" \in Features
     \/ e = "vconn_swap_received" /\ "vconn" \in Features
  THEN "reject" ELSE "not_supported"

SharedSends ==
  [s \in {"give_sink_cap", "send_dr_swap", "accept_dr_swap", "vcs_send_swap",
          "vcs_accept_swap", "vcs_send_ps_rdy", "send_pr_swap", "accept_pr_swap",
          "soft_reset", "send_soft_reset"} |->
     CASE s = "give_sink_cap" -> "sink_capabilities"
       [] s = "send_dr_swap" -> "dr_swap"
       [] s = "vcs_send_swap" -> "vconn_swap"
       [] s = "vcs_send_ps_rdy" -> "ps_rdy"
       [] s = "send_pr_swap" -> "pr_swap"
       [] s = "send_soft_reset" -> "soft_reset"
       [] OTHER -> "accept"]
=============================================================================
