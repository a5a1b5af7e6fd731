-------------------------- MODULE SinkPolicyEngine --------------------------
(***************************************************************************)
(* The sink policy engine's table (state/SinkPolicyEngine.hpp): the        *)
(* negotiation from VBUS to the contract, the retry of a Request behind    *)
(* PD3 collision avoidance, and the sink's half of a PR_Swap - as the old  *)
(* sink up to the termination flip, and as the new sink from it.           *)
(***************************************************************************)
EXTENDS PolicyEngine

SinkStates ==
  SharedStates \cup
  {"wait_for_capabilities", "wait_no_response", "evaluate_capability",
   "select_capability", "transition_sink", "request_wait", "request_gate",
   "give_source_cap", "dr_swap_gate", "pr_swap_gate", "swap_assert_rp",
   "swap_wait_source_on", "swap_source_on_seen"}

CapabilityRows ==
  On("startup", "started", "discovery")
  \cup If("discovery", "vbus_present", "no_hard_reset_yet",
          "wait_for_capabilities", "wait_no_response")
  \cup On("wait_for_capabilities", "timeout", "hard_reset")
  \cup If("wait_no_response", "timeout", "hard_resets_left",
          "hard_reset", "error_recovery")
  \cup FromAny({"wait_for_capabilities", "wait_no_response", "ready",
                "request_wait", "request_gate"},
               "source_capabilities", "evaluate_capability")
  \cup On("evaluate_capability", "capabilities_evaluated", "select_capability")

RequestRows ==
  On("select_capability", "accept", "transition_sink")
  \cup If("select_capability", "reject", "explicit_contract_holds",
          "ready", "wait_for_capabilities")
  \cup On("select_capability", "wait", "request_wait")
  \cup On("request_wait", "timeout", "request_gate")
  \cup On("request_gate", "request_retry", "select_capability")
  \cup On("select_capability", "timeout", "hard_reset")
  \cup On("select_capability", "protocol_error", "send_soft_reset")
  \cup On("transition_sink", "ps_rdy", "ready")
  \cup On("transition_sink", "timeout", "hard_reset")

\* The old sink awaits the PS_RDY, the new one sends and then awaits one.
SinkPowerSwapRows ==
  PowerSwapRows("pr_swap_gate")
  \cup On("pr_swap_gate", "send_pr_swap", "send_pr_swap")
  \cup On("swap_transition_to_off", "ps_rdy", "swap_assert_rp")
  \cup FromAny({"pr_swap_gate", "swap_assert_rp"},
               "protocol_error", "send_soft_reset")
  \cup On("discovery", "swap_wait_source_on", "swap_wait_source_on")
  \cup On("swap_wait_source_on", "ps_rdy", "swap_source_on_seen")
  \cup On("swap_wait_source_on", "protocol_error", "hard_reset")
  \cup On("swap_source_on_seen", "swap_done", "discovery")

SinkRows ==
  CapabilityRows \cup RequestRows \cup ServiceRows
  \cup Service("send_source_caps", "give_source_cap")
  \cup DataSwapRows("dr_swap_gate")
  \cup On("dr_swap_gate", "send_dr_swap", "send_dr_swap")
  \cup On("dr_swap_gate", "protocol_error", "send_soft_reset")
  \cup VconnSwapRows \cup SinkPowerSwapRows
  \cup FromAny(SinkStates, "vbus_removed", "startup")
  \cup ResetRows(SinkStates, "wait_for_capabilities")
  \cup On("transition_to_default", "default_level_reached", "startup")

\* The power level of a state: the diagram's Power column.
SinkLevel(s) ==
  IF s \in {"startup", "discovery", "wait_for_capabilities", "wait_no_response",
            "evaluate_capability", "select_capability", "error_recovery"}
  THEN "default"
  ELSE IF s \in {"transition_sink", "swap_wait_source_on", "swap_source_on_seen",
                 "transition_to_default"}
  THEN "transition"
  ELSE IF s \in {"request_wait", "request_gate", "soft_reset", "send_soft_reset",
                 "hard_reset"}
  THEN "contract_or_default"
  ELSE "explicit_contract"

SinkTimed ==
  SharedTimed \cup {"wait_for_capabilities", "wait_no_response",
                    "select_capability", "transition_sink", "request_wait"}

\* Where a request waits for SinkTxOk, and the event that retries it.
Gates == {"request_gate", "dr_swap_gate", "pr_swap_gate"}
Retry(gate) ==
  CASE gate = "request_gate" -> "request_retry"
    [] gate = "dr_swap_gate" -> "send_dr_swap"
    [] gate = "pr_swap_gate" -> "send_pr_swap"

\* The message the sink sends on entering s, or Idle.
SinkSends(s, e, pending) ==
  IF s = "select_capability" THEN Request(pending)
  ELSE IF s = "send_not_supported" THEN Control(Refusal(e))
  ELSE IF s = "swap_wait_source_on" THEN Control("ps_rdy")
  ELSE IF s = "give_source_cap" THEN Control("source_capabilities")
  ELSE IF s \in DOMAIN SharedSends THEN Control(SharedSends[s])
  ELSE Idle

\* mutant of StandbyLimited: the limit is kept while the supply changes
StandbyLimitedInSwap == {"swap_transition_to_off"}

\* The sink's load limit: iSnkStdby while the supply changes, and where the
\* defaults are restored.
StandbyLimited == {"transition_sink", "swap_transition_to_off"}
SinkRestores == {"startup", "transition_to_default"}
=============================================================================
