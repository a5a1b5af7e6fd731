------------------------- MODULE SourcePolicyEngine -------------------------
(***************************************************************************)
(* The source policy engine's table (state/SourcePolicyEngine.hpp): the    *)
(* advertisement, the transition of the supply to the terms granted, the   *)
(* source's half of a PR_Swap - as the old source down to 0 V, and as the  *)
(* new source from vSafe5V on - and the recovery from a hard reset.        *)
(***************************************************************************)
EXTENDS PolicyEngine

SourceStates ==
  SharedStates \cup
  {"send_capabilities", "disabled", "negotiate_capability", "transition_supply",
   "transition_supply_delay", "transition_supply_settle",
   "transition_supply_ps_rdy", "capability_response", "sink_tx_wait_pr",
   "sink_tx_wait_dr", "swap_supply_off", "swap_assert_rd", "swap_source_on",
   "swap_source_on_ps_rdy", "swap_source_start", "recover", "restore_default"}

\* A partner which once acknowledged the capabilities is a PD partner: its
\* silence is answered with resets, anybody else's with the next attempt.
AdvertisementRows ==
  On("startup", "attached", "send_capabilities")
  \cup On("send_capabilities", "request", "negotiate_capability")
  \cup When("send_capabilities", "timeout",
            {"pd_was_connected", "hard_resets_left"}, {}, "hard_reset")
  \cup When("send_capabilities", "timeout",
            {"pd_was_connected"}, {"hard_resets_left"}, "error_recovery")
  \cup When("send_capabilities", "timeout", {}, {"pd_was_connected"}, "discovery")
  \cup If("send_capabilities", "protocol_error", "pd_was_connected",
          "send_soft_reset", "discovery")
  \cup If("discovery", "timeout", "caps_count_allows", "send_capabilities", "disabled")
  \cup On("ready", "get_source_caps", "send_capabilities")

\* mutant of NegotiationRows: PS_RDY goes out before the supply has settled
NegotiationRowsUnsettled ==
  On("ready", "request", "negotiate_capability")
  \cup On("negotiate_capability", "request_ok", "transition_supply")
  \cup On("transition_supply", "message_sent", "transition_supply_delay")
  \cup On("transition_supply", "protocol_error", "send_soft_reset")
  \cup On("transition_supply_delay", "timeout", "transition_supply_ps_rdy")
  \cup On("transition_supply_ps_rdy", "message_sent", "ready")
  \cup On("transition_supply_ps_rdy", "protocol_error", "hard_reset")

NegotiationRows ==
  On("ready", "request", "negotiate_capability")
  \cup On("negotiate_capability", "request_ok", "transition_supply")
  \cup On("negotiate_capability", "request_bad", "capability_response")
  \cup On("transition_supply", "message_sent", "transition_supply_delay")
  \cup On("transition_supply", "protocol_error", "send_soft_reset")
  \cup On("transition_supply_delay", "timeout", "transition_supply_settle")
  \cup On("transition_supply_settle", "supply_settled", "transition_supply_ps_rdy")
  \cup On("transition_supply_ps_rdy", "message_sent", "ready")
  \cup On("transition_supply_ps_rdy", "protocol_error", "hard_reset")
  \cup If("capability_response", "message_sent", "explicit_contract_holds",
          "ready", "hard_reset")
  \cup On("capability_response", "protocol_error", "hard_reset")

\* PD3: the source signals SinkTxNG and waits before its request goes out.
CollisionRows ==
  On("ready", "begin_dr_swap", "sink_tx_wait_dr")
  \cup On("sink_tx_wait_dr", "timeout", "send_dr_swap")
  \cup On("ready", "begin_pr_swap", "sink_tx_wait_pr")
  \cup On("sink_tx_wait_pr", "timeout", "send_pr_swap")

SourcePowerSwapRows ==
  PowerSwapRows("send_pr_swap")
  \cup On("swap_transition_to_off", "timeout", "swap_supply_off")
  \cup On("swap_supply_off", "supply_settled", "swap_assert_rd")
  \cup FromAny({"swap_supply_off", "swap_assert_rd"},
               "protocol_error", "send_soft_reset")
  \cup On("startup", "attached_swap", "swap_source_on")
  \cup On("swap_source_on", "supply_settled", "swap_source_on_ps_rdy")
  \cup On("swap_source_on_ps_rdy", "message_sent", "swap_source_start")
  \cup On("swap_source_on_ps_rdy", "protocol_error", "hard_reset")
  \cup On("swap_source_start", "timeout", "send_capabilities")

RecoveryRows ==
  On("transition_to_default", "supply_settled", "recover")
  \cup On("recover", "timeout", "restore_default")
  \cup If("restore_default", "supply_settled", "still_attached",
          "send_capabilities", "startup")

SourceRows ==
  AdvertisementRows \cup NegotiationRows \cup ServiceRows
  \cup CollisionRows \cup DataSwapRows("send_dr_swap")
  \cup VconnSwapRows \cup SourcePowerSwapRows
  \cup FromAny(SourceStates, "detached", "startup")
  \cup ResetRows(SourceStates, "send_capabilities")
  \cup RecoveryRows

SourceLevel(s) ==
  IF s \in {"startup", "send_capabilities", "discovery", "disabled", "error_recovery"}
  THEN "default"
  ELSE IF s \in {"transition_supply", "transition_supply_delay",
                 "transition_supply_settle", "transition_supply_ps_rdy",
                 "swap_source_on", "swap_source_on_ps_rdy", "swap_source_start",
                 "transition_to_default", "recover", "restore_default"}
  THEN "transition"
  ELSE IF s \in {"negotiate_capability", "capability_response", "soft_reset",
                 "send_soft_reset", "hard_reset"}
  THEN "contract_or_default"
  ELSE "explicit_contract"

SourceTimed ==
  SharedTimed \cup {"send_capabilities", "discovery", "transition_supply_delay",
                    "sink_tx_wait_pr", "sink_tx_wait_dr", "swap_transition_to_off",
                    "swap_source_start", "recover"}

\* mutant of SourceSends: PS_RDY goes out before the port is off its supply
SourceSendsEarly(s, e) ==
  IF s = "send_capabilities" THEN Control("source_capabilities")
  ELSE IF s = "send_not_supported" THEN Control(Refusal(e))
  ELSE IF s = "transition_supply" THEN Control("accept")
  ELSE IF s = "capability_response" THEN Control("reject")
  ELSE IF s \in {"transition_supply_ps_rdy", "swap_supply_off"}
  THEN Control("ps_rdy")
  ELSE IF s \in DOMAIN SharedSends THEN Control(SharedSends[s])
  ELSE Idle

\* The message the source sends on entering s, or Idle.
SourceSends(s, e) ==
  IF s = "send_capabilities" THEN Control("source_capabilities")
  ELSE IF s = "send_not_supported" THEN Control(Refusal(e))
  ELSE IF s = "transition_supply" THEN Control("accept")
  ELSE IF s = "capability_response" THEN Control("reject")
  ELSE IF s \in {"transition_supply_ps_rdy", "swap_source_on_ps_rdy"}
  THEN Control("ps_rdy")
  ELSE IF s \in DOMAIN SharedSends THEN Control(SharedSends[s])
  ELSE Idle

\* The operating point a state gives the supply, the negotiated one in
\* transition_supply_settle.
SupplyOff == {"swap_supply_off", "transition_to_default"}
SupplySafe5V == {"swap_source_on", "startup", "restore_default"}
=============================================================================
