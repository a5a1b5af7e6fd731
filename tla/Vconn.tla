------------------------------- MODULE Vconn -------------------------------
(***************************************************************************)
(* The VCONN machine of a port (state/Vconn.hpp, run by layer/Vconn.hpp):  *)
(* who powers the cable, and the hand-over of that role.  It follows the   *)
(* policy engines' and the connection machine's announcements, and asks    *)
(* the live engine for the PS_RDY and for the hard reset.                  *)
(***************************************************************************)

VconnState == {"off", "source", "turn_on", "wait", "timeout"}

\* isVconnSource(): the VCONN source role, which a swap gives away
RoleHeld == {"source", "wait", "timeout"}
\* vconn_switch{true}
SwitchedOn == VconnState \ {"off"}

\* mutant of VconnNext: the old source stays on when its partner took over
VconnNextKept(v, event) ==
  CASE event = "detached" -> "off"
    [] v = "off" /\ event = "attached_source_ra" -> "source"
    [] v = "off" /\ event = "swap_agreed" -> "turn_on"
    [] v = "source" /\ event = "swap_agreed" -> "wait"
    [] v = "turn_on" /\ event = "ps_rdy_sent" -> "source"
    [] v = "wait" /\ event = "partner_ps_rdy" -> "source"
    [] v = "wait" /\ event = "timeout" -> "timeout"
    [] v = "timeout" /\ event = "swap_failed_handled" -> "source"
    [] OTHER -> v

VconnNext(v, event) ==
  CASE event = "detached" -> "off"
    [] v = "off" /\ event = "attached_source_ra" -> "source"
    [] v = "off" /\ event = "swap_agreed" -> "turn_on"
    [] v = "source" /\ event = "swap_agreed" -> "wait"
    [] v = "turn_on" /\ event = "ps_rdy_sent" -> "source"
    [] v = "wait" /\ event = "partner_ps_rdy" -> "off"
    [] v = "wait" /\ event = "timeout" -> "timeout"
    [] v = "timeout" /\ event = "swap_failed_handled" -> "source"
    [] OTHER -> v

\* What a policy engine's state announces to the machine.
VconnHears(s) ==
  CASE s = "vcs_active" -> "swap_agreed"
    [] s = "vcs_partner_on" -> "partner_ps_rdy"
    [] s = "vcs_ps_rdy_sent" -> "ps_rdy_sent"
    [] s = "hard_reset" -> "swap_failed_handled"
    [] OTHER -> "none"
=============================================================================
