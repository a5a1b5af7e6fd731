------------------------------- MODULE Tcpp03 -------------------------------
(***************************************************************************)
(* The driver of the TCPP03-M20 power path controller,                     *)
(* zephyr/drivers/usb_c/ppc/st_tcpp03_m20.c: one control register, written *)
(* whole from a copy under a lock, and the fault flags, handled on the     *)
(* system work queue when their line FLGn goes active.                     *)
(*                                                                         *)
(* The stack's calls come from its own work queue; PowerPath makes them.   *)
(* An access to the device is one step, and the lock is held over one      *)
(* write only: the handler runs in steps between which the stack calls.    *)
(* Its reports go to an event handler which nobody in the repository       *)
(* registers: they, and the role they are told with, are left out.         *)
(* The device is external: on an overcurrent it opens every switch, and    *)
(* holds them until the recovery word is written.                          *)
(***************************************************************************)
EXTENDS Integers

CONSTANTS
  Faults,       \* the flags that may be raised
  MaxFailures   \* bound: I2C transfers that fail

Paths == {"discharge", "source", "sink"}
Overcurrents == {"OCP_VBUS", "OCP_VCONN"}
Flags == Overcurrents \cup {"OVP_VBUS", "OVP_CC", "OTP"}

ASSUME FaultsAssumption == Faults \subseteq Flags
ASSUME FailuresAssumption == MaxFailures \in Nat

VARIABLES
  control,    \* the control register as last written, and its copy
  tripped,    \* the device holds all switches open
  flags,      \* the flag register
  work,       \* flag_work is on the system work queue
  handler,    \* where tcpp03_handle_flags is
  seen,       \* its `flags`
  failures    \* transfers that have failed

device == <<control, tripped, flags, work, failures>>
handling == <<handler, seen>>

-----------------------------------------------------------------------------
(* The register: the closed VBUS switches, the VCONN pin, the power mode.    *)

Pins == {"none", "cc1", "cc2"}
Control == [closed : SUBSET Paths, vconn : Pins, vconn_discharge : BOOLEAN,
            power : {"hibernate", "normal"}]
AllOpen(power) ==
  [closed |-> {}, vconn |-> "none", vconn_discharge |-> FALSE, power |-> power]

Switched(c, path, on) == [c EXCEPT !.closed = IF on THEN @ \cup {path} ELSE @ \ {path}]

\* The device takes a word.  The recovery word ends an overcurrent's hold.
Takes(word) ==
  /\ control' = word
  /\ LET recovers == word = AllOpen("normal") IN
     /\ tripped' = (tripped /\ ~recovers)
     /\ flags' = IF recovers THEN flags \ Overcurrents ELSE flags

\* tcpp03_write_control: a transfer that failed has written nothing
Write(word) ==
  \/ Takes(word) /\ UNCHANGED failures
  \/ /\ failures < MaxFailures /\ failures' = failures + 1
     /\ UNCHANGED <<control, tripped, flags>>

\* tcpp03_update_control of one field, for the stack
Update(word) == Write(word) /\ UNCHANGED <<work, handling>>

SetPath(path, on) == Update(Switched(control, path, on))
\* mutant of SetVconn: the mask covers the pin asked for only
SetVconnUnmasked(pin) ==
  Update([control EXCEPT !.vconn = IF @ = "none" THEN pin ELSE "both"])
SetVconn(pin) == Update([control EXCEPT !.vconn = pin])
SetVconnDischarge(on) == Update([control EXCEPT !.vconn_discharge = on])

-----------------------------------------------------------------------------
(* The device and its flag line.                                            *)

\* what can overload or overheat
Carries(flag) ==
  CASE flag = "OCP_VBUS"  -> ~tripped /\ control.closed \cap {"source", "sink"} # {}
    [] flag = "OCP_VCONN" -> ~tripped /\ control.vconn # "none"
    [] OTHER              -> TRUE

\* FLGn is active while a flag is up: the interrupt comes with the first.
RaiseFlags(new) ==
  /\ new # {} /\ new \subseteq Faults \ flags /\ \A flag \in new : Carries(flag)
  /\ flags' = flags \cup new
  /\ work' = (work \/ flags = {})
  /\ tripped' = (tripped \/ new \cap Overcurrents # {})
  /\ UNCHANGED <<control, failures, handling>>

\* Voltage and temperature return to normal by themselves.
Subsides(flag) ==
  /\ flag \in flags \ Overcurrents
  /\ flags' = flags \ {flag}
  /\ UNCHANGED <<control, tripped, work, failures, handling>>

-----------------------------------------------------------------------------
(* tcpp03_handle_flags                                                      *)

HandleFlags ==
  /\ work /\ handler = "idle"
  /\ work' = FALSE /\ handler' = "read"
  /\ seen' = {}
  /\ UNCHANGED <<control, tripped, flags, failures>>

\* nothing else is done about a flag register that could not be read
ReadFlags ==
  /\ handler = "read"
  /\ \/ handler' = "vbus" /\ seen' = flags /\ UNCHANGED failures
     \/ /\ failures < MaxFailures /\ failures' = failures + 1
        /\ handler' = "idle" /\ UNCHANGED seen
  /\ UNCHANGED <<control, tripped, flags, work>>

\* tcpp03_recover_from_overcurrent
\* mutant of Recover: the VCONN switch stays in the word
RecoverKeepsVconn == Write([control EXCEPT !.closed = {}])
Recover == Write(AllOpen(control.power))

RecoverVbus ==
  /\ handler = "vbus" /\ handler' = "vconn"
  /\ IF "OCP_VBUS" \in seen
     THEN Recover
     ELSE UNCHANGED <<control, tripped, flags, failures>>
  /\ UNCHANGED <<work, seen>>

\* the other flags bring a report or a line in the log
RecoverVconn ==
  /\ handler = "vconn" /\ handler' = "idle"
  /\ IF "OCP_VCONN" \in seen
     THEN Recover
     ELSE UNCHANGED <<control, tripped, flags, failures>>
  /\ UNCHANGED <<work, seen>>

Handler == HandleFlags \/ ReadFlags \/ RecoverVbus \/ RecoverVconn
Device ==
  \/ \E new \in SUBSET Faults : RaiseFlags(new)
  \/ \E flag \in Faults : Subsides(flag)

\* tcpp03_init has succeeded: normal mode, everything open
DriverInit ==
  /\ control = AllOpen("normal") /\ tripped = FALSE /\ flags = {} /\ work = FALSE
  /\ handler = "idle" /\ seen = {} /\ failures = 0

DriverTypeOK ==
  /\ control \in Control /\ tripped \in BOOLEAN /\ flags \subseteq Flags
  /\ work \in BOOLEAN /\ handler \in {"idle", "read", "vbus", "vconn"}
  /\ seen \subseteq Flags /\ failures \in 0..MaxFailures
=============================================================================
