---------------------------------- MODULE Pm ----------------------------------
(***************************************************************************)
(* ACPI power management, src/pm.c: the PM1 event, enable and control      *)
(* registers, the SCI, the power button that SIGTERM presses through the   *)
(* event loop of module Mevent, and the two ports that suspend the         *)
(* machine.  All handlers hold pm_lock, except that of the control         *)
(* register, which reads and writes pm1_control in two steps.              *)
(***************************************************************************)
EXTENDS Mevent

CONSTANTS SIGTERM,      \* the event of the signal
          MaxSignals,   \* bound: signals sent
          Hasty         \* the guest turns ACPI on again before the event loop
                        \* has seen it turned off, or from two CPUs at once

VARIABLES pm,           \* the registers, the SCI, the signal's disposition
          pmSuspend,    \* the suspend that was asked for first
          pmSent        \* signals sent and not yet acted on, and in all

pmVars == <<mev, pm, pmSuspend, pmSent>>

PmTypeOK ==
  /\ MevTypeOK
  /\ pm.enable \subseteq {"PWRBTN", "GBL"}
  /\ pm.status \subseteq {"PWRBTN"}
  /\ pm.sci_active \in BOOLEAN
  /\ pm.sci_en \in BOOLEAN
  /\ pm.write \in {{}, {TRUE}, {FALSE}}
  /\ pm.power_button \in BOOLEAN
  /\ pm.sigterm \in {"DFL", "IGN"} /\ pm.old_power_handler \in {"DFL", "IGN"}
  /\ pm.reset_control \in BOOLEAN
  /\ pmSuspend \in {None, "RESET", "POWEROFF"}
  /\ pmSent.all \in 0 .. MaxSignals

\* sci_init is part of the start of the machine
PmInit ==
  /\ mev = MevZero
  /\ pm = [enable |-> {}, status |-> {}, sci_active |-> FALSE, sci_en |-> FALSE,
           write |-> {}, power_button |-> FALSE, sigterm |-> "DFL",
           old_power_handler |-> "DFL", reset_control |-> FALSE]
  /\ pmSuspend = None
  /\ pmSent = [todo |-> FALSE, all |-> 0]

-----------------------------------------------------------------------------
\* mutant: the SCI is raised and never lowered
sci_update_latch(p) == [p EXCEPT !.sci_active = @ \/ p.enable \cap p.status # {}]

\* sci_assert and sci_deassert included
sci_update(p) == [p EXCEPT !.sci_active = p.enable \cap p.status # {}]

\* xh_vm_suspend: the first request wins, a later one gets EALREADY
xh_vm_suspend(how) == pmSuspend' = IF pmSuspend = None THEN how ELSE pmSuspend

reset_handler(bit2) ==
  /\ pm' = [pm EXCEPT !.reset_control = bit2]
  /\ IF bit2 THEN xh_vm_suspend("RESET") ELSE UNCHANGED pmSuspend
  /\ UNCHANGED <<mev, pmSent>>

pm1_status_handler(S) ==
  /\ pm' = sci_update([pm EXCEPT !.status = @ \ S])
  /\ UNCHANGED <<mev, pmSuspend, pmSent>>

pm1_enable_handler(S) ==
  /\ pm' = sci_update([pm EXCEPT !.enable = S \cap {"PWRBTN", "GBL"}])
  /\ UNCHANGED <<mev, pmSuspend, pmSent>>

\* in the event loop; the signals sent meanwhile are one event
power_button_handler ==
  /\ mevent_handle(SIGTERM, mev)
  /\ pm' = sci_update([pm EXCEPT !.status = @ \cup {"PWRBTN"}])
  /\ pmSent' = [pmSent EXCEPT !.todo = FALSE]
  /\ UNCHANGED pmSuspend

\* the old value is read ...
pm1_control_read ==
  /\ pm.write = {}
  /\ pm' = [pm EXCEPT !.write = {pm.sci_en}]
  /\ UNCHANGED <<mev, pmSuspend, pmSent>>

\* ... and the new one stored, SCI_EN kept as it was read
pm1_control_write(s5) ==
  /\ pm.write # {}
  /\ pm' = [pm EXCEPT !.sci_en = TRUE \in pm.write, !.write = {}]
  /\ IF s5 THEN xh_vm_suspend("POWEROFF") ELSE UNCHANGED pmSuspend
  /\ UNCHANGED <<mev, pmSent>>

\* the guest's side of the handshake
GuestMayCommand == Hasty \/ (pm.write = {} /\ mev.state[SIGTERM] # "DEL_PENDING")

\* mutant: the button is asked for again each time
acpi_enable_again ==
  /\ GuestMayCommand
  /\ mev' = mevent_add(mev, SIGTERM)
  /\ pm' = [pm EXCEPT !.sci_en = TRUE, !.power_button = mevent_added(mev, SIGTERM),
                      !.old_power_handler = pm.sigterm, !.sigterm = "IGN"]
  /\ UNCHANGED <<pmSuspend, pmSent>>

\* smi_cmd_handler, BHYVE_ACPI_ENABLE: the signal is ignored from here on, and
\* mevent_add may have returned NULL
acpi_enable ==
  /\ GuestMayCommand
  /\ mev' = IF pm.power_button THEN mev ELSE mevent_add(mev, SIGTERM)
  /\ pm' = IF pm.power_button THEN [pm EXCEPT !.sci_en = TRUE]
           ELSE [pm EXCEPT !.sci_en = TRUE, !.power_button = mevent_added(mev, SIGTERM),
                           !.old_power_handler = pm.sigterm, !.sigterm = "IGN"]
  /\ UNCHANGED <<pmSuspend, pmSent>>

\* smi_cmd_handler, BHYVE_ACPI_DISABLE
acpi_disable ==
  /\ GuestMayCommand
  /\ mev' = IF pm.power_button THEN mevent_delete(mev, SIGTERM) ELSE mev
  /\ pm' = IF pm.power_button
           THEN [pm EXCEPT !.sci_en = FALSE, !.power_button = FALSE,
                           !.sigterm = pm.old_power_handler]
           ELSE [pm EXCEPT !.sci_en = FALSE]
  /\ UNCHANGED <<pmSuspend, pmSent>>

\* the user sends the signal while it does not kill the process, and once
\* the kernel's queue has the event
Signal ==
  /\ pmSent.all < MaxSignals
  /\ pm.sigterm = "IGN" /\ mev.kq[SIGTERM] = "on"
  /\ pmSent' = [todo |-> TRUE, all |-> pmSent.all + 1]
  /\ UNCHANGED <<mev, pm, pmSuspend>>

PmNext ==
  \/ \E bit2 \in BOOLEAN : reset_handler(bit2)
  \/ \E S \in SUBSET {"PWRBTN"} : pm1_status_handler(S)
  \/ \E S \in SUBSET {"PWRBTN", "GBL", "RTC"} : pm1_enable_handler(S)
  \/ power_button_handler
  \/ pm1_control_read
  \/ \E s5 \in BOOLEAN : pm1_control_write(s5)
  \/ acpi_enable \/ acpi_disable
  \/ Signal
  \/ MevLoop /\ UNCHANGED <<pm, pmSuspend, pmSent>>
  \/ kevent_wait(IF pmSent.todo THEN {SIGTERM} ELSE {}) /\ UNCHANGED <<pm, pmSuspend, pmSent>>

PmSpec == PmInit /\ [][PmNext]_pmVars

-----------------------------------------------------------------------------
(***************************************************************************)
(* The SCI is active just while an event is enabled and pending, whichever *)
(* of the guest's accesses and the signal came last.                       *)
(***************************************************************************)
SciFollowsStatus == pm.sci_active = (pm.enable \cap pm.status # {})

(***************************************************************************)
(* While ACPI is on the signal is heard and does not kill the process;     *)
(* while it is off the signal has its old meaning.  A SIGTERM is neither   *)
(* ignored for good nor deadly to a guest that asked for it.               *)
(***************************************************************************)
ButtonArmed ==
  /\ pm.sci_en = pm.power_button
  /\ pm.power_button = (mev.state[SIGTERM] \in {"ADD", "ENABLE"})
  /\ pm.sigterm = IF pm.power_button THEN "IGN" ELSE "DFL"
  /\ QueueMatches
=============================================================================
