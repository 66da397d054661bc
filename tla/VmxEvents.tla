------------------------------ MODULE VmxEvents ------------------------------
(***************************************************************************)
(* How one vcpu turns events into VM entries and VM exits back into        *)
(* events: vmm.c (vm_inject_exception ... vm_extint_clear, vm_run,         *)
(* vm_restart_instruction) and vmx.c (vmx_inject_interrupts,               *)
(* vmx_exit_process, vmx_run).                                             *)
(*                                                                         *)
(* The vcpu's thread runs the loop; other threads set nmi_pending,         *)
(* extint_pending or an IRR bit at any moment.  The processor              *)
(* (hv_vcpu_run) is external: it delivers the event of the VM entry or     *)
(* exits in the middle of the delivery, and then exits for some reason.    *)
(*                                                                         *)
(* The rip is abstracted to "does the next entry start after the           *)
(* instruction that exited?": len is exitinfo.inst_length, next is         *)
(* vcpu.nextrip - exitinfo.rip, moved says guestrip # state.nextrip.       *)
(***************************************************************************)
EXTENDS Naturals

CONSTANTS Excs,         \* vectors instruction emulation or the guest raises
          Intercepted,  \* vectors of the exception bitmap
          MaxNmis,      \* bound: NMIs other threads ask for
          MaxInts       \* bound: interrupts other threads ask for

VARIABLES vx,      \* the vcpu: vmm.c's struct vcpu, vmx.c's state and the VMCS
          vxOwed,  \* events taken from their source, not yet delivered
          vxAsked, \* events asked for so far
          vxGuest  \* what the guest is doing

vxVars == <<vx, vxOwed, vxAsked, vxGuest>>

VmxNone == "none"
Asynchronous == {"NMI", "INT"}
Contributory == {"DE", "TS", "NP", "SS", "GP"}
PageFaults == {"PF", "VE"}
Event == Asynchronous \cup Excs \cup Intercepted \cup {"DF"}

\* Exits that a handler claims by an exit code, and whether the
\* instruction length of the exit is dropped.
ClaimedExits == {"HLT", "MTF", "PAUSE", "INOUT", "MONITOR", "MWAIT",
                 "VIRTUALIZED_EOI"}
TrapLike == {"MTF", "VIRTUALIZED_EOI", "APIC_WRITE"}
EmulatedExits == {"CR_ACCESS", "CPUID", "XSETBV", "MSR", "APIC_WRITE"}

Phases == {"inject", "enter", "guest", "exit", "handle", "stopped"}

VmxTypeOK ==
  /\ vx \in [phase : Phases,
             exc : Event \cup {VmxNone}, exitint : Event \cup {VmxNone},
             entry : Event \cup {VmxNone},
             nmi : BOOLEAN, extint : BOOLEAN, raised : BOOLEAN,
             irr : BOOLEAN, iwin : BOOLEAN, nwin : BOOLEAN,
             shadow : BOOLEAN, nmiblk : BOOLEAN, if : BOOLEAN,
             moved : BOOLEAN, len : 0..1, next : 0..1,
             code : STRING, reason : STRING, idt : Event \cup {VmxNone},
             vector : Event \cup {VmxNone}, iret : BOOLEAN,
             suspend : BOOLEAN, abort : BOOLEAN]
  /\ vxOwed \in [Asynchronous -> 0..2]
  /\ vxAsked \in [Asynchronous -> Nat]
  /\ vxGuest \in [innmi : BOOLEAN, faulted : BOOLEAN]

VmxInit ==
  /\ vx = [phase |-> "inject", exc |-> VmxNone, exitint |-> VmxNone,
           entry |-> VmxNone, nmi |-> FALSE, extint |-> FALSE,
           raised |-> FALSE, irr |-> FALSE, iwin |-> FALSE, nwin |-> FALSE,
           shadow |-> FALSE, nmiblk |-> FALSE, if |-> FALSE,
           moved |-> TRUE, len |-> 0, next |-> 0, code |-> "BOGUS",
           reason |-> VmxNone, idt |-> VmxNone, vector |-> VmxNone, iret |-> FALSE,
           suspend |-> FALSE, abort |-> FALSE]
  /\ vxOwed = [e \in Asynchronous |-> 0]
  /\ vxAsked = [e \in Asynchronous |-> 0]
  /\ vxGuest = [innmi |-> FALSE, faulted |-> FALSE]

-----------------------------------------------------------------------------
(* vmm.c: exceptions, interrupts and the events of a VM entry              *)

exception_class(e) ==
  CASE e \in PageFaults -> "pagefault"
    [] e \in Contributory -> "contributory"
    [] OTHER -> "benign"

is_double(first, second) ==
  \/ exception_class(first) = "contributory"
     /\ exception_class(second) = "contributory"
  \/ exception_class(first) = "pagefault"
     /\ exception_class(second) # "benign"

nested_fault(first, second) ==
  IF first = "DF" THEN "triple"
  ELSE IF is_double(first, second) THEN "DF" ELSE second

\* The event of the next VM entry; it takes both of its sources.
vm_entry_intinfo(v) ==
  IF v.exitint # VmxNone /\ v.exc # VmxNone
  THEN nested_fault(v.exitint, v.exc)
  ELSE IF v.exitint # VmxNone THEN v.exitint ELSE v.exc

\* Where the restarted instruction's address goes depends on whether the
\* exit is still being processed (RUNNING) or has been (FROZEN).
vm_restart_instruction(v) ==
  IF v.phase = "exit" THEN [v EXCEPT !.len = 0] ELSE [v EXCEPT !.next = 0]

\* Both are refused: a double fault is derived, and one exception is
\* pending at a time.
inject_refused(v, e) == e = "DF" \/ v.exc # VmxNone

vm_inject_exception(v, e, restart) ==
  LET w == IF restart THEN vm_restart_instruction(v) ELSE v
  IN  IF inject_refused(v, e) THEN [v EXCEPT !.abort = TRUE]
      ELSE [w EXCEPT !.shadow = FALSE, !.exc = e]

\* Other threads; a second request before the first is taken is merged.
vm_inject_nmi ==
  /\ vxAsked["NMI"] < MaxNmis
  /\ vx' = [vx EXCEPT !.nmi = TRUE]
  /\ vxAsked' = [vxAsked EXCEPT !["NMI"] = @ + 1]
  /\ UNCHANGED <<vxOwed, vxGuest>>

\* The 8259's output is raised once until the interrupt is accepted.
vm_inject_extint ==
  /\ vxAsked["INT"] < MaxInts /\ ~vx.raised
  /\ vx' = [vx EXCEPT !.raised = TRUE, !.extint = TRUE]
  /\ vxAsked' = [vxAsked EXCEPT !["INT"] = @ + 1]
  /\ UNCHANGED <<vxOwed, vxGuest>>

vlapic_set_intr_ready ==
  /\ vxAsked["INT"] < MaxInts /\ ~vx.irr
  /\ vx' = [vx EXCEPT !.irr = TRUE]
  /\ vxAsked' = [vxAsked EXCEPT !["INT"] = @ + 1]
  /\ UNCHANGED <<vxOwed, vxGuest>>

vmx_vm_suspend ==
  /\ vx.phase # "stopped" /\ ~vx.suspend
  /\ vx' = [vx EXCEPT !.suspend = TRUE]
  /\ UNCHANGED <<vxOwed, vxAsked, vxGuest>>
-----------------------------------------------------------------------------
(* vmx.c: vmx_inject_interrupts.  The flags other threads set are read     *)
(* once and only ever go from 0 to 1 behind the reader's back, so one      *)
(* step stands for the whole function.                                     *)

\* The aborts of vm_nmi_clear and vmx_inject_nmi.
vmx_inject_nmi(v) ==
  [v EXCEPT !.entry = "NMI", !.nmi = FALSE,
            !.abort = @ \/ v.nmiblk \/ v.entry # VmxNone \/ ~v.nmi]

\* An interrupt shadow does not outlive the instruction it shadows.
inject_shadow(v) == IF v.moved THEN [v EXCEPT !.shadow = FALSE] ELSE v

inject_exception(v) ==
  LET e == vm_entry_intinfo(v)
      rest == [v EXCEPT !.exitint = VmxNone, !.exc = VmxNone]
  IN  CASE e = VmxNone -> rest
        [] e = "triple" -> [rest EXCEPT !.suspend = TRUE]
        [] OTHER -> [rest EXCEPT !.entry = e, !.abort = @ \/ v.entry # VmxNone]

inject_nmi(v) ==
  IF ~v.nmi THEN v
  ELSE IF v.shadow \/ v.nmiblk \/ v.entry # VmxNone
       THEN [v EXCEPT !.nwin = TRUE] ELSE vmx_inject_nmi(v)

\* mutant: an interrupt that cannot be taken now gets no window
inject_intr_late(v) ==
  IF v.iwin \/ ~(v.extint \/ v.irr) THEN v
  ELSE IF ~v.if \/ v.shadow \/ v.entry # VmxNone THEN v
  ELSE IF v.extint
       THEN [v EXCEPT !.entry = "INT", !.extint = FALSE, !.raised = FALSE]
       ELSE [v EXCEPT !.entry = "INT", !.irr = FALSE]

\* ExtINT first; the window catches what the ExtINT preempted, or the
\* moment the guest can take what it cannot take now.
inject_intr(v) ==
  IF v.iwin \/ ~(v.extint \/ v.irr) THEN v
  ELSE IF ~v.if \/ v.shadow \/ v.entry # VmxNone THEN [v EXCEPT !.iwin = TRUE]
  ELSE IF v.extint
       THEN [v EXCEPT !.entry = "INT", !.extint = FALSE, !.raised = FALSE,
                      !.iwin = TRUE]
       ELSE [v EXCEPT !.entry = "INT", !.irr = FALSE]

\* Events the merge of a nested fault replaces are not delivered any more.
merged(v, e) == v.exitint = e /\ v.exc # VmxNone

\* A request has been taken from its source by the step from v to w.
taken(e, v, w) ==
  IF e = "NMI" THEN v.nmi /\ ~w.nmi
  ELSE (v.extint /\ ~w.extint) \/ (v.irr /\ ~w.irr)

vmx_inject_interrupts ==
  /\ vx.phase = "inject"
  /\ LET a == inject_exception(inject_shadow(vx))
         b == inject_nmi(a)
         c == inject_intr(b)
     IN /\ vx' = [c EXCEPT !.phase = "enter"]
        /\ vxOwed' = [e \in Asynchronous |->
             (vxOwed[e] + (IF taken(e, vx, c) THEN 1 ELSE 0))
             - (IF merged(vx, e) THEN 1 ELSE 0)]
  /\ UNCHANGED <<vxAsked, vxGuest>>
-----------------------------------------------------------------------------
(* vmx_run and the processor                                               *)

\* The entry may still be given up after the event has been prepared; the
\* event stays in the VMCS and state.nextrip where the last exit left it.
\* A suspended vcpu does not come back.
run_aborted ==
  /\ vx.phase = "enter"
  /\ \/ /\ vx.suspend
        /\ vx' = [vx EXCEPT !.phase = "stopped", !.code = "SUSPENDED"]
     \/ /\ ~vx.suspend
        /\ vx' = [vx EXCEPT !.phase = "handle", !.code = "RENDEZVOUS",
                            !.len = 0, !.next = IF vx.moved THEN 1 ELSE 0]
  /\ UNCHANGED <<vxOwed, vxAsked, vxGuest>>

\* The checks the processor makes on a VM entry; a failure is the
\* "vmentry error" abort.
entry_fails(v) ==
  \/ v.entry = "INT" /\ (~v.if \/ v.shadow)
  \/ v.entry = "NMI" /\ v.nmiblk

owed_after(e) ==
  [a \in Asynchronous |-> IF a = e THEN vxOwed[a] - 1 ELSE vxOwed[a]]

\* The entry's event is delivered: its handler runs.
enter_deliver ==
  /\ vx.phase = "enter" /\ ~vx.suspend
  /\ vx' = [vx EXCEPT !.phase = "guest", !.entry = VmxNone,
                      !.abort = @ \/ entry_fails(vx),
                      !.if = IF vx.entry = "INT" THEN FALSE ELSE @,
                      !.nmiblk = @ \/ vx.entry = "NMI"]
  /\ vxOwed' = owed_after(vx.entry)
  /\ vxGuest' = [vxGuest EXCEPT !.innmi = @ \/ vx.entry = "NMI",
                                !.faulted = FALSE]
  /\ UNCHANGED vxAsked

exited(v, reason) ==
  [v EXCEPT !.phase = "exit", !.reason = reason, !.code = "BOGUS",
            !.idt = VmxNone, !.vector = VmxNone, !.iret = FALSE, !.len = 1,
            !.moved = FALSE]

\* ... or its delivery exits, with the event in the IDT-vectoring field.
enter_exit ==
  /\ vx.phase = "enter" /\ ~vx.suspend /\ vx.entry # VmxNone
  /\ \E r \in {"EPT_FAULT", "TASK_SWITCH"} \cup
              (IF Intercepted = {} THEN {} ELSE {"EXCEPTION"}) :
     \E x \in IF r = "EXCEPTION" THEN Intercepted ELSE {VmxNone} :
       vx' = [exited(vx, r) EXCEPT !.idt = vx.entry, !.entry = VmxNone,
                 !.vector = x, !.abort = @ \/ entry_fails(vx),
                 !.nmiblk = @ \/ vx.entry = "NMI"]
  /\ vxGuest' = [vxGuest EXCEPT !.faulted = FALSE]
  /\ UNCHANGED <<vxOwed, vxAsked>>

\* The guest changes what it can take: STI (with its shadow), CLI, IRET.
guest_flags ==
  /\ vx.phase = "guest"
  /\ \E i \in BOOLEAN : \E s \in IF i THEN BOOLEAN ELSE {FALSE} :
       vx' = [vx EXCEPT !.if = i, !.shadow = s]
  /\ UNCHANGED <<vxOwed, vxAsked, vxGuest>>

guest_iret ==
  /\ vx.phase = "guest" /\ vxGuest.innmi
  /\ vx' = [vx EXCEPT !.nmiblk = FALSE]
  /\ vxGuest' = [vxGuest EXCEPT !.innmi = FALSE]
  /\ UNCHANGED <<vxOwed, vxAsked>>

guest_exit ==
  /\ vx.phase = "guest"
  /\ \E r \in ClaimedExits \cup EmulatedExits \cup {"EPT_FAULT", "EXT_INTR"} :
       vx' = [exited(vx, r) EXCEPT !.len = IF r \in TrapLike THEN 0 ELSE 1]
  /\ UNCHANGED <<vxOwed, vxAsked, vxGuest>>

\* An IRET that faults has already unblocked NMIs.
guest_fault ==
  /\ vx.phase = "guest"
  /\ \E i \in {vxGuest.innmi, FALSE} :
     \E r \in {"EPT_FAULT"} \cup
              (IF Intercepted = {} THEN {} ELSE {"EXCEPTION"}) :
     \E x \in IF r = "EXCEPTION" THEN Intercepted ELSE {VmxNone} :
       vx' = [exited(vx, r) EXCEPT !.vector = x, !.iret = i,
                                   !.nmiblk = @ /\ ~i]
  /\ UNCHANGED <<vxOwed, vxAsked, vxGuest>>

window_exit ==
  /\ vx.phase = "guest"
  /\ \/ /\ vx.iwin /\ vx.if /\ ~vx.shadow
        /\ vx' = exited(vx, "INTR_WINDOW")
     \/ /\ vx.nwin /\ ~vx.nmiblk
        /\ vx' = exited(vx, "NMI_WINDOW")
  /\ UNCHANGED <<vxOwed, vxAsked, vxGuest>>
-----------------------------------------------------------------------------
(* vmx_exit_process                                                        *)

\* mutant: an event whose delivery the exit interrupted is not recorded
exit_vectoring_forgets(v) == v

\* The interrupted event is injected again; an NMI that was not delivered
\* does not block the next one unless a task gate takes it.
exit_vectoring(v) ==
  IF v.idt = VmxNone THEN v
  ELSE [v EXCEPT !.exitint = v.idt,
                 !.nmiblk = @ /\ ~(v.idt = "NMI" /\ v.reason # "TASK_SWITCH"),
                 !.abort = @ \/ (v.idt = "NMI" /\ ~v.nmiblk)]

\* mutant: the blocking that IRET lifted before its fault is not restored
exit_nmi_blocking_lost(v) == v

\* vmx_restore_nmi_blocking, of the EXCEPTION and EPT_FAULT exits.
exit_nmi_blocking(v) ==
  IF v.iret /\ v.idt = VmxNone THEN [v EXCEPT !.nmiblk = TRUE] ELSE v

\* The exit's collateral is not looked at after the exit.
forget(v) == [v EXCEPT !.reason = VmxNone, !.idt = VmxNone, !.vector = VmxNone,
                       !.iret = FALSE, !.len = 0, !.next = 0]

handled_at(v) == [forget(v) EXCEPT !.phase = "inject", !.moved = v.len = 1]

unhandled(v, code) ==
  [forget(v) EXCEPT !.phase = "handle", !.code = code, !.next = v.len]

\* Emulated in place: done, a fault, an access the handler does not know.
exit_emulated ==
  /\ vx.phase = "exit" /\ vx.reason \in EmulatedExits
  /\ \/ vx' = handled_at(vx) /\ UNCHANGED vxGuest
     \/ \E e \in Excs :
          /\ vx.reason \in {"XSETBV", "MSR"}
          /\ vx' = handled_at(vm_inject_exception(vx, e, TRUE))
          /\ vxGuest' = [vxGuest EXCEPT !.faulted = TRUE]
     \/ vx' = unhandled(vx, IF vx.reason = "MSR" THEN "MSR" ELSE "VMX")
        /\ UNCHANGED vxGuest
     \/ /\ vx.reason \in {"MSR", "APIC_WRITE"}
        /\ vx' = unhandled(vx, "SPINUP_AP")
        /\ UNCHANGED vxGuest
  /\ UNCHANGED <<vxOwed, vxAsked>>

exit_claimed ==
  /\ vx.phase = "exit" /\ vx.reason \in ClaimedExits
  /\ vx' = unhandled(vx, vx.reason)
  /\ UNCHANGED <<vxOwed, vxAsked, vxGuest>>

\* A handled exit that stays on its instruction.
reenter(v) == [forget(v) EXCEPT !.phase = "inject", !.moved = FALSE]

exit_window ==
  /\ vx.phase = "exit"
  /\ \/ /\ vx.reason = "INTR_WINDOW"
        /\ vx' = reenter([vx EXCEPT !.iwin = FALSE, !.abort = @ \/ ~vx.iwin])
        /\ UNCHANGED vxOwed
     \/ /\ vx.reason = "EXT_INTR"
        /\ vx' = reenter(vx) /\ UNCHANGED vxOwed
     \/ /\ vx.reason = "NMI_WINDOW"
        /\ LET v == IF vx.nmi THEN vmx_inject_nmi(vx) ELSE vx
           IN vx' = reenter([v EXCEPT !.nwin = FALSE, !.abort = @ \/ ~vx.nwin])
        /\ vxOwed' = [vxOwed EXCEPT !["NMI"] = @ + (IF vx.nmi THEN 1 ELSE 0)]
  /\ UNCHANGED <<vxAsked, vxGuest>>

\* Reflected into the guest; the exception leaves the rip where it is.
exit_exception ==
  /\ vx.phase = "exit" /\ vx.reason = "EXCEPTION"
  /\ LET v == exit_nmi_blocking(exit_vectoring(vx))
     IN vx' = reenter(vm_inject_exception(v, v.vector, FALSE))
  /\ vxGuest' = [vxGuest EXCEPT !.faulted = TRUE]
  /\ UNCHANGED <<vxOwed, vxAsked>>

\* Memory not mapped yet, an MMIO access, or an access nobody can emulate.
exit_ept_fault ==
  /\ vx.phase = "exit" /\ vx.reason = "EPT_FAULT"
  /\ LET v == exit_nmi_blocking(exit_vectoring(vx))
     IN \/ vx' = unhandled([v EXCEPT !.len = 0], "PAGING")
        \/ \E n \in 0..1 : vx' = unhandled([v EXCEPT !.len = n], "INST_EMUL")
        \/ vx' = unhandled(v, "VMX")
  /\ UNCHANGED <<vxOwed, vxAsked, vxGuest>>

exit_task_switch ==
  /\ vx.phase = "exit" /\ vx.reason = "TASK_SWITCH"
  /\ vx' = unhandled([exit_vectoring(vx) EXCEPT !.len = 0], "TASK_SWITCH")
  /\ UNCHANGED <<vxOwed, vxAsked, vxGuest>>
-----------------------------------------------------------------------------
(* vm_run, and the handlers of xhyve.c behind it                           *)

\* The next run starts at nextrip; the interrupt shadow looks at where
\* the last one stopped.
restart(v) == [v EXCEPT !.phase = "inject", !.moved = v.next = 1,
                        !.next = 0, !.code = "BOGUS"]

\* Continue after (or at) the instruction.
vm_run_continue ==
  /\ vx.phase = "handle"
  /\ vx.code \in {"HLT", "PAGING", "INOUT", "VIRTUALIZED_EOI", "RENDEZVOUS",
                  "MTF", "PAUSE", "MSR", "SPINUP_AP"}
  /\ vx' = restart(vx)
  /\ UNCHANGED <<vxOwed, vxAsked, vxGuest>>

\* Emulated: where the exit gave no length it comes from the decoder
\* (nextrip += num_processed), after the fetch, which may fault as well.
vm_handle_inst_emul ==
  /\ vx.phase = "handle" /\ vx.code = "INST_EMUL"
  /\ \/ vx' = restart([vx EXCEPT !.next = 1]) /\ UNCHANGED vxGuest
     \/ \E e \in Excs :
          /\ \E n \in {vx.next, 1} :
               vx' = restart(vm_inject_exception([vx EXCEPT !.next = n], e, TRUE))
          /\ vxGuest' = [vxGuest EXCEPT !.faulted = TRUE]
  /\ UNCHANGED <<vxOwed, vxAsked>>

\* MONITOR and MWAIT are undefined; I/O and MSR accesses may fault too.
vm_run_fault ==
  /\ vx.phase = "handle" /\ vx.code \in {"MONITOR", "MWAIT", "INOUT", "MSR"}
  /\ \E e \in Excs : vx' = restart(vm_inject_exception(vx, e, TRUE))
  /\ vxGuest' = [vxGuest EXCEPT !.faulted = TRUE]
  /\ UNCHANGED <<vxOwed, vxAsked>>

\* The task gate delivers the event, which is not injected again; the
\* switch itself may fault, and then the fault meets the event.
vmx_task_switch_done ==
  /\ vx.phase = "handle" /\ vx.code = "TASK_SWITCH"
  /\ \/ /\ vx' = restart([vx EXCEPT !.exitint = VmxNone])
        /\ vxOwed' = owed_after(vx.exitint)
        /\ vxGuest' = [vxGuest EXCEPT !.innmi = @ \/ vx.exitint = "NMI"]
     \/ \E e \in Excs :
          /\ vx' = restart(vm_inject_exception(vx, e, TRUE))
          /\ vxGuest' = [vxGuest EXCEPT !.faulted = TRUE,
                                        !.innmi = @ \/ vx.exitint = "NMI"]
          /\ UNCHANGED vxOwed
  /\ UNCHANGED vxAsked

\* vmexit_vmx returns VMEXIT_ABORT.
vmexit_vmx ==
  /\ vx.phase = "handle" /\ vx.code = "VMX"
  /\ vx' = [vx EXCEPT !.phase = "stopped"]
  /\ UNCHANGED <<vxOwed, vxAsked, vxGuest>>

VmxNext ==
  \/ vm_inject_nmi \/ vm_inject_extint \/ vlapic_set_intr_ready \/ vmx_vm_suspend
  \/ vmx_inject_interrupts \/ run_aborted \/ enter_deliver \/ enter_exit
  \/ guest_flags \/ guest_iret \/ guest_exit \/ guest_fault \/ window_exit
  \/ exit_emulated \/ exit_claimed \/ exit_window \/ exit_exception
  \/ exit_ept_fault \/ exit_task_switch
  \/ vm_run_continue \/ vm_handle_inst_emul \/ vm_run_fault
  \/ vmx_task_switch_done \/ vmexit_vmx

VmxSpec == VmxInit /\ [][VmxNext]_vxVars
-----------------------------------------------------------------------------
(* Properties                                                              *)

Count(e) == (IF vx.entry = e THEN 1 ELSE 0)
            + (IF vx.exitint = e THEN 1 ELSE 0)
            + (IF vx.phase = "exit" /\ vx.idt = e THEN 1 ELSE 0)

\* An NMI or interrupt that has been taken from its source (vm_nmi_clear,
\* vm_extint_clear, vlapic_intr_accepted) and has not reached the guest is
\* in exactly one place: the VM-entry field, the IDT-vectoring field of the
\* exit being processed, or exitintinfo.  None is lost or injected twice by
\* exits in the middle of a delivery; only a fault of its own delivery
\* replaces it.
EventsConserved ==
  vx.phase # "stopped" => \A e \in Asynchronous : vxOwed[e] = Count(e)

\* The guest is never sent an NMI while it is still in its NMI handler,
\* although IRETs fault and deliveries are cut short by exits: the code
\* gives back the blocking the processor dropped, and drops the blocking
\* of an NMI that was not delivered.
NmisDoNotNest ==
  /\ vx.entry = "NMI" => ~vxGuest.innmi
  /\ vx.phase = "inject" /\ vx.exitint # "NMI" => vx.nmiblk = vxGuest.innmi

\* An interrupt or NMI that waits when the guest is entered has an exit
\* arranged for the moment the guest can take it (vmx_set_*_window_exiting),
\* unless it came after the pending flags were read.
WaitersHaveWindow ==
  vmx_inject_interrupts =>
    /\ vx'.nmi => vx'.nwin
    /\ vx'.extint \/ vx'.irr => vx'.iwin

\* No assertion of the injection path fails and no VM entry is refused:
\* the entry field is free when an event is written to it, an exception is
\* never injected over a pending one, and windows are closed only once.
NoAbort == ~vx.abort

\* A fault raised by emulating an instruction is taken at that
\* instruction, whichever of the two places holds the next rip
\* (exitinfo.inst_length while RUNNING, nextrip while FROZEN).
FaultsRestart == vxGuest.faulted /\ vx.phase = "inject" => ~vx.moved
=============================================================================
