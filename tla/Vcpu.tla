-------------------------------- MODULE Vcpu --------------------------------
(***************************************************************************)
(* The virtual cpus of one virtual machine: the thread of every vcpu from  *)
(* its creation to its exit (xhyve.c), the run loop and its run states     *)
(* (vm_run, vcpu_set_state, vmx_run), HLT, suspend, rendezvous and the     *)
(* notification that ties them together (vmm.c).                           *)
(*                                                                         *)
(* pc[v] is the control point of vcpu v's thread.  A section of code that  *)
(* holds the vcpu lock, rendezvous_mtx or resetcpu_mtx is one step; a wait *)
(* on a condition variable ends the step.  Notification loops call         *)
(* vcpu_notify_event once per step, since other threads run in between.    *)
(***************************************************************************)
EXTENDS Integers, FiniteSets

CONSTANTS
    N,          \* number of vcpus the machine is started with
    Events,     \* the kinds of event devices make pending
    Exits,      \* the exits the guest causes, besides those vmx_run handles
    Reasons     \* what the machine may be suspended for

ASSUME NAssumption == N \in Nat \ {0}
ASSUME EventsAssumption == Events \subseteq {"nmi", "intr"}
ASSUME ExitsAssumption ==
    Exits \subseteq {"x_hlt", "x_ioapic", "x_user", "x_other"}
ASSUME ReasonsAssumption ==
    Reasons \subseteq {"RESET", "POWEROFF", "TRIPLEFAULT"}

Vcpus == 0 .. N - 1
BSP   == 0
None  == -1

Hows == {"RESET", "POWEROFF", "HALT", "TRIPLEFAULT"}

(***************************************************************************)
(* The control points.  "off": the thread does not exist yet.  "user": in  *)
(* vcpu_loop or a device model, outside xh_vm_run.  "x_...": VMRUN is over *)
(* with that exit code.  A label of a subroutine names its continuation.   *)
(***************************************************************************)
ExitPcs   == {"x_suspended", "x_rendezvous", "x_hlt", "x_ioapic", "x_user",
              "x_other"}
HltPcs    == {"hlt", "hlt_presleep", "hlt_wait"}
SuspPcs   == {"susp", "susp_presleep", "susp_wait", "hr_susp", "wait_susp",
              "notify_ret"}
LeavePcs  == {"del", "ap_signal", "bsp_check", "bsp_wait", "gone"}

\* Inside vm_handle_rendezvous: at the top of its loop, or waiting.
HrPcs     == {"hr_run", "hr_smp", "hr_susp", "hr_rdvret"}
WaitPcs   == {"wait_run", "wait_smp", "wait_susp", "wait_rdvret"}

HrRet(p)  == CASE p = "hr_run"    -> "run"
               [] p = "hr_smp"    -> "smp"
               [] p = "hr_susp"   -> "susp"
               [] p = "hr_rdvret" -> "rdvret"

Wait(p)   == CASE p = "hr_run"    -> "wait_run"
               [] p = "hr_smp"    -> "wait_smp"
               [] p = "hr_susp"   -> "wait_susp"
               [] p = "hr_rdvret" -> "wait_rdvret"

Wakeup(p) == CASE p = "wait_run"    -> "hr_run"
               [] p = "wait_smp"    -> "hr_smp"
               [] p = "wait_susp"   -> "hr_susp"
               [] p = "wait_rdvret" -> "hr_rdvret"
               [] OTHER             -> p

\* Inside a loop that notifies vcpus.
NotifyPcs == {"notify_user", "notify_vmchk", "notify_run", "notify_hr",
              "notify_ret"}

NotifyRet(p) == CASE p = "notify_user"  -> "user"
                  [] p = "notify_vmchk" -> "vmchk"
                  [] p = "notify_run"   -> "run"
                  [] p = "notify_hr"    -> "hr_rdvret"
                  [] p = "notify_ret"   -> "ret"

Pcs       == {"off", "user", "run", "vmrun", "vmchk", "rdvexit", "guest",
              "hlt_halted", "smp", "rdvret", "ret"}
             \union ExitPcs \union HltPcs \union SuspPcs \union LeavePcs
             \union HrPcs \union WaitPcs \union NotifyPcs

VARIABLES
    pc,             \* control point of every vcpu thread
    vstate,         \* vcpu->state
    intrdis,        \* intr_disabled of the last HLT exit
    pend,           \* events pending for a vcpu: "nmi", "intr"
    kick,           \* hv_vcpu_interrupt requested and not yet taken
    active,         \* vm->active_cpus
    suspended,      \* vm->suspended_cpus
    halted,         \* vm->halted_cpus
    suspend,        \* vm->suspend, "NONE" when 0
    func,           \* vm->rendezvous_func: the initiator, None when NULL
    req,            \* vm->rendezvous_req_cpus
    done,           \* vm->rendezvous_done_cpus
    cpus,           \* the cpus a vcpu has still to notify; before that, the
                    \* argument dest of its vm_smp_rendezvous
    dev,            \* the device thread: the vcpu it is about to notify
    cpumask,        \* cpumask of xhyve.c
    exited,         \* reason the process exited with, "NONE" while it runs
    owed            \* history: vcpus that have yet to run v's function

thread  == <<pc, vstate, intrdis, cpus>>
events  == <<pend, kick, dev>>
sets    == <<active, suspended, halted, suspend>>
rdv     == <<func, req, done, owed>>
process == <<cpumask, exited>>

vars == <<thread, events, sets, rdv, process>>

Init ==
    /\ pc        = [v \in Vcpus |-> IF v = BSP THEN "user" ELSE "off"]
    /\ vstate    = [v \in Vcpus |-> "IDLE"]
    /\ intrdis   = [v \in Vcpus |-> FALSE]
    /\ pend      = [v \in Vcpus |-> {}]
    /\ kick      = [v \in Vcpus |-> FALSE]
    /\ active    = {BSP}
    /\ suspended = {}
    /\ halted    = {}
    /\ suspend   = "NONE"
    /\ func      = None
    /\ req       = {}
    /\ done      = {}
    /\ cpus      = [v \in Vcpus |-> {}]
    /\ dev       = None
    /\ cpumask   = {BSP}
    /\ exited    = "NONE"
    /\ owed      = [v \in Vcpus |-> {}]

-----------------------------------------------------------------------------
(***************************************************************************)
(* Helpers.                                                                *)
(***************************************************************************)
Goto(v, l)     == pc' = [pc EXCEPT ![v] = l]
SetState(v, s) == vstate' = [vstate EXCEPT ![v] = s]

\* The effect of vcpu_notify_event(i) on the thread of i: wake it from
\* vcpu_sleep_cnd if it waits there.  A signal that finds no waiter is lost.
Awake(p) == CASE p = "hlt_wait"  -> "hlt"
              [] p = "susp_wait" -> "susp"
              [] OTHER           -> p

vcpu_notify_event(i) ==
    IF vstate[i] = "RUNNING"
    THEN kick' = [kick EXCEPT ![i] = TRUE] /\ pc' = pc
    ELSE /\ kick' = kick
         /\ pc' = IF vstate[i] = "SLEEPING" THEN [pc EXCEPT ![i] = Awake(@)]
                                            ELSE pc

\* Mutant of vm_suspend: no vcpu is notified.
vm_suspend_silent(v, how, loop) ==
    /\ suspend' = IF suspend = "NONE" THEN how ELSE suspend
    /\ Goto(v, NotifyRet(loop))
    /\ UNCHANGED cpus

\* vm_suspend: the first caller sets vm->suspend and notifies every active
\* vcpu, any other gets EALREADY.  Both continue at the label loop leads to.
vm_suspend(v, how, loop) ==
    IF suspend # "NONE"
    THEN Goto(v, NotifyRet(loop)) /\ UNCHANGED <<suspend, cpus>>
    ELSE /\ suspend' = how
         /\ cpus' = [cpus EXCEPT ![v] = Vcpus]
         /\ Goto(v, loop)

-----------------------------------------------------------------------------
(***************************************************************************)
(* Userland: vcpu_loop and the device models it calls.                     *)
(***************************************************************************)

\* xh_vm_run up to the label restart of vm_run.  vm_run returns EINVAL for a
\* vcpu that is not active or already suspended, and vcpu_loop then ends.
xh_vm_run(v) ==
    /\ pc[v] = "user"
    /\ vstate[v] = "IDLE"
    /\ v \in active \ suspended
    /\ SetState(v, "FROZEN")
    /\ Goto(v, "run")
    /\ UNCHANGED <<intrdis, cpus, events, sets, rdv, process>>

\* Mutant of vcpu_add: the bit of the next vcpu is set.
vcpu_add_off_by_one(v, new) ==
    /\ pc[v] = "user" /\ v = BSP /\ pc[new] = "off"
    /\ active'  = active \union {new + 1}
    /\ cpumask' = cpumask \union {new}
    /\ Goto(new, "user")
    /\ UNCHANGED <<vstate, intrdis, cpus, events, suspended, halted, suspend,
                   rdv, exited>>

\* vmexit_spinup_ap: the BSP activates a new vcpu and starts its thread.
vcpu_add(v, new) ==
    /\ pc[v] = "user"
    /\ v = BSP
    /\ pc[new] = "off"
    /\ active'  = active \union {new}
    /\ cpumask' = cpumask \union {new}
    /\ Goto(new, "user")
    /\ UNCHANGED <<vstate, intrdis, cpus, events, suspended, halted, suspend,
                   rdv, exited>>

\* A guest write to the reset port, the keyboard controller or the ACPI
\* power-off register: xh_vm_suspend from userland.
xh_vm_suspend(v, how) ==
    /\ pc[v] = "user"
    /\ vm_suspend(v, how, "notify_user")
    /\ UNCHANGED <<vstate, intrdis, events, active, suspended, halted, rdv,
                   process>>

-----------------------------------------------------------------------------
(***************************************************************************)
(* vm_run and vmx_run.                                                     *)
(***************************************************************************)
vm_run_restart(v) ==
    /\ pc[v] = "run"
    /\ SetState(v, "RUNNING")
    /\ Goto(v, "vmrun")
    /\ UNCHANGED <<intrdis, cpus, events, sets, rdv, process>>

\* vmx_inject_interrupts: some of the pending events are injected, the others
\* stay pending (blocked by the guest).  A fault while delivering a double
\* fault suspends the machine.
vmx_inject_interrupts(v) ==
    /\ pc[v] = "vmrun"
    /\ \/ /\ \E left \in SUBSET pend[v] : pend' = [pend EXCEPT ![v] = left]
          /\ Goto(v, "vmchk")
          /\ UNCHANGED <<suspend, cpus>>
       \/ /\ "TRIPLEFAULT" \in Reasons
          /\ vm_suspend(v, "TRIPLEFAULT", "notify_vmchk")
          /\ UNCHANGED pend
    /\ UNCHANGED <<vstate, intrdis, kick, dev, active, suspended, halted, rdv,
                   process>>

\* The two tests of vmx_run that precede hv_vcpu_run.
vmx_run_check(v) ==
    /\ pc[v] = "vmchk"
    /\ Goto(v, IF suspend # "NONE" THEN "x_suspended"
               ELSE IF func # None THEN "rdvexit" ELSE "guest")
    /\ UNCHANGED <<vstate, intrdis, cpus, events, sets, rdv, process>>

vm_exit_rendezvous(v) ==
    /\ pc[v] = "rdvexit"
    /\ Goto(v, "x_rendezvous")
    /\ UNCHANGED <<vstate, intrdis, cpus, events, sets, rdv, process>>

\* hv_vcpu_run returns because of hv_vcpu_interrupt: the exit is handled in
\* vmx_run, which loops.
KickExit(v) ==
    /\ pc[v] = "guest"
    /\ kick[v]
    /\ kick' = [kick EXCEPT ![v] = FALSE]
    /\ Goto(v, "vmrun")
    /\ UNCHANGED <<vstate, intrdis, cpus, pend, dev, sets, rdv, process>>

\* The guest causes an exit: one vmx_run handles itself, or one for vm_run.
\* "x_ioapic" is the write of an I/O APIC redirection entry, "x_user" an exit
\* for userland, "x_other" one that vm_run completes by itself.
GuestExit(v) ==
    /\ pc[v] = "guest"
    /\ \/ /\ \E l \in {"vmrun"} \union (Exits \ {"x_hlt"}) : Goto(v, l)
          /\ UNCHANGED intrdis
       \/ /\ "x_hlt" \in Exits
          /\ Goto(v, "x_hlt")
          /\ \E b \in BOOLEAN : intrdis' = [intrdis EXCEPT ![v] = b]
    /\ UNCHANGED <<vstate, cpus, events, sets, rdv, process>>

Handler(p) == CASE p = "x_suspended"  -> "susp"
                [] p = "x_rendezvous" -> "hr_run"
                [] p = "x_hlt"        -> "hlt"
                [] p = "x_ioapic"     -> "smp"
                [] p = "x_user"       -> "ret"
                [] p = "x_other"      -> "run"

\* After VMRUN vm_run freezes the vcpu and dispatches on the exit code.
vm_run_dispatch(v) ==
    /\ pc[v] \in ExitPcs
    /\ SetState(v, "FROZEN")
    /\ Goto(v, Handler(pc[v]))
    /\ suspended' = IF pc[v] = "x_suspended" THEN suspended \union {v}
                                             ELSE suspended
    /\ cpus' = [cpus EXCEPT ![v] = IF pc[v] = "x_ioapic" THEN active ELSE @]
    /\ UNCHANGED <<intrdis, events, active, halted, suspend, rdv, process>>

-----------------------------------------------------------------------------
(***************************************************************************)
(* HLT.  At "hlt" the thread holds the vcpu lock; it is there on entry and *)
(* after every wait, and it may find itself SLEEPING in the second case.   *)
(***************************************************************************)
\* Mutant of HltWakeup: only an NMI wakes the vcpu.
HltWakeup_nmi_only(v) ==
    func # None \/ suspend # "NONE" \/ "nmi" \in pend[v]

HltWakeup(v) ==
    \/ func # None \/ suspend # "NONE"
    \/ "nmi" \in pend[v]
    \/ ~intrdis[v] /\ "intr" \in pend[v]

\* Mutant of vm_handle_hlt: the bit in halted_cpus stays set on wakeup.
vm_handle_hlt_stays(v) ==
    /\ pc[v] = "hlt"
    /\ halted' = IF intrdis[v] THEN halted \union {v} ELSE halted
    /\ IF HltWakeup(v)
       THEN /\ intrdis' = [intrdis EXCEPT ![v] = FALSE]
            /\ SetState(v, "FROZEN") /\ Goto(v, "run")
       ELSE UNCHANGED intrdis /\ SetState(v, "SLEEPING") /\ Goto(v, "hlt_presleep")
    /\ UNCHANGED <<cpus, events, active, suspended, suspend, rdv, process>>

\* Mutant of vm_handle_hlt: the vcpu stays SLEEPING on wakeup.
vm_handle_hlt_nofreeze(v) ==
    /\ pc[v] = "hlt"
    /\ IF HltWakeup(v)
       THEN /\ intrdis' = [intrdis EXCEPT ![v] = FALSE]
            /\ Goto(v, "run") /\ UNCHANGED vstate
       ELSE UNCHANGED intrdis /\ SetState(v, "SLEEPING") /\ Goto(v, "hlt_presleep")
    /\ UNCHANGED <<cpus, events, sets, rdv, process>>

vm_handle_hlt(v) ==
    /\ pc[v] = "hlt"
    /\ LET h == IF intrdis[v] THEN halted \union {v} ELSE halted IN
       \/ /\ HltWakeup(v)
          /\ halted' = halted \ {v}
          /\ intrdis' = [intrdis EXCEPT ![v] = FALSE]
          /\ SetState(v, "FROZEN")
          /\ Goto(v, "run")
       \/ /\ ~HltWakeup(v)
          /\ intrdis[v] /\ h = active
          /\ halted' = h \ {v}
          /\ intrdis' = [intrdis EXCEPT ![v] = FALSE]
          /\ SetState(v, "FROZEN")
          /\ Goto(v, "hlt_halted")
       \/ /\ ~HltWakeup(v)
          /\ ~(intrdis[v] /\ h = active)
          /\ halted' = h
          /\ SetState(v, "SLEEPING")
          /\ Goto(v, "hlt_presleep")
          /\ UNCHANGED intrdis
    /\ UNCHANGED <<cpus, events, active, suspended, suspend, rdv, process>>

\* The vcpu lock is released before the thread waits on vcpu_sleep_cnd.
SleepBegin(v) ==
    /\ pc[v] \in {"hlt_presleep", "susp_presleep"}
    /\ Goto(v, IF pc[v] = "hlt_presleep" THEN "hlt_wait" ELSE "susp_wait")
    /\ UNCHANGED <<vstate, intrdis, cpus, events, sets, rdv, process>>

\* pthread_cond_timedwait_relative_np returns after one second, or spuriously.
SleepTimeout(v) ==
    /\ pc[v] \in {"hlt_wait", "susp_wait"}
    /\ Goto(v, Awake(pc[v]))
    /\ UNCHANGED <<vstate, intrdis, cpus, events, sets, rdv, process>>

\* Every active vcpu is halted with interrupts disabled: halt the machine.
vm_halted(v) ==
    /\ pc[v] = "hlt_halted"
    /\ vm_suspend(v, "HALT", "notify_run")
    /\ UNCHANGED <<vstate, intrdis, events, active, suspended, halted, rdv,
                   process>>

-----------------------------------------------------------------------------
(***************************************************************************)
(* Suspend.  At "susp" the thread holds the vcpu lock, at the top of the   *)
(* loop of vm_handle_suspend; its bit in suspended_cpus is set.            *)
(***************************************************************************)
\* Mutant of vm_handle_suspend: a vcpu leaves without waiting for the others.
vm_handle_suspend_alone(v) ==
    /\ pc[v] = "susp"
    /\ SetState(v, "FROZEN")
    /\ cpus' = [cpus EXCEPT ![v] = Vcpus]
    /\ Goto(v, "notify_ret")
    /\ UNCHANGED <<intrdis, events, sets, rdv, process>>

vm_handle_suspend(v) ==
    /\ pc[v] = "susp"
    /\ \/ /\ suspended = active
          /\ SetState(v, "FROZEN")
          /\ cpus' = [cpus EXCEPT ![v] = Vcpus]
          /\ Goto(v, "notify_ret")
       \/ /\ suspended # active /\ func = None
          /\ SetState(v, "SLEEPING")
          /\ Goto(v, "susp_presleep")
          /\ UNCHANGED cpus
       \/ /\ suspended # active /\ func # None
          /\ SetState(v, "FROZEN")
          /\ Goto(v, "hr_susp")
          /\ UNCHANGED cpus
    /\ UNCHANGED <<intrdis, events, sets, rdv, process>>

-----------------------------------------------------------------------------
(***************************************************************************)
(* Rendezvous.                                                             *)
(***************************************************************************)

\* Mutant of vm_smp_rendezvous: a rendezvous in progress is overwritten.
vm_smp_rendezvous_overwrite(v) ==
    /\ pc[v] = "smp"
    /\ func' = v /\ req' = cpus[v] /\ done' = {}
    /\ owed' = [owed EXCEPT ![v] = cpus[v]]
    /\ Goto(v, "notify_hr")
    /\ UNCHANGED <<vstate, intrdis, cpus, events, sets, process>>

\* Mutant of vm_smp_rendezvous: the destinations are not notified.
vm_smp_rendezvous_silent(v) ==
    /\ pc[v] = "smp"
    /\ IF func # None
       THEN Goto(v, "hr_smp") /\ UNCHANGED rdv
       ELSE /\ func' = v /\ req' = cpus[v] /\ done' = {}
            /\ owed' = [owed EXCEPT ![v] = cpus[v]]
            /\ Goto(v, "hr_rdvret")
    /\ UNCHANGED <<vstate, intrdis, cpus, events, sets, process>>

\* vm_smp_rendezvous: wait for a rendezvous in progress, else start one.
vm_smp_rendezvous(v) ==
    /\ pc[v] = "smp"
    /\ \/ /\ func # None
          /\ Goto(v, "hr_smp")
          /\ UNCHANGED rdv
       \/ /\ func = None
          /\ func' = v
          /\ req'  = cpus[v]
          /\ done' = {}
          /\ owed' = [owed EXCEPT ![v] = cpus[v]]
          /\ Goto(v, "notify_hr")
    /\ UNCHANGED <<vstate, intrdis, cpus, events, sets, process>>

\* Mutant of vm_handle_rendezvous: the first vcpu to arrive completes it.
vm_handle_rendezvous_early(v) ==
    /\ pc[v] \in HrPcs
    /\ Goto(v, HrRet(pc[v]))
    /\ func' = None
    /\ owed' = IF func = None THEN owed ELSE [owed EXCEPT ![func] = @ \ {v}]
    /\ UNCHANGED <<req, done, vstate, intrdis, cpus, events, sets, process>>

\* vm_handle_rendezvous, one iteration of its loop under rendezvous_mtx: run
\* the function if this vcpu still has to, then either complete the
\* rendezvous and wake every waiter, or wait.
vm_handle_rendezvous(v) ==
    /\ pc[v] \in HrPcs
    /\ IF func = None
       THEN Goto(v, HrRet(pc[v])) /\ UNCHANGED rdv
       ELSE LET r == req \intersect active
                d == IF v \in r THEN done \union {v} ELSE done
            IN  /\ req'  = r
                /\ done' = d
                /\ owed' = [owed EXCEPT ![func] = IF v \in r THEN @ \ {v} ELSE @]
                /\ IF r = d
                   THEN /\ func' = None
                        /\ pc' = [u \in Vcpus |->
                                    IF u = v THEN HrRet(pc[v])
                                             ELSE Wakeup(pc[u])]
                   ELSE func' = func /\ Goto(v, Wait(pc[v]))
    /\ UNCHANGED <<vstate, intrdis, cpus, events, sets, process>>

\* vioapic_write goes on after its rendezvous.
RendezvousReturn(v) ==
    /\ pc[v] = "rdvret"
    /\ Goto(v, "run")
    /\ UNCHANGED <<vstate, intrdis, cpus, events, sets, rdv, process>>

\* A loop over the vcpu indices that notifies the members of a cpu set: the
\* destinations of a rendezvous, or the suspended or active cpus of now.
NotifyTargets(v) == IF pc[v] = "notify_hr" THEN cpus[v]
                    ELSE IF pc[v] = "notify_ret" THEN suspended ELSE active

NotifyLoop(v) ==
    /\ pc[v] \in NotifyPcs
    /\ \/ /\ cpus[v] = {}
          /\ Goto(v, NotifyRet(pc[v]))
          /\ UNCHANGED <<kick, cpus>>
       \/ \E i \in cpus[v] :
             /\ \A j \in cpus[v] : i <= j
             /\ cpus' = [cpus EXCEPT ![v] = @ \ {i}]
             /\ IF i \in NotifyTargets(v) THEN vcpu_notify_event(i)
                                          ELSE UNCHANGED <<kick, pc>>
    /\ UNCHANGED <<vstate, intrdis, pend, dev, sets, rdv, process>>

-----------------------------------------------------------------------------
(***************************************************************************)
(* Return to userland and the end of the machine.                          *)
(***************************************************************************)

\* vm_run returns to userland, with exit code SUSPENDED when this vcpu is.
xh_vm_run_return(v) ==
    /\ pc[v] = "ret"
    /\ SetState(v, "IDLE")
    /\ Goto(v, IF v \in suspended THEN "del" ELSE "user")
    /\ UNCHANGED <<intrdis, cpus, events, sets, rdv, process>>

\* vmexit_suspend: leave cpumask; an AP then signals the BSP and exits, the
\* BSP waits for cpumask to become empty.
vcpu_delete(v) ==
    /\ pc[v] = "del"
    /\ cpumask' = cpumask \ {v}
    /\ Goto(v, IF v = BSP THEN "bsp_check" ELSE "ap_signal")
    /\ UNCHANGED <<vstate, intrdis, cpus, events, sets, rdv, exited>>

\* pthread_cond_signal on resetcpu_cnd; only the BSP ever waits on it.
ApExit(v) ==
    /\ pc[v] = "ap_signal"
    /\ pc' = [u \in Vcpus |->
                IF u = v THEN "gone"
                ELSE IF pc[u] = "bsp_wait" THEN "bsp_check" ELSE pc[u]]
    /\ UNCHANGED <<vstate, intrdis, cpus, events, sets, rdv, process>>

\* Mutant of BspExit: the process exits without waiting for the APs.
BspExit_alone(v) ==
    /\ pc[v] = "bsp_check"
    /\ exited' = suspend /\ Goto(v, "gone")
    /\ UNCHANGED <<vstate, intrdis, cpus, events, sets, rdv, cpumask>>

BspExit(v) ==
    /\ pc[v] = "bsp_check"
    /\ IF cpumask = {} THEN exited' = suspend /\ Goto(v, "gone")
                       ELSE exited' = exited /\ Goto(v, "bsp_wait")
    /\ UNCHANGED <<vstate, intrdis, cpus, events, sets, rdv, cpumask>>

-----------------------------------------------------------------------------
(***************************************************************************)
(* A device thread makes an event pending (vm_inject_nmi, vm_inject_extint *)
(* or lapic_set_intr) and then notifies the vcpu.                          *)
(***************************************************************************)
vm_inject_event(v, e) ==
    /\ dev = None
    /\ v \in active
    /\ pend' = [pend EXCEPT ![v] = @ \union {e}]
    /\ dev' = v
    /\ UNCHANGED <<thread, kick, sets, rdv, process>>

DevNotify ==
    /\ dev # None
    /\ vcpu_notify_event(dev)
    /\ dev' = None
    /\ UNCHANGED <<vstate, intrdis, cpus, pend, sets, rdv, process>>

-----------------------------------------------------------------------------
\* The steps a thread takes by itself once it is scheduled.
Step(v) ==
    \/ xh_vm_run(v) \/ vm_run_restart(v) \/ vmx_inject_interrupts(v)
    \/ vmx_run_check(v) \/ vm_exit_rendezvous(v) \/ KickExit(v)
    \/ vm_run_dispatch(v) \/ vm_handle_hlt(v) \/ SleepBegin(v)
    \/ SleepTimeout(v) \/ vm_halted(v) \/ vm_handle_suspend(v)
    \/ vm_smp_rendezvous(v) \/ vm_handle_rendezvous(v) \/ RendezvousReturn(v)
    \/ NotifyLoop(v) \/ xh_vm_run_return(v) \/ vcpu_delete(v) \/ ApExit(v)
    \/ BspExit(v)

\* What the guest and the devices choose to do.
Environment(v) ==
    \/ GuestExit(v)
    \/ \E new \in Vcpus : vcpu_add(v, new)
    \/ \E how \in Reasons \ {"TRIPLEFAULT"} : xh_vm_suspend(v, how)
    \/ \E e \in Events : vm_inject_event(v, e)

Terminated == exited # "NONE" /\ UNCHANGED vars

Next ==
    \/ /\ exited = "NONE"
       /\ \/ \E v \in Vcpus : Step(v) \/ Environment(v)
          \/ DevNotify
    \/ Terminated

Safety == Init /\ [][Next]_vars

\* Every thread is scheduled; a timed wait ends; hv_vcpu_interrupt makes
\* hv_vcpu_run return.  Nothing is assumed of the guest.
Fairness ==
    /\ \A v \in Vcpus : WF_vars(exited = "NONE" /\ Step(v))
    /\ WF_vars(exited = "NONE" /\ DevNotify)

Spec == Safety /\ Fairness

-----------------------------------------------------------------------------
(***************************************************************************)
(* Properties.                                                             *)
(***************************************************************************)
VStates == {"IDLE", "FROZEN", "RUNNING", "SLEEPING"}

\* Every variable keeps the type it has in the code.
TypeOK ==
    /\ pc \in [Vcpus -> Pcs]
    /\ vstate \in [Vcpus -> VStates]
    /\ intrdis \in [Vcpus -> BOOLEAN]
    /\ pend \in [Vcpus -> SUBSET Events]
    /\ kick \in [Vcpus -> BOOLEAN]
    /\ active \subseteq Vcpus /\ suspended \subseteq Vcpus
    /\ halted \subseteq Vcpus /\ cpumask \subseteq Vcpus
    /\ suspend \in Hows \union {"NONE"} /\ exited \in Hows \union {"NONE"}
    /\ func \in Vcpus \union {None}
    /\ req \subseteq Vcpus /\ done \subseteq Vcpus
    /\ cpus \in [Vcpus -> SUBSET Vcpus]
    /\ dev \in Vcpus \union {None}
    /\ owed \in [Vcpus -> SUBSET Vcpus]

\* When vm_smp_rendezvous returns to vioapic_write, every vcpu that was
\* active when it was called has run the rendezvous function, whatever other
\* rendezvous, HLTs and suspends went on meanwhile.
RendezvousSync == \A v \in Vcpus : pc[v] \in {"smp", "rdvret", "run"} => owed[v] = {}

\* No vcpu leaves vm_handle_suspend for good while another active vcpu can
\* still run guest code, be activated, or wait for it in a rendezvous.
LeaveTogether ==
    \A v \in Vcpus : pc[v] \in LeavePcs =>
        /\ suspended = active
        /\ func = None
        /\ \A u \in active : pc[u] \in SuspPcs \union LeavePcs \union {"ret"}

\* A vcpu counted in halted_cpus is inside the HLT loop with interrupts
\* disabled, so the halt detection never counts a vcpu that runs.
HaltedInHlt ==
    \A v \in halted : v \in active /\ pc[v] \in HltPcs /\ intrdis[v]

\* The process exits only when every vcpu thread is out of the machine, and
\* with the reason of the first suspend request.
CleanExit ==
    exited # "NONE" =>
        /\ exited = suspend
        /\ cpumask = {}
        /\ \A v \in active \ {BSP} : pc[v] \in {"ap_signal", "gone"}

\* vcpu_set_state_locked allows only IDLE <-> FROZEN, FROZEN <-> RUNNING and
\* FROZEN <-> SLEEPING; any other request aborts the process.
LegalTransitions ==
    [][\A v \in Vcpus : vstate[v] # vstate'[v] =>
           "FROZEN" \in {vstate[v], vstate'[v]}]_vars

\* A vcpu that waits in HLT although something it must react to has happened
\* has a thread on its way to wake it: vcpu_notify_event wakes a vcpu that
\* sleeps.
NoMissedWakeup ==
    \A v \in Vcpus : pc[v] = "hlt_wait" /\ HltWakeup(v) =>
        \/ dev = v
        \/ \E u \in Vcpus : pc[u] \in NotifyPcs /\ v \in cpus[u]

\* A suspend request ends the process.
SuspendExits == (suspend # "NONE") ~> (exited # "NONE")

\* The rendezvous of the code implements the one its callers rely on: each
\* requested vcpu runs the function once, and all of them get to it.
R == INSTANCE Rendezvous WITH
        Cpus    <- Vcpus,
        owner   <- func,
        waiting <- IF func = None THEN {} ELSE req \ done

ImplementsRendezvous == R!Spec

\* A vcpu halted with interrupts enabled that has an event pending wakes up.
PendingWakes ==
    \A v \in Vcpus : (pc[v] \in HltPcs /\ ~intrdis[v] /\ pend[v] # {})
                        ~> (pc[v] \notin HltPcs)

-----------------------------------------------------------------------------
(***************************************************************************)
(* The inductive invariant behind the safety properties, in named parts.   *)
(***************************************************************************)
\* The initiator of the rendezvous in progress is inside vm_smp_rendezvous,
\* and what it waits for is exactly what req and done leave open.
RendezvousInv ==
    /\ \A v \in Vcpus : v # func => owed[v] = {}
    /\ func # None =>
          /\ pc[func] \in {"notify_hr", "hr_rdvret", "wait_rdvret"}
          /\ owed[func] = req \ done
          /\ done \subseteq req /\ req \subseteq active /\ req # done

\* A vcpu that is about to start a rendezvous asks only active vcpus, itself
\* among them.
DestInv ==
    \A v \in Vcpus : pc[v] \in {"smp", "hr_smp", "wait_smp"} =>
        cpus[v] \subseteq active /\ v \in cpus[v]

\* A thread exists for exactly the active vcpus, and a vcpu is suspended
\* exactly from its exit for suspend on.
LifeInv ==
    /\ BSP \in active /\ suspended \subseteq active
    /\ \A v \in Vcpus : v \in active <=> pc[v] # "off"
    /\ \A v \in suspended : pc[v] \in SuspPcs \union LeavePcs \union {"ret"}
    /\ \A v \in Vcpus : pc[v] \in SuspPcs \union LeavePcs => v \in suspended
    /\ suspended # {} => suspend # "NONE"
    /\ \A v \in Vcpus : pc[v] = "x_suspended" => suspend # "NONE"

\* Once a vcpu has seen all active vcpus suspended, this stays so.
AllSuspendedInv ==
    \A v \in Vcpus :
        \/ pc[v] \in LeavePcs \union {"notify_ret"}
        \/ pc[v] = "ret" /\ v \in suspended
        => suspended = active

\* cpumask holds the vcpus whose thread has not left vmexit_suspend.
CpumaskInv ==
    /\ \A v \in active : v \notin cpumask =>
          pc[v] \in (IF v = BSP THEN {"bsp_check", "bsp_wait", "gone"}
                               ELSE {"ap_signal", "gone"})
    /\ exited # "NONE" => exited = suspend /\ cpumask = {}

\* vcpu->state as a function of where the thread is.
IdlePcs     == {"off", "user", "notify_user"} \union LeavePcs
RunningPcs  == {"vmrun", "vmchk", "notify_vmchk", "rdvexit", "guest"}
               \union ExitPcs
SleepingPcs == {"hlt_presleep", "hlt_wait", "susp_presleep", "susp_wait"}

StateInv ==
    \A v \in Vcpus :
        /\ vstate[v] = "IDLE"    <=> pc[v] \in IdlePcs
        /\ vstate[v] = "RUNNING" <=> pc[v] \in RunningPcs
        /\ pc[v] \in SleepingPcs => vstate[v] = "SLEEPING"
        /\ vstate[v] = "SLEEPING" => pc[v] \in SleepingPcs \union {"hlt", "susp"}

IInv ==
    /\ TypeOK /\ RendezvousInv /\ DestInv /\ LifeInv /\ AllSuspendedInv
    /\ HaltedInHlt /\ CpumaskInv /\ StateInv

=============================================================================
