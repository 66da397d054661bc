------------------------------- MODULE ApBoot -------------------------------
(***************************************************************************)
(* The life of the vcpu threads: the boot processor starts the others with *)
(* INIT and STARTUP interrupts (vlapic_icrlo_write_handler), xhyve.c adds  *)
(* a thread for each, and after a suspend request all threads leave        *)
(* through vm_handle_suspend and vmexit_suspend, the boot processor last.  *)
(***************************************************************************)
EXTENDS Naturals, FiniteSets

CONSTANT Aps     \* the application processors; the boot processor is 0

BSP == 0

ASSUME ApsAssumption == BSP \notin Aps

BootCpus == Aps \cup {BSP}

VARIABLE ab

abVars == <<ab>>

(***************************************************************************)
(* boot: boot_state; active, suspended: vm->active_cpus, suspended_cpus;   *)
(* mask: cpumask of xhyve.c; owner: holder of resetcpu_mtx; pc, arg: where *)
(* each thread is, and the vcpu it is adding.                              *)
(***************************************************************************)
BootTypeOK ==
  /\ ab.boot \in [BootCpus -> {"INIT", "SIPI", "RUNNING"}]
  /\ ab.active \cup ab.suspended \cup ab.mask \subseteq BootCpus
  /\ ab.owner \subseteq BootCpus /\ Cardinality(ab.owner) <= 1
  /\ ab.suspend \in BOOLEAN /\ ab.fault \in BOOLEAN
  /\ ab.pc \in [BootCpus -> {"none", "start", "run", "spinup", "add", "create",
                         "suspend", "exit", "deleted", "locked", "wait",
                         "woken", "gone"}]

\* vlapic_reset; run_xhyve adds the boot processor.
BootInit ==
  ab = [boot |-> [v \in BootCpus |-> IF v = BSP THEN "RUNNING" ELSE "INIT"],
        active |-> {BSP}, suspended |-> {}, mask |-> {BSP}, owner |-> {},
        suspend |-> FALSE, fault |-> FALSE, arg |-> BSP,
        pc |-> [v \in BootCpus |-> IF v = BSP THEN "start" ELSE "none"]]

BootAt(v, l) == ab.pc[v] = l
Goto(v, l) == [ab EXCEPT !.pc[v] = l]

\* vcpu_thread: the vcpu is created and reset, and vcpu_loop entered.
vcpu_thread(v) == BootAt(v, "start") /\ ab' = Goto(v, "run")

\* An INIT moves a vcpu to wait for a STARTUP interrupt, once.
icr_init(d) ==
  /\ BootAt(BSP, "run")
  /\ ab.boot[d] = "INIT"
  /\ ab' = [ab EXCEPT !.boot[d] = "SIPI"]

\* mutant: another STARTUP interrupt adds the vcpu again
icr_startup_again(d) ==
  /\ BootAt(BSP, "run")
  /\ ab.boot[d] = "SIPI"
  /\ ab' = [Goto(BSP, "spinup") EXCEPT !.arg = d]

\* A STARTUP interrupt is ignored in any other state; the exit it causes is
\* VM_EXITCODE_SPINUP_AP.
icr_startup(d) ==
  /\ BootAt(BSP, "run")
  /\ ab.boot[d] = "SIPI"
  /\ ab' = [Goto(BSP, "spinup") EXCEPT !.arg = d, !.boot[d] = "RUNNING"]

\* vmexit_spinup_ap and vcpu_add: activate the vcpu, ...
vm_activate_cpu ==
  /\ BootAt(BSP, "spinup")
  /\ ab' = [Goto(BSP, "add") EXCEPT !.active = @ \cup {ab.arg},
                                    !.fault = @ \/ ab.arg \in ab.active]

\* ... note it in cpumask, ...
cpumask_set ==
  /\ BootAt(BSP, "add")
  /\ ab' = [Goto(BSP, "create") EXCEPT !.mask = @ \cup {ab.arg}]

\* ... and create its thread.
vcpu_create_thread ==
  /\ BootAt(BSP, "create")
  /\ ab' = [ab EXCEPT !.pc[BSP] = "run", !.pc[ab.arg] = "start"]

\* vm_suspend, by a vcpu or by the power button.
vm_suspend == ~ab.suspend /\ ab' = [ab EXCEPT !.suspend = TRUE]

\* vm_run finds the VM suspended; vm_handle_suspend waits for the others.
vm_handle_suspend(v) ==
  /\ BootAt(v, "run") /\ ab.suspend
  /\ ab' = [Goto(v, "suspend") EXCEPT !.suspended = @ \cup {v}]

all_suspended(v) ==
  /\ BootAt(v, "suspend") /\ ab.suspended = ab.active
  /\ ab' = Goto(v, "exit")

\* vmexit_suspend: vcpu_delete, under no lock.
vcpu_delete(v) ==
  /\ BootAt(v, "exit")
  /\ ab' = [Goto(v, "deleted") EXCEPT !.mask = @ \ {v},
                                      !.fault = @ \/ v \notin ab.mask]

\* The others signal under the lock and exit; the boot processor waits until
\* cpumask is empty, and the process exits.
signal(v) ==
  /\ v # BSP /\ BootAt(v, "deleted") /\ ab.owner = {}
  /\ ab' = [Goto(v, "gone") EXCEPT
              !.pc[BSP] = IF @ = "wait" THEN "woken" ELSE @]

bsp_lock ==
  /\ ab.pc[BSP] \in {"deleted", "woken"} /\ ab.owner = {}
  /\ ab' = [ab EXCEPT !.owner = {BSP},
                      !.pc[BSP] = IF ab.mask = {} THEN "gone" ELSE "locked"]

bsp_wait ==
  /\ BootAt(BSP, "locked")
  /\ ab' = [Goto(BSP, "wait") EXCEPT !.owner = {}]

BootNext ==
  \/ \E d \in Aps : icr_init(d) \/ icr_startup(d)
  \/ vm_activate_cpu \/ cpumask_set \/ vcpu_create_thread \/ vm_suspend
  \/ bsp_lock \/ bsp_wait
  \/ \E v \in BootCpus : \/ vcpu_thread(v) \/ vm_handle_suspend(v)
                         \/ all_suspended(v) \/ vcpu_delete(v) \/ signal(v)

BootSpec == BootInit /\ [][BootNext]_abVars
-----------------------------------------------------------------------------
(* Properties                                                              *)

\* vcpu_add is called once for a vcpu, whatever sequence of INIT and STARTUP
\* interrupts the guest sends, and a vcpu that leaves is known.
AddedOnce == ~ab.fault

\* "If vm_activate_cpu() is delayed until newcpu's pthread starts running
\* then vmm.ko is out-of-sync with bhyve and this can create a race with
\* vm_suspend()": no vcpu leaves the suspend while another one has a thread
\* that is not suspended, or will have one.
SuspendedTogether ==
  (\E v \in BootCpus : ab.pc[v] \in {"exit", "deleted", "locked", "wait", "gone"})
    => \A v \in BootCpus : ab.pc[v] \notin {"start", "run", "spinup", "add", "create"}

\* The process exits when the last vcpu thread is done, and the boot
\* processor does not sleep past the signal that would tell it so.
ExitsLast ==
  /\ BootAt(BSP, "gone") => \A v \in Aps : ab.pc[v] \in {"none", "deleted", "gone"}
  /\ BootAt(BSP, "wait") => \E v \in Aps : ab.pc[v] \in {"suspend", "exit", "deleted"}
=============================================================================
