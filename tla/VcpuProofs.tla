----------------------------- MODULE VcpuProofs -----------------------------
(***************************************************************************)
(* Proofs about Vcpu for any number of vcpus and any choice of the other   *)
(* constants: IInv is an inductive invariant, and the safety properties of *)
(* Vcpu follow from it.                                                    *)
(***************************************************************************)
EXTENDS Vcpu, TLAPS

USE NAssumption, EventsAssumption, ExitsAssumption, ReasonsAssumption
    DEF Vcpus, BSP, None, Goto, SetState, thread, events, sets, rdv, process,
        Pcs, ExitPcs, HltPcs, SuspPcs, LeavePcs, HrPcs, WaitPcs, NotifyPcs,
        IdlePcs, RunningPcs, SleepingPcs, VStates, Hows

-----------------------------------------------------------------------------
(***************************************************************************)
(* The values of the operators on labels.                                  *)
(***************************************************************************)
\* Where vm_handle_rendezvous returns to, waits, and is woken up.
LEMMA HrFacts ==
    /\ HrRet("hr_run") = "run" /\ HrRet("hr_smp") = "smp"
    /\ HrRet("hr_susp") = "susp" /\ HrRet("hr_rdvret") = "rdvret"
    /\ Wait("hr_run") = "wait_run" /\ Wait("hr_smp") = "wait_smp"
    /\ Wait("hr_susp") = "wait_susp" /\ Wait("hr_rdvret") = "wait_rdvret"
    /\ Wakeup("wait_run") = "hr_run" /\ Wakeup("wait_smp") = "hr_smp"
    /\ Wakeup("wait_susp") = "hr_susp" /\ Wakeup("wait_rdvret") = "hr_rdvret"
    /\ \A p : p \notin WaitPcs => Wakeup(p) = p
  BY Zenon DEF HrRet, Wait, Wakeup

\* Where a loop of notifications returns to.
LEMMA NotifyRetFacts ==
    /\ NotifyRet("notify_user") = "user" /\ NotifyRet("notify_vmchk") = "vmchk"
    /\ NotifyRet("notify_run") = "run" /\ NotifyRet("notify_hr") = "hr_rdvret"
    /\ NotifyRet("notify_ret") = "ret"
  BY Zenon DEF NotifyRet

\* Where a vcpu that slept on vcpu_sleep_cnd continues.
LEMMA AwakeFacts ==
    /\ Awake("hlt_wait") = "hlt" /\ Awake("susp_wait") = "susp"
    /\ \A p : p \notin {"hlt_wait", "susp_wait"} => Awake(p) = p
  BY Zenon DEF Awake

\* The handler vm_run calls for an exit.
LEMMA HandlerFacts ==
    /\ Handler("x_suspended") = "susp" /\ Handler("x_rendezvous") = "hr_run"
    /\ Handler("x_hlt") = "hlt" /\ Handler("x_ioapic") = "smp"
    /\ Handler("x_user") = "ret" /\ Handler("x_other") = "run"
  BY Zenon DEF Handler

-----------------------------------------------------------------------------
(***************************************************************************)
(* IInv holds initially and is preserved by every action.                  *)
(***************************************************************************)
\* The invariant holds when only the thread of the BSP exists.
LEMMA InitInv == Init => IInv
  <1> SUFFICES ASSUME Init PROVE IInv
    OBVIOUS
  <1>1. TypeOK
    BY DEF Init, TypeOK
  <1> QED
    BY <1>1 DEF Init, IInv, RendezvousInv, DestInv, LifeInv, AllSuspendedInv,
                HaltedInHlt, CpumaskInv, StateInv

\* The steps that move one thread, whatever the state of the others.
LEMMA MoveInv ==
    ASSUME IInv, NEW v \in Vcpus,
           \/ xh_vm_run(v) \/ vm_run_restart(v) \/ vmx_run_check(v)
           \/ vm_exit_rendezvous(v) \/ KickExit(v) \/ SleepBegin(v)
           \/ SleepTimeout(v) \/ RendezvousReturn(v) \/ xh_vm_run_return(v)
    PROVE  IInv'
  <1> USE DEF IInv, TypeOK, RendezvousInv, DestInv, LifeInv, AllSuspendedInv,
              HaltedInHlt, CpumaskInv, StateInv
  <1>1. CASE xh_vm_run(v)
    BY <1>1, SMTT(60) DEF xh_vm_run
  <1>2. CASE vm_run_restart(v)
    BY <1>2, SMTT(60) DEF vm_run_restart
  <1>3. CASE vmx_run_check(v)
    BY <1>3, SMTT(60) DEF vmx_run_check
  <1>4. CASE vm_exit_rendezvous(v)
    BY <1>4, SMTT(60) DEF vm_exit_rendezvous
  <1>5. CASE KickExit(v)
    BY <1>5, SMTT(60) DEF KickExit
  <1>6. CASE SleepBegin(v)
    BY <1>6, SMTT(60) DEF SleepBegin
  <1>7. CASE SleepTimeout(v)
    BY <1>7, AwakeFacts, SMTT(60) DEF SleepTimeout
  <1>8. CASE RendezvousReturn(v)
    BY <1>8, SMTT(60) DEF RendezvousReturn
  <1>9. CASE xh_vm_run_return(v)
    BY <1>9, SMTT(60) DEF xh_vm_run_return
  <1> QED
    BY <1>1, <1>2, <1>3, <1>4, <1>5, <1>6, <1>7, <1>8, <1>9

\* The steps of vmexit_suspend, by which a suspended machine ends.
LEMMA LeaveInv ==
    ASSUME IInv, exited = "NONE", NEW v \in Vcpus,
           vcpu_delete(v) \/ ApExit(v) \/ BspExit(v)
    PROVE  IInv'
  <1> USE DEF IInv
  <1>1. CASE vcpu_delete(v)
    BY <1>1, SMTT(60) DEF vcpu_delete, TypeOK, RendezvousInv, DestInv, LifeInv,
                AllSuspendedInv, HaltedInHlt, CpumaskInv, StateInv
  <1>2. CASE ApExit(v)
    <2>1. /\ pc[v] = "ap_signal" /\ pc \in [Vcpus -> Pcs]
          /\ pc' = [u \in Vcpus |->
                       IF u = v THEN "gone"
                       ELSE IF pc[u] = "bsp_wait" THEN "bsp_check" ELSE pc[u]]
      BY <1>2 DEF ApExit, TypeOK
    <2>2. UNCHANGED <<vstate, intrdis, cpus, events, sets, rdv, process>>
      BY <1>2 DEF ApExit
    <2>3. TypeOK'
      BY <2>1, <2>2 DEF TypeOK
    <2>4. RendezvousInv' /\ DestInv' /\ LifeInv'
      BY <2>1, <2>2 DEF TypeOK, RendezvousInv, DestInv, LifeInv
    <2>5. AllSuspendedInv' /\ HaltedInHlt'
      BY <2>1, <2>2 DEF TypeOK, AllSuspendedInv, HaltedInHlt
    <2>6. CpumaskInv'
      BY <2>1, <2>2 DEF TypeOK, CpumaskInv
    <2>7. StateInv'
      BY <2>1, <2>2 DEF TypeOK, StateInv
    <2> QED
      BY <2>3, <2>4, <2>5, <2>6, <2>7
  <1>3. CASE BspExit(v)
    <2>1. /\ pc[v] = "bsp_check" /\ pc'[v] \in {"gone", "bsp_wait"}
          /\ pc' = [pc EXCEPT ![v] = pc'[v]]
          /\ exited' \in {"NONE", suspend} /\ (exited' # "NONE" => cpumask = {})
      BY <1>3 DEF BspExit, TypeOK
    <2>2. UNCHANGED <<vstate, intrdis, cpus, events, sets, rdv, cpumask>>
      BY <1>3 DEF BspExit
    <2>3. TypeOK'
      BY <2>1, <2>2 DEF TypeOK
    <2>4. RendezvousInv' /\ DestInv'
      BY <2>1, <2>2 DEF TypeOK, RendezvousInv, DestInv
    <2>5. LifeInv'
      BY <2>1, <2>2 DEF TypeOK, LifeInv
    <2>6. AllSuspendedInv' /\ HaltedInHlt'
      BY <2>1, <2>2 DEF TypeOK, AllSuspendedInv, HaltedInHlt
    <2>7. CpumaskInv'
      BY <2>1, <2>2 DEF TypeOK, CpumaskInv
    <2>8. StateInv'
      BY <2>1, <2>2 DEF TypeOK, StateInv
    <2> QED
      BY <2>3, <2>4, <2>5, <2>6, <2>7, <2>8
  <1> QED
    BY <1>1, <1>2, <1>3

\* vm_suspend: suspend goes from unset to set, and the caller begins to
\* notify, or finds it set and goes on.
LEMMA SuspendRequestInv ==
    ASSUME IInv, NEW v \in Vcpus,
           NEW how \in Hows, NEW loop \in {"notify_user", "notify_vmchk", "notify_run"},
           vm_suspend(v, how, loop),
           \/ pc[v] = "user" /\ loop = "notify_user"
           \/ pc[v] = "vmrun" /\ loop = "notify_vmchk"
           \/ pc[v] = "hlt_halted" /\ loop = "notify_run",
           UNCHANGED <<vstate, intrdis, pend, kick, dev, active, suspended,
                       halted, rdv, process>>,
           exited = "NONE"
    PROVE  IInv'
  <1> USE DEF IInv
  <1>1. PICK l \in {loop, NotifyRet(loop)} :
            /\ pc' = [pc EXCEPT ![v] = l]
            /\ l \in {"notify_user", "user", "notify_vmchk", "vmchk", "notify_run", "run"}
    BY NotifyRetFacts DEF vm_suspend
  <1>2. cpus' \in [Vcpus -> SUBSET Vcpus] /\ suspend' \in Hows
    BY DEF vm_suspend, TypeOK
  <1>3. \A u \in Vcpus \ {v} : cpus'[u] = cpus[u]
    BY DEF vm_suspend, TypeOK
  <1>4. TypeOK'
    BY <1>1, <1>2 DEF TypeOK
  <1>5. RendezvousInv' /\ DestInv' /\ HaltedInHlt'
    BY <1>1, <1>3 DEF TypeOK, RendezvousInv, DestInv, HaltedInHlt
  <1>6. LifeInv' /\ AllSuspendedInv'
    BY <1>1, <1>2 DEF TypeOK, LifeInv, AllSuspendedInv
  <1>7. CpumaskInv'
    BY <1>1 DEF TypeOK, CpumaskInv, LifeInv
  <1>8. StateInv'
    BY NotifyRetFacts, <1>1 DEF TypeOK, StateInv
  <1> QED
    BY <1>4, <1>5, <1>6, <1>7, <1>8

\* Event injection, and the request for suspend by a triple fault.
LEMMA InjectInv ==
    ASSUME IInv, exited = "NONE", NEW v \in Vcpus, vmx_inject_interrupts(v)
    PROVE  IInv'
  <1>1. CASE vm_suspend(v, "TRIPLEFAULT", "notify_vmchk") /\ UNCHANGED pend
    BY <1>1, SuspendRequestInv DEF vmx_inject_interrupts
  <1>2. CASE /\ \E left \in SUBSET pend[v] : pend' = [pend EXCEPT ![v] = left]
             /\ Goto(v, "vmchk") /\ UNCHANGED <<suspend, cpus>>
    <2> USE <1>2 DEF IInv, vmx_inject_interrupts
    <2>1. pend' \in [Vcpus -> SUBSET Events]
      BY DEF TypeOK
    <2>2. TypeOK'
      BY <2>1 DEF TypeOK
    <2> QED
      BY <2>2, SMTT(60) DEF TypeOK, RendezvousInv, DestInv, LifeInv, AllSuspendedInv,
                  HaltedInHlt, CpumaskInv, StateInv
  <1> QED
    BY <1>1, <1>2 DEF vmx_inject_interrupts

\* A guest exit.
LEMMA GuestExitInv ==
    ASSUME IInv, NEW v \in Vcpus, GuestExit(v)
    PROVE  IInv'
  <1>1. PICK l \in {"vmrun"} \union ExitPcs : Goto(v, l) /\ l # "x_suspended"
    BY DEF GuestExit
  <1>2. intrdis' \in [Vcpus -> BOOLEAN]
    BY Zenon DEF GuestExit, IInv, TypeOK
  <1>3. TypeOK'
    BY <1>1, <1>2 DEF GuestExit, IInv, TypeOK
  <1>4. \A u \in Vcpus \ {v} : intrdis'[u] = intrdis[u]
    BY DEF GuestExit, IInv, TypeOK
  <1>5. HaltedInHlt'
    BY <1>1, <1>4 DEF GuestExit, IInv, TypeOK, HaltedInHlt
  <1>6. pc[v] = "guest" /\ UNCHANGED <<vstate, cpus, events, sets, rdv, process>>
    BY DEF GuestExit
  <1> QED
    BY <1>1, <1>3, <1>5, <1>6, SMTT(60) DEF IInv, TypeOK, RendezvousInv, DestInv, LifeInv,
       AllSuspendedInv, CpumaskInv, StateInv

\* The dispatch on the exit code, which sets the bit in suspended_cpus.
LEMMA DispatchInv ==
    ASSUME IInv, NEW v \in Vcpus, vm_run_dispatch(v)
    PROVE  IInv'
  <1> USE HandlerFacts DEF IInv, vm_run_dispatch
  <1>1. TypeOK'
    BY DEF TypeOK
  <1>2. RendezvousInv'
    BY DEF TypeOK, RendezvousInv
  <1>3. DestInv'
    BY DEF TypeOK, DestInv, LifeInv
  <1>4. LifeInv'
    BY DEF TypeOK, LifeInv
  <1>5. AllSuspendedInv'
    BY DEF TypeOK, LifeInv, AllSuspendedInv
  <1>6. HaltedInHlt' /\ CpumaskInv' /\ StateInv'
    BY DEF TypeOK, HaltedInHlt, CpumaskInv, StateInv
  <1> QED
    BY <1>1, <1>2, <1>3, <1>4, <1>5, <1>6

\* HLT, and the decision that the machine is halted.
LEMMA HltInv ==
    ASSUME IInv, exited = "NONE", NEW v \in Vcpus,
           vm_handle_hlt(v) \/ vm_halted(v)
    PROVE  IInv'
  <1>1. CASE vm_halted(v)
    BY <1>1, SuspendRequestInv DEF vm_halted
  <1>2. CASE vm_handle_hlt(v)
    <2> USE <1>2 DEF IInv, vm_handle_hlt
    <2>1. intrdis' \in [Vcpus -> BOOLEAN]
      BY Zenon DEF TypeOK
    <2>2. TypeOK'
      <3>1. halted' \subseteq halted \union {v}
        BY Zenon
      <3>2. \E l \in {"run", "hlt_halted", "hlt_presleep"} : pc' = [pc EXCEPT ![v] = l]
        BY Zenon
      <3>3. \E s \in VStates : vstate' = [vstate EXCEPT ![v] = s]
        BY Zenon
      <3> QED
        BY <2>1, <3>1, <3>2, <3>3 DEF TypeOK
    <2>3. RendezvousInv' /\ DestInv' /\ LifeInv' /\ AllSuspendedInv' /\ CpumaskInv'
      BY DEF TypeOK, RendezvousInv, DestInv, LifeInv, AllSuspendedInv, CpumaskInv
    <2>4. /\ pc'[v] = "hlt_presleep" \/ v \notin halted'
          /\ halted' \subseteq halted \union {v}
          /\ v \in halted' => intrdis'[v]
          /\ \A u \in Vcpus \ {v} : pc'[u] = pc[u] /\ intrdis'[u] = intrdis[u]
      BY DEF TypeOK, HaltedInHlt
    <2>5. HaltedInHlt'
      BY <2>4 DEF TypeOK, LifeInv, HaltedInHlt
    <2>6. StateInv'
      BY DEF TypeOK, StateInv
    <2> QED
      BY <2>2, <2>3, <2>5, <2>6
  <1> QED
    BY <1>1, <1>2

\* The loop of vm_handle_suspend.
LEMMA HandleSuspendInv ==
    ASSUME IInv, NEW v \in Vcpus, vm_handle_suspend(v)
    PROVE  IInv'
  <1> USE DEF IInv, vm_handle_suspend
  <1>1. \E l \in {"notify_ret", "susp_presleep", "hr_susp"}, s \in VStates :
            pc' = [pc EXCEPT ![v] = l] /\ vstate' = [vstate EXCEPT ![v] = s]
    BY Zenon
  <1>2. TypeOK'
    BY <1>1 DEF TypeOK
  <1>3. RendezvousInv' /\ DestInv' /\ LifeInv'
    BY DEF TypeOK, RendezvousInv, DestInv, LifeInv
  <1>4. AllSuspendedInv'
    BY DEF TypeOK, LifeInv, AllSuspendedInv
  <1>5. HaltedInHlt'
    BY DEF TypeOK, HaltedInHlt
  <1>6. CpumaskInv'
    BY DEF TypeOK, LifeInv, CpumaskInv
  <1>7. StateInv'
    BY DEF TypeOK, StateInv
  <1> QED
    BY <1>2, <1>3, <1>4, <1>5, <1>6, <1>7

\* The start of a rendezvous: the caller is the initiator, its request is a
\* non-empty set of active vcpus, and nobody is done.
LEMMA SmpInv ==
    ASSUME IInv, NEW v \in Vcpus, vm_smp_rendezvous(v)
    PROVE  IInv'
  <1> USE DEF IInv, vm_smp_rendezvous
  <1>1. cpus[v] \subseteq active /\ cpus[v] \subseteq Vcpus /\ v \in cpus[v]
    BY DEF TypeOK, DestInv
  <1>2. owed' \in [Vcpus -> SUBSET Vcpus]
    BY <1>1 DEF TypeOK
  <1>3. pc[v] = "smp" /\ \E l \in {"hr_smp", "notify_hr"} : pc' = [pc EXCEPT ![v] = l]
    BY Zenon
  <1>4. TypeOK'
    <2>1. func' \in Vcpus \union {None} /\ req' \subseteq Vcpus /\ done' \subseteq Vcpus
      BY <1>1 DEF TypeOK
    <2>2. UNCHANGED <<vstate, intrdis, cpus, events, sets, process>>
      OBVIOUS
    <2> HIDE DEF vm_smp_rendezvous
    <2> QED
      BY <1>2, <1>3, <2>1, <2>2 DEF TypeOK
  <1>5. RendezvousInv'
    <2>1. CASE func # None
      <3>1. pc[func] # "smp" /\ func \in Vcpus
        BY <2>1 DEF TypeOK, RendezvousInv
      <3>2. UNCHANGED <<func, req, done, owed, active>> /\ pc'[func] = pc[func]
        BY <2>1, <3>1 DEF TypeOK
      <3> HIDE DEF vm_smp_rendezvous
      <3> QED
        BY <3>2 DEF RendezvousInv
    <2>2. CASE func = None
      <3>1. owed'[v] = cpus[v] /\ \A u \in Vcpus : u # v => owed'[u] = {}
        BY <2>2 DEF TypeOK, RendezvousInv
      <3>2. func' = v /\ pc'[v] = "notify_hr" /\ req' = cpus[v] /\ done' = {}
        BY <2>2 DEF TypeOK
      <3> QED
        BY <1>1, <3>1, <3>2 DEF RendezvousInv
    <2> QED
      BY <2>1, <2>2
  <1>6. UNCHANGED <<vstate, intrdis, cpus, sets, process>>
    OBVIOUS
  <1> HIDE DEF vm_smp_rendezvous
  <1>7. DestInv'
    BY <1>3, <1>6 DEF TypeOK, DestInv
  <1>8. LifeInv'
    BY <1>3, <1>6 DEF TypeOK, LifeInv
  <1>9. AllSuspendedInv'
    BY <1>3, <1>6 DEF TypeOK, AllSuspendedInv
  <1>10. HaltedInHlt'
    BY <1>3, <1>6 DEF TypeOK, HaltedInHlt
  <1>11. CpumaskInv'
    BY <1>3, <1>6 DEF TypeOK, CpumaskInv
  <1>12. StateInv'
    BY <1>3, <1>6 DEF TypeOK, StateInv
  <1> QED
    BY <1>4, <1>5, <1>7, <1>8, <1>9, <1>10, <1>11, <1>12

\* vm_handle_rendezvous moves threads only between its own labels and to the
\* continuation of the caller.
LEMMA HrMoves ==
    ASSUME TypeOK, NEW v \in Vcpus, vm_handle_rendezvous(v)
    PROVE  /\ pc' \in [Vcpus -> Pcs]
           /\ pc'[v] \in {HrRet(pc[v]), Wait(pc[v])}
           /\ \A u \in Vcpus \ {v} : pc'[u] \in {pc[u], Wakeup(pc[u])}
           /\ func # None /\ func' # None =>
                 /\ \A u \in Vcpus \ {v} : pc'[u] = pc[u]
                 /\ pc'[v] = Wait(pc[v])
  <1>1. pc \in [Vcpus -> Pcs] /\ pc[v] \in HrPcs
    BY DEF TypeOK, vm_handle_rendezvous
  <1>2. HrRet(pc[v]) \in Pcs /\ Wait(pc[v]) \in Pcs
    BY <1>1, HrFacts
  <1>3. \A u \in Vcpus : Wakeup(pc[u]) \in Pcs
    <2> TAKE u \in Vcpus
    <2>1. CASE pc[u] \in WaitPcs
      BY <2>1, HrFacts
    <2>2. CASE pc[u] \notin WaitPcs
      BY <1>1, <2>2, HrFacts
    <2> QED
      BY <2>1, <2>2
  <1>4. \/ pc' = [pc EXCEPT ![v] = HrRet(pc[v])] /\ (func = None)
        \/ pc' = [pc EXCEPT ![v] = Wait(pc[v])]
        \/ /\ func' = None
           /\ pc' = [u \in Vcpus |-> IF u = v THEN HrRet(pc[v]) ELSE Wakeup(pc[u])]
    BY Zenon DEF vm_handle_rendezvous, Goto
  <1> HIDE DEF Pcs
  <1> QED
    BY <1>1, <1>2, <1>3, <1>4

\* One iteration of vm_handle_rendezvous.
LEMMA HandleRendezvousInv ==
    ASSUME IInv, NEW v \in Vcpus, vm_handle_rendezvous(v)
    PROVE  IInv'
  <1> USE DEF IInv
  <1>1. pc[v] \in HrPcs /\ UNCHANGED <<vstate, intrdis, cpus, events, sets, process>>
    BY DEF vm_handle_rendezvous
  <1>2. /\ pc' \in [Vcpus -> Pcs]
        /\ pc'[v] \in {HrRet(pc[v]), Wait(pc[v])}
        /\ \A u \in Vcpus \ {v} : pc'[u] \in {pc[u], Wakeup(pc[u])}
        /\ func # None /\ func' # None =>
                 /\ \A u \in Vcpus \ {v} : pc'[u] = pc[u]
                 /\ pc'[v] = Wait(pc[v])
    BY HrMoves
  <1>3. TypeOK' /\ RendezvousInv'
    <2>1. CASE func = None
      <3>1. UNCHANGED rdv
        BY <2>1 DEF vm_handle_rendezvous
      <3> QED
        BY <1>1, <1>2, <2>1, <3>1 DEF TypeOK, RendezvousInv
    <2>2. CASE func # None
      <3> DEFINE d == IF v \in req THEN done \union {v} ELSE done
                 o == IF v \in req THEN owed[func] \ {v} ELSE owed[func]
      <3>1. /\ func \in Vcpus /\ req \intersect active = req
            /\ done \subseteq req /\ req \subseteq active
            /\ pc[func] \in {"notify_hr", "hr_rdvret", "wait_rdvret"}
            /\ owed[func] = req \ done
        BY <2>2 DEF TypeOK, RendezvousInv
      <3>2. /\ req' = req /\ done' = d /\ func' \in {func, None}
            /\ func' = None <=> req = d
            /\ owed' = [owed EXCEPT ![func] = o]
        BY <2>2, <3>1 DEF vm_handle_rendezvous, TypeOK
      <3>3. TypeOK'
        BY <1>1, <1>2, <3>1, <3>2 DEF TypeOK
      <3>4. owed'[func] = req' \ done' /\ \A u \in Vcpus \ {func} : owed'[u] = owed[u]
        BY <3>1, <3>2 DEF TypeOK
      <3>5. RendezvousInv'
        BY <1>1, <1>2, <2>2, <3>1, <3>2, <3>4, HrFacts DEF TypeOK, RendezvousInv
      <3> QED
        BY <3>3, <3>5
    <2> QED
      BY <2>1, <2>2
  <1>4. \A u \in Vcpus :
           \/ pc'[u] = pc[u]
           \/ pc[u] \in {"hr_run", "wait_run"} /\ pc'[u] \in {"hr_run", "wait_run", "run"}
           \/ pc[u] \in {"hr_smp", "wait_smp"} /\ pc'[u] \in {"hr_smp", "wait_smp", "smp"}
           \/ pc[u] \in {"hr_susp", "wait_susp"} /\ pc'[u] \in {"hr_susp", "wait_susp", "susp"}
           \/ /\ pc[u] \in {"hr_rdvret", "wait_rdvret"}
              /\ pc'[u] \in {"hr_rdvret", "wait_rdvret", "rdvret"}
    <2> TAKE u \in Vcpus
    <2>1. CASE u = v
      BY <1>1, <1>2, <2>1, HrFacts
    <2>2. CASE u # v /\ pc[u] \in WaitPcs
      BY <1>2, <2>2, HrFacts
    <2>3. CASE u # v /\ pc[u] \notin WaitPcs
      BY <1>2, <2>3, HrFacts
    <2> QED
      BY <2>1, <2>2, <2>3
  <1>5. DestInv'
    <2>1. \A u \in Vcpus : pc'[u] \in {"smp", "hr_smp", "wait_smp"} <=>
                            pc[u] \in {"smp", "hr_smp", "wait_smp"}
      BY <1>4
    <2> QED
      BY <1>1, <2>1 DEF DestInv
  <1>6. LifeInv'
    <2>1. \A u \in Vcpus : pc'[u] # "off" <=> pc[u] # "off"
      BY <1>4
    <2>2. \A u \in Vcpus : pc'[u] \in SuspPcs <=> pc[u] \in SuspPcs
      BY <1>4
    <2>3. \A u \in Vcpus : \A p \in LeavePcs \union {"ret", "x_suspended"} :
              pc'[u] = p <=> pc[u] = p
      BY <1>4
    <2> HIDE DEF SuspPcs
    <2> QED
      BY <1>1, <2>1, <2>2, <2>3 DEF LifeInv, TypeOK
  <1>7. AllSuspendedInv'
    <2>1. \A u \in Vcpus : \A p \in LeavePcs \union {"notify_ret", "ret"} :
              pc'[u] = p <=> pc[u] = p
      BY <1>4
    <2> QED
      BY <1>1, <2>1 DEF AllSuspendedInv
  <1>8. HaltedInHlt'
    BY <1>1, <1>4, SMTT(60) DEF TypeOK, HaltedInHlt
  <1>9. CpumaskInv'
    BY <1>1, <1>4, SMTT(60) DEF TypeOK, CpumaskInv
  <1>10. StateInv'
    <2>1. \A u \in Vcpus : pc'[u] \in IdlePcs <=> pc[u] \in IdlePcs
      BY <1>4
    <2>2. \A u \in Vcpus : pc'[u] \in RunningPcs <=> pc[u] \in RunningPcs
      BY <1>4
    <2>3. \A u \in Vcpus : pc'[u] \in SleepingPcs <=> pc[u] \in SleepingPcs
      BY <1>4
    <2>4. \A u \in Vcpus : pc[u] \in {"hlt", "susp"} => pc'[u] = pc[u]
      BY <1>4
    <2> HIDE DEF IdlePcs, RunningPcs, SleepingPcs
    <2> QED
      BY <1>1, <2>1, <2>2, <2>3, <2>4 DEF StateInv
  <1> QED
    BY <1>3, <1>5, <1>6, <1>7, <1>8, <1>9, <1>10

\* vcpu_notify_event(i) moves the thread of i only if it waits on
\* vcpu_sleep_cnd, and then to the top of the loop it sleeps in.
LEMMA NotifyEventMoves ==
    ASSUME TypeOK, NEW i \in Vcpus, vcpu_notify_event(i)
    PROVE  /\ kick' \in [Vcpus -> BOOLEAN]
           /\ \E l \in Pcs :
                 /\ pc' = [pc EXCEPT ![i] = l]
                 /\ \/ l = pc[i]
                    \/ pc[i] = "hlt_wait" /\ l = "hlt"
                    \/ pc[i] = "susp_wait" /\ l = "susp"
  <1>1. kick' \in [Vcpus -> BOOLEAN]
    BY Zenon DEF TypeOK, vcpu_notify_event
  <1>2. pc' = pc \/ pc' = [pc EXCEPT ![i] = Awake(pc[i])]
    BY DEF TypeOK, vcpu_notify_event
  <1>3. \/ Awake(pc[i]) = pc[i]
        \/ pc[i] = "hlt_wait" /\ Awake(pc[i]) = "hlt"
        \/ pc[i] = "susp_wait" /\ Awake(pc[i]) = "susp"
    BY AwakeFacts
  <1>4. pc[i] \in Pcs /\ pc = [pc EXCEPT ![i] = pc[i]]
    BY DEF TypeOK
  <1> QED
    BY <1>1, <1>2, <1>3, <1>4

\* A thread that continues after vcpu_sleep_cnd keeps the invariant.
LEMMA WokenInv ==
    ASSUME IInv, NEW i \in Vcpus, NEW l \in Pcs,
           pc' = [pc EXCEPT ![i] = l],
           \/ l = pc[i]
           \/ pc[i] = "hlt_wait" /\ l = "hlt"
           \/ pc[i] = "susp_wait" /\ l = "susp",
           kick' \in [Vcpus -> BOOLEAN],
           cpus' \in [Vcpus -> SUBSET Vcpus],
           \A u \in Vcpus : cpus'[u] = cpus[u] \/ pc[u] \in NotifyPcs,
           dev' \in Vcpus \union {None},
           UNCHANGED <<vstate, intrdis, pend, sets, rdv, process>>
    PROVE  IInv'
  <1> USE DEF IInv
  <1>1. TypeOK'
    BY DEF TypeOK
  <1>2. RendezvousInv' /\ LifeInv' /\ HaltedInHlt'
    BY DEF TypeOK, RendezvousInv, LifeInv, HaltedInHlt
  <1>3. DestInv'
    <2> SUFFICES ASSUME NEW u \in Vcpus, pc'[u] \in {"smp", "hr_smp", "wait_smp"}
                 PROVE  cpus'[u] \subseteq active /\ u \in cpus'[u]
      BY DEF DestInv
    <2>1. pc'[u] = pc[u]
      BY DEF TypeOK
    <2> QED
      BY <2>1 DEF DestInv
  <1>4. AllSuspendedInv'
    BY DEF TypeOK, AllSuspendedInv
  <1>5. CpumaskInv' /\ StateInv'
    BY DEF TypeOK, CpumaskInv, StateInv
  <1> QED
    BY <1>1, <1>2, <1>3, <1>4, <1>5

\* One iteration of a loop of notifications.
LEMMA NotifyLoopInv ==
    ASSUME IInv, NEW v \in Vcpus, NotifyLoop(v)
    PROVE  IInv'
  <1> USE DEF IInv
  <1>1. /\ pc[v] \in NotifyPcs
        /\ UNCHANGED <<vstate, intrdis, pend, dev, sets, rdv, process>>
    BY DEF NotifyLoop
  <1>2. CASE Goto(v, NotifyRet(pc[v])) /\ UNCHANGED <<kick, cpus>>
    <2>1. /\ pc'[v] \in {"user", "vmchk", "run", "hr_rdvret", "ret"}
          /\ pc[v] = "notify_user" <=> pc'[v] = "user"
          /\ pc[v] = "notify_vmchk" <=> pc'[v] = "vmchk"
          /\ pc[v] = "notify_hr" <=> pc'[v] = "hr_rdvret"
          /\ pc[v] = "notify_ret" <=> pc'[v] = "ret"
          /\ pc' = [pc EXCEPT ![v] = pc'[v]]
      BY <1>1, <1>2, NotifyRetFacts DEF TypeOK
    <2>2. TypeOK'
      BY <1>1, <1>2, <2>1 DEF TypeOK
    <2>3. RendezvousInv' /\ DestInv'
      BY <1>1, <1>2, <2>1, SMTT(60) DEF TypeOK, RendezvousInv, DestInv
    <2>4. LifeInv' /\ AllSuspendedInv'
      BY <1>1, <1>2, <2>1, SMTT(60) DEF TypeOK, LifeInv, AllSuspendedInv
    <2>5. HaltedInHlt'
      BY <1>1, <1>2, <2>1, SMTT(60) DEF TypeOK, HaltedInHlt
    <2>6. CpumaskInv'
      BY <1>1, <1>2, <2>1, SMTT(60) DEF TypeOK, CpumaskInv
    <2>7. StateInv'
      BY <1>1, <1>2, <2>1, SMTT(60) DEF TypeOK, StateInv
    <2> QED
      BY <2>2, <2>3, <2>4, <2>5, <2>6, <2>7
  <1>3. ASSUME NEW i \in cpus[v], cpus' = [cpus EXCEPT ![v] = @ \ {i}],
               vcpu_notify_event(i) \/ UNCHANGED <<kick, pc>>
        PROVE  IInv'
    <2>1. i \in Vcpus /\ kick' \in [Vcpus -> BOOLEAN]
      BY <1>3, NotifyEventMoves DEF TypeOK
    <2>2. PICK l \in Pcs :
                 /\ pc' = [pc EXCEPT ![i] = l]
                 /\ \/ l = pc[i]
                    \/ pc[i] = "hlt_wait" /\ l = "hlt"
                    \/ pc[i] = "susp_wait" /\ l = "susp"
      <3>1. CASE vcpu_notify_event(i)
        BY <2>1, <3>1, NotifyEventMoves
      <3>2. CASE UNCHANGED <<kick, pc>>
        <4>1. pc[i] \in Pcs /\ pc' = [pc EXCEPT ![i] = pc[i]]
          BY <2>1, <3>2 DEF TypeOK
        <4> QED
          BY <4>1
      <3> QED
        BY <1>3, <3>1, <3>2
    <2>3. /\ cpus' \in [Vcpus -> SUBSET Vcpus]
          /\ \A u \in Vcpus : cpus'[u] = cpus[u] \/ pc[u] \in NotifyPcs
      BY <1>1, <1>3 DEF TypeOK
    <2>4. dev' \in Vcpus \union {None}
      BY <1>1 DEF TypeOK
    <2> QED
      BY <1>1, <2>1, <2>2, <2>3, <2>4, WokenInv
  <1> QED
    BY <1>2, <1>3 DEF NotifyLoop

\* The activation of a vcpu, which makes the set of active vcpus grow: no
\* vcpu can have left yet, since the BSP is not suspended.
LEMMA AddInv ==
    ASSUME IInv, NEW v \in Vcpus, NEW new \in Vcpus, vcpu_add(v, new)
    PROVE  IInv'
  <1> USE DEF IInv, vcpu_add
  <1>1. v \notin suspended /\ new # v /\ new \notin active
    BY DEF TypeOK, LifeInv
  <1>2. TypeOK' /\ RendezvousInv' /\ DestInv'
    BY <1>1 DEF TypeOK, RendezvousInv, DestInv
  <1>3. LifeInv'
    BY <1>1 DEF TypeOK, LifeInv
  <1>4. AllSuspendedInv'
    BY <1>1 DEF TypeOK, LifeInv, AllSuspendedInv
  <1>5. HaltedInHlt' /\ StateInv'
    BY <1>1 DEF TypeOK, LifeInv, HaltedInHlt, StateInv
  <1>6. CpumaskInv'
    BY <1>1 DEF TypeOK, LifeInv, CpumaskInv
  <1> QED
    BY <1>2, <1>3, <1>4, <1>5, <1>6

\* The steps of the device thread.
LEMMA DeviceInv ==
    ASSUME IInv, DevNotify \/ \E v \in Vcpus, e \in Events : vm_inject_event(v, e)
    PROVE  IInv'
  <1> USE DEF IInv
  <1>1. CASE DevNotify
    <2>1. dev \in Vcpus /\ vcpu_notify_event(dev)
      BY <1>1 DEF DevNotify, TypeOK
    <2>2. /\ kick' \in [Vcpus -> BOOLEAN]
          /\ \E l \in Pcs :
                 /\ pc' = [pc EXCEPT ![dev] = l]
                 /\ \/ l = pc[dev]
                    \/ pc[dev] = "hlt_wait" /\ l = "hlt"
                    \/ pc[dev] = "susp_wait" /\ l = "susp"
      BY <2>1, NotifyEventMoves
    <2>3. /\ cpus' \in [Vcpus -> SUBSET Vcpus] /\ cpus' = cpus /\ dev' = None
          /\ UNCHANGED <<vstate, intrdis, pend, sets, rdv, process>>
      BY <1>1 DEF DevNotify, TypeOK
    <2> QED
      BY <2>1, <2>2, <2>3, WokenInv
  <1>2. ASSUME NEW v \in Vcpus, NEW e \in Events, vm_inject_event(v, e)
        PROVE  IInv'
    <2> HIDE DEF Pcs, ExitPcs, HltPcs, SuspPcs, LeavePcs, HrPcs, WaitPcs,
             NotifyPcs, IdlePcs, RunningPcs, SleepingPcs, VStates, Hows
    <2>1. TypeOK'
      BY <1>2 DEF vm_inject_event, TypeOK
    <2>2. UNCHANGED <<thread, sets, rdv, process>>
      BY <1>2 DEF vm_inject_event
    <2> QED
      BY <2>1, <2>2 DEF RendezvousInv, DestInv, LifeInv, AllSuspendedInv,
                        HaltedInHlt, CpumaskInv, StateInv
  <1> QED
    BY <1>1, <1>2

\* Every step of the machine preserves the invariant.
LEMMA NextInv == IInv /\ [Next]_vars => IInv'
  <1> SUFFICES ASSUME IInv, [Next]_vars PROVE IInv'
    OBVIOUS
  <1>1. ASSUME exited = "NONE", NEW v \in Vcpus, Step(v)
        PROVE  IInv'
    BY <1>1, MoveInv, LeaveInv, InjectInv, DispatchInv, HltInv, HandleSuspendInv,
       SmpInv, HandleRendezvousInv, NotifyLoopInv DEF Step
  <1>2. ASSUME exited = "NONE", NEW v \in Vcpus, Environment(v)
        PROVE  IInv'
    <2>1. ASSUME NEW how \in Reasons, xh_vm_suspend(v, how)
          PROVE  IInv'
      BY <1>2, <2>1, SuspendRequestInv DEF xh_vm_suspend
    <2> QED
      BY <1>2, <2>1, GuestExitInv, AddInv, DeviceInv DEF Environment
  <1>3. CASE UNCHANGED vars
    <2> HIDE DEF Pcs, ExitPcs, HltPcs, SuspPcs, LeavePcs, HrPcs, WaitPcs,
             NotifyPcs, IdlePcs, RunningPcs, SleepingPcs, VStates, Hows
    <2> QED
      BY <1>3 DEF vars, IInv, TypeOK, RendezvousInv, DestInv, LifeInv,
                  AllSuspendedInv, HaltedInHlt, CpumaskInv, StateInv
  <1> QED
    BY <1>1, <1>2, <1>3, DeviceInv DEF Next, Terminated

-----------------------------------------------------------------------------
(***************************************************************************)
(* The theorems.                                                           *)
(***************************************************************************)
\* IInv is an invariant of the vcpus, for any number of them.
THEOREM Invariance == Safety => []IInv
  BY InitInv, NextInv, PTL DEF Safety

\* Every variable keeps its type.
THEOREM TypeCorrect == Safety => []TypeOK
  <1>1. IInv => TypeOK
    BY DEF IInv
  <1> QED
    BY <1>1, Invariance, PTL

\* When vm_smp_rendezvous has returned, every vcpu it was called for has run
\* the function: only the initiator of the rendezvous in progress is owed
\* anything, and that vcpu is still inside.
THEOREM RendezvousSynchronises == Safety => []RendezvousSync
  <1>1. IInv => RendezvousSync
    BY DEF IInv, TypeOK, RendezvousInv, RendezvousSync
  <1> QED
    BY <1>1, Invariance, PTL

\* A vcpu leaves vm_handle_suspend for good only when every active vcpu is
\* suspended and none waits for it in a rendezvous: an initiator would be
\* active, hence suspended, and no suspended vcpu is inside vm_smp_rendezvous.
THEOREM VcpusLeaveTogether == Safety => []LeaveTogether
  <1>1. IInv => LeaveTogether
    BY DEF IInv, TypeOK, RendezvousInv, LifeInv, AllSuspendedInv, LeaveTogether
  <1> QED
    BY <1>1, Invariance, PTL

\* halted_cpus holds only vcpus inside HLT with interrupts disabled.
THEOREM HaltedAreInHlt == Safety => []HaltedInHlt
  <1>1. IInv => HaltedInHlt
    BY DEF IInv
  <1> QED
    BY <1>1, Invariance, PTL

\* The process exits after every other thread is done, with the reason of
\* the suspend request.
THEOREM ExitIsClean == Safety => []CleanExit
  <1>1. IInv => CleanExit
    BY DEF IInv, TypeOK, CpumaskInv, CleanExit
  <1> QED
    BY <1>1, Invariance, PTL

\* vcpu_set_state never aborts: every change of vcpu->state goes to or from
\* FROZEN.
THEOREM TransitionsAreLegal == Safety => LegalTransitions
  <1> DEFINE Legal(u) == vstate[u] # vstate'[u] => "FROZEN" \in {vstate[u], vstate'[u]}
  <1>1. ASSUME IInv, NEW v \in Vcpus, Step(v) \/ Environment(v), NEW u \in Vcpus
        PROVE  Legal(u)
    <2>1. CASE \E s \in VStates : /\ vstate' = [vstate EXCEPT ![v] = s]
                                  /\ s = "FROZEN" \/ vstate[v] \in {"FROZEN", s}
      BY <1>1, <2>1 DEF IInv, TypeOK
    <2>2. CASE xh_vm_run(v) \/ vm_run_dispatch(v)
      BY <2>1, <2>2 DEF xh_vm_run, vm_run_dispatch
    <2>3. CASE vm_run_restart(v) \/ xh_vm_run_return(v)
      <3>1. vstate[v] = "FROZEN"
        BY <1>1, <2>3 DEF IInv, TypeOK, StateInv, vm_run_restart, xh_vm_run_return
      <3> QED
        BY <2>1, <2>3, <3>1 DEF vm_run_restart, xh_vm_run_return
    <2>4. CASE vm_handle_hlt(v) \/ vm_handle_suspend(v)
      <3>1. vstate[v] \in {"FROZEN", "SLEEPING"}
        <4>1. pc[v] \in {"hlt", "susp"}
          BY <2>4 DEF vm_handle_hlt, vm_handle_suspend
        <4>2. pc[v] \notin IdlePcs /\ pc[v] \notin RunningPcs
          BY <4>1
        <4>3. vstate[v] \in VStates /\ StateInv
          BY <1>1 DEF IInv, TypeOK
        <4> HIDE DEF IdlePcs, RunningPcs
        <4> QED
          BY <4>2, <4>3 DEF StateInv
      <3> QED
        BY <2>1, <2>4, <3>1, Zenon DEF vm_handle_hlt, vm_handle_suspend
    <2>5. CASE vstate' = vstate
      BY <2>5
    <2> QED
      BY <1>1, <2>1, <2>2, <2>3, <2>4, <2>5, Zenon DEF Step, Environment,
         vmx_inject_interrupts, vmx_run_check, vm_exit_rendezvous, KickExit,
         SleepBegin, SleepTimeout, vm_halted, vm_smp_rendezvous,
         vm_handle_rendezvous, RendezvousReturn, NotifyLoop, vcpu_delete,
         ApExit, BspExit, GuestExit, vcpu_add, xh_vm_suspend, vm_inject_event
  <1>2. IInv /\ [Next]_vars => [\A v \in Vcpus : Legal(v)]_vars
    BY <1>1 DEF Next, Terminated, DevNotify
  <1> QED
    BY <1>2, Invariance, PTL DEF LegalTransitions, Safety

\* The rendezvous of the code is the one its callers rely on: one at a time,
\* each requested vcpu runs the function once, and the rendezvous is over as
\* soon as all have and not before.
THEOREM RefinesRendezvous == Safety => R!Safety
  <1>1. Init => R!Init
    BY DEF Init, R!Init
  <1>2. ASSUME IInv, NEW v \in Vcpus, vm_smp_rendezvous(v)
        PROVE  [R!Next]_R!vars
    <2>1. CASE func # None
      BY <1>2, <2>1 DEF vm_smp_rendezvous, R!vars
    <2>2. CASE func = None
      <3>1. pc[v] = "smp" /\ func' = v /\ req' = cpus[v] /\ done' = {}
        BY <1>2, <2>2 DEF vm_smp_rendezvous
      <3>2. cpus[v] \in SUBSET Vcpus /\ v \in cpus[v]
        BY <1>2, <3>1 DEF IInv, TypeOK, DestInv
      <3>3. R!Start(v)
        BY <2>2, <3>1, <3>2 DEF R!Start
      <3> QED
        BY <3>3 DEF R!Next
    <2> QED
      BY <2>1, <2>2
  <1>3. ASSUME IInv, NEW v \in Vcpus, vm_handle_rendezvous(v)
        PROVE  [R!Next]_R!vars
    <2>1. CASE func = None
      BY <1>3, <2>1 DEF vm_handle_rendezvous, R!vars
    <2>2. CASE func # None
      <3> DEFINE d == IF v \in req THEN done \union {v} ELSE done
      <3>1. /\ func \in Vcpus /\ req \intersect active = req
            /\ done \subseteq req /\ req # done
        BY <1>3, <2>2 DEF IInv, TypeOK, RendezvousInv
      <3>2. /\ req' = req /\ done' = d
            /\ func' = IF req = d THEN None ELSE func
        BY <1>3, <2>2, <3>1 DEF vm_handle_rendezvous
      <3>3. CASE v \in req \ done
        <4> DEFINE w == IF func = None THEN {} ELSE req \ done
        <4>1. v \in w /\ w' = w \ {v}
          BY <2>2, <3>1, <3>2, <3>3
        <4>2. w' = {} <=> req = d
          BY <2>2, <3>1, <3>2, <3>3
        <4>3. R!Run(v)
          BY <3>2, <4>1, <4>2 DEF R!Run
        <4> QED
          BY <4>3 DEF R!Next
      <3>4. CASE v \notin req \ done
        BY <2>2, <3>1, <3>2, <3>4 DEF R!vars
      <3> QED
        BY <3>3, <3>4
    <2> QED
      BY <2>1, <2>2
  <1>4. ASSUME UNCHANGED <<func, req, done>>
        PROVE  [R!Next]_R!vars
    BY <1>4 DEF R!vars
  <1>5. ASSUME IInv, NEW v \in Vcpus, Step(v) \/ Environment(v)
        PROVE  [R!Next]_R!vars
    <2> HIDE DEF Goto, SetState
    <2> QED
      BY <1>2, <1>3, <1>4, <1>5, Zenon DEF Step, Environment, xh_vm_run, vm_run_restart,
         vmx_inject_interrupts, vmx_run_check, vm_exit_rendezvous, KickExit,
         vm_run_dispatch, vm_handle_hlt, SleepBegin, SleepTimeout, vm_halted,
         vm_handle_suspend, RendezvousReturn, NotifyLoop, xh_vm_run_return,
         vcpu_delete, ApExit, BspExit, GuestExit, vcpu_add, xh_vm_suspend,
         vm_inject_event
  <1>6. IInv /\ [Next]_vars => [R!Next]_R!vars
    BY <1>4, <1>5 DEF Next, Terminated, DevNotify, vars
  <1> QED
    BY <1>1, <1>6, Invariance, PTL DEF Safety, R!Safety

=============================================================================
