----------------------------- MODULE MCProcessor -----------------------------
(***************************************************************************)
(* Model-checking instances of what the hypervisor does in the processor's *)
(* place: events and registers, walks of the guest's page tables, emulated *)
(* instructions, task switches, the start of processors, and the maps of   *)
(* memory and ports they access.  A behaviour is one of one component,     *)
(* `which'; the variables of the others stay Off.  A component whose       *)
(* supply of events is bounded, or whose machine is switched off, may stop.*)
(***************************************************************************)
EXTENDS VmxEvents, VmxRegs, Gla2gpa, VieDecode, VieEmul, VieString, GlaCalc, TaskSwitch, ApBoot,
        ApicDest, InoutStr, MemMap, TLC

CONSTANT Parts      \* the components to check

VARIABLE which

Off == 0
-----------------------------------------------------------------------------
MCValues == {-3, 7}

MCImms == {-2, 9}

MCFields == {-1, 0, 1, 3, 10, 32, 35, 255, 65545, 131072}

(* The fourth task's segment is not present; pages are missing of the       *)
(* tables, of task state segments, of stacks and of segments.               *)
MCDescOf == [t \in Tasks |-> IF t = "d" THEN "not-present" ELSE "tss"]

MCBadSeg == [t \in Tasks |-> {}]

MCAbsences ==
  {{}, {<<"gdt", "b">>, <<"gdtw", "a">>}, {<<"tss", "a">>, <<"gdtw", "b">>, <<"gdtw", "c">>},
   {<<"SS", "b">>}, {<<"gdtw", "b">>, <<"DS", "c">>}, {<<"stack", "b">>, <<"LDTR", "a">>}}

MCIoSize == [d \in IoDevs |-> IF d = "a" THEN 1 ELSE 2]

MCIoAddr == MCIoSize

MCIoBounds == [unmaps |-> 1, moves |-> 3]

(* Two BARs of one device and one of another. *)
MCDevOf == [b \in Bars |-> IF b = "b3" THEN "d2" ELSE "d1"]
-----------------------------------------------------------------------------
VmxOff == vx = Off /\ vxOwed = Off /\ vxAsked = Off /\ vxGuest = Off

WalkOff == glPte = Off /\ glWalk = Off /\ glGuest = Off /\ glRetry = Off

StrOff == st = Off /\ stMem = Off /\ stDev = Off /\ stMapped = Off /\ stRef = Off

IoOff == /\ ioTable = Off /\ ioBar = Off /\ is = Off /\ isMem = Off /\ isGone = Off
         /\ isDev = Off /\ ioLeft = Off

MemOff == mm = Off /\ mmBar = Off /\ mmCpu = Off /\ mmFault = Off

ProcInit ==
  /\ which \in Parts
  /\ IF which = "events" THEN VmxInit ELSE VmxOff
  /\ IF which = "regs" THEN RegInit ELSE vr = Off /\ vrSeen = Off
  /\ IF which = "walk" THEN GlaInit ELSE WalkOff
  /\ IF which = "decode" THEN VdInit ELSE vd = Off /\ vdRef = Off
  /\ IF which = "emulate" THEN VemInit ELSE vem = Off /\ vemOut = Off
  /\ IF which = "string" THEN StrInit ELSE StrOff
  /\ IF which = "segment" THEN SegInit ELSE gc = Off /\ gcOut = Off
  /\ IF which = "task" THEN TaskInit ELSE tk = Off /\ tkRef = Off
  /\ IF which = "boot" THEN BootInit ELSE ab = Off
  /\ IF which = "dest" THEN DestInit ELSE ad = Off /\ adMsg = Off /\ adTo = Off
  /\ IF which = "inout" THEN IoInit ELSE IoOff
  /\ IF which = "memory" THEN MemInit ELSE MemOff

\* the component's own step; what is bounded or switched off may stop
PartNext ==
  \/ which = "events" /\ (VmxNext \/ UNCHANGED vxVars)
  \/ which = "regs" /\ (RegNext \/ UNCHANGED vrVars)
  \/ which = "walk" /\ GlaNext
  \/ which = "decode" /\ VdNext
  \/ which = "emulate" /\ VemNext
  \/ which = "string" /\ StrNext
  \/ which = "segment" /\ SegNext
  \/ which = "task" /\ (TaskNext \/ UNCHANGED tkVars)
  \/ which = "boot" /\ (BootNext \/ UNCHANGED abVars)
  \/ which = "dest" /\ DestNext
  \/ which = "inout" /\ IoNext
  \/ which = "memory" /\ MemNext

Rests(part, v) == IF which = part THEN TRUE ELSE UNCHANGED v

ProcNext ==
  /\ UNCHANGED which
  /\ Rests("events", vxVars)
  /\ Rests("regs", vrVars)
  /\ Rests("walk", glVars)
  /\ Rests("decode", vdVars)
  /\ Rests("emulate", vemVars)
  /\ Rests("string", stVars)
  /\ Rests("segment", gcVars)
  /\ Rests("task", tkVars)
  /\ Rests("boot", abVars)
  /\ Rests("dest", adVars)
  /\ Rests("inout", isVars)
  /\ Rests("memory", memVars)
  /\ PartNext

procVars == <<which, vxVars, vrVars, glVars, vdVars, vemVars, stVars, gcVars, tkVars, abVars,
              adVars, isVars, memVars>>

ProcSpec == ProcInit /\ [][ProcNext]_procVars
-----------------------------------------------------------------------------
\* The variables of every component have their types.
TypesKept ==
  /\ which = "events" => VmxTypeOK
  /\ which = "walk" => GlaTypeOK
  /\ which = "boot" => BootTypeOK
  /\ which = "inout" => IoTypeOK
  /\ which = "memory" => MemTypeOK

\* Interrupts, NMIs and exceptions survive the exits in the middle of their delivery: each one
\* taken from its source is in one place until the guest has it, NMIs do not nest, a fault is
\* taken at the instruction that raised it, and no check of the injection path fails
\* (vm_entry_intinfo, vmx_inject_interrupts, vmx_exit_process, vm_restart_instruction).
EventsKept ==
  which = "events" => EventsConserved /\ NmisDoNotNest /\ NoAbort /\ FaultsRestart

\* An event that waits when the guest is entered has an exit arranged for the moment it can be
\* taken (vmx_set_int_window_exiting, vmx_set_nmi_window_exiting); and turning a capability
\* on or off (vmx_setcap) neither loses nor invents such an exit.
WindowsKept ==
  [][ /\ which = "events" => WaitersHaveWindow
      /\ which = "regs" => ControlsKept ]_procVars

\* The control registers, EFER, XCR0, PAT and the VM-execution controls are what the guest wrote
\* and what a VM entry accepts, however the writes are ordered (vmx_emulate_cr0_access,
\* vmx_emulate_cr4_access, vmx_emulate_xsetbv, vmx_setreg, vmx_set_ctlreg).
VmcsValid ==
  which = "regs" => ReadsBack /\ EntryStateValid /\ Xcr0Legal /\ ControlsNegotiated



\* What takes many steps happens once and as a whole: a task switch (vmexit_task_switch)
\* although page faults make the guest start it again, the start of a processor (spinup_ap,
\* vcpu_add) whatever INITs and SIPIs are sent, and the end of the machine (vm_suspend,
\* vcpu_delete), which waits for the last processor.
WholeOrNot ==
  /\ which = "task" => SwitchesOnce /\ NoMixture /\ ExceptionsReachGuest
  /\ which = "boot" => AddedOnce /\ SuspendedTogether /\ ExitsLast
=============================================================================
