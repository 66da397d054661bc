------------------------------- MODULE VmxRegs -------------------------------
(***************************************************************************)
(* The control registers of one vcpu as vmx.c, vmx_msr.c and vmcs.c keep   *)
(* them: the values the processor runs with, the read shadows and masks,   *)
(* EFER and the entry controls, XCR0, PAT and the processor controls.      *)
(* A register is the set of its bits.                                      *)
(***************************************************************************)
EXTENDS Integers, FiniteSets

CONSTANTS Cr0s, Cr4s,     \* values the guest writes
          Xcr0s,          \* sets of state components the guest asks for
          HostXcr0,       \* xcr0_allowed of the host
          Pats,           \* PAT entry values the guest writes
          Caps,           \* capabilities the vmm toggles
          MaxSteps,       \* writes in a behaviour
          Careless        \* the guest writes EFER without reading it first, and
                          \* switches tasks with NE clear or CD set in CR0

VARIABLES vr,       \* the registers in the VMCS and in struct vmx
          vrSeen    \* what the guest last wrote to CR0, CR4, EFER and PAT

vrVars == <<vr, vrSeen>>

\* vmx_init: the bits the processor insists on, and those it refuses.
cr0_ones == {"NE", "ET"}
cr0_zeros == {"NW", "CD"}
cr4_ones == {"VMXE"}
cr4_zeros == {}

\* vmx_setup_cr_shadow
cr0_mask == cr0_ones \cup cr0_zeros \cup {"PG", "PE"}
cr4_mask == cr4_ones \cup cr4_zeros

vmx_fix_cr0(v) == (v \cup cr0_ones) \ cr0_zeros
vmx_fix_cr4(v) == (v \cup cr4_ones) \ cr4_zeros

\* vmx_set_ctlreg: a control is what the processor insists on, or else what
\* is wanted; "fail" when the two disagree or nothing is wanted.
\* may: the settings the processor allows for a bit.
vmx_ctl(may, one, zero) ==
  CASE one /\ zero -> {}
    [] may = {0} -> IF one THEN {} ELSE {0}
    [] may = {1} -> IF zero THEN {} ELSE {1}
    [] OTHER -> IF zero THEN {0} ELSE IF one THEN {1} ELSE {}

Controls == {"hlt", "mtf", "pause", "intr_window", "nmi_window"}

\* vmx_vcpu_init and xh_vcpu_reset: power-on shadows, then the reset values.
RegInit ==
  /\ vr = [cr0 |-> vmx_fix_cr0({"NE"}), cr0sh |-> {"NE"},
           cr4 |-> vmx_fix_cr4({}), cr4sh |-> {},
           efer |-> {}, entry |-> {}, xcr0 |-> {"X87"},
           pat |-> 6, ctls |-> {"hlt"}, proc_ctls |-> {"hlt"}, set |-> {},
           gp |-> FALSE, steps |-> 0, neg |-> <<{1}, {0, 1}, TRUE, FALSE>>]
  /\ vrSeen = [cr0 |-> {"NE"}, cr4 |-> {}, lme |-> FALSE, pat |-> 6]

Step(r) == vr.steps < MaxSteps /\ vr' = [r EXCEPT !.steps = @ + 1]
RegQuiet == [vr EXCEPT !.gp = FALSE]

\* What mov from CR0 and CR4 gives: masked bits come from the shadow.
guest_cr0 == (vr.cr0sh \cap cr0_mask) \cup (vr.cr0 \ cr0_mask)
guest_cr4 == (vr.cr4sh \cap cr4_mask) \cup (vr.cr4 \ cr4_mask)
-----------------------------------------------------------------------------
(* Writes that stay in the processor (external) and writes that exit       *)

\* A write that changes no masked bit does not exit.
native_cr0_write(v) ==
  /\ v \cap cr0_mask = vr.cr0sh \cap cr0_mask
  /\ Step([RegQuiet EXCEPT !.cr0 = (@ \cap cr0_mask) \cup (v \ cr0_mask)])
  /\ vrSeen' = [vrSeen EXCEPT !.cr0 = v]

native_cr4_write(v) ==
  /\ v \cap cr4_mask = vr.cr4sh \cap cr4_mask
  /\ Step([RegQuiet EXCEPT !.cr4 = (@ \cap cr4_mask) \cup (v \ cr4_mask)])
  /\ vrSeen' = [vrSeen EXCEPT !.cr4 = v]

\* mutant: the entry control does not follow
long_mode_efer_only(r, v) ==
  IF "PG" \in v /\ "LME" \in r.efer THEN [r EXCEPT !.efer = @ \cup {"LMA"}]
  ELSE r

\* Entering long mode: EFER.LMA and the entry control follow CR0.PG.
long_mode(r, v) ==
  IF "PG" \in v /\ "LME" \in r.efer
  THEN [r EXCEPT !.efer = @ \cup {"LMA"}, !.entry = @ \cup {"LMA"}]
  ELSE r

cr0_value(v) == vmx_fix_cr0(v)

\* A guest leaves long mode only by resetting the machine.
GuestMayWriteCr0(v) == "PG" \in guest_cr0 => "PG" \in v

vmx_emulate_cr0_access(v) ==
  /\ GuestMayWriteCr0(v)
  /\ v \cap cr0_mask # vr.cr0sh \cap cr0_mask
  /\ Step(long_mode([RegQuiet EXCEPT !.cr0sh = v, !.cr0 = cr0_value(v)], v))
  /\ vrSeen' = [vrSeen EXCEPT !.cr0 = v]

vmx_emulate_cr4_access(v) ==
  /\ v \cap cr4_mask # vr.cr4sh \cap cr4_mask
  /\ Step([RegQuiet EXCEPT !.cr4sh = v, !.cr4 = vmx_fix_cr4(v)])
  /\ vrSeen' = [vrSeen EXCEPT !.cr4 = v]

\* mutant: the bits VMX insists on are cleared and not set
setreg_unshadowed(v) == [RegQuiet EXCEPT !.cr0 = v \ cr0_ones, !.cr0sh = v]

\* The vmm's own write: task_switch.c sets CR0.TS in the value the processor
\* runs with, which becomes what the guest reads; a guest that keeps to the
\* bits VMX insists on does not notice.
setreg_cr0(v) == [RegQuiet EXCEPT !.cr0 = vmx_fix_cr0(v), !.cr0sh = v]

vmx_setreg ==
  /\ guest_cr0 = vr.cr0 \/ Careless
  /\ Step(setreg_cr0(vr.cr0 \cup {"TS"}))
  /\ vrSeen' = [vrSeen EXCEPT !.cr0 = @ \cup {"TS"}]

\* WRMSR of EFER goes straight into the VMCS; the entry control is left.
\* A careful guest writes back the LMA bit it read.
vmx_wrmsr_efer(lme) ==
  /\ "PG" \in guest_cr0 => (lme <=> "LME" \in vr.efer)
  /\ Step([RegQuiet EXCEPT !.efer =
             (IF lme THEN {"LME"} ELSE {})
             \cup (IF Careless THEN {} ELSE vr.efer \cap {"LMA"})])
  /\ vrSeen' = [vrSeen EXCEPT !.lme = lme]

\* A PAT entry of an unknown memory type is refused with #GP.
pat_valid(p) == p \notin {2, 3} /\ p < 8
vmx_wrmsr_pat(p) ==
  IF pat_valid(p)
  THEN Step([RegQuiet EXCEPT !.pat = p]) /\ vrSeen' = [vrSeen EXCEPT !.pat = p]
  ELSE Step([RegQuiet EXCEPT !.gp = TRUE]) /\ UNCHANGED vrSeen

\* State components that may be enabled together.
AVX512 == {"OPMASK", "ZMMHI", "HI16ZMM"}
xcr0_legal(x) ==
  /\ x \subseteq HostXcr0
  /\ "X87" \in x
  /\ "AVX" \in x => {"AVX", "SSE"} \subseteq x
  /\ x \cap AVX512 # {} => (AVX512 \cup {"AVX", "SSE"}) \subseteq x
  /\ ("BNDREGS" \in x) <=> ("BNDCSR" \in x)

vmx_emulate_xsetbv(x) ==
  /\ IF "XSAVE" \in vr.cr4 /\ xcr0_legal(x)
     THEN Step([RegQuiet EXCEPT !.xcr0 = x])
     ELSE Step([RegQuiet EXCEPT !.gp = TRUE])      \* #UD or #GP
  /\ UNCHANGED vrSeen

\* mutant: the controls are made from the ones the vcpu started with
setcap_from_base(c, on) ==
  IF on THEN {"hlt", c} ELSE {"hlt"} \ {c}

\* Capabilities and the event windows share the processor controls.
setcap_ctls(c, on) == IF on THEN vr.proc_ctls \cup {c} ELSE vr.proc_ctls \ {c}

vmx_setcap(c, on) ==
  /\ LET base == setcap_ctls(c, on)
     IN  Step([RegQuiet EXCEPT !.ctls = base, !.proc_ctls = base,
                            !.set = IF on THEN @ \cup {c} ELSE @ \ {c}])
  /\ UNCHANGED vrSeen

\* vmx_set_int_window_exiting and its three fellows.
window_exiting(w, on) ==
  /\ on <=> w \notin vr.proc_ctls
  /\ LET base == IF on THEN vr.proc_ctls \cup {w} ELSE vr.proc_ctls \ {w}
     IN  Step([RegQuiet EXCEPT !.ctls = base, !.proc_ctls = base])
  /\ UNCHANGED vrSeen

\* One bit of a control field at start-up: neg is <<result, may, one, zero>>.
vmx_set_ctlreg(may, one, zero) ==
  /\ vr.steps = 0
  /\ vr' = [vr EXCEPT !.neg = <<vmx_ctl(may, one, zero), may, one, zero>>]
  /\ UNCHANGED vrSeen

RegNext ==
  \/ \E v \in Cr0s : native_cr0_write(v) \/ vmx_emulate_cr0_access(v)
  \/ \E v \in Cr4s : native_cr4_write(v) \/ vmx_emulate_cr4_access(v)
  \/ vmx_setreg
  \/ \E lme \in BOOLEAN : vmx_wrmsr_efer(lme)
  \/ \E p \in Pats : vmx_wrmsr_pat(p)
  \/ \E x \in Xcr0s : vmx_emulate_xsetbv(x)
  \/ \E c \in Caps, on \in BOOLEAN : vmx_setcap(c, on)
  \/ \E w \in {"intr_window", "nmi_window"}, on \in BOOLEAN :
       window_exiting(w, on)
  \/ \E may \in {{0}, {1}, {0, 1}}, one, zero \in BOOLEAN :
       vmx_set_ctlreg(may, one, zero)

RegSpec == RegInit /\ [][RegNext]_vrVars
-----------------------------------------------------------------------------
(* Properties                                                              *)

\* The guest reads back from CR0 and CR4 what was written last, whether the
\* write exited or not and whoever made it, while the processor runs with
\* the bits VMX insists on.
ReadsBack ==
  /\ guest_cr0 = vrSeen.cr0 /\ guest_cr4 = vrSeen.cr4
  /\ cr0_ones \subseteq vr.cr0 /\ vr.cr0 \cap cr0_zeros = {}
  /\ cr4_ones \subseteq vr.cr4
  /\ \A b \in {"PG", "PE"} : b \in vr.cr0 <=> b \in vrSeen.cr0

\* EFER.LMA and the IA-32e entry control agree, and long mode is active
\* exactly when paging is on with LME set: what a VM entry checks.
EntryStateValid ==
  /\ "LMA" \in vr.efer <=> "LMA" \in vr.entry
  /\ "LMA" \in vr.efer <=> ("PG" \in vr.cr0 /\ "LME" \in vr.efer)

\* XCR0 is always a set of components the host accepts in one piece.
Xcr0Legal ==
  /\ {"X87"} \subseteq vr.xcr0 /\ vr.xcr0 \subseteq HostXcr0
  /\ "AVX" \in vr.xcr0 => "SSE" \in vr.xcr0
  /\ vr.xcr0 \cap AVX512 = {} \/ AVX512 \cup {"AVX"} \subseteq vr.xcr0
  /\ Cardinality(vr.xcr0 \cap {"BNDREGS", "BNDCSR"}) # 1
  /\ pat_valid(vr.pat) /\ vr.pat = vrSeen.pat

\* Toggling a capability neither loses nor invents a request for an event
\* window, and the VMCS carries the controls struct vmx remembers.
ControlsKept ==
  /\ vr'.ctls = vr'.proc_ctls
  /\ vr'.set # vr.set =>
       vr'.ctls \cap {"intr_window", "nmi_window"}
       = vr.ctls \cap {"intr_window", "nmi_window"}
  /\ \A c \in vr'.set : c \in vr'.ctls

\* A control bit gets a value only if the processor allows it, nobody
\* wanted the other one, and somebody wanted this one or there is no choice.
ControlsNegotiated ==
  LET may == vr.neg[2] IN
  \A v \in vr.neg[1] :
    /\ v \in may
    /\ ~(IF v = 1 THEN vr.neg[4] ELSE vr.neg[3])
    /\ Cardinality(may) = 2 => IF v = 1 THEN vr.neg[3] ELSE vr.neg[4]
=============================================================================
