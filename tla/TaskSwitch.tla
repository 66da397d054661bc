----------------------------- MODULE TaskSwitch -----------------------------
(***************************************************************************)
(* task_switch.c: vmexit_task_switch emulates a hardware task switch of a  *)
(* 32-bit guest.  The descriptor table, the task state segments and the    *)
(* stacks lie in guest memory, any page of which may be missing; a page    *)
(* fault is injected, the guest repairs it and executes the instruction    *)
(* again.                                                                  *)
(***************************************************************************)
EXTENDS Integers, Sequences, FiniteSets

CONSTANTS Tasks,      \* task selectors; the guest runs First to begin with
          First,
          DescOf,     \* kind of each task's descriptor
          BadSeg,     \* segments of each task whose descriptor is not valid
          Absences,   \* sets of pages that may be missing when a switch starts
          Reasons,    \* subset of {"CALL", "JMP", "IRET", "IDT_GATE"}
          MaxSwitches

VARIABLES tk,     \* guest memory and vcpu registers
          tkRef   \* both when the guest asked for the switch

tkVars == <<tk, tkRef>>

Segments == <<"LDTR", "CS", "SS", "DS">>   \* DS stands for DS, ES, FS and GS
NoRequest == [reason |-> "none", to |-> First, errcode |-> FALSE]

(***************************************************************************)
(* busy: busy bits of the descriptors; tss: saved registers, NT and link.  *)
(* ctx, nt, ts, sel, hid: registers, flags, selectors and hidden           *)
(* descriptors of the running task, the latter two as the task they were   *)
(* loaded from; ev: the event in exitintinfo; out: where the handler       *)
(* stands.                                                                 *)
(***************************************************************************)
TaskInit ==
  /\ tk = [busy |-> {First}, tr |-> First, ctx |-> <<First, 0>>,
           tss |-> [t \in Tasks |-> [ctx |-> <<t, 0>>, nt |-> FALSE,
                                     link |-> First]],
           nt |-> FALSE, ts |-> FALSE, sel |-> First,
           hid |-> [r \in {"TR", "LDTR", "CS", "SS", "DS"} |-> First],
           stack |-> {}, ev |-> FALSE, absent |-> {}, req |-> NoRequest,
           out |-> "run", switches |-> 0]
  /\ tkRef = tk

\* The steps of the handler follow one another while nothing stops it.
Go(s) == s.out = "go"
TaskStop(s, how) == [s EXCEPT !.out = how]

\* xh_vm_copy_setup of a page: a fault for the guest if it is missing.
Access(s, page) ==
  IF ~Go(s) THEN s ELSE IF page \in s.absent THEN TaskStop(s, "fault") ELSE s

reason(s) == s.req.reason
nested(s) == reason(s) \in {"CALL", "IDT_GATE"}
-----------------------------------------------------------------------------
(* The handler                                                             *)

\* A selector beyond the table limit: an exception is injected and 1 is
\* returned, which CHKERR does not expect.
read_tss_descriptor(s, t) ==
  IF ~Go(s) THEN s
  ELSE IF DescOf[t] = "beyond" THEN TaskStop(s, "assert")
  ELSE Access(s, <<"gdt", t>>)

\* Type, presence, length and busy bit of the new task state segment.
refused(s) ==
  LET t == s.req.to IN
  \/ DescOf[t] \in {"not-tss", "not-present", "short"}
  \/ reason(s) = "IRET" /\ t \notin s.busy
  \/ reason(s) # "IRET" /\ t \in s.busy

verify_new_tss(s) == IF Go(s) /\ refused(s) THEN TaskStop(s, "exception") ELSE s

clear_busy(s) ==
  LET w == Access(s, <<"gdtw", s.tr>>) IN
  IF reason(s) \notin {"IRET", "JMP"} THEN s
  ELSE IF Go(w) THEN [w EXCEPT !.busy = @ \ {s.tr}] ELSE w

refuse_286(s) ==
  IF Go(s) /\ DescOf[s.req.to] = "286" THEN TaskStop(s, "abort") ELSE s

tss32_save(s) ==
  IF ~Go(s) THEN s
  ELSE [s EXCEPT !.tss[s.tr].ctx = s.ctx,
                 !.tss[s.tr].nt = s.nt /\ reason(s) # "IRET"]

\* mutant: the task register is loaded before the last access that may fault
set_busy_late(s) ==
  LET c == [s EXCEPT !.tr = s.req.to, !.ts = TRUE]
      w == Access(c, <<"gdtw", s.req.to>>)
  IN  IF ~Go(s) THEN s
      ELSE IF reason(s) = "IRET" THEN c
      ELSE IF Go(w) THEN [w EXCEPT !.busy = @ \cup {s.req.to},
                                   !.hid["TR"] = s.req.to]
      ELSE w

\* From here on the new task is the one that runs.
set_busy(s) ==
  LET w == IF reason(s) = "IRET" THEN s ELSE Access(s, <<"gdtw", s.req.to>>)
  IN  IF ~Go(w) THEN w
      ELSE [w EXCEPT !.busy = IF reason(s) = "IRET" THEN @
                              ELSE @ \cup {s.req.to},
                     !.tr = s.req.to, !.hid["TR"] = s.req.to, !.ts = TRUE]

\* validate_seg_desc returns 1 for a descriptor that does not fit.
validate_seg_desc(s, seg) ==
  IF ~Go(s) THEN s
  ELSE IF seg \in BadSeg[s.sel] THEN TaskStop(s, "assert")
  ELSE Access(s, <<seg, s.sel>>)

\* CS and SS are updated together, after both were found valid.
update_seg_desc(s, segs) ==
  IF ~Go(s) THEN s
  ELSE [s EXCEPT !.hid = [r \in DOMAIN @ |-> IF r \in segs THEN s.sel
                                             ELSE @[r]]]

\* Reserved bits in the page directory pointers are reported as above.
tss32_load(s, ot_sel) ==
  LET t == s.req.to IN
  IF ~Go(s) THEN s
  ELSE IF "PDPTE" \in BadSeg[t] THEN TaskStop(s, "assert")
  ELSE [s EXCEPT !.ctx = s.tss[t].ctx, !.sel = t,
                 !.nt = nested(s) \/ s.tss[t].nt,
                 !.tss[t].link = IF nested(s) THEN ot_sel ELSE @]

tss32_restore(s, ot_sel) ==
  LET s0 == tss32_load(s, ot_sel)
      s1 == update_seg_desc(validate_seg_desc(s0, "LDTR"), {"LDTR"})
      s2 == update_seg_desc(validate_seg_desc(validate_seg_desc(s1, "CS"),
                                              "SS"), {"CS", "SS"})
  IN  update_seg_desc(validate_seg_desc(s2, "DS"), {"DS"})

push_errcode(s) ==
  LET w == Access(s, <<"stack", s.req.to>>)
  IN  IF ~s.req.errcode \/ ~Go(w) THEN IF s.req.errcode THEN w ELSE s
      ELSE [w EXCEPT !.stack = @ \cup {s.req.to}]

\* The event that came through a task gate is extinguished.
task_finish(s) ==
  IF ~Go(s) THEN s
  ELSE [s EXCEPT !.out = "done", !.ev = IF reason(s) = "IDT_GATE" THEN FALSE
                                        ELSE @]

handler(s) ==
  LET s1 == Access(verify_new_tss(read_tss_descriptor(s, s.req.to)),
                   <<"tss", s.req.to>>)
      s2 == Access(read_tss_descriptor(s1, s.tr), <<"tss", s.tr>>)
      s3 == tss32_save(refuse_286(IF Go(s2) THEN clear_busy(s2) ELSE s2))
  IN  task_finish(push_errcode(tss32_restore(set_busy(s3), s.tr)))

vmexit_task_switch ==
  /\ tk.out = "exit"
  /\ tk' = handler([tk EXCEPT !.out = "go"])
  /\ UNCHANGED tkRef
-----------------------------------------------------------------------------
(* The guest (external)                                                    *)

work ==
  /\ tk.out = "run" /\ tk.switches < MaxSwitches
  /\ tk.ctx = <<tk.tr, 0>>
  /\ tk' = [tk EXCEPT !.ctx = <<tk.tr, 1>>]
  /\ UNCHANGED tkRef

\* CALL, JMP or INT to another task; IRET in a nested task goes back.
switch(r) ==
  /\ tk.out = "run" /\ tk.switches < MaxSwitches
  /\ \E t \in Tasks, e \in BOOLEAN, gone \in Absences :
       /\ r = "IRET" => tk.nt /\ t = tk.tss[tk.tr].link
       /\ e => r = "IDT_GATE"
       /\ tk' = [tk EXCEPT !.req = [reason |-> r, to |-> t, errcode |-> e],
                           !.ev = r = "IDT_GATE", !.absent = gone,
                           !.switches = @ + 1, !.out = "exit", !.stack = {}]
       /\ tkRef' = tk'

\* A fault before the switch is committed restarts the instruction.
repair ==
  /\ tk.out = "fault" /\ tk.tr = tkRef.tr
  /\ \E p \in tk.absent :
       tk' = [tk EXCEPT !.absent = @ \ {p}, !.out = "exit"]
  /\ UNCHANGED tkRef

\* A fault after that is taken by the new task, whose handler loads the
\* segments that are still missing.
repair_in_new_task ==
  /\ tk.out = "fault" /\ tk.tr # tkRef.tr
  /\ tk' = [tk EXCEPT !.absent = {}, !.out = "run", !.ev = FALSE,
                      !.hid = [r \in DOMAIN @ |-> tk.sel]]
  /\ UNCHANGED tkRef

resume ==
  /\ tk.out \in {"done", "exception"}
  /\ tk' = [tk EXCEPT !.out = "run", !.absent = {}, !.req = NoRequest,
                      !.ev = FALSE, !.ts = FALSE, !.stack = {}]
  /\ UNCHANGED tkRef

TaskNext == vmexit_task_switch \/ work \/ (\E r \in Reasons : switch(r))
        \/ repair \/ repair_in_new_task \/ resume

TaskSpec == TaskInit /\ [][TaskNext]_tkVars
-----------------------------------------------------------------------------
(* Properties                                                              *)

\* The effect of a task switch by Intel SDM volume 3, table 7-2, on the
\* state in which the guest asked for it.
Switched(s) ==
  LET old == s.tr
      new == s.req.to
      r == s.req.reason
      deep == r \in {"CALL", "IDT_GATE"}
  IN  [s EXCEPT
        !.busy = CASE r = "JMP" -> (@ \ {old}) \cup {new}
                   [] deep -> @ \cup {new}
                   [] r = "IRET" -> @ \ {old},
        !.tr = new, !.sel = new, !.ts = TRUE, !.ctx = s.tss[new].ctx,
        !.nt = deep \/ s.tss[new].nt,
        !.tss = [t \in Tasks |->
                   [ctx |-> IF t = old THEN s.ctx ELSE s.tss[t].ctx,
                    nt |-> IF t = old THEN s.nt /\ r # "IRET" ELSE s.tss[t].nt,
                    link |-> IF t = new /\ deep THEN old ELSE s.tss[t].link]],
        !.hid = [x \in DOMAIN @ |-> new],
        !.stack = IF s.req.errcode THEN {new} ELSE {},
        !.ev = FALSE, !.out = "done", !.absent = tk.absent]

\* A switch that completes has the effect the manual gives it, on the state
\* at the first attempt, however often page faults made the guest start the
\* instruction again with half of the bookkeeping already done: busy bits,
\* saved registers, NT, link, task register, segments and error code.
SwitchesOnce == tk.out = "done" => tk = Switched(tkRef)

\* An exception leaves the task as it was, and a fault is taken either by
\* the untouched old task or by the new one, never by a mixture: registers,
\* selectors, task register and instruction pointer change together.
NoMixture ==
  /\ tk.out = "exception" =>
       /\ tk.tr = tkRef.tr /\ tk.ctx = tkRef.ctx /\ tk.nt = tkRef.nt
       /\ tk.hid = tkRef.hid /\ tk.busy \cup {tk.tr} = tkRef.busy
  /\ tk.out = "fault" =>
       /\ tk.ctx[1] = tk.tr /\ tk.sel = tk.tr /\ tk.hid["TR"] = tk.tr
       /\ tk.hid["CS"] = tk.hid["SS"]
       /\ tk.tr = tkRef.tr => tk.ctx = tkRef.ctx

\* The helpers tell "an exception was injected into the guest" from a
\* failure of the emulation, so the guest gets the exception and goes on.
ExceptionsReachGuest == tk.out # "assert"
=============================================================================
