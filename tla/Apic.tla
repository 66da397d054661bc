-------------------------------- MODULE Apic --------------------------------
(***************************************************************************)
(* The path of an interrupt: the pins and the redirection table of the     *)
(* I/O APIC (vioapic.c), the request, in-service and trigger-mode          *)
(* registers of the local APICs (vlapic.c), the injection by vmx_run and   *)
(* the end of interrupt that travels back.                                 *)
(*                                                                         *)
(* A section that holds the vioapic lock is one step.  A write that        *)
(* changes a redirection entry drops the lock for a rendezvous in which    *)
(* every vcpu recomputes its trigger-mode register: the rendezvous is the  *)
(* one module Rendezvous specifies and module Vcpu implements.             *)
(***************************************************************************)
EXTENDS Integers, Sequences, FiniteSets

CONSTANTS
    Vcpus,      \* the active vcpus
    Pins,       \* pins of the I/O APIC
    IoVectors,  \* the vectors the guest programs into the I/O APIC
    MsiVectors, \* the vectors of MSIs and of interrupts between vcpus
    Dests,      \* the sets of vcpus a destination field may select
    Tprs,       \* the task priorities the guest uses
    Sharers,    \* bound: devices that share a pin
    MaskFirst   \* the guest masks a pin before it reprograms it

ASSUME IoVectorsAssumption == IoVectors \subseteq 16 .. 255
ASSUME MsiVectorsAssumption == MsiVectors \subseteq 16 .. 255
ASSUME PinsAssumption == Pins \subseteq Nat
ASSUME VcpusAssumption == Vcpus \subseteq Nat /\ 0 \in Vcpus
ASSUME DestsAssumption == Dests \subseteq SUBSET Vcpus
ASSUME TprsAssumption == Tprs \subseteq 0 .. 255 /\ 0 \in Tprs
ASSUME SharersAssumption == Sharers \in Nat
ASSUME MaskFirstAssumption == MaskFirst \in BOOLEAN

Vectors == IoVectors \union MsiVectors

NoCpu == -1

\* The interrupts that can be in service at once, plus the placeholder.
ISRVEC_STK_SIZE == 17

PRIO(x) == x \div 16

VARIABLES
    rtbl,       \* the redirection table, with the assertion count of a pin
    irr,        \* per vcpu: vectors requested
    isr,        \* per vcpu: vectors in service
    isrvec_stk, \* per vcpu: the in-service vectors as a stack
    tmr,        \* per vcpu: vectors that are level-triggered
    tpr,        \* per vcpu: task priority
    pc,         \* per vcpu: where its thread is
    arg,        \* per vcpu: the pin it writes, or the vector it ends
    entry,      \* per vcpu: VM-entry interruption information is valid
    owner,      \* rendezvous: the vcpu that started it, or NoCpu
    waiting     \* rendezvous: the vcpus that have yet to run its function

lapic == <<irr, isr, isrvec_stk, tmr, tpr>>
rdv   == <<owner, waiting>>
vars  == <<rtbl, lapic, pc, arg, entry, rdv>>

\* "run": in vmx_run, about to inject.  "chk": about to test for a
\* rendezvous.  "bar": in vm_handle_rendezvous.  "eoi": about to pass an end
\* of interrupt to the I/O APIC.  "smp", "rdv": in vioapic_write, about to
\* start a rendezvous, and in the one it started.
Pcs == {"run", "chk", "bar", "guest", "eoi", "smp", "rdv"}

Init ==
    /\ rtbl = [p \in Pins |-> [masked |-> TRUE, level |-> FALSE, vec |-> 0,
                               dest |-> {0}, remirr |-> FALSE, acnt |-> 0]]
    /\ irr        = [v \in Vcpus |-> {}]
    /\ isr        = [v \in Vcpus |-> {}]
    /\ isrvec_stk = [v \in Vcpus |-> <<>>]
    /\ tmr        = [v \in Vcpus |-> {}]
    /\ tpr        = [v \in Vcpus |-> 0]
    /\ pc         = [v \in Vcpus |-> "run"]
    /\ arg        = [v \in Vcpus |-> 0]
    /\ entry      = [v \in Vcpus |-> FALSE]
    /\ owner      = NoCpu
    /\ waiting    = {}

Goto(v, l) == pc' = [pc EXCEPT ![v] = l]

-----------------------------------------------------------------------------
(***************************************************************************)
(* The local APIC.                                                         *)
(***************************************************************************)

\* vlapic_update_ppr: the priority an interrupt has to exceed.
ppr(v) ==
    LET top    == Len(isrvec_stk[v])
        isrvec == IF top = 0 THEN 0 ELSE isrvec_stk[v][top]
    IN  IF PRIO(tpr[v]) >= PRIO(isrvec) THEN PRIO(tpr[v]) ELSE PRIO(isrvec)

\* Mutant of vlapic_pending_intr: a vector of the class in service is taken.
vlapic_pending_intr_same(v) ==
    {x \in irr[v] : (\A y \in irr[v] : y <= x) /\ PRIO(x) >= ppr(v)}

\* vlapic_pending_intr: the highest requested vector, if its priority
\* exceeds the processor priority.
vlapic_pending_intr(v) ==
    {x \in irr[v] : (\A y \in irr[v] : y <= x) /\ PRIO(x) > ppr(v)}

\* vlapic_intr_accepted: from requested to in service.
vlapic_intr_accepted(v, x) ==
    /\ irr' = [irr EXCEPT ![v] = @ \ {x}]
    /\ isr' = [isr EXCEPT ![v] = @ \union {x}]
    /\ isrvec_stk' = [isrvec_stk EXCEPT ![v] = Append(@, x)]

\* vlapic_deliver_intr: request a vector of every vcpu of a destination.
\* requests is a set of <<destination, vector>>, for the callers that loop.
\* Vectors below 16 are refused.
vlapic_deliver_intr(requests) ==
    irr' = [v \in Vcpus |-> irr[v] \union
              {r[2] : r \in {q \in requests : v \in q[1] /\ q[2] >= 16}}]

-----------------------------------------------------------------------------
(***************************************************************************)
(* The I/O APIC.                                                           *)
(***************************************************************************)

\* Mutant of vioapic_send_intr: a masked pin waits for an end of interrupt.
vioapic_send_intr_early(t, S) ==
    /\ rtbl' = [p \in Pins |-> IF p \in S /\ t[p].level
                               THEN [t[p] EXCEPT !.remirr = TRUE] ELSE t[p]]
    /\ vlapic_deliver_intr({<<t[p].dest, t[p].vec>> :
                              p \in {q \in S : ~ t[q].masked}})

\* vioapic_send_intr, for the pins of S: an unmasked pin is sent, and a
\* level-triggered one waits for its end of interrupt.  t is the table.
vioapic_send_intr(t, S) ==
    LET sent == {p \in S : ~ t[p].masked}
    IN  /\ rtbl' = [p \in Pins |->
                      IF p \in sent /\ t[p].level
                      THEN [t[p] EXCEPT !.remirr = TRUE] ELSE t[p]]
        /\ vlapic_deliver_intr({<<t[p].dest, t[p].vec>> : p \in sent})

\* vioapic_set_pinstate: only the first assertion of a pin is sent.
vioapic_set_pinstate(p, newstate) ==
    LET cnt == rtbl[p].acnt
        new == IF newstate THEN cnt + 1 ELSE cnt - 1
    IN  vioapic_send_intr([rtbl EXCEPT ![p].acnt = new],
                          IF cnt = 0 /\ new = 1 THEN {p} ELSE {})

\* vioapic_assert_irq, vioapic_deassert_irq: a device drives its pin.  Each
\* of the devices that share it asserts and deasserts it in turn.
vioapic_assert_irq(p) ==
    /\ rtbl[p].acnt < Sharers
    /\ vioapic_set_pinstate(p, TRUE)
    /\ UNCHANGED <<isr, isrvec_stk, tmr, tpr, pc, arg, entry, rdv>>

vioapic_deassert_irq(p) ==
    /\ rtbl[p].acnt > 0
    /\ vioapic_set_pinstate(p, FALSE)
    /\ UNCHANGED <<isr, isrvec_stk, tmr, tpr, pc, arg, entry, rdv>>

\* Mutant of vioapic_pulse_irq: the pin is left asserted.
vioapic_pulse_irq_up(p) ==
    /\ vioapic_set_pinstate(p, TRUE)
    /\ UNCHANGED <<isr, isrvec_stk, tmr, tpr, pc, arg, entry, rdv>>

\* vioapic_pulse_irq: assert and deassert under one hold of the lock.
vioapic_pulse_irq(p) ==
    /\ vioapic_send_intr(rtbl, IF rtbl[p].acnt = 0 THEN {p} ELSE {})
    /\ UNCHANGED <<isr, isrvec_stk, tmr, tpr, pc, arg, entry, rdv>>

\* The level-triggered vectors an assertion would deliver to v.
LevelVectors(v) ==
    {rtbl[p].vec : p \in {q \in Pins : rtbl[q].level /\ v \in rtbl[q].dest}}

\* Mutant of vioapic_update_tmr: the vectors are not reset to edge first.
vioapic_update_tmr_stale(v) ==
    tmr' = [tmr EXCEPT ![v] = @ \union LevelVectors(v)]

\* vioapic_update_tmr: what every vcpu does in the rendezvous.
vioapic_update_tmr(v) == tmr' = [tmr EXCEPT ![v] = LevelVectors(v)]

\* Mutant of vioapic_write_end: a pin asserted while masked is not sent.
vioapic_write_end_silent(t, p) == vioapic_send_intr(t, {})

\* The end of vioapic_write, under the lock again: send the pin if it is
\* unmasked, asserted, and its previous interrupt has been EOIed.
vioapic_write_end(t, p) ==
    vioapic_send_intr(t, IF t[p].remirr \/ t[p].acnt = 0 THEN {} ELSE {p})

\* What the guest may write.  Its writes to one entry are serialised (the
\* entry is reached through a selector register the vcpus share).  It
\* reprograms a pin only when no interrupt of the pin is in service, and if
\* MaskFirst only while the pin is masked.
GuestMayWrite(p, new) ==
    /\ \A v \in Vcpus : pc[v] \in {"smp", "rdv"} => arg[v] # p
    /\ \/ new = [rtbl[p] EXCEPT !.masked = new.masked]
       \/ /\ ~ rtbl[p].remirr
          /\ MaskFirst => rtbl[p].masked /\ new.masked

\* The values a write of the low or of the high half of an entry leaves.
Written(old) ==
    {[old EXCEPT !.masked = w.masked, !.level = w.level, !.vec = w.vec] :
        w \in [masked : BOOLEAN, level : BOOLEAN, vec : IoVectors]}
    \union {[old EXCEPT !.dest = d] : d \in Dests}

\* Mutant of vioapic_write: the trigger modes are not recomputed.
vioapic_write_only(v) ==
    /\ pc[v] = "guest"
    /\ \E p \in Pins : \E new \in Written(rtbl[p]) :
          /\ GuestMayWrite(p, new)
          /\ vioapic_write_end([rtbl EXCEPT ![p] = new], p)
    /\ Goto(v, "run")
    /\ UNCHANGED <<isr, isrvec_stk, tmr, tpr, arg, entry, rdv>>

\* vioapic_write, by way of vioapic_mmio_write.  If more than the mask
\* changes, the lock is dropped for a rendezvous before the write ends.
vioapic_write(v) ==
    /\ pc[v] = "guest"
    /\ \E p \in Pins : \E new \in Written(rtbl[p]) :
          /\ GuestMayWrite(p, new)
          /\ IF new = [rtbl[p] EXCEPT !.masked = new.masked]
             THEN /\ vioapic_write_end([rtbl EXCEPT ![p] = new], p)
                  /\ Goto(v, "run")
                  /\ UNCHANGED arg
             ELSE /\ rtbl' = [rtbl EXCEPT ![p] = new]
                  /\ arg' = [arg EXCEPT ![v] = p]
                  /\ Goto(v, "smp")
                  /\ UNCHANGED irr
    /\ UNCHANGED <<isr, isrvec_stk, tmr, tpr, entry, rdv>>

\* vm_smp_rendezvous: once no other rendezvous is in progress, start one.
vm_smp_rendezvous(v) ==
    /\ pc[v] = "smp" /\ owner = NoCpu
    /\ owner' = v /\ waiting' = Vcpus
    /\ Goto(v, "rdv")
    /\ UNCHANGED <<rtbl, lapic, arg, entry>>

\* vm_handle_rendezvous: a vcpu that is asked to runs vioapic_update_tmr.
vm_handle_rendezvous(v) ==
    /\ pc[v] \in {"bar", "smp", "rdv"} /\ v \in waiting
    /\ vioapic_update_tmr(v)
    /\ waiting' = waiting \ {v}
    /\ owner' = IF waiting' = {} THEN NoCpu ELSE owner
    /\ UNCHANGED <<rtbl, irr, isr, isrvec_stk, tpr, pc, arg, entry>>

\* The rendezvous is over: back to vmx_run, or to the end of vioapic_write.
RendezvousReturn(v) ==
    /\ owner = NoCpu
    /\ \/ pc[v] = "bar" /\ UNCHANGED <<rtbl, irr>>
       \/ pc[v] = "rdv" /\ vioapic_write_end(rtbl, arg[v])
    /\ arg' = [arg EXCEPT ![v] = 0]
    /\ Goto(v, "run")
    /\ UNCHANGED <<isr, isrvec_stk, tmr, tpr, entry, rdv>>

-----------------------------------------------------------------------------
(***************************************************************************)
(* The vcpu.                                                               *)
(***************************************************************************)

\* vmx_inject_interrupts: inject what the local APIC has pending, unless an
\* event is already to be injected or the guest has interrupts blocked.
vmx_inject_interrupts(v) ==
    /\ pc[v] = "run"
    /\ \/ /\ ~ entry[v]
          /\ \E x \in vlapic_pending_intr(v) : vlapic_intr_accepted(v, x)
          /\ entry' = [entry EXCEPT ![v] = TRUE]
       \/ UNCHANGED <<irr, isr, isrvec_stk, entry>>
    /\ Goto(v, "chk")
    /\ UNCHANGED <<rtbl, tmr, tpr, arg, rdv>>

\* vmx_run: a rendezvous that is pending after the injection is handled
\* first, otherwise the vcpu enters the guest, which takes the event.
vmx_run(v) ==
    /\ pc[v] = "chk"
    /\ \/ owner # NoCpu /\ Goto(v, "bar") /\ UNCHANGED entry
       \/ owner = NoCpu /\ Goto(v, "guest")
                        /\ entry' = [entry EXCEPT ![v] = FALSE]
    /\ UNCHANGED <<rtbl, lapic, arg, rdv>>

\* An exit that does not concern the interrupt controllers.
vmx_exit(v) ==
    /\ pc[v] = "guest"
    /\ Goto(v, "run")
    /\ UNCHANGED <<rtbl, lapic, arg, entry, rdv>>

\* vlapic_set_tpr.
vlapic_set_tpr(v) ==
    /\ pc[v] = "guest"
    /\ \E x \in Tprs : x # tpr[v] /\ tpr' = [tpr EXCEPT ![v] = x]
    /\ Goto(v, "run")
    /\ UNCHANGED <<rtbl, irr, isr, isrvec_stk, tmr, arg, entry, rdv>>

\* vlapic_process_eoi: the highest vector in service ends.  If it is
\* level-triggered its end is passed to the I/O APIC.
vlapic_process_eoi(v) ==
    /\ pc[v] = "guest" /\ isr[v] # {}
    /\ LET x == CHOOSE y \in isr[v] : \A z \in isr[v] : z <= y
       IN  /\ isr' = [isr EXCEPT ![v] = @ \ {x}]
           /\ isrvec_stk' = [isrvec_stk EXCEPT ![v] = SubSeq(@, 1, Len(@) - 1)]
           /\ IF x \in tmr[v]
              THEN arg' = [arg EXCEPT ![v] = x] /\ Goto(v, "eoi")
              ELSE UNCHANGED arg /\ Goto(v, "run")
    /\ UNCHANGED <<rtbl, irr, tmr, tpr, entry, rdv>>

\* Mutant of vioapic_process_eoi: a pin that is still asserted is not sent.
vioapic_process_eoi_quiet(v) ==
    /\ pc[v] = "eoi"
    /\ rtbl' = [p \in Pins |-> IF rtbl[p].remirr /\ rtbl[p].vec = arg[v]
                               THEN [rtbl[p] EXCEPT !.remirr = FALSE]
                               ELSE rtbl[p]]
    /\ arg' = [arg EXCEPT ![v] = 0]
    /\ Goto(v, "run")
    /\ UNCHANGED <<lapic, entry, rdv>>

\* vioapic_process_eoi: every pin that waits for the end of this vector has
\* it, and is sent again if it is still asserted.
vioapic_process_eoi(v) ==
    /\ pc[v] = "eoi"
    /\ LET ended == {p \in Pins : rtbl[p].remirr /\ rtbl[p].vec = arg[v]}
       IN  vioapic_send_intr(
             [p \in Pins |-> IF p \in ended
                             THEN [rtbl[p] EXCEPT !.remirr = FALSE]
                             ELSE rtbl[p]],
             {p \in ended : rtbl[p].acnt > 0})
    /\ arg' = [arg EXCEPT ![v] = 0]
    /\ Goto(v, "run")
    /\ UNCHANGED <<isr, isrvec_stk, tmr, tpr, entry, rdv>>

\* lapic_intr_msi, and the fixed interrupts of vlapic_icrlo_write_handler:
\* an edge-triggered vector for a destination.
lapic_intr_msi(d, x) ==
    /\ vlapic_deliver_intr({<<d, x>>})
    /\ UNCHANGED <<rtbl, isr, isrvec_stk, tmr, tpr, pc, arg, entry, rdv>>

-----------------------------------------------------------------------------
Device(p) == \/ vioapic_assert_irq(p) \/ vioapic_deassert_irq(p)
             \/ vioapic_pulse_irq(p)

Vcpu(v) == \/ vmx_inject_interrupts(v) \/ vmx_run(v) \/ vmx_exit(v)
           \/ vioapic_write(v) \/ vm_smp_rendezvous(v)
           \/ vm_handle_rendezvous(v) \/ RendezvousReturn(v)
           \/ vlapic_set_tpr(v) \/ vlapic_process_eoi(v)
           \/ vioapic_process_eoi(v)

Next == \/ \E p \in Pins : Device(p)
        \/ \E v \in Vcpus : Vcpu(v)
        \/ \E d \in Dests, x \in MsiVectors : lapic_intr_msi(d, x)

Spec == Init /\ [][Next]_vars

-----------------------------------------------------------------------------
(***************************************************************************)
(* Properties.                                                             *)
(***************************************************************************)

\* The type invariant.
TypeOK ==
    /\ rtbl \in [Pins -> [masked : BOOLEAN, level : BOOLEAN,
                          vec : IoVectors \union {0}, dest : Dests \union {{0}},
                          remirr : BOOLEAN, acnt : 0 .. Sharers]]
    /\ irr \in [Vcpus -> SUBSET Vectors]
    /\ isr \in [Vcpus -> SUBSET Vectors]
    /\ \A v \in Vcpus : isrvec_stk[v] \in Seq(Vectors)
    /\ tmr \in [Vcpus -> SUBSET (IoVectors \union {0})]
    /\ tpr \in [Vcpus -> Tprs]
    /\ pc \in [Vcpus -> Pcs]
    /\ \A v \in Vcpus : arg[v] \in Pins \union Vectors \union {0}
    /\ entry \in [Vcpus -> BOOLEAN]
    /\ owner \in Vcpus \union {NoCpu}
    /\ waiting \subseteq Vcpus

\* vlapic_update_ppr never aborts: the stack holds the vectors in service,
\* in order of strictly increasing priority, and does not overflow.  All
\* variables have their types.
IsrStack ==
    /\ TypeOK
    /\ \A v \in Vcpus :
         LET stk == isrvec_stk[v]
         IN  /\ Len(stk) < ISRVEC_STK_SIZE
             /\ \A i, j \in DOMAIN stk : i < j => PRIO(stk[i]) < PRIO(stk[j])
             /\ {stk[i] : i \in DOMAIN stk} = isr[v]

\* Remote IRR means what vioapic_write takes it to mean: the interrupt of
\* the pin has not been EOIed.  Some destination has the vector requested or
\* in service and will forward its end, or is forwarding it.  Otherwise
\* nothing would clear the bit, and the pin would be dead.
RemoteIrr ==
    \A p \in Pins : rtbl[p].remirr =>
      \E v \in rtbl[p].dest :
        \/ rtbl[p].vec \in irr[v] \union isr[v]
        \/ pc[v] = "eoi" /\ arg[v] = rtbl[p].vec

\* A level-triggered pin that is asserted and not masked has been sent and
\* not yet EOIed, unless a write of its entry is about to send it: masking,
\* shared lines and ends of interrupt lose no interrupt.
NoLostLevel ==
    \A p \in Pins :
      rtbl[p].level /\ ~ rtbl[p].masked /\ rtbl[p].acnt > 0
        => \/ rtbl[p].remirr
           \/ \E v \in Vcpus : pc[v] \in {"smp", "rdv"} /\ arg[v] = p

\* When no redirection entry is being written, the trigger-mode register of
\* every vcpu reflects the redirection table.
TmrCurrent ==
    (\A v \in Vcpus : pc[v] \notin {"smp", "rdv"})
      => \A v \in Vcpus : tmr[v] = LevelVectors(v)

\* A level-triggered interrupt is only sent to vcpus whose trigger-mode
\* register has its vector, so that the end of interrupt will come back.
SentAsLevel ==
    [][\A p \in Pins : ~ rtbl[p].remirr /\ rtbl'[p].remirr
         => \A v \in rtbl[p].dest : rtbl[p].vec \in tmr[v]]_vars

=============================================================================
