-------------------------------- MODULE Vatpic --------------------------------
(***************************************************************************)
(* The two cascaded 8259 interrupt controllers of src/vmm/io/vatpic.c, the *)
(* devices that drive their pins, and the vcpu that takes their interrupts *)
(* as external interrupts (vmx_inject_interrupts).  Legacy PIC mode: the   *)
(* local APIC passes LINT0 on, so a notification by the master always sets *)
(* extint_pending.                                                         *)
(*                                                                         *)
(* A section under VATPIC_LOCK is one step.  The test of `ready' in        *)
(* vatpic_set_irqstate is outside it, and so is a step of its own; the     *)
(* vcpu asks for the vector and accepts it in two sections.  A vector is   *)
(* the pin it came from (irq_base is only added to it), and the registers  *)
(* a guest reads back are left out.                                        *)
(***************************************************************************)
EXTENDS Integers, FiniteSets

CONSTANTS LevelIrqs,   \* irqs of devices that assert and deassert
          PulseIrqs,   \* irqs of devices that pulse
          Elcs,        \* sets of irqs the guest may make level triggered
          Masks,       \* Masks[c]: the masks the guest writes to chip c
          Ocw2s,       \* Ocw2s[c]: the commands [R, SL, EOI, level]
          Ocw3s,       \* Ocw3s[c]: the commands [ESMM, SMM, RR, P]
          Icw4s,       \* Icw4s[c]: the words [AEOI, SFNM]
          QuietInit    \* the guest initialises only with nothing in flight

VARIABLES pic,         \* struct vatpic: [atpic, elc], and extint_pending of the vcpu
          picVec,      \* the irq whose vector is being injected, or NoVec
          picGo,       \* the device between its test of `ready' and the lock
          picLine,     \* the level irqs whose devices have asserted
          picDropped   \* the irqs with an assertion that was dropped

picVars == <<pic, picVec, picGo, picLine, picDropped>>

NoVec == -1

PicIrqs == LevelIrqs \cup PulseIrqs

\* the pins of a chip that anything is connected to
PicPins(c) == {i % 8 : i \in {j \in PicIrqs : j \div 8 = c}} \cup (IF c = 0 THEN {2} ELSE {})

PicTypeOK ==
  /\ pic.extint \in BOOLEAN
  /\ pic.elc \subseteq PicIrqs
  /\ \A c \in 0 .. 1 :
       LET a == pic.atpic[c]
       IN  /\ a.icw_num \in {0, 1, 2, 3, 4}
           /\ {a.ready, a.aeoi, a.sfn, a.rotate, a.poll, a.smm, a.intr_raised} \subseteq BOOLEAN
           /\ UNION {a.request, a.service, a.mask} \subseteq 0 .. 7
           /\ a.lowprio \in 0 .. 7
           /\ \A p \in PicPins(c) : a.acnt[p] \in -1 .. 2
  /\ picVec \in PicIrqs \cup {NoVec, 7, 15}
  /\ picLine \subseteq LevelIrqs
  /\ picDropped \subseteq PicIrqs

atpic_zero(c) ==
  [ready |-> FALSE, icw_num |-> 0, aeoi |-> FALSE, poll |-> FALSE,
   rotate |-> FALSE, sfn |-> FALSE, smm |-> FALSE, intr_raised |-> FALSE,
   request |-> {}, service |-> {}, mask |-> {}, lowprio |-> 0,
   acnt |-> [p \in PicPins(c) |-> 0]]

\* vatpic_init
PicInit ==
  /\ pic = [atpic |-> [c \in 0 .. 1 |-> atpic_zero(c)], elc |-> {}, extint |-> FALSE]
  /\ picVec = NoVec
  /\ picGo = [op |-> "none", irq |-> 0]
  /\ picLine = {}
  /\ picDropped = {}

-----------------------------------------------------------------------------
(* Priorities.  rank 0 is the highest.                                     *)

ATPIC_PIN_rank(a, p) == (p - a.lowprio - 1) % 8

\* the pin of S that comes first in ATPIC_PIN_FOREACH, -1 if there is none
Highest(a, S) ==
  IF S = {} THEN -1
  ELSE CHOOSE p \in S : \A q \in S : ATPIC_PIN_rank(a, p) <= ATPIC_PIN_rank(a, q)

vatpic_get_highest_isrpin(a) ==
  Highest(a, IF a.smm THEN a.service \ a.mask ELSE a.service)

\* in special mask mode nothing in service counts, in special fully nested
\* mode the slave does not
serviced(a) ==
  IF a.smm THEN {} ELSE IF a.sfn THEN a.service \ {2} ELSE a.service

vatpic_get_highest_irrpin(a) ==
  Highest(a, {p \in a.request \ a.mask :
                \A s \in serviced(a) : ATPIC_PIN_rank(a, p) < ATPIC_PIN_rank(a, s)})

-----------------------------------------------------------------------------
(* Notification and pins, as functions of the state v of both chips.       *)

\* the master's half of vatpic_notify_intr: lapic_set_local_intr, LINT0
notify_master(v) ==
  IF ~v.atpic[0].intr_raised /\ vatpic_get_highest_irrpin(v.atpic[0]) # -1
  THEN [v EXCEPT !.atpic[0].intr_raised = TRUE, !.extint = TRUE]
  ELSE v

\* the counting half of vatpic_set_pinstate
count_pin(v, c, p, newstate) ==
  LET oldcnt == v.atpic[c].acnt[p]
      newcnt == IF newstate THEN oldcnt + 1 ELSE oldcnt - 1
      level == c * 8 + p \in v.elc
      request == v.atpic[c].request
  IN  [v EXCEPT
        !.atpic[c].acnt[p] = newcnt,
        !.atpic[c].request =
          IF (oldcnt = 0 /\ newcnt = 1) \/ (newcnt > 0 /\ level)
          THEN request \cup {p}
          ELSE IF oldcnt = 1 /\ newcnt = 0 /\ level THEN request \ {p} ELSE request]

\* The slave first: its request is a pulse on the master's pin 2.  The two
\* notifications nested in that pulse find the slave marked, and so are the
\* master's half only.
vatpic_notify_intr(v) ==
  LET slave == v.atpic[1]
  IN  IF ~slave.intr_raised /\ vatpic_get_highest_irrpin(slave) # -1
      THEN LET v1 == [v EXCEPT !.atpic[1].intr_raised = TRUE]
               v2 == notify_master(count_pin(v1, 0, 2, TRUE))
               v3 == notify_master(count_pin(v2, 0, 2, FALSE))
           IN  notify_master(v3)
      ELSE notify_master(v)

vatpic_set_pinstate(v, irq, newstate) ==
  vatpic_notify_intr(count_pin(v, irq \div 8, irq % 8, newstate))

\* mutant: the pin is taken from the requests although it is still asserted
pin_accepted_drop(v, c, p) ==
  LET a == v.atpic[c]
  IN  [v EXCEPT !.atpic[c] =
        [a EXCEPT !.intr_raised = FALSE,
                  !.request = @ \ {p},
                  !.lowprio = IF a.aeoi /\ a.rotate THEN p ELSE @,
                  !.service = IF a.aeoi THEN @ ELSE @ \cup {p}]]

vatpic_pin_accepted(v, c, p) ==
  LET a == v.atpic[c]
  IN  [v EXCEPT !.atpic[c] =
        [a EXCEPT !.intr_raised = FALSE,
                  !.request = IF p \in PicPins(c) /\ a.acnt[p] # 0 THEN @ ELSE @ \ {p},
                  !.lowprio = IF a.aeoi /\ a.rotate THEN p ELSE @,
                  !.service = IF a.aeoi THEN @ ELSE @ \cup {p}]]

-----------------------------------------------------------------------------
(* Devices.                                                                *)

\* vatpic_assert_irq, vatpic_deassert_irq, vatpic_pulse_irq, up to the lock
Device(op, irq) ==
  /\ picGo.op = "none"
  /\ \/ op = "assert" /\ irq \in LevelIrqs \ picLine /\ picLine' = picLine \cup {irq}
     \/ op = "deassert" /\ irq \in picLine /\ picLine' = picLine \ {irq}
     \/ op = "pulse" /\ irq \in PulseIrqs /\ UNCHANGED picLine
  /\ IF pic.atpic[irq \div 8].ready
     THEN picGo' = [op |-> op, irq |-> irq] /\ UNCHANGED picDropped
     ELSE /\ op # "pulse" => irq \notin picDropped  \* bound: one is dropped
          /\ picDropped' = IF op = "pulse" THEN picDropped ELSE picDropped \cup {irq}
          /\ UNCHANGED picGo
  /\ UNCHANGED <<pic, picVec>>

\* the locked part of vatpic_set_irqstate
vatpic_set_irqstate ==
  /\ picGo.op # "none"
  /\ pic' = IF picGo.op = "pulse"
            THEN vatpic_set_pinstate(vatpic_set_pinstate(pic, picGo.irq, TRUE), picGo.irq, FALSE)
            ELSE vatpic_set_pinstate(pic, picGo.irq, picGo.op = "assert")
  /\ picGo' = [op |-> "none", irq |-> 0]
  /\ UNCHANGED <<picVec, picLine, picDropped>>

-----------------------------------------------------------------------------
(* The vcpu, between its test of extint_pending and its entry.             *)

\* spurious: pin 7 of the chip that has nothing
vatpic_pending_intr ==
  /\ pic.extint
  /\ picVec = NoVec
  /\ LET m == vatpic_get_highest_irrpin(pic.atpic[0])
         s == vatpic_get_highest_irrpin(pic.atpic[1])
     IN  picVec' = IF m = -1 THEN 7 ELSE IF m # 2 THEN m
                   ELSE IF s = -1 THEN 15 ELSE 8 + s
  /\ UNCHANGED <<pic, picGo, picLine, picDropped>>

\* vm_extint_clear, then the vector is accepted and the next one notified
vatpic_intr_accepted ==
  /\ picVec # NoVec
  /\ LET v == [pic EXCEPT !.extint = FALSE]
     IN  pic' = vatpic_notify_intr(
                  IF picVec >= 8
                  THEN vatpic_pin_accepted(vatpic_pin_accepted(v, 1, picVec - 8), 0, 2)
                  ELSE vatpic_pin_accepted(v, 0, picVec))
  /\ picVec' = NoVec
  /\ UNCHANGED <<picGo, picLine, picDropped>>

-----------------------------------------------------------------------------
(* The guest's port accesses: each ends in a notification, if the chip is  *)
(* ready.                                                                  *)

\* chip c becomes a
vatpic_write(c, a) ==
  LET v == [pic EXCEPT !.atpic[c] = a]
  IN  /\ pic' = IF a.ready THEN vatpic_notify_intr(v) ELSE v
      /\ UNCHANGED <<picVec, picGo, picLine, picDropped>>

\* A guest initialises one chip after the other and makes no other access
\* meanwhile; if QuietInit, it does so with nothing notified or in service.
GuestMayAccess(c) == pic.atpic[1 - c].icw_num \in {0, 1}

GuestMayInit(c) ==
  /\ GuestMayAccess(c)
  /\ QuietInit => \A d \in 0 .. 1 : ~pic.atpic[d].intr_raised /\ pic.atpic[d].service = {}

\* ICW1 with cascade and ICW4; neither what is in service, nor intr_raised,
\* nor the counts change
vatpic_icw1(c) ==
  /\ GuestMayInit(c)
  /\ vatpic_write(c, [pic.atpic[c] EXCEPT
       !.ready = FALSE, !.icw_num = 2, !.request = {}, !.mask = {},
       !.lowprio = 7, !.poll = FALSE, !.smm = FALSE])

\* ICW1 that asks for a single chip, or for no ICW4, is refused
vatpic_icw1_refused(c) ==
  /\ GuestMayInit(c)
  /\ vatpic_write(c, [pic.atpic[c] EXCEPT
       !.ready = FALSE, !.icw_num = 1, !.request = {}, !.mask = {},
       !.lowprio = 7, !.poll = FALSE, !.smm = FALSE])

\* vatpic_icw2, vatpic_icw3
vatpic_icw23(c) ==
  /\ pic.atpic[c].icw_num \in {2, 3}
  /\ vatpic_write(c, [pic.atpic[c] EXCEPT !.icw_num = @ + 1])

\* special fully nested mode is ignored on the slave
vatpic_icw4(c, w) ==
  /\ pic.atpic[c].icw_num = 4
  /\ vatpic_write(c, [pic.atpic[c] EXCEPT
       !.aeoi = @ \/ w.AEOI, !.sfn = @ \/ (w.SFNM /\ c = 0),
       !.icw_num = 0, !.ready = TRUE])

vatpic_ocw1(c, mask) ==
  /\ pic.atpic[c].icw_num \in {0, 1} /\ GuestMayAccess(c)
  /\ vatpic_write(c, [pic.atpic[c] EXCEPT !.mask = mask])

\* end of interrupt, rotation, priorities
vatpic_ocw2(c, w) ==
  LET a == pic.atpic[c]
      isr_bit == IF w.SL THEN w.level ELSE vatpic_get_highest_isrpin(a)
  IN  /\ a.ready /\ GuestMayAccess(c)
      /\ vatpic_write(c, [a EXCEPT
           !.rotate = w.R,
           !.service = IF w.EOI THEN @ \ {isr_bit} ELSE @,
           !.lowprio = IF w.EOI /\ w.R /\ isr_bit # -1 THEN isr_bit
                       ELSE IF ~w.EOI /\ w.SL /\ w.R THEN w.level ELSE @])

\* special mask mode, poll
vatpic_ocw3(c, w) ==
  LET a == pic.atpic[c]
  IN  /\ a.ready /\ GuestMayAccess(c)
      /\ vatpic_write(c, [a EXCEPT !.smm = IF w.ESMM THEN w.SMM ELSE @,
                                   !.poll = IF w.RR THEN w.P ELSE @])

\* a guest that polls the master takes the slave's interrupts from the slave
GuestMayPoll(c) == c = 1 \/ 2 \notin pic.atpic[0].request

\* a read in poll mode accepts a request; nothing is notified
vatpic_read(c) ==
  LET a == pic.atpic[c]
      pin == vatpic_get_highest_irrpin(a)
      v == [pic EXCEPT !.atpic[c].poll = FALSE]
  IN  /\ a.poll /\ GuestMayAccess(c) /\ GuestMayPoll(c)
      /\ pic' = IF pin >= 0 THEN vatpic_pin_accepted(v, c, pin) ELSE v
      /\ UNCHANGED <<picVec, picGo, picLine, picDropped>>

\* IRQs 0, 1, 2, 8 and 13 stay edge triggered; vatpic_set_irq_trigger does
\* the same for one irq
vatpic_elc_handler(elc) ==
  /\ pic' = [pic EXCEPT !.elc = elc \ {0, 1, 2, 8, 13}]
  /\ UNCHANGED <<picVec, picGo, picLine, picDropped>>

-----------------------------------------------------------------------------

Guest ==
  \E c \in 0 .. 1 :
    \/ vatpic_icw1(c)
    \/ vatpic_icw1_refused(c)
    \/ vatpic_icw23(c)
    \/ \E w \in Icw4s[c] : vatpic_icw4(c, w)
    \/ \E mask \in Masks[c] : vatpic_ocw1(c, mask)
    \/ \E w \in Ocw2s[c] : vatpic_ocw2(c, w)
    \/ \E w \in Ocw3s[c] : vatpic_ocw3(c, w)
    \/ vatpic_read(c)

PicNext ==
  \/ \E op \in {"assert", "deassert", "pulse"}, irq \in PicIrqs : Device(op, irq)
  \/ vatpic_set_irqstate
  \/ vatpic_pending_intr
  \/ vatpic_intr_accepted
  \/ Guest
  \/ \E elc \in Elcs : vatpic_elc_handler(elc)

PicSpec == PicInit /\ [][PicNext]_picVars

-----------------------------------------------------------------------------

\* the pins with an interrupt the vcpu should be told of
eligible(c) == vatpic_get_highest_irrpin(pic.atpic[c]) # -1

(***************************************************************************)
(* A chip never goes quiet with an interrupt to deliver: while the master  *)
(* has an eligible request an external interrupt is pending at the vcpu or *)
(* being injected, and a request of the slave that was cascaded is still   *)
(* requested or in service at the master's pin 2.  intr_raised, which      *)
(* suppresses notifications, is always going to be cleared.                *)
(***************************************************************************)
NeverQuiet ==
  (\A c \in 0 .. 1 : pic.atpic[c].ready) =>
    /\ eligible(0) => pic.extint \/ picVec # NoVec
    /\ eligible(1) => pic.atpic[1].intr_raised
    /\ pic.atpic[1].intr_raised =>
         2 \in pic.atpic[0].request \cup pic.atpic[0].service \/ picVec >= 8

(***************************************************************************)
(* Pin counts follow the devices: unless an assertion or deassertion was   *)
(* dropped because the chip was not initialised, acnt is 1 while the line  *)
(* is up and 0 while it is down; and a line that is up stays requested,    *)
(* however often its interrupt is accepted and ended.                      *)
(***************************************************************************)
CountsFollowLines ==
  \A i \in LevelIrqs \ picDropped :
    picGo.irq # i \/ picGo.op = "none" =>
      LET a == pic.atpic[i \div 8] IN
      /\ a.acnt[i % 8] = (IF i \in picLine THEN 1 ELSE 0)
      /\ a.ready /\ i \in picLine => i % 8 \in a.request
=============================================================================
