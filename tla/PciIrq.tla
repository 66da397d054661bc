-------------------------------- MODULE PciIrq --------------------------------
(***************************************************************************)
(* Legacy PCI interrupts: the pin of a device and its state (pci_emul.c),  *)
(* the PIRQ router in front of the 8259A (pci_irq.c, programmed through    *)
(* pci_lpc.c) and the I/O APIC pin (ioapic.c).  A device asserts and       *)
(* deasserts its pin from its own thread; the guest masks pins, turns on   *)
(* MSI and reprograms the router meanwhile.  A write to the configuration  *)
(* space stores its flag first and brings the pin up to date after that,   *)
(* so two CPUs may overlap in it.  The lines of the two controllers are    *)
(* the counts that module Vatpic and the I/O APIC keep per pin.            *)
(***************************************************************************)
EXTENDS Integers, Sequences, FiniteSets, SequencesExt

CONSTANTS Devices,      \* sequence of [name, slot], in the order of pci_init
          NPirqs,       \* number of PIRQ pins
          PciPins,      \* I/O APIC pins beyond the first 16
          Flags,        \* what can mask a pin: among msi, msix, intxdis
          Regs,         \* values the guest writes to a PIRQ register
          MaxWrites     \* bound: configuration writes in progress per device

VARIABLES pciDev,       \* per device: want, state, masks, writes in progress
          pciPirq,      \* per pin: reg, active_count
          pciPic,       \* per IRQ: asserts less deasserts at the 8259A
          pciIoapic     \* per pin: asserts less deasserts at the I/O APIC

pciVars == <<pciDev, pciPirq, pciPic, pciIoapic>>

PIRQ_DIS == 128

PERMITTED_IRQS == (3 .. 7) \cup (9 .. 12) \cup (14 .. 15)

pirq_valid_irq(reg) == reg < PIRQ_DIS /\ reg \in PERMITTED_IRQS

\* pci_irq_reserve of the two serial ports and pci_irq_use of the SCI
IRQ_DISABLED == 255

irq_counts ==
  [i \in 0 .. 15 |-> IF i \notin PERMITTED_IRQS \/ i \in {3, 4} THEN IRQ_DISABLED
                     ELSE IF i = 9 THEN 1 ELSE 0]

-----------------------------------------------------------------------------
(* Pins and their routes, assigned when the machine is put together.       *)

\* the first of the least used
least(S, count) == CHOOSE i \in S : \A j \in S : count[i] < count[j] \/ (count[i] = count[j] /\ i <= j)

\* [pin, used]: the pin of each device so far, and the counts of each slot
pci_lintr_request(acc, d) ==
  LET pin == least(0 .. 3, acc.used[d.slot])
  IN  [pin |-> Append(acc.pin, pin), used |-> [acc.used EXCEPT ![d.slot][pin] = @ + 1]]

PciSlots == {Devices[i].slot : i \in DOMAIN Devices}

intpin == FoldLeft(pci_lintr_request,
                   [pin |-> <<>>, used |-> [s \in PciSlots |-> [p \in 0 .. 3 |-> 0]]], Devices).pin

\* [use, reg, counts, pirq]: pirq is the pin chosen
pirq_alloc_pin(r) ==
  LET pin == least(1 .. NPirqs, r.use)
      irq == least({i \in 0 .. 15 : r.counts[i] # IRQ_DISABLED}, r.counts)
  IN  IF r.reg[pin] = PIRQ_DIS
      THEN [r EXCEPT !.use[pin] = @ + 1, !.pirq = pin, !.reg[pin] = irq, !.counts[irq] = @ + 1]
      ELSE [r EXCEPT !.use[pin] = @ + 1, !.pirq = pin]

\* route[<<slot, pin>>]: what the pin of a slot is wired to; last_pin counts
\* the I/O APIC pins handed out
pci_lintr_route(r, k) ==
  LET s == <<Devices[k].slot, intpin[k]>>
      a == pirq_alloc_pin(r)
  IN  IF s \in DOMAIN r.route THEN r
      ELSE [a EXCEPT !.route = [t \in DOMAIN r.route \cup {s} |->
                                  IF t = s THEN [ioapic |-> 16 + (r.last_pin % PciPins), pirq |-> a.pirq]
                                  ELSE r.route[t]],
                     !.last_pin = @ + 1]

Routed ==
  FoldLeft(pci_lintr_route,
           [use |-> [p \in 1 .. NPirqs |-> 0], reg |-> [p \in 1 .. NPirqs |-> PIRQ_DIS],
            counts |-> irq_counts, pirq |-> 0, last_pin |-> 0, route |-> [t \in {} |-> 0]],
           [k \in DOMAIN Devices |-> k])

route(k) == Routed.route[<<Devices[k].slot, intpin[k]>>]

PciInit ==
  /\ pciDev = [k \in DOMAIN Devices |->
                 [want |-> FALSE, state |-> "IDLE", msi |-> FALSE, msix |-> FALSE,
                  intxdis |-> FALSE, writes |-> 0]]
  /\ pciPirq = [p \in 1 .. NPirqs |-> [reg |-> Routed.reg[p], active_count |-> 0]]
  /\ pciPic = [i \in 0 .. 15 |-> 0]
  /\ pciIoapic = [i \in 16 .. 15 + PciPins |-> 0]

PciTypeOK ==
  /\ \A k \in DOMAIN Devices :
       /\ pciDev[k].state \in {"IDLE", "ASSERTED", "PENDING"}
       /\ pciDev[k].writes \in 0 .. MaxWrites
  /\ \A p \in 1 .. NPirqs : pciPirq[p].active_count \in 0 .. Len(Devices)
  /\ \A i \in 0 .. 15 : pciPic[i] \in 0 .. NPirqs
  /\ \A i \in DOMAIN pciIoapic : pciIoapic[i] \in 0 .. Len(Devices)

-----------------------------------------------------------------------------
pci_lintr_permitted(d) == ~(d.msi \/ d.msix \/ d.intxdis)

\* pci_irq_assert: the device that raises a PIRQ raises its IRQ, and every
\* device its I/O APIC pin
pci_irq_assert(k) ==
  LET p == route(k).pirq
      reg == pciPirq[p].reg
      first == pciPirq[p].active_count = 0 /\ pirq_valid_irq(reg)
  IN  /\ pciPirq' = [pciPirq EXCEPT ![p].active_count = @ + 1]
      /\ pciPic' = IF first THEN [pciPic EXCEPT ![reg] = @ + 1] ELSE pciPic
      /\ pciIoapic' = [pciIoapic EXCEPT ![route(k).ioapic] = @ + 1]

pci_irq_deassert(k) ==
  LET p == route(k).pirq
      reg == pciPirq[p].reg
      last == pciPirq[p].active_count = 1 /\ pirq_valid_irq(reg)
  IN  /\ pciPirq' = [pciPirq EXCEPT ![p].active_count = @ - 1]
      /\ pciPic' = IF last THEN [pciPic EXCEPT ![reg] = @ - 1] ELSE pciPic
      /\ pciIoapic' = [pciIoapic EXCEPT ![route(k).ioapic] = @ - 1]

NoLine == UNCHANGED <<pciPirq, pciPic, pciIoapic>>

pci_lintr_assert(k) ==
  LET d == pciDev[k]
      s == CASE d.state # "IDLE" -> d.state
             [] pci_lintr_permitted(d) -> "ASSERTED"
             [] OTHER -> "PENDING"
  IN  /\ pciDev' = [pciDev EXCEPT ![k].want = TRUE, ![k].state = s]
      /\ IF d.state = "IDLE" /\ s = "ASSERTED" THEN pci_irq_assert(k) ELSE NoLine

pci_lintr_deassert(k) ==
  /\ pciDev' = [pciDev EXCEPT ![k].want = FALSE, ![k].state = "IDLE"]
  /\ IF pciDev[k].state = "ASSERTED" THEN pci_irq_deassert(k) ELSE NoLine

\* msicap_cfgwrite, msixcap_cfgwrite and pci_emul_cmdsts_write, up to their
\* call of pci_lintr_update
mask_write(k, flag, value) ==
  /\ pciDev[k].writes < MaxWrites
  /\ pciDev' = [pciDev EXCEPT ![k][flag] = value, ![k].writes = @ + 1]
  /\ NoLine

\* mutant: an interrupt that waited is forgotten when it may be raised
lintr_update_forget(k) ==
  LET d == [pciDev[k] EXCEPT !.writes = @ - 1]
  IN  /\ pciDev[k].writes > 0
      /\ pciDev' = [pciDev EXCEPT ![k] = IF d.state = "ASSERTED" /\ ~pci_lintr_permitted(d)
                                         THEN [d EXCEPT !.state = "PENDING"] ELSE d]
      /\ IF d.state = "ASSERTED" /\ ~pci_lintr_permitted(d) THEN pci_irq_deassert(k) ELSE NoLine

pci_lintr_update(k) ==
  LET d == [pciDev[k] EXCEPT !.writes = @ - 1]
      mask == d.state = "ASSERTED" /\ ~pci_lintr_permitted(d)
      unmask == d.state = "PENDING" /\ pci_lintr_permitted(d)
  IN  /\ pciDev[k].writes > 0
      /\ pciDev' = [pciDev EXCEPT ![k] = CASE mask -> [d EXCEPT !.state = "PENDING"]
                                           [] unmask -> [d EXCEPT !.state = "ASSERTED"]
                                           [] OTHER -> d]
      /\ CASE mask -> pci_irq_deassert(k)
           [] unmask -> pci_irq_assert(k)
           [] OTHER -> NoLine

\* pirq_write: the IRQ that was active is lowered, the new one raised
pirq_write(p, reg) ==
  LET old == pciPirq[p]
      down(pic) == IF old.active_count # 0 /\ pirq_valid_irq(old.reg)
                   THEN [pic EXCEPT ![old.reg] = @ - 1] ELSE pic
      up(pic) == IF old.active_count # 0 /\ pirq_valid_irq(reg)
                 THEN [pic EXCEPT ![reg] = @ + 1] ELSE pic
  IN  /\ old.reg # reg
      /\ pciPirq' = [pciPirq EXCEPT ![p].reg = reg]
      /\ pciPic' = up(down(pciPic))
      /\ UNCHANGED <<pciDev, pciIoapic>>

PciNext ==
  \/ \E k \in DOMAIN Devices :
       \/ pci_lintr_assert(k) \/ pci_lintr_deassert(k) \/ pci_lintr_update(k)
       \/ \E flag \in Flags, value \in BOOLEAN : mask_write(k, flag, value)
  \/ \E p \in 1 .. NPirqs, reg \in Regs : pirq_write(p, reg)

PciSpec == PciInit /\ [][PciNext]_pciVars

-----------------------------------------------------------------------------
\* the devices that drive PIRQ pin p, and those that drive I/O APIC pin i
Drivers(p) == {k \in DOMAIN Devices : pciDev[k].state = "ASSERTED" /\ route(k).pirq = p}

(***************************************************************************)
(* The two controllers see what the devices say.  The count at an IRQ of   *)
(* the 8259A is the number of active PIRQ pins the router sends there, the *)
(* count at an I/O APIC pin the number of devices that assert it, whatever *)
(* was rerouted while it was active: no IRQ stays up for ever, and no      *)
(* device's interrupt is taken down by another's.                          *)
(***************************************************************************)
RouterBalanced ==
  /\ \A p \in 1 .. NPirqs : pciPirq[p].active_count = Cardinality(Drivers(p))
  /\ \A i \in 0 .. 15 :
       pciPic[i] = Cardinality({p \in 1 .. NPirqs : /\ Drivers(p) # {}
                                                    /\ pirq_valid_irq(pciPirq[p].reg)
                                                    /\ pciPirq[p].reg = i})
  /\ \A i \in DOMAIN pciIoapic :
       pciIoapic[i] = Cardinality({k \in DOMAIN Devices : /\ pciDev[k].state = "ASSERTED"
                                                          /\ route(k).ioapic = i})

(***************************************************************************)
(* No interrupt is lost over a mask: when no configuration write of a      *)
(* device is in progress, its pin is asserted if the device wants it and   *)
(* it is permitted, and remembered if it is not.                           *)
(***************************************************************************)
MaskRemembers ==
  \A k \in DOMAIN Devices :
    pciDev[k].writes = 0 =>
      pciDev[k].state = CASE ~pciDev[k].want -> "IDLE"
                          [] pci_lintr_permitted(pciDev[k]) -> "ASSERTED"
                          [] OTHER -> "PENDING"
=============================================================================
