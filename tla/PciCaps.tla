------------------------------- MODULE PciCaps -------------------------------
(***************************************************************************)
(* The capabilities of a PCI function (src/pci_emul.c): how a device's     *)
(* pe_init builds the list, what a guest's write of a capability changes   *)
(* in configuration space and in pi_msi and pi_msix, the MSI-X table, and  *)
(* the messages that go out.                                               *)
(*                                                                         *)
(* Configuration space from CAP_START_OFFSET on is modelled byte by byte   *)
(* with the real layout, a byte being the set of its bits; a write carries *)
(* zeros or ones.  The MSI-X table is modelled by its dwords.              *)
(***************************************************************************)
EXTENDS Integers, Sequences, FiniteSets

CONSTANTS CapKinds,        \* lists of capabilities a device may ask for
          PciRegMax,       \* PCI_REGMAX
          CapWidths,       \* the sizes of a guest's writes, of 1, 2 and 4
          MsixCount,       \* pi_msix.table_count
          ByteControl,     \* may a guest write half of a control register?
          Unmasked         \* may a guest change an MSI message while it is on?

VARIABLE cp

CapStart == 64
Cfg == CapStart .. PciRegMax
Byte == 0 .. 7
Cells == 0 .. 3            \* address low and high, data, vector control

PCIY == [msi |-> 5, pcie |-> 16, msix |-> 17]
Length == [msi |-> 14, msix |-> 12, pcie |-> 60]

\* a number below 256 as its bits, and back where it is a pointer or an id
BitsOf(v) == {b \in Byte : (v \div (2 ^ b)) % 2 = 1}
Value(bits) == LET w(b) == IF b \in bits THEN 2 ^ b ELSE 0
               IN  w(0) + w(1) + w(2) + w(3) + w(4) + w(5) + w(6) + w(7)

roundup4(n) == ((n + 3) \div 4) * 4

CapInit ==
  \E todo \in CapKinds :
    cp = [todo |-> todo, added |-> <<>>, failed |-> FALSE, present |-> FALSE,
          prevcap |-> 0, capend |-> 0, cfg |-> [o \in Cfg |-> {}],
          msi |-> [enabled |-> FALSE, addr |-> {}, data |-> {}, max |-> 0],
          msix |-> [enabled |-> FALSE, mask |-> FALSE],
          table |-> [e \in 0 .. MsixCount - 1 |-> [c \in Cells |-> IF c = 3 THEN 1 ELSE 0]],
          sent |-> {}]

-----------------------------------------------------------------------------
\* Building the list

\* what pci_populate_msicap and pci_populate_msixcap put into byte i of a new
\* capability: the id, and in the control register the 64-bit flag or the
\* table size
capdata(kind, i) ==
  CASE i = 0 -> BitsOf(PCIY[kind])
    [] i = 2 /\ kind = "msi" -> {7}
    [] i = 2 /\ kind = "msix" -> BitsOf(MsixCount - 1)
    [] i = 2 /\ kind = "pcie" -> {1, 6}
    [] OTHER -> {}

\* a capability takes whole dwords
reallen(kind) == roundup4(Length[kind])

\* pci_emul_add_capability: refused if there is not enough space
add_capability ==
  LET kind == Head(cp.todo)
      capoff == IF cp.present THEN cp.capend + 1 ELSE CapStart
      inside == capoff .. capoff + Length[kind] - 1
  IN  /\ cp.todo # <<>>
      /\ IF capoff + reallen(kind) > PciRegMax + 1
         THEN cp' = [cp EXCEPT !.todo = Tail(@), !.failed = TRUE]
         ELSE cp' = [cp EXCEPT
                !.todo = Tail(@),
                !.added = Append(@, [kind |-> kind, off |-> capoff]),
                !.present = TRUE, !.prevcap = capoff, !.capend = capoff + reallen(kind) - 1,
                !.cfg = [o \in Cfg |->
                           IF o \in inside THEN capdata(kind, o - capoff)
                           ELSE IF cp.present /\ o = cp.prevcap + 1 THEN BitsOf(capoff)
                           ELSE cp.cfg[o]]]

-----------------------------------------------------------------------------
\* A write of a capability

\* CFGWRITE
cfgwrite(s, off, bytes, val) ==
  [s EXCEPT !.cfg = [o \in Cfg |-> IF o \in off .. off + bytes - 1 THEN val ELSE s.cfg[o]]]

\* the bits of mask from val, the others as they are
merge(byte, mask, val) == (byte \ mask) \cup (val \cap mask)

\* mutant: the read-only bits of the control register are not kept
msi_control_plain(byte, val) == val

\* the low byte of the MSI control register: enable and the number of messages
msi_control(byte, val) == merge(byte, {0, 4, 5, 6}, val)

\* msicap_cfgwrite: a write of the control register takes over the message
msicap_cfgwrite(s, capoff, off, bytes, val) ==
  LET ctl == msi_control(s.cfg[off], val)
      on == 0 \in ctl
  IN  IF off - capoff = 2 /\ bytes = 2
      THEN [s EXCEPT !.cfg[off] = ctl,
                     !.msi = IF on
                             THEN [enabled |-> TRUE, addr |-> s.cfg[capoff + 4],
                                   data |-> s.cfg[capoff + (IF 7 \in ctl THEN 12 ELSE 8)],
                                   max |-> 2 ^ (Value(ctl \cap {4, 5, 6}) \div 16)]
                             ELSE [@ EXCEPT !.enabled = FALSE, !.max = 0]]
      ELSE cfgwrite(s, off, bytes, val)

\* msixcap_cfgwrite: enable and function mask are in the high byte
msixcap_cfgwrite(s, capoff, off, bytes, val) ==
  LET ctl == merge(s.cfg[off + 1], {6, 7}, val)
  IN  IF off - capoff = 2 /\ bytes = 2
      THEN [s EXCEPT !.cfg[off + 1] = ctl,
                     !.msix = [enabled |-> 7 \in ctl, mask |-> 6 \in ctl]]
      ELSE cfgwrite(s, off, bytes, val)

\* the loop of pci_emul_capwrite: from capoff on, the capability that off is in
RECURSIVE find_cap(_, _, _)
find_cap(s, capoff, off) ==
  LET next == Value(s.cfg[capoff + 1])
  IN  IF next = 0 \/ (off >= capoff /\ off < next) THEN capoff
      ELSE find_cap(s, next, off)

\* the part of a write that is not the id and the pointer, or nothing
trimmed(capoff, off, bytes) ==
  IF off \notin {capoff, capoff + 1} THEN [off |-> off, bytes |-> bytes]
  ELSE IF off = capoff /\ bytes = 4 THEN [off |-> off + 2, bytes |-> 2]
  ELSE [off |-> off, bytes |-> 0]

\* pci_emul_capwrite, for an offset that pci_emul_iscap accepts
pci_emul_capwrite(s, off, bytes, val) ==
  LET capoff == find_cap(s, CapStart, off)
      t == trimmed(capoff, off, bytes)
      id == Value(s.cfg[capoff])
  IN  IF off % bytes # 0 \/ t.bytes = 0 THEN s
      ELSE CASE id = PCIY.msi -> msicap_cfgwrite(s, capoff, t.off, t.bytes, val)
             [] id = PCIY.msix -> msixcap_cfgwrite(s, capoff, t.off, t.bytes, val)
             [] id = PCIY.pcie -> cfgwrite(s, t.off, t.bytes, val)
             [] OTHER -> s

\* pci_emul_iscap
pci_emul_iscap(s, off) == s.present /\ off \in CapStart .. s.capend

\* where a capability of this kind is, if there is one
Has(s, kind) == {c.off : c \in {s.added[i] : i \in {j \in DOMAIN s.added : s.added[j].kind = kind}}}

\* the guest writes its control registers whole, and an MSI message only
\* while MSI is off
careful(s, off, bytes) ==
  /\ ~ByteControl => ~(bytes = 1 /\ \E c \in Has(s, "msi") \cup Has(s, "msix") : off - c \in {2, 3})
  /\ ~Unmasked => ~(s.msi.enabled /\ \E c \in Has(s, "msi") : off - c \in 4 .. 13)

Offered(s) == {o \in Cfg : pci_emul_iscap(s, o)}

\* the writes that matter to a driver: control registers and messages
Interesting(s) ==
  UNION {{c, c + 2, c + 3, c + 4, c + 12} : c \in Has(s, "msi")}
    \cup UNION {{c, c + 2, c + 3} : c \in Has(s, "msix")}

guest_writes_cap(off, bytes, val) ==
  /\ cp.todo = <<>>
  /\ pci_emul_iscap(cp, off)
  /\ careful(cp, off, bytes)
  /\ cp' = [pci_emul_capwrite(cp, off, bytes, val) EXCEPT !.sent = {}]

-----------------------------------------------------------------------------
\* The MSI-X table

\* pci_emul_msix_twrite, offsets in dwords of the table: four or eight bytes,
\* aligned, and inside the table
msix_twrite(table, off, size, val) ==
  LET e == off \div 16
      first == (off % 16) \div 4
  IN  IF size \notin {4, 8} \/ e >= MsixCount \/ (off % 16) % size # 0 THEN table
      ELSE [table EXCEPT ![e] = [c \in Cells |->
              IF c \in first .. first + (size \div 4) - 1 THEN val ELSE @[c]]]

\* pci_emul_msix_tread of a dword: the table, zero in the pending bits, which
\* lie behind the page of the table, else ones
msix_tread(table, off) ==
  IF off % 4 # 0 THEN -1
  ELSE IF off \div 16 < MsixCount THEN table[off \div 16][(off % 16) \div 4]
  ELSE IF off \in 4096 .. 4096 + (((MsixCount + 63) \div 64) * 8) - 1 THEN 0
  ELSE -1

guest_writes_table(off, size, val) ==
  /\ cp.todo = <<>> /\ Has(cp, "msix") # {}
  /\ cp' = [cp EXCEPT !.table = msix_twrite(@, off, size, val), !.sent = {}]

\* pci_msix_enabled: MSI wins
pci_msix_enabled(s) == s.msix.enabled /\ ~s.msi.enabled

\* pci_generate_msix sends: on, not masked as a whole, the entry exists and is
\* not masked
deliverable(s, index) ==
  /\ pci_msix_enabled(s)
  /\ ~s.msix.mask
  /\ index < MsixCount
  /\ s.table[index][3] = 0

pci_generate_msix(index) ==
  /\ cp.todo = <<>>
  /\ cp' = [cp EXCEPT !.sent = IF deliverable(cp, index)
                               THEN {[kind |-> "msix", index |-> index,
                                      addr |-> cp.table[index][0], data |-> cp.table[index][2]]}
                               ELSE {}]

\* pci_generate_msi: from what was taken over when MSI was turned on
pci_generate_msi(index) ==
  /\ cp.todo = <<>>
  /\ cp' = [cp EXCEPT !.sent = IF cp.msi.enabled /\ index < cp.msi.max
                               THEN {[kind |-> "msi", index |-> index,
                                      addr |-> cp.msi.addr, data |-> cp.msi.data]}
                               ELSE {}]

CapNext ==
  \/ add_capability
  \/ \E off \in Interesting(cp), bytes \in CapWidths, val \in {{}, Byte} :
       guest_writes_cap(off, bytes, val)
  \/ \E off \in {4 * k : k \in {0, 2, 3, 4 * MsixCount}}, size \in {4, 8}, val \in {0, 1} :
       guest_writes_table(off, size, val)
  \/ \E index \in 0 .. MsixCount : pci_generate_msix(index) \/ pci_generate_msi(index)

CapSpec == CapInit /\ [][CapNext]_cp

-----------------------------------------------------------------------------
CapTypeOK ==
  /\ cp.cfg \in [Cfg -> SUBSET Byte]
  /\ cp.capend \in {0} \cup Cfg
  /\ cp.msi.max \in 0 .. 128

\* Following the pointers from s on, at most n of them
RECURSIVE Chain(_, _, _)
Chain(s, off, n) ==
  IF n = 0 \/ off = 0 THEN <<>>
  ELSE <<[id |-> Value(s.cfg[off]), off |-> off]>> \o Chain(s, Value(s.cfg[off + 1]), n - 1)

Intended(s) == [i \in DOMAIN s.added |-> [id |-> PCIY[s.added[i].kind], off |-> s.added[i].off]]

\* The list of capabilities is what the device built and stays so: no write of
\* any offset, size and value the guest can make now changes an id or a
\* pointer, so that pci_emul_capwrite finds its way through the list every
\* time, and it stops; a capability there was no space for left the list as it
\* was (pci_emul.c:661-699, 965-991)
ChainKept ==
  cp.present =>
    /\ Chain(cp, CapStart, 8) = Intended(cp)
    /\ \A off \in Offered(cp), bytes \in {1, 2, 4}, val \in {{}, Byte} :
         (off % bytes = 0) =>
           LET a == pci_emul_capwrite(cp, off, bytes, val)
           IN  \A i \in DOMAIN cp.added :
                 \A k \in {0, 1} : a.cfg[cp.added[i].off + k] = cp.cfg[cp.added[i].off + k]

\* The device and the guest agree on what is turned on: the enable and mask
\* bits that configuration space shows are those that pci_generate_msi and
\* pci_generate_msix go by, the bits a guest may not change keep the 64-bit
\* flag and the table size, and while MSI is on the message is the one in the
\* capability (pci_emul.c:855-917)
ControlFollows ==
  /\ \A c \in Has(cp, "msi") :
       /\ cp.msi.enabled <=> 0 \in cp.cfg[c + 2]
       /\ cp.cfg[c + 2] \ {0, 4, 5, 6} = {7}
       /\ cp.msi.enabled => cp.msi.addr = cp.cfg[c + 4] /\ cp.msi.data = cp.cfg[c + 12]
  /\ \A c \in Has(cp, "msix") :
       /\ cp.msix.enabled <=> 7 \in cp.cfg[c + 3]
       /\ cp.msix.mask <=> 6 \in cp.cfg[c + 3]
       /\ cp.cfg[c + 2] = BitsOf(MsixCount - 1)

\* A message that goes out is one the guest asked for: MSI-X is on and MSI is
\* not, neither the function nor the entry is masked, and address and data are
\* the entry's, as the guest reads them in the table
\* (pci_emul.c:247-325, 1450-1476)
MessageFromTable ==
  \A m \in cp.sent : m.kind = "msix" =>
    /\ \A c \in Has(cp, "msix") : 7 \in cp.cfg[c + 3] /\ 6 \notin cp.cfg[c + 3]
    /\ ~cp.msi.enabled
    /\ msix_tread(cp.table, (16 * m.index) + 12) = 0
    /\ m.addr = msix_tread(cp.table, 16 * m.index)
    /\ m.data = msix_tread(cp.table, (16 * m.index) + 8)
=============================================================================
