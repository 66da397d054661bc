------------------------------ MODULE VirtioRegs ------------------------------
(***************************************************************************)
(* The register window of a virtio device (src/virtio.c): vi_pci_read and  *)
(* vi_pci_write on BAR 0.  The standard registers come first; the device's *)
(* own configuration follows at CFG0, or at CFG1 while MSI-X is enabled,   *)
(* when two vector registers are in between.  An access the device's part  *)
(* does not take falls back to the standard registers.                     *)
(*                                                                         *)
(* Offsets and sizes are the real ones.  The device is a network device    *)
(* ("net": its MAC can be written) or a block device ("blk": all of its    *)
(* configuration is read only, and a write is refused).                    *)
(***************************************************************************)
EXTENDS Integers, Sequences, FiniteSets

CONSTANTS VrKinds,         \* SUBSET {"net", "blk"}
          VrNvq,           \* vc_nvq
          VrQsize,         \* vq_qsize
          VrCaps,          \* vc_hv_caps: a set of feature bits
          VrOffsets,       \* where the guest reads and writes
          VrValues         \* what the guest writes

VARIABLE vr                \* the virtio_softc, its queues and its MAC

Queues == 0 .. VrNvq - 1

NO_VECTOR == 65535
CFG0 == 20
CFG1 == 24
MacSize == 6

\* the registers, in the order of the table
config_regs == <<
  [offset |-> 0, size |-> 4, ro |-> TRUE, name |-> "HOSTCAP"],
  [offset |-> 4, size |-> 4, ro |-> FALSE, name |-> "GUESTCAP"],
  [offset |-> 8, size |-> 4, ro |-> FALSE, name |-> "PFN"],
  [offset |-> 12, size |-> 2, ro |-> TRUE, name |-> "QNUM"],
  [offset |-> 14, size |-> 2, ro |-> FALSE, name |-> "QSEL"],
  [offset |-> 16, size |-> 2, ro |-> FALSE, name |-> "QNOTIFY"],
  [offset |-> 18, size |-> 1, ro |-> FALSE, name |-> "STATUS"],
  [offset |-> 19, size |-> 1, ro |-> FALSE, name |-> "ISR"],
  [offset |-> 20, size |-> 2, ro |-> FALSE, name |-> "CFGVEC"],
  [offset |-> 22, size |-> 2, ro |-> FALSE, name |-> "QVEC"] >>

VrNone == [name |-> "none"]

\* vi_find_cr: binary search between lo and hi, which are unsigned
RECURSIVE find_cr(_, _, _)
find_cr(offset, lo, hi) ==
  IF hi < lo THEN VrNone
  ELSE LET mid == (hi + lo) \div 2
           cr == config_regs[mid + 1]
       IN  CASE cr.offset = offset -> cr
             [] cr.offset < offset -> find_cr(offset, mid + 1, hi)
             [] OTHER -> find_cr(offset, lo, (mid - 1) % 2^30)

vi_find_cr(offset) == find_cr(offset, 0, Len(config_regs) - 1)

cfgsize(s) == IF s.kind = "net" THEN 8 ELSE 60

VrFresh(kind) ==
  [kind |-> kind, msix |-> FALSE, caps |-> {}, curq |-> 0, status |-> 0, isr |-> 0,
   line |-> FALSE, cfgvec |-> NO_VECTOR, mac |-> [i \in 0 .. MacSize - 1 |-> 0],
   pfn |-> [q \in Queues |-> 0], vec |-> [q \in Queues |-> NO_VECTOR], alloc |-> {},
   kicks |-> {}]

VrInit == \E kind \in VrKinds : vr = VrFresh(kind)

\* mutant: the line is left as it is
vi_reset_dev_line(s) ==
  [s EXCEPT !.caps = {}, !.curq = 0, !.isr = 0, !.cfgvec = NO_VECTOR, !.alloc = {},
            !.pfn = [q \in Queues |-> 0], !.vec = [q \in Queues |-> NO_VECTOR]]

vi_reset_dev(s) ==
  [s EXCEPT !.caps = {}, !.curq = 0, !.isr = 0, !.cfgvec = NO_VECTOR, !.alloc = {},
            !.line = IF s.isr # 0 THEN FALSE ELSE @,
            !.pfn = [q \in Queues |-> 0], !.vec = [q \in Queues |-> NO_VECTOR]]

\* where the device's configuration starts
virtio_config_size(s) == IF s.msix THEN CFG1 ELSE CFG0

\* the access lies in the device's part, all of it
in_device(s, offset, size) ==
  /\ size \in {1, 2, 4}
  /\ offset >= virtio_config_size(s)
  /\ offset - virtio_config_size(s) + size <= cfgsize(s)

\* the device's vc_cfgwrite takes the write: the block device's never does
vc_cfgwrite_takes(s, offset, size) == in_device(s, offset, size) /\ s.kind = "net"

\* pci_vtnet_cfgwrite: the MAC byte by byte, and nothing else
vc_cfgwrite(s, offset, size, value) ==
  LET newoff == offset - virtio_config_size(s)
  IN  IF newoff < MacSize
      THEN [s EXCEPT !.mac = [i \in DOMAIN @ |->
                IF i \in newoff .. newoff + size - 1
                THEN (value \div (2 ^ (8 * (i - newoff)))) % 256 ELSE @[i]]]
      ELSE s

\* what vc_cfgread answers: the MAC, and zeros behind it
VrBytes(s, newoff) == IF newoff < MacSize /\ s.kind = "net" THEN s.mac[newoff] ELSE 0

cfgread(s, offset, size) ==
  LET newoff == offset - virtio_config_size(s)
  IN  IF size = 1 THEN VrBytes(s, newoff)
      ELSE VrBytes(s, newoff) + 256 * VrBytes(s, newoff + 1)

Ones(size) == IF size = 1 THEN 255 ELSE IF size = 2 THEN 65535 ELSE -1

\* a set of bits as a number
Number(bits) == (IF 0 \in bits THEN 1 ELSE 0) + (IF 1 \in bits THEN 2 ELSE 0)
VrBits(v) == {b \in {0, 1} : (v \div (2 ^ b)) % 2 = 1}

\* the value of a standard register
register(s, cr) ==
  LET good == s.curq \in Queues
  IN  CASE cr.name = "HOSTCAP" -> Number(VrCaps)
        [] cr.name = "GUESTCAP" -> Number(s.caps)
        [] cr.name = "PFN" -> IF good THEN s.pfn[s.curq] ELSE Ones(4)
        [] cr.name = "QNUM" -> IF good THEN VrQsize ELSE 0
        [] cr.name = "QSEL" -> s.curq
        [] cr.name = "QNOTIFY" -> 0
        [] cr.name = "STATUS" -> s.status
        [] cr.name = "ISR" -> s.isr
        [] cr.name = "CFGVEC" -> s.cfgvec
        [] cr.name = "QVEC" -> IF good THEN s.vec[s.curq] ELSE NO_VECTOR

\* vi_pci_read on BAR 0: the value, and the state after it
vi_pci_read(s, offset, size) ==
  LET cr == vi_find_cr(offset)
  IN  IF in_device(s, offset, size)
      THEN [value |-> cfgread(s, offset, size), after |-> s]
      ELSE IF cr = VrNone \/ cr.size # size
      THEN [value |-> Ones(size), after |-> s]
      ELSE [value |-> register(s, cr),
            after |-> IF cr.name # "ISR" THEN s
                      ELSE [s EXCEPT !.isr = 0, !.line = IF s.isr # 0 THEN FALSE ELSE @]]

\* a vector for the selected queue, if there is such a queue
set_qvec(s, value) == IF s.curq \in Queues THEN [s EXCEPT !.vec[s.curq] = value] ELSE s

\* vi_vq_init of the selected queue, if there is such a queue
set_pfn(s, value) ==
  IF s.curq \in Queues
  THEN [s EXCEPT !.pfn[s.curq] = value, !.alloc = @ \cup {s.curq}] ELSE s

\* the write of a standard register; vc_reset of both devices comes down to
\* vi_reset_dev
set_register(s, cr, value) ==
  CASE cr.name = "GUESTCAP" -> [s EXCEPT !.caps = VrBits(value) \cap VrCaps]
    [] cr.name = "PFN" -> set_pfn(s, value)
    [] cr.name = "QSEL" -> [s EXCEPT !.curq = value]
    [] cr.name = "QNOTIFY" -> IF value \in Queues THEN [s EXCEPT !.kicks = {value}] ELSE s
    [] cr.name = "STATUS" -> IF value % 256 = 0 THEN vi_reset_dev([s EXCEPT !.status = 0])
                             ELSE [s EXCEPT !.status = value % 256]
    [] cr.name = "CFGVEC" -> [s EXCEPT !.cfgvec = value]
    [] cr.name = "QVEC" -> set_qvec(s, value)
    [] cr.name = "ISR" -> s

\* vi_pci_write on BAR 0
vi_pci_write(s, offset, size, value) ==
  LET cr == vi_find_cr(offset)
  IN  IF vc_cfgwrite_takes(s, offset, size) THEN vc_cfgwrite(s, offset, size, value)
      ELSE IF cr = VrNone \/ cr.size # size \/ cr.ro THEN s
      ELSE set_register(s, cr, value)

Offsets == 0 .. 34
Sizes == {1, 2, 4}

\* the driver writes the MAC by bytes and words inside it: a write across its
\* end is an assertion of pci_vtnet_cfgwrite
polite(s, offset, size) ==
  LET newoff == offset - virtio_config_size(s)
  IN  (s.kind = "net" /\ newoff \in 0 .. MacSize - 1) => newoff + size <= MacSize

guest_reads(offset, size) == vr' = vi_pci_read(vr, offset, size).after

guest_writes(offset, size, value) ==
  /\ polite(vr, offset, size)
  /\ vr' = [vi_pci_write([vr EXCEPT !.kicks = {}], offset, size, value) EXCEPT !.kicks = {}]

\* the guest turns MSI-X on or off in the capability
guest_switches_msix == vr' = [vr EXCEPT !.msix = ~@]

\* vq_interrupt by a thread of the device: without MSI-X the ISR and the line
vr_interrupt ==
  /\ vr.alloc # {}
  /\ vr' = IF vr.msix THEN vr ELSE [vr EXCEPT !.isr = 1, !.line = TRUE]

VrNext ==
  \/ \E offset \in VrOffsets, size \in Sizes : guest_reads(offset, size)
  \/ \E offset \in VrOffsets, size \in Sizes, value \in VrValues :
       guest_writes(offset, size, value)
  \/ guest_switches_msix
  \/ vr_interrupt

VrSpec == VrInit /\ [][VrNext]_vr

-----------------------------------------------------------------------------
VrTypeOK ==
  /\ vr.caps \subseteq VrCaps
  /\ vr.curq \in Nat /\ vr.status \in 0 .. 255
  /\ vr.vec \in [Queues -> Nat] /\ vr.pfn \in [Queues -> Nat]
  /\ vr.alloc \subseteq Queues

\* The register that covers offset and size as the guest numbers them: the
\* vectors are there only while MSI-X is on
Addressed(s, offset, size) ==
  {i \in 1 .. Len(config_regs) : config_regs[i].offset = offset /\ config_regs[i].size = size
                                 /\ offset < virtio_config_size(s)}

\* What the two switches of vi_pci_read and vi_pci_write say of each other: a
\* register that can be written reads as what was written (the features cut to
\* those the host offers, the notify register as zero, the ISR not settable, a
\* queue that does not exist without effect), a read-only one as before, and
\* the MAC likewise, wherever MSI-X has moved it (virtio.c:517-771)
ReadsBack ==
  \A offset \in Offsets, size \in Sizes, value \in VrValues :
    LET a == vi_pci_write(vr, offset, size, value)
        was == vi_pci_read(vr, offset, size).value
        is == vi_pci_read(a, offset, size).value
    IN  /\ \A i \in Addressed(vr, offset, size) :
             LET name == config_regs[i].name
             IN  is = CASE name \in {"HOSTCAP", "QNUM", "QNOTIFY", "ISR"} -> was
                        [] name = "GUESTCAP" -> Number(VrBits(value) \cap VrCaps)
                        [] name \in {"PFN", "QVEC"} -> IF vr.curq \in Queues THEN value ELSE was
                        [] OTHER -> value
        /\ (vr.kind = "net" /\ polite(vr, offset, size) /\ size < 4
              /\ offset - (IF vr.msix THEN CFG1 ELSE CFG0) \in 0 .. MacSize - 1)
             => is = value % (256 ^ size)

\* What lies past the standard registers is the device's: a write there leaves
\* every standard register alone, but for the two vectors, which a write that
\* the device refuses still reaches while MSI-X is off (virtio.c:675-690), and
\* a notification names a queue that exists
DeviceWritesApart ==
  \A offset \in Offsets, size \in Sizes, value \in VrValues :
    LET a == vi_pci_write(vr, offset, size, value)
    IN  /\ offset >= CFG1 => a = [vr EXCEPT !.mac = a.mac]
        /\ (offset >= CFG0 /\ ~vr.msix) =>
             a \in {[vr EXCEPT !.mac = a.mac], [vr EXCEPT !.cfgvec = value], set_qvec(vr, value)}
        /\ (offset >= CFG0 /\ ~vr.msix /\ vr.kind = "net") => a = [vr EXCEPT !.mac = a.mac]
        /\ a.kicks \subseteq Queues

\* The INTx line is up exactly while the ISR has something for the guest to
\* read, whatever the order of interrupts, reads of the ISR, resets and changes
\* of MSI-X (virtio.c:100-102, 610-614, virtio.h:452-464)
LineFollowsIsr == vr.line <=> vr.isr # 0
=============================================================================
