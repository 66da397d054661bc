------------------------------- MODULE PciBars -------------------------------
(***************************************************************************)
(* Base address registers (src/pci_emul.c): how init_pci hands out I/O and *)
(* memory ranges to the devices of a bus, what a guest's write of a BAR    *)
(* does to the register and to pi_bar[].addr, and the two ways to name a   *)
(* configuration register, the ports 0xcf8/0xcfc and the memory window.    *)
(* The registration of the ranges is in MemMap and InoutStr.               *)
(*                                                                         *)
(* Addresses are scaled: Word stands for 2^32, IoWord for 2^16, Large for  *)
(* 32 MB, IoSlop and MemSlop for BUSIO_ROUNDUP and BUSMEM_ROUNDUP.  The    *)
(* four type bits of a memory BAR and the one of an I/O BAR are as they    *)
(* are, and so are the fields of a configuration address.                  *)
(***************************************************************************)
EXTENDS Integers, FiniteSets

CONSTANTS BarMax,          \* PCI_BARMAX
          Buses,           \* how many buses are configured
          IoSizesAsked, MemSizesAsked,
          MaxAllocs,       \* BARs in all
          BarValues,       \* what the guest writes
          MaxBarWrites,
          CfgAddrs         \* what the guest writes to 0xcf8

VARIABLES pb,              \* the allocator, and the device being set up
          pbCfg            \* cfgenable, cfgbus, cfgslot, cfgfunc, cfgoff

pbVars == <<pb, pbCfg>>

Word == 256
IoWord == 64
Large == 32
IoSlop == 8
MemSlop == 16

Idx == 0 .. BarMax
NoBar == [type |-> "NONE", addr |-> 0, size |-> 0, reg |-> 0]
Empty == [i \in Idx |-> NoBar]

\* roundup2
roundup(a, n) == ((a + n - 1) \div n) * n

\* where the ranges of a space start and end
Start == [io |-> 8, mem32 |-> 32, mem64 |-> 3 * Word]
Limit == [io |-> IoWord, mem32 |-> 224, mem64 |-> 8 * Word]

\* init_pci, up to the first device
BarInit ==
  /\ pb = [base |-> Start, opened |-> Start, windows |-> {}, bus |-> 0, bars |-> Empty,
           given |-> {}, running |-> FALSE, writes |-> 0]
  /\ pbCfg = [enable |-> FALSE, bus |-> 0, slot |-> 0, func |-> 0, off |-> 0]

-----------------------------------------------------------------------------
\* Handing out ranges

\* the size a BAR really has: a power of two of at least the minimum
bar_size(type, size) ==
  LET p == CHOOSE n \in {4, 8, 16, 32, 64, 128, 256, 512} :
             n >= size /\ \A m \in {4, 8, 16, 32, 64, 128, 256, 512} : m >= size => n <= m
  IN  IF type # "IO" /\ p < 16 THEN 16 ELSE p

space_of(type, size) ==
  CASE type = "IO" -> "io"
    [] type = "MEM32" -> "mem32"
    [] type = "MEM64" -> IF size > Large THEN "mem64" ELSE "mem32"

\* mutant: the next free address is not aligned to the size
alloc_base_packed(base, size) == base

\* pci_emul_alloc_resource: the aligned address
alloc_base(base, size) == roundup(base, size)

\* the type bits of a new BAR
lobits(type, size) ==
  CASE type = "IO" -> 1
    [] type = "MEM32" -> 0
    [] type = "MEM64" -> IF size > Large THEN 12 ELSE 4

\* pci_emul_alloc_pbar, by a device's pe_init: nothing changes if the space
\* is full
pci_emul_alloc_pbar(idx, type, asked) ==
  LET size == bar_size(type, asked)
      sp == space_of(type, size)
      addr == alloc_base(pb.base[sp], size)
      low == [type |-> type, addr |-> addr, size |-> size,
              reg |-> (addr % Word) + lobits(type, size)]
      high == [type |-> "MEMHI64", addr |-> 0, size |-> 0, reg |-> addr \div Word]
  IN  /\ ~pb.running
      /\ Cardinality(pb.given) < MaxAllocs
      /\ pb.bars[idx].type = "NONE"
      /\ (type = "MEM64" => idx < BarMax /\ pb.bars[idx + 1].type = "NONE")
      /\ IF addr + size <= Limit[sp]
         THEN pb' = [pb EXCEPT
                !.base[sp] = addr + size,
                !.bars = [i \in Idx |-> IF i = idx THEN low
                                        ELSE IF i = idx + 1 /\ type = "MEM64" THEN high
                                        ELSE pb.bars[i]],
                !.given = @ \cup {[space |-> sp, addr |-> addr, size |-> size, bus |-> pb.bus]}]
         ELSE UNCHANGED pb
      /\ UNCHANGED pbCfg

\* the next device of the bus is set up; the last one stays known by its ranges
next_device ==
  /\ ~pb.running
  /\ pb.bars # Empty
  /\ pb' = [pb EXCEPT !.bars = Empty]
  /\ UNCHANGED pbCfg

\* the slop a bus gets at its end
closed(base) ==
  [io |-> roundup(base.io + IoSlop, IoSlop),
   mem32 |-> roundup(base.mem32 + MemSlop, MemSlop),
   mem64 |-> roundup(base.mem64 + MemSlop, MemSlop)]

\* init_pci at the end of a bus: its windows, the start of the 64-bit one cut
\* to 32 bits
close_bus ==
  LET lim == closed(pb.base)
  IN  /\ ~pb.running
      /\ pb' = [pb EXCEPT
            !.base = lim, !.opened = lim, !.bus = @ + 1,
            !.running = pb.bus + 1 = Buses,
            !.windows = @ \cup
              {[space |-> sp, bus |-> pb.bus,
                base |-> IF sp = "mem64" THEN pb.opened[sp] % Word ELSE pb.opened[sp],
                limit |-> lim[sp]] : sp \in {"io", "mem32", "mem64"}}]
      /\ UNCHANGED pbCfg

-----------------------------------------------------------------------------
\* A guest's write of a BAR

\* val & ~(size - 1)
masked(val, size) == val - (val % size)

\* the upper half is masked with the size of the pair
high_masked(bars, idx, val) == masked(val * Word, bars[idx - 1].size)

\* pci_cfgrw for a BAR, with update_bar_address
bar_write(bars, idx, val) ==
  LET b == bars[idx]
      set(addr, reg) == [bars EXCEPT ![idx].addr = addr, ![idx].reg = reg]
      high == high_masked(bars, idx, val)
  IN  CASE b.type = "NONE" -> set(0, 0)
        [] b.type = "IO" -> set(masked(val, b.size) % IoWord, (masked(val, b.size) % IoWord) + 1)
        [] b.type = "MEM32" -> set(masked(val, b.size), masked(val, b.size))
        [] b.type = "MEM64" -> set((b.addr - (b.addr % Word)) + masked(val, b.size),
                                   masked(val, b.size) + 12)
        [] b.type = "MEMHI64" -> [bars EXCEPT ![idx - 1].addr = (@ % Word) + high,
                                              ![idx].reg = high \div Word]

guest_writes_bar(idx, val) ==
  /\ pb.running
  /\ pb.writes < MaxBarWrites
  /\ pb' = [pb EXCEPT !.bars = bar_write(pb.bars, idx, val), !.writes = @ + 1]
  /\ UNCHANGED pbCfg

-----------------------------------------------------------------------------
\* Naming a register

Bits(x, shift, n) == (x \div (2 ^ shift)) % (2 ^ n)

\* pci_emul_cfgaddr: a write of four bytes; on is CONF1_ENABLE.  Bound: on a
\* machine without BARs, which have no part in it
cfgaddr_write(on, x) ==
  /\ pb.running
  /\ pb.given = {}
  /\ pbCfg' = [enable |-> on, bus |-> Bits(x, 16, 8), slot |-> Bits(x, 11, 5),
               func |-> Bits(x, 8, 3), off |-> Bits(x, 0, 8)]
  /\ UNCHANGED pb

\* pci_emul_cfgaddr: a read of four bytes, without the enable bit
cfgaddr_read(c) == (c.bus * 2^16) + (c.slot * 2^11) + (c.func * 2^8) + c.off

\* pci_emul_cfgdata: what an access to port 0xcfc + k names
cfgdata(c, k) == [bus |-> c.bus, slot |-> c.slot, func |-> c.func, off |-> c.off + k]

\* pci_emul_ecfg_handler: what an address in the window names
ecfg(addr) == [bus |-> Bits(addr, 20, 8), slot |-> Bits(addr, 15, 5),
               func |-> Bits(addr, 12, 3), off |-> Bits(addr, 0, 12)]

BarNext ==
  \/ \E idx \in Idx, s \in IoSizesAsked : pci_emul_alloc_pbar(idx, "IO", s)
  \/ \E idx \in Idx, type \in {"MEM32", "MEM64"}, s \in MemSizesAsked :
       pci_emul_alloc_pbar(idx, type, s)
  \/ next_device
  \/ close_bus
  \/ \E idx \in Idx, val \in BarValues : guest_writes_bar(idx, val)
  \/ \E on \in BOOLEAN, x \in CfgAddrs : cfgaddr_write(on, x)

BarSpec == BarInit /\ [][BarNext]_pbVars

-----------------------------------------------------------------------------
BarTypeOK ==
  /\ pb.bus \in 0 .. Buses
  /\ \A i \in Idx : pb.bars[i].type \in {"NONE", "IO", "MEM32", "MEM64", "MEMHI64"}
  /\ pbCfg.off \in 0 .. 255 /\ pbCfg.slot \in 0 .. 31

\* Whatever is asked for in whatever order, on one bus or on several, no two
\* ranges overlap, each is aligned to its size, and each lies in the window
\* that is announced for its bus, which is what the guest may route to it
\* (pci_emul.c:412-428, 1076-1123)
RangesApart ==
  /\ \A r \in pb.given :
       /\ r.addr % r.size = 0
       /\ \A q \in pb.given : (q # r /\ q.space = r.space) =>
            (q.addr + q.size <= r.addr \/ r.addr + r.size <= q.addr)
       /\ \A w \in pb.windows : (w.space = r.space /\ w.bus = r.bus) =>
            (w.base <= r.addr /\ r.addr + r.size <= w.limit)
  /\ \A v, w \in pb.windows : (v # w /\ v.space = w.space /\ v.space # "mem64") =>
       (v.limit <= w.base \/ w.limit <= v.base)

\* What the register shows is where the device answers: after any writes, of
\* the two halves of a 64-bit BAR in any order too, pi_bar[].addr is aligned
\* and the registers hold it (pci_emul.c:1836-1891)
RegisterIsAddress ==
  \A i \in Idx :
    LET b == pb.bars[i]
    IN  /\ b.type = "IO" => b.addr < IoWord /\ b.addr % b.size = 0 /\ b.reg = b.addr + 1
        /\ b.type = "MEM32" => b.addr % b.size = 0 /\ b.reg = b.addr
        /\ b.type = "MEM64" => /\ b.addr % b.size = 0
                               /\ b.reg - (b.reg % 16) = b.addr % Word
                               /\ pb.bars[i + 1].reg = b.addr \div Word

\* The way a guest finds the size of a BAR works at any time: ones written to
\* it, or to both halves of a pair, read back as the complement of the size
\* (pci_emul.c:1847-1891)
SizingWorks ==
  \A i \in Idx :
    LET b == pb.bars[i]
        one == bar_write(pb.bars, i, Word - 1)
        both == bar_write(one, i + 1, Word - 1)
    IN  /\ b.type = "IO" => IoWord - (one[i].reg - 1) = b.size
        /\ b.type = "MEM32" => Word - one[i].reg = b.size
        /\ b.type = "MEM64" =>
             (Word * Word) - ((both[i + 1].reg * Word) + (both[i].reg - (both[i].reg % 16))) = b.size

\* The address port reads as it was written, its reserved bits aside, and the
\* memory window names the same register of the same function as the ports do,
\* to the byte (pci_emul.c:1037-1052, 1905-1955)
SameRegister ==
  LET c == pbCfg
  IN  /\ \A k \in 0 .. 3 : c.off % 4 = 0 =>
           cfgdata(c, k) = ecfg((c.bus * 2^20) + (c.slot * 2^15) + (c.func * 2^12) + c.off + k)
      /\ Bits(cfgaddr_read(c), 8, 16) = (c.bus * 256) + (c.slot * 8) + c.func
=============================================================================
