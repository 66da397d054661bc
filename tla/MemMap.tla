-------------------------------- MODULE MemMap --------------------------------
(***************************************************************************)
(* The memory-mapped ranges of src/mem.c and the PCI base address          *)
(* registers that come and go in them (pci_emul.c): a tree of ranges under *)
(* a read-write lock, the last range each CPU found as its hint, and the   *)
(* accesses, which hold the lock while a device handles them, except in a  *)
(* range that is never removed.  The window onto the configuration space   *)
(* is such a range: a write through it may move a BAR, which takes the     *)
(* lock for writing.                                                       *)
(*                                                                         *)
(* A BAR is one unit of the address space long.  The guest serialises its  *)
(* accesses to the configuration space of one device, and does not move a  *)
(* BAR onto another that is decoded.                                       *)
(***************************************************************************)
EXTENDS Naturals, FiniteSets

CONSTANTS Cpus,         \* CPUs of the guest
          Bars,         \* memory BARs
          DevOf,        \* DevOf[b]: the device BAR b belongs to
          Addrs,        \* addresses that BARs can be moved to
          Ecfg          \* address of the window onto the configuration space

\* the window is not where BARs are, and there is a place for every BAR
ASSUME MemAssumption ==
  /\ Ecfg \notin Addrs /\ Ecfg \notin Bars
  /\ \E g \in [Bars -> Addrs] : \A b, c \in Bars : b # c => g[b] # g[c]

VARIABLES mm,           \* the tree, the hints, the lock
          mmBar,        \* per BAR: addr; per device: memen
          mmCpu,        \* per CPU: what it does
          mmFault       \* an assertion failed

memVars == <<mm, mmBar, mmCpu, mmFault>>

Free == "FREE"

\* entries of the tree: the owner and where; the window has no BAR
Entries == [owner : Bars, base : Addrs] \cup {[owner |-> Ecfg, base |-> Ecfg]}

MemIdle == [op |-> "idle"]

MemTypeOK ==
  /\ mm.tree \subseteq Entries
  /\ DOMAIN mm.hint = Cpus
  /\ mm.readers \subseteq Cpus
  /\ DOMAIN mmBar.addr = Bars
  /\ DOMAIN mmCpu = Cpus
  /\ mmFault \in BOOLEAN

Devices == {DevOf[b] : b \in Bars}

\* init_pci: each BAR has its place, and decoding is on
MemInit ==
  LET f == CHOOSE g \in [Bars -> Addrs] : \A b, c \in Bars : b # c => g[b] # g[c]
  IN
    /\ mm = [tree |-> {[owner |-> b, base |-> f[b]] : b \in Bars} \cup
                      {[owner |-> Ecfg, base |-> Ecfg]},
             hint |-> [c \in Cpus |-> {}], readers |-> {}]
    /\ mmBar = [addr |-> f, memen |-> [d \in Devices |-> TRUE]]
    /\ mmCpu = [c \in Cpus |-> MemIdle]
    /\ mmFault = FALSE

-----------------------------------------------------------------------------
(* src/mem.c.                                                              *)

mmio_rb_lookup(a) == {e \in mm.tree : e.base = a}

window(e) == e.owner = Ecfg

\* an entry that never goes away
immutable(e) == window(e)

\* nobody holds the lock, for reading or for writing
wrlock == mm.readers = {}

\* emulate_mem up to the call of the handler: the hint, else the tree; the
\* lock is released at once if the range is immutable.  An address in no
\* range goes to the fallback, which reads as ones
emulate_mem(c, a) ==
  LET hit == {e \in mm.hint[c] : e.base = a}
      found == IF hit # {} THEN hit ELSE mmio_rb_lookup(a)
  IN  /\ mmCpu[c] = MemIdle
      /\ found # {}
      /\ \E e \in found :
           /\ mmCpu' = [mmCpu EXCEPT ![c] = [op |-> "handler", entry |-> e, gpa |-> a]]
           /\ mm' = [mm EXCEPT !.hint[c] = {e},
                               !.readers = IF immutable(e) THEN @ ELSE @ \cup {c}]
      /\ UNCHANGED <<mmBar, mmFault>>

\* register_mem: what lies in a range that is there already is not added,
\* without an error
registered(tree, b, a) ==
  IF \E e \in tree : e.base = a THEN tree ELSE tree \cup {[owner |-> b, base |-> a]}


\* unregister_mem, with the hints
unregister_mem(m, b, a) ==
  LET gone == {e \in m.tree : e.base = a}
  IN  [m EXCEPT !.tree = @ \ gone, !.hint = [c \in Cpus |-> @[c] \ gone]]

\* the range must be there, and be the one that is meant
unregister_fails(b, a) == mmio_rb_lookup(a) # {[owner |-> b, base |-> a]}

-----------------------------------------------------------------------------
(* The handlers.                                                           *)

\* pci_emul_mem_handler: the address must be in the BAR as it is now
pci_emul_mem_handler(c) ==
  /\ mmCpu[c].op = "handler"
  /\ ~window(mmCpu[c].entry)
  /\ mmFault' = (mmFault \/ mmCpu[c].gpa # mmBar.addr[mmCpu[c].entry.owner])
  /\ mmCpu' = [mmCpu EXCEPT ![c] = MemIdle]
  /\ mm' = [mm EXCEPT !.readers = @ \ {c}]
  /\ UNCHANGED mmBar

\* the guest's side: one write per device at a time, and no BAR onto another
busy(d) == \E c \in Cpus : mmCpu[c].op \in {"moving", "placing", "decoding"} /\ mmCpu[c].dev = d

vacant(b, a) ==
  /\ \A x \in Bars \ {b} : a # mmBar.addr[x]
  /\ \A c \in Cpus : mmCpu[c].op \in {"moving", "placing"} => mmCpu[c].addr # a

\* pci_emul_ecfg_handler, or the ports: a write to a BAR register ...
bar_write(c, b, a) ==
  /\ \/ mmCpu[c] = MemIdle
     \/ mmCpu[c].op = "handler" /\ window(mmCpu[c].entry)
  /\ ~busy(DevOf[b]) /\ vacant(b, a)
  /\ a # mmBar.addr[b]
  /\ mmCpu' = [mmCpu EXCEPT ![c] = [op |-> "moving", bar |-> b, dev |-> DevOf[b], addr |-> a]]
  /\ UNCHANGED <<mm, mmBar, mmFault>>

\* ... or a read, or a write that changes nothing
ecfg_done(c) ==
  /\ mmCpu[c].op = "handler" /\ window(mmCpu[c].entry)
  /\ mmCpu' = [mmCpu EXCEPT ![c] = MemIdle]
  /\ UNCHANGED <<mm, mmBar, mmFault>>

\* update_bar_address: the old range is taken out, under the lock, and the
\* address set ...
update_mem_bar(c) ==
  LET w == mmCpu[c]
      a == mmBar.addr[w.bar]
      on == mmBar.memen[w.dev]
  IN  /\ w.op = "moving"
      /\ on => wrlock
      /\ mm' = IF on THEN unregister_mem(mm, w.bar, a) ELSE mm
      /\ mmFault' = (mmFault \/ (on /\ unregister_fails(w.bar, a)))
      /\ mmBar' = [mmBar EXCEPT !.addr[w.bar] = w.addr]
      /\ mmCpu' = [mmCpu EXCEPT ![c].op = "placing"]

\* ... and the new range put in
register_mem_bar(c) ==
  LET w == mmCpu[c]
      on == mmBar.memen[w.dev]
  IN  /\ w.op = "placing"
      /\ on => wrlock
      /\ mm' = IF on THEN [mm EXCEPT !.tree = registered(@, w.bar, w.addr)] ELSE mm
      /\ mmCpu' = [mmCpu EXCEPT ![c] = MemIdle]
      /\ UNCHANGED <<mmBar, mmFault>>

\* pci_emul_cmdsts_write: decoding goes on or off, and the BARs of the
\* device follow one by one; a write that does not change it does nothing
mem_cmdsts_write(c, d) ==
  /\ mmCpu[c] = MemIdle \/ (mmCpu[c].op = "handler" /\ window(mmCpu[c].entry))
  /\ ~busy(d)
  /\ mmBar' = [mmBar EXCEPT !.memen[d] = ~@]
  /\ mmCpu' = [mmCpu EXCEPT ![c] = [op |-> "decoding", dev |-> d,
                                    left |-> {b \in Bars : DevOf[b] = d}]]
  /\ UNCHANGED <<mm, mmFault>>

modify_bar_registration(c, b) ==
  LET w == mmCpu[c]
      a == mmBar.addr[b]
  IN  /\ w.op = "decoding" /\ b \in w.left
      /\ wrlock
      /\ mm' = IF mmBar.memen[w.dev] THEN [mm EXCEPT !.tree = registered(@, b, a)]
               ELSE unregister_mem(mm, b, a)
      /\ mmFault' = (mmFault \/ (~mmBar.memen[w.dev] /\ unregister_fails(b, a)))
      /\ mmCpu' = [mmCpu EXCEPT ![c] = IF w.left = {b} THEN MemIdle ELSE [w EXCEPT !.left = @ \ {b}]]
      /\ UNCHANGED mmBar

MemNext ==
  \E c \in Cpus :
    \/ \E a \in Addrs \cup {Ecfg} : emulate_mem(c, a)
    \/ pci_emul_mem_handler(c) \/ ecfg_done(c)
    \/ \E b \in Bars, a \in Addrs : bar_write(c, b, a)
    \/ update_mem_bar(c) \/ register_mem_bar(c)
    \/ \E d \in Devices : mem_cmdsts_write(c, d)
    \/ \E b \in Bars : modify_bar_registration(c, b)

MemSpec == MemInit /\ [][MemNext]_memVars

-----------------------------------------------------------------------------
(***************************************************************************)
(* What is decoded is what is in the tree: once the writes to a device's   *)
(* configuration space are done, its BARs have their ranges if it decodes  *)
(* memory, at their addresses, and none if it does not.                    *)
(***************************************************************************)
TreeMatchesBars ==
  \A b \in Bars :
    ~busy(DevOf[b]) =>
      {e \in mm.tree : e.owner = b} =
        {e \in {[owner |-> b, base |-> mmBar.addr[b]]} : mmBar.memen[DevOf[b]]}

(***************************************************************************)
(* No range is used after it was freed: the hint of a CPU, and the range   *)
(* of an access that a device is handling, are in the tree.  A hint or a   *)
(* range kept over a removal would be a dangling pointer.                  *)
(***************************************************************************)
NoStaleRange ==
  \A c \in Cpus :
    /\ mm.hint[c] \subseteq mm.tree
    /\ mmCpu[c].op = "handler" => mmCpu[c].entry \in mm.tree

(***************************************************************************)
(* No assertion of the tree or of the BAR handler fails: an access finds   *)
(* its BAR where it was when the access was looked up, though the guest    *)
(* may be moving BARs on another CPU, and a removal finds its own range.   *)
(***************************************************************************)
NoAssertFails == ~mmFault

(***************************************************************************)
(* A CPU that is about to take the lock for writing does not hold it for   *)
(* reading, which would be for ever: the comment in emulate_mem on the     *)
(* window onto the configuration space.                                    *)
(***************************************************************************)
NoSelfDeadlock ==
  \A c \in Cpus : mmCpu[c].op \in {"moving", "placing", "decoding"} => c \notin mm.readers
=============================================================================
