---------------------------- MODULE MemBootProofs ----------------------------
(***************************************************************************)
(* Proofs about the memory map and the BARs in it (MemMap) and about the   *)
(* life of the vcpu threads (ApBoot).  The two share no state; MemInv and  *)
(* BootInv are their inductive invariants.                                 *)
(***************************************************************************)
EXTENDS MemMap, ApBoot, TLAPS

-----------------------------------------------------------------------------
(* The memory map: the inductive invariant.                                *)

\* what a CPU may be doing
Jobs ==
  {MemIdle}
    \cup [op : {"handler"}, entry : Entries, gpa : Addrs \cup {Ecfg}]
    \cup [op : {"moving", "placing"}, bar : Bars, dev : Devices, addr : Addrs]
    \cup [op : {"decoding"}, dev : Devices, left : SUBSET Bars]

MemTypes ==
  /\ mm \in [tree : SUBSET Entries, hint : [Cpus -> SUBSET Entries],
             readers : SUBSET Cpus]
  /\ mmBar \in [addr : [Bars -> Addrs], memen : [Devices -> BOOLEAN]]
  /\ mmCpu \in [Cpus -> Jobs]
  /\ mmFault = FALSE

\* the range of BAR b, when its address is a
RangeOf(b, a) == [owner |-> b, base |-> a]

InTree(b) == RangeOf(b, mmBar.addr[b]) \in mm.tree

\* The tree holds the window, and ranges at the address of their BAR; no two
\* BARs have the same.
TreeInv ==
  /\ RangeOf(Ecfg, Ecfg) \in mm.tree
  /\ \A e \in mm.tree : ~ window(e) => e.base = mmBar.addr[e.owner]
  /\ \A b, x \in Bars : b # x => mmBar.addr[b] # mmBar.addr[x]

Moves(w) == w.op \in {"moving", "placing"}
Writes(w) == w.op \in {"moving", "placing", "decoding"}

\* One CPU writes to the configuration space of a device; a BAR that moves
\* has an address of its own to go to.
WriteInv ==
  /\ \A c, d \in Cpus :
       c # d /\ Writes(mmCpu[c]) /\ Writes(mmCpu[d]) => mmCpu[c].dev # mmCpu[d].dev
  /\ \A c, d \in Cpus :
       c # d /\ Moves(mmCpu[c]) /\ Moves(mmCpu[d]) => mmCpu[c].addr # mmCpu[d].addr
  /\ \A c \in Cpus : Moves(mmCpu[c]) => mmCpu[c].dev = DevOf[mmCpu[c].bar]
  /\ \A c \in Cpus, b \in Bars :
       /\ mmCpu[c].op = "moving" => mmBar.addr[b] # mmCpu[c].addr
       /\ mmCpu[c].op = "placing" /\ mmCpu[c].bar = b => mmBar.addr[b] = mmCpu[c].addr
       /\ mmCpu[c].op = "decoding" /\ b \in mmCpu[c].left => mmCpu[c].dev = DevOf[b]

\* BAR b is out of the tree to be moved, or is yet to follow its device
Placing(c, b) == mmCpu[c].op = "placing" /\ mmCpu[c].bar = b
Left(c, b) == mmCpu[c].op = "decoding" /\ b \in mmCpu[c].left

\* A BAR is in the tree if its device decodes memory, but for these.
DecodeOf(b) ==
  /\ (\A c \in Cpus : ~ Placing(c, b) /\ ~ Left(c, b))
       => (InTree(b) <=> mmBar.memen[DevOf[b]])
  /\ \A c \in Cpus : Placing(c, b) => ~ InTree(b)
  /\ \A c \in Cpus : Left(c, b) => (InTree(b) <=> ~ mmBar.memen[DevOf[b]])

DecodeInv == \A b \in Bars : DecodeOf(b)

\* The lock is held for reading by the CPUs in the handler of a BAR.
AccessInv ==
  \A c \in Cpus :
    /\ mm.hint[c] \subseteq mm.tree
    /\ mmCpu[c].op = "handler" =>
         mmCpu[c].entry \in mm.tree /\ mmCpu[c].gpa = mmCpu[c].entry.base
    /\ c \in mm.readers <=> mmCpu[c].op = "handler" /\ ~ window(mmCpu[c].entry)

MemInv ==
  /\ MemTypes
  /\ TreeInv
  /\ WriteInv
  /\ DecodeInv
  /\ AccessInv

-----------------------------------------------------------------------------
(* The start, and what the types say of a job.                             *)

\* Each kind of job has its fields.
LEMMA JobFacts ==
    ASSUME NEW w \in Jobs
    PROVE  /\ w.op \in {"idle", "handler", "moving", "placing", "decoding"}
           /\ w.op = "idle" <=> w = MemIdle
           /\ w.op = "handler" => w.entry \in Entries /\ w.gpa \in Addrs \cup {Ecfg}
           /\ w.op \in {"moving", "placing"} =>
                w.bar \in Bars /\ w.dev \in Devices /\ w.addr \in Addrs
           /\ w.op = "decoding" => w.dev \in Devices /\ w.left \in SUBSET Bars
  <1>1. CASE w = MemIdle
    BY <1>1 DEF MemIdle
  <1>2. CASE w \in [op : {"handler"}, entry : Entries, gpa : Addrs \cup {Ecfg}]
    BY <1>2 DEF MemIdle
  <1>3. CASE w \in [op : {"moving", "placing"}, bar : Bars, dev : Devices, addr : Addrs]
    BY <1>3 DEF MemIdle
  <1>4. CASE w \in [op : {"decoding"}, dev : Devices, left : SUBSET Bars]
    BY <1>4 DEF MemIdle
  <1> QED
    BY <1>1, <1>2, <1>3, <1>4 DEF Jobs

\* A range is the window, or belongs to a BAR.
LEMMA EntryFacts ==
    ASSUME NEW e \in Entries
    PROVE  \/ window(e) /\ e = RangeOf(Ecfg, Ecfg)
           \/ ~ window(e) /\ e.owner \in Bars /\ e.base \in Addrs
                /\ e = RangeOf(e.owner, e.base)
  BY MemAssumption DEF Entries, window, RangeOf

\* init_pci puts every BAR into the tree.
LEMMA MemStart == MemInit => MemInv
  <1> SUFFICES ASSUME MemInit PROVE MemInv
    OBVIOUS
  <1> DEFINE f == CHOOSE g \in [Bars -> Addrs] : \A b, c \in Bars : b # c => g[b] # g[c]
  <1>1. f \in [Bars -> Addrs] /\ \A b, c \in Bars : b # c => f[b] # f[c]
    BY MemAssumption
  <1>2. /\ mm = [tree |-> {[owner |-> b, base |-> f[b]] : b \in Bars} \cup
                          {[owner |-> Ecfg, base |-> Ecfg]},
                 hint |-> [c \in Cpus |-> {}], readers |-> {}]
        /\ mmBar = [addr |-> f, memen |-> [d \in Devices |-> TRUE]]
        /\ mmCpu = [c \in Cpus |-> MemIdle]
        /\ mmFault = FALSE
    BY DEF MemInit
  <1> HIDE DEF f
  <1>3. \A b \in Bars : mmBar.addr[b] = f[b] /\ mmBar.memen[DevOf[b]] = TRUE
    BY <1>2 DEF Devices
  <1>4. \A e : e \in mm.tree <=>
               e = RangeOf(Ecfg, Ecfg) \/ \E b \in Bars : e = RangeOf(b, f[b])
    BY <1>2 DEF RangeOf
  <1>5. \A c \in Cpus : mmCpu[c].op = "idle" /\ mm.hint[c] = {}
    BY <1>2 DEF MemIdle
  <1>6. MemTypes
    <2>1. mm.tree \subseteq Entries
      BY <1>1, <1>4 DEF Entries, RangeOf
    <2>2. mm \in [tree : SUBSET Entries, hint : [Cpus -> SUBSET Entries],
                  readers : SUBSET Cpus]
      BY <1>2, <2>1
    <2>3. mmBar \in [addr : [Bars -> Addrs], memen : [Devices -> BOOLEAN]]
      BY <1>1, <1>2
    <2>4. mmCpu \in [Cpus -> Jobs]
      BY <1>2 DEF Jobs
    <2> QED
      BY <1>2, <2>2, <2>3, <2>4 DEF MemTypes
  <1>7. TreeInv
    BY <1>1, <1>3, <1>4, MemAssumption DEF TreeInv, RangeOf, window
  <1>8. WriteInv
    BY <1>5 DEF WriteInv, Moves, Writes
  <1>9. DecodeInv
    BY <1>3, <1>4, <1>5 DEF DecodeInv, DecodeOf, InTree, Placing, Left
  <1>10. AccessInv
    BY <1>2, <1>5 DEF AccessInv
  <1> QED
    BY <1>6, <1>7, <1>8, <1>9, <1>10 DEF MemInv

-----------------------------------------------------------------------------
(* The steps of the memory map.                                            *)

\* The lookup of an access takes the lock for a BAR, and not for the window.
LEMMA EmulateInv ==
    ASSUME MemInv, NEW c \in Cpus, NEW a \in Addrs \cup {Ecfg}, emulate_mem(c, a)
    PROVE  MemInv'
  <1>1. MemTypes /\ TreeInv /\ WriteInv /\ DecodeInv /\ AccessInv
    BY DEF MemInv
  <1>2. PICK e \in mm.tree :
          /\ e.base = a
          /\ mmCpu[c] = MemIdle
          /\ mmCpu' = [mmCpu EXCEPT ![c] = [op |-> "handler", entry |-> e, gpa |-> a]]
          /\ mm' = [mm EXCEPT !.hint[c] = {e},
                              !.readers = IF immutable(e) THEN @ ELSE @ \cup {c}]
          /\ UNCHANGED <<mmBar, mmFault>>
    BY <1>1, Zenon DEF emulate_mem, mmio_rb_lookup, AccessInv
  <1>3. e \in Entries /\ mmCpu[c].op = "idle"
    BY <1>1, <1>2 DEF MemTypes, MemIdle
  <1>4. /\ mm'.tree = mm.tree
        /\ mm'.hint = [mm.hint EXCEPT ![c] = {e}]
        /\ mm'.readers = IF window(e) THEN mm.readers ELSE mm.readers \cup {c}
        /\ mm' \in [tree : SUBSET Entries, hint : [Cpus -> SUBSET Entries],
                    readers : SUBSET Cpus]
    BY <1>1, <1>2, <1>3, Zenon DEF MemTypes, immutable
  <1>5. mmCpu' \in [Cpus -> Jobs]
    BY <1>1, <1>2, <1>3 DEF MemTypes, Jobs
  <1>6. /\ mmCpu'[c].op = "handler" /\ mmCpu'[c].entry = e /\ mmCpu'[c].gpa = a
        /\ \A d \in Cpus \ {c} : mmCpu'[d] = mmCpu[d]
    BY <1>1, <1>2 DEF MemTypes
  <1>7. MemTypes'
    BY <1>1, <1>2, <1>4, <1>5 DEF MemTypes
  <1>8. TreeInv'
    BY <1>1, <1>2, <1>4 DEF TreeInv, window
  <1>9. WriteInv'
    BY <1>1, <1>2, <1>6 DEF WriteInv, Moves, Writes
  <1>10. DecodeInv'
    BY <1>1, <1>2, <1>3, <1>4, <1>6 DEF DecodeInv, DecodeOf, Placing, Left, InTree
  <1>11. AccessInv'
    <2>1. /\ mm'.hint[c] = {e}
          /\ \A d \in Cpus \ {c} : mm'.hint[d] = mm.hint[d]
                               /\ (d \in mm'.readers <=> d \in mm.readers)
      BY <1>1, <1>4 DEF MemTypes
    <2>2. c \in mm'.readers <=> ~ window(e)
      BY <1>1, <1>2, <1>3, <1>4 DEF AccessInv
    <2> QED
      BY <1>1, <1>2, <1>4, <1>6, <2>1, <2>2 DEF AccessInv, window
  <1> QED
    BY <1>7, <1>8, <1>9, <1>10, <1>11 DEF MemInv

\* A step that changes neither a tree nor a BAR, and after which c is idle or
\* about to write, from neither of which a range depends.
LEMMA JobInv ==
    ASSUME MemInv, NEW c \in Cpus, NEW w \in Jobs,
           mmCpu' = [mmCpu EXCEPT ![c] = w],
           UNCHANGED <<mmBar, mmFault>>,
           mm' \in [tree : SUBSET Entries, hint : [Cpus -> SUBSET Entries],
                    readers : SUBSET Cpus],
           mm'.tree = mm.tree, mm'.hint = mm.hint, mm'.readers = mm.readers \ {c},
           mmCpu[c].op \in {"idle", "handler"},
           \/ w = MemIdle
           \/ /\ w.op = "moving" /\ w.dev = DevOf[w.bar] /\ ~ busy(w.dev)
              /\ \A b \in Bars : mmBar.addr[b] # w.addr
              /\ \A d \in Cpus : Moves(mmCpu[d]) => mmCpu[d].addr # w.addr
    PROVE  MemInv'
  <1>1. MemTypes /\ TreeInv /\ WriteInv /\ DecodeInv /\ AccessInv
    BY DEF MemInv
  <1>2. /\ mmCpu' \in [Cpus -> Jobs] /\ mmCpu'[c] = w
        /\ \A d \in Cpus \ {c} : mmCpu'[d] = mmCpu[d]
    BY <1>1 DEF MemTypes
  <1>3. w.op \in {"idle", "moving"}
    BY DEF MemIdle
  <1>4. MemTypes'
    BY <1>1, <1>2 DEF MemTypes
  <1>5. TreeInv'
    BY <1>1 DEF TreeInv, window
  <1>6. WriteInv'
    BY <1>1, <1>2, <1>3 DEF WriteInv, Moves, Writes, busy, MemIdle
  <1>7. DecodeInv'
    BY <1>1, <1>2, <1>3 DEF DecodeInv, DecodeOf, Placing, Left, InTree
  <1>8. AccessInv'
    BY <1>1, <1>2, <1>3 DEF AccessInv, window, MemTypes
  <1> QED
    BY <1>4, <1>5, <1>6, <1>7, <1>8 DEF MemInv

\* pci_emul_mem_handler finds the address in its BAR, and drops the lock.
LEMMA HandlerInv ==
    ASSUME MemInv, NEW c \in Cpus, pci_emul_mem_handler(c)
    PROVE  MemInv'
  <1>1. MemTypes /\ TreeInv /\ AccessInv
    BY DEF MemInv
  <1>2. mmCpu[c].gpa = mmBar.addr[mmCpu[c].entry.owner]
    BY <1>1 DEF TreeInv, AccessInv, pci_emul_mem_handler
  <1>3. UNCHANGED <<mmBar, mmFault>>
    BY <1>1, <1>2, Zenon DEF pci_emul_mem_handler, MemTypes
  <1>4. /\ mmCpu' = [mmCpu EXCEPT ![c] = MemIdle] /\ MemIdle \in Jobs
        /\ mmCpu[c].op = "handler"
    BY DEF pci_emul_mem_handler, Jobs
  <1>5. /\ mm' \in [tree : SUBSET Entries, hint : [Cpus -> SUBSET Entries],
                    readers : SUBSET Cpus]
        /\ mm'.tree = mm.tree /\ mm'.hint = mm.hint /\ mm'.readers = mm.readers \ {c}
    BY <1>1 DEF pci_emul_mem_handler, MemTypes
  <1> QED
    BY <1>3, <1>4, <1>5, JobInv, Zenon

\* The other steps that leave the tree alone: a write to a BAR begins, or an
\* access to the window ends.
LEMMA WindowInv ==
    ASSUME MemInv, NEW c \in Cpus,
           ecfg_done(c) \/ \E b \in Bars, a \in Addrs : bar_write(c, b, a)
    PROVE  MemInv'
  <1>1. MemTypes /\ TreeInv /\ AccessInv
    BY DEF MemInv
  <1>2. /\ mmCpu[c].op \in {"idle", "handler"} /\ UNCHANGED <<mm, mmBar, mmFault>>
        /\ mmCpu[c].op = "handler" => window(mmCpu[c].entry)
    BY DEF ecfg_done, bar_write, MemIdle
  <1>3. /\ mm' \in [tree : SUBSET Entries, hint : [Cpus -> SUBSET Entries],
                    readers : SUBSET Cpus]
        /\ mm'.tree = mm.tree /\ mm'.hint = mm.hint /\ mm'.readers = mm.readers \ {c}
    BY <1>1, <1>2 DEF MemTypes, AccessInv
  <1>4. CASE ecfg_done(c)
    <2>1. mmCpu' = [mmCpu EXCEPT ![c] = MemIdle] /\ MemIdle \in Jobs
      BY <1>4 DEF ecfg_done, Jobs
    <2> QED
      BY <1>2, <1>3, <2>1, JobInv, Zenon
  <1>5. CASE \E b \in Bars, a \in Addrs : bar_write(c, b, a)
    <2>1. PICK b \in Bars, a \in Addrs : bar_write(c, b, a)
      BY <1>5
    <2> DEFINE w == [op |-> "moving", bar |-> b, dev |-> DevOf[b], addr |-> a]
    <2>2. /\ mmCpu' = [mmCpu EXCEPT ![c] = w]
          /\ ~ busy(DevOf[b]) /\ vacant(b, a) /\ a # mmBar.addr[b]
      BY <2>1 DEF bar_write
    <2>3. w \in Jobs
      BY DEF Jobs, Devices
    <2>4. w.op = "moving" /\ w.dev = DevOf[w.bar] /\ w.addr = a /\ w.bar = b
      OBVIOUS
    <2> HIDE DEF w
    <2>5. /\ \A x \in Bars : mmBar.addr[x] # w.addr
          /\ \A d \in Cpus : Moves(mmCpu[d]) => mmCpu[d].addr # w.addr
      BY <2>2, <2>4 DEF vacant, Moves
    <2> QED
      BY <1>2, <1>3, <2>2, <2>3, <2>4, <2>5, JobInv, Zenon
  <1> QED
    BY <1>4, <1>5

\* A CPU that writes to the configuration space of the device of b is the
\* only one that can have b to place or left to decode.
LEMMA NotOthers ==
    ASSUME WriteInv, NEW c \in Cpus, NEW b \in Bars, Writes(mmCpu[c]),
           mmCpu[c].dev = DevOf[b]
    PROVE  \A d \in Cpus \ {c} : ~ Placing(d, b) /\ ~ Left(d, b)
  <1> SUFFICES ASSUME NEW d \in Cpus \ {c} PROVE ~ Placing(d, b) /\ ~ Left(d, b)
    OBVIOUS
  <1>1. Writes(mmCpu[d]) => mmCpu[d].dev # DevOf[b]
    BY DEF WriteInv
  <1>2. ~ Placing(d, b)
    BY <1>1 DEF WriteInv, Placing, Writes, Moves
  <1>3. ~ Left(d, b)
    BY <1>1 DEF WriteInv, Left, Writes
  <1> QED
    BY <1>2, <1>3

\* unregister_mem takes out the range of b and nothing else.
LEMMA RemoveBar ==
    ASSUME MemTypes, TreeInv, NEW b \in Bars, InTree(b)
    PROVE  LET a == mmBar.addr[b]
               m == unregister_mem(mm, b, a)
           IN  /\ ~ unregister_fails(b, a)
               /\ m \in [tree : SUBSET Entries, hint : [Cpus -> SUBSET Entries],
                         readers : SUBSET Cpus]
               /\ m.tree = mm.tree \ {RangeOf(b, a)}
               /\ \A c \in Cpus : m.hint[c] = mm.hint[c] \ {RangeOf(b, a)}
               /\ m.readers = mm.readers
  <1> DEFINE a == mmBar.addr[b]
             r == RangeOf(b, a)
             gone == {e \in mm.tree : e.base = a}
  <1>1. a \in Addrs
    BY DEF MemTypes
  <1>2. ASSUME NEW e \in mm.tree, e.base = a PROVE e = r
    <2>1. e \in Entries
      BY DEF MemTypes
    <2>2. ~ window(e) /\ e.owner \in Bars /\ e = RangeOf(e.owner, e.base)
      BY <1>1, <1>2, <2>1, EntryFacts, MemAssumption DEF RangeOf
    <2>3. mmBar.addr[e.owner] = a
      BY <1>2, <2>2 DEF TreeInv
    <2>4. e.owner = b
      BY <2>2, <2>3 DEF TreeInv
    <2> QED
      BY <1>2, <2>2, <2>4
  <1>3. gone = {r}
    BY <1>2 DEF InTree, RangeOf
  <1>4. unregister_mem(mm, b, a) =
          [mm EXCEPT !.tree = @ \ gone, !.hint = [c \in Cpus |-> @[c] \ gone]]
    BY DEF unregister_mem
  <1>5. ~ unregister_fails(b, a)
    BY <1>3 DEF unregister_fails, mmio_rb_lookup, RangeOf
  <1> DEFINE m == unregister_mem(mm, b, a)
  <1>6. /\ m.tree = mm.tree \ {r} /\ m.hint = [c \in Cpus |-> mm.hint[c] \ {r}]
        /\ m = [tree |-> m.tree, hint |-> m.hint, readers |-> mm.readers]
    <2>1. /\ m.tree = mm.tree \ gone
          /\ m.hint = [c \in Cpus |-> mm.hint[c] \ gone]
          /\ m.readers = mm.readers
      BY <1>4 DEF MemTypes
    <2>2. m = [tree |-> m.tree, hint |-> m.hint, readers |-> m.readers]
      BY <1>4, Zenon DEF MemTypes
    <2> QED
      BY <1>3, <2>1, <2>2, Zenon
  <1> HIDE DEF m, r
  <1>7. \A c \in Cpus : m.hint[c] = mm.hint[c] \ {r}
    BY <1>6
  <1>8. m.tree \in SUBSET Entries /\ m.hint \in [Cpus -> SUBSET Entries]
    BY <1>6 DEF MemTypes
  <1>9. /\ m \in [tree : SUBSET Entries, hint : [Cpus -> SUBSET Entries],
                   readers : SUBSET Cpus]
        /\ m.readers = mm.readers
    BY <1>6, <1>8 DEF MemTypes
  <1> QED
    BY <1>5, <1>6, <1>7, <1>9 DEF m, r

\* register_mem finds the place of b free.
LEMMA AddBar ==
    ASSUME MemTypes, TreeInv, NEW b \in Bars, ~ InTree(b)
    PROVE  registered(mm.tree, b, mmBar.addr[b])
             = mm.tree \cup {RangeOf(b, mmBar.addr[b])}
  <1> DEFINE a == mmBar.addr[b]
  <1>1. a \in Addrs
    BY DEF MemTypes
  <1>2. ASSUME NEW e \in mm.tree, e.base = a PROVE FALSE
    <2>1. e \in Entries
      BY DEF MemTypes
    <2>2. ~ window(e) /\ e.owner \in Bars /\ e = RangeOf(e.owner, e.base)
      BY <1>1, <1>2, <2>1, EntryFacts, MemAssumption DEF RangeOf
    <2>3. mmBar.addr[e.owner] = a
      BY <1>2, <2>2 DEF TreeInv
    <2>4. e.owner = b
      BY <2>2, <2>3 DEF TreeInv
    <2> QED
      BY <1>2, <2>2, <2>4 DEF InTree
  <1> QED
    BY <1>2 DEF registered, RangeOf

\* Taking r out of the tree and the hints dangles no access: where r is in the
\* tree, nobody is in the handler of a BAR.
LEMMA RemovalSafe ==
    ASSUME MemInv, NEW c \in Cpus, Writes(mmCpu[c]), Writes(mmCpu'[c]) \/ mmCpu'[c] = MemIdle,
           \A d \in Cpus \ {c} : mmCpu'[d] = mmCpu[d],
           NEW b \in Bars, NEW a \in Addrs,
           mm'.tree = mm.tree \ {RangeOf(b, a)},
           \A d \in Cpus : mm'.hint[d] = mm.hint[d] \ {RangeOf(b, a)},
           mm'.readers = mm.readers,
           RangeOf(b, a) \in mm.tree => mm.readers = {}
    PROVE  AccessInv'
  <1>1. AccessInv /\ MemTypes
    BY DEF MemInv
  <1>2. mmCpu[c].op # "handler" /\ mmCpu'[c].op # "handler"
    BY DEF Writes, MemIdle
  <1>3. c \notin mm.readers
    BY <1>1, <1>2 DEF AccessInv
  <1>4. ASSUME NEW d \in Cpus, mmCpu'[d].op = "handler"
        PROVE  /\ mmCpu'[d].entry \in mm'.tree /\ mmCpu'[d].gpa = mmCpu'[d].entry.base
    <2>1. d # c /\ mmCpu'[d] = mmCpu[d]
      BY <1>2, <1>4
    <2>2. mmCpu[d].entry \in mm.tree /\ mmCpu[d].gpa = mmCpu[d].entry.base
      BY <1>1, <1>4, <2>1 DEF AccessInv
    <2>3. mmCpu[d].entry # RangeOf(b, a)
      <3>1. CASE window(mmCpu[d].entry)
        BY <3>1, MemAssumption DEF window, RangeOf
      <3>2. CASE ~ window(mmCpu[d].entry)
        <4>1. d \in mm.readers
          BY <1>1, <1>4, <2>1, <3>2 DEF AccessInv
        <4> QED
          BY <2>2, <4>1
      <3> QED
        BY <3>1, <3>2
    <2> QED
      BY <2>1, <2>2, <2>3
  <1>5. ASSUME NEW d \in Cpus
        PROVE  d \in mm'.readers <=> mmCpu'[d].op = "handler" /\ ~ window(mmCpu'[d].entry)
    BY <1>1, <1>2, <1>3 DEF AccessInv
  <1>6. \A d \in Cpus : mm'.hint[d] \subseteq mm'.tree
    BY <1>1 DEF AccessInv
  <1> QED
    BY <1>4, <1>5, <1>6 DEF AccessInv, window

\* update_bar_address takes the old range out and sets the new address.
LEMMA UpdateInv ==
    ASSUME MemInv, NEW c \in Cpus, update_mem_bar(c)
    PROVE  MemInv'
  <1>1. MemTypes /\ TreeInv /\ WriteInv /\ DecodeInv /\ AccessInv
    BY DEF MemInv
  <1>w. PICK w \in Jobs : w = mmCpu[c]
    BY <1>1 DEF MemTypes
  <1>b. PICK b \in Bars : b = w.bar
    BY <1>w, JobFacts DEF update_mem_bar
  <1>a. PICK a \in Addrs : a = mmBar.addr[b]
    BY <1>1 DEF MemTypes
  <1> DEFINE r == RangeOf(b, a)
  <1>2. /\ w.op = "moving" /\ w.addr \in Addrs
        /\ w.dev = DevOf[b] /\ w.dev \in Devices /\ Writes(w)
    BY <1>1, <1>w, <1>b, JobFacts DEF WriteInv, Writes, Moves, update_mem_bar
  <1>3. \A x \in Bars : mmBar.addr[x] # w.addr
    BY <1>1, <1>2, <1>w DEF MemTypes, WriteInv
  <1>4. InTree(b) <=> mmBar.memen[DevOf[b]]
    <2>1. \A d \in Cpus : ~ Placing(d, b) /\ ~ Left(d, b)
      BY <1>1, <1>2, <1>w, NotOthers DEF Placing, Left
    <2> QED
      BY <1>1, <1>2, <2>1 DEF DecodeInv, DecodeOf
  <1>5. /\ mm' \in [tree : SUBSET Entries, hint : [Cpus -> SUBSET Entries],
                    readers : SUBSET Cpus]
        /\ mm'.tree = mm.tree \ {r}
        /\ \A d \in Cpus : mm'.hint[d] = mm.hint[d] \ {r}
        /\ mm'.readers = mm.readers
        /\ mmFault' = FALSE
        /\ r \in mm.tree => mm.readers = {}
    <2>1. CASE mmBar.memen[DevOf[b]]
      <3>1. /\ mm' = unregister_mem(mm, b, a) /\ mm.readers = {}
            /\ mmFault' = (mmFault \/ unregister_fails(b, a))
        BY <1>2, <2>1, <1>w, <1>b, <1>a DEF update_mem_bar, wrlock
      <3>2. InTree(b)
        BY <1>4, <2>1
      <3> QED
        BY <1>1, <3>1, <3>2, <1>a, RemoveBar, Zenon DEF MemTypes
    <2>2. CASE ~ mmBar.memen[DevOf[b]]
      <3>1. mm' = mm /\ mmFault' = mmFault
        BY <1>1, <1>2, <2>2, <1>w, <1>b, Zenon DEF update_mem_bar, MemTypes
      <3>2. r \notin mm.tree
        BY <1>4, <2>2, <1>a DEF InTree
      <3>3. \A d \in Cpus : r \notin mm.hint[d]
        BY <1>1, <3>2 DEF AccessInv
      <3> QED
        BY <1>1, <3>1, <3>2, <3>3 DEF MemTypes
    <2> QED
      BY <2>1, <2>2, Zenon
  <1>6. /\ mmBar' \in [addr : [Bars -> Addrs], memen : [Devices -> BOOLEAN]]
        /\ mmBar'.memen = mmBar.memen
        /\ mmBar'.addr[b] = w.addr
        /\ \A x \in Bars \ {b} : mmBar'.addr[x] = mmBar.addr[x]
    <2>1. mmBar' = [mmBar EXCEPT !.addr[b] = w.addr]
      BY <1>w, <1>b DEF update_mem_bar
    <2> QED
      BY <1>1, <1>2, <2>1 DEF MemTypes
  <1>7. /\ mmCpu' \in [Cpus -> Jobs]
        /\ mmCpu'[c].op = "placing" /\ mmCpu'[c].bar = b
        /\ mmCpu'[c].dev = w.dev /\ mmCpu'[c].addr = w.addr
        /\ \A d \in Cpus \ {c} : mmCpu'[d] = mmCpu[d]
    <2>1. mmCpu' = [mmCpu EXCEPT ![c].op = "placing"]
      BY DEF update_mem_bar
    <2>2. w = [op |-> "moving", bar |-> b, dev |-> w.dev, addr |-> w.addr]
      BY <1>2, <1>b DEF Jobs, MemIdle
    <2>3. mmCpu'[c] = [op |-> "placing", bar |-> b, dev |-> w.dev, addr |-> w.addr]
      BY <1>1, <2>1, <2>2, <1>w DEF MemTypes
    <2>4. mmCpu'[c] \in Jobs
      BY <1>2, <2>3 DEF Jobs
    <2> QED
      BY <1>1, <2>1, <2>3, <2>4 DEF MemTypes
  <1>8. MemTypes'
    BY <1>5, <1>6, <1>7 DEF MemTypes
  <1>9. TreeInv'
    <2>1. RangeOf(Ecfg, Ecfg) \in mm'.tree
      BY <1>1, <1>2, <1>5, MemAssumption DEF TreeInv, RangeOf
    <2>2. ASSUME NEW e \in mm'.tree, ~ window(e) PROVE e.base = mmBar'.addr[e.owner]
      <3>1. e \in Entries /\ e.base = mmBar.addr[e.owner] /\ e # r
        BY <1>1, <1>5, <2>2 DEF TreeInv, MemTypes
      <3>2. e.owner \in Bars /\ e = RangeOf(e.owner, e.base)
        BY <2>2, <3>1, EntryFacts
      <3>3. e.owner # b
        BY <3>1, <3>2, <1>a
      <3> QED
        BY <1>6, <3>1, <3>2, <3>3
    <2>3. \A x, y \in Bars : x # y => mmBar'.addr[x] # mmBar'.addr[y]
      BY <1>1, <1>3, <1>6 DEF TreeInv
    <2> QED
      BY <2>1, <2>2, <2>3 DEF TreeInv, window
  <1>10. WriteInv'
    <2>1. \A d \in Cpus : Moves(mmCpu'[d]) <=> Moves(mmCpu[d])
      BY <1>2, <1>7, <1>w DEF Moves
    <2>2. \A d \in Cpus : Writes(mmCpu'[d]) <=> Writes(mmCpu[d])
      BY <1>2, <1>7, <1>w DEF Writes
    <2>3. \A d \in Cpus : /\ mmCpu'[d].dev = mmCpu[d].dev
                          /\ mmCpu'[d].addr = mmCpu[d].addr
                          /\ mmCpu'[d].bar = mmCpu[d].bar
      BY <1>7, <1>w, <1>b
    <2>4. ASSUME NEW d \in Cpus, NEW x \in Bars, mmCpu'[d].op = "moving"
          PROVE  mmBar'.addr[x] # mmCpu'[d].addr
      <3>1. d # c /\ mmCpu'[d] = mmCpu[d]
        BY <1>7, <2>4
      <3>2. mmCpu[d].addr # w.addr
        BY <1>1, <1>2, <2>4, <3>1, <1>w DEF WriteInv, Moves
      <3> QED
        BY <1>1, <1>6, <2>4, <3>1, <3>2 DEF WriteInv
    <2>5. ASSUME NEW d \in Cpus, NEW x \in Bars, mmCpu'[d].op = "placing", mmCpu'[d].bar = x
          PROVE  mmBar'.addr[x] = mmCpu'[d].addr
      <3>1. CASE d = c
        BY <1>6, <1>7, <2>5, <3>1
      <3>2. CASE d # c
        <4>1. mmCpu'[d] = mmCpu[d] /\ Placing(d, x)
          BY <1>7, <2>5, <3>2 DEF Placing
        <4>2. x # b
          BY <1>1, <1>2, <3>2, <4>1, <1>w, NotOthers
        <4> QED
          BY <1>1, <1>6, <2>5, <4>1, <4>2 DEF WriteInv
      <3> QED
        BY <3>1, <3>2
    <2>6. \A d \in Cpus, x \in Bars :
            mmCpu'[d].op = "decoding" /\ x \in mmCpu'[d].left => mmCpu'[d].dev = DevOf[x]
      BY <1>1, <1>7 DEF WriteInv
    <2>7. \A d \in Cpus : Moves(mmCpu'[d]) => mmCpu'[d].dev = DevOf[mmCpu'[d].bar]
      BY <1>1, <2>1, <2>3 DEF WriteInv
    <2>8. \A d, x \in Cpus :
            /\ d # x /\ Writes(mmCpu'[d]) /\ Writes(mmCpu'[x]) => mmCpu'[d].dev # mmCpu'[x].dev
            /\ d # x /\ Moves(mmCpu'[d]) /\ Moves(mmCpu'[x]) => mmCpu'[d].addr # mmCpu'[x].addr
      BY <1>1, <2>1, <2>2, <2>3 DEF WriteInv
    <2> QED
      BY <2>4, <2>5, <2>6, <2>7, <2>8 DEF WriteInv, Moves, Writes
  <1>11. DecodeInv'
    <2>1. ASSUME NEW x \in Bars \ {b}
          PROVE  /\ InTree(x)' <=> InTree(x)
                 /\ \A d \in Cpus : Placing(d, x)' <=> Placing(d, x)
                 /\ \A d \in Cpus : Left(d, x)' <=> Left(d, x)
      BY <1>2, <1>5, <1>6, <1>7, <1>w, <1>a DEF InTree, Placing, Left, RangeOf
    <2>2. ~ InTree(b)'
      <3> DEFINE q == RangeOf(b, w.addr)
      <3>1. q.base = w.addr /\ q.owner = b /\ ~ window(q)
        BY <1>2, MemAssumption DEF RangeOf, window
      <3>2. q \notin mm.tree
        BY <1>1, <1>2, <1>3, <3>1 DEF TreeInv
      <3> QED
        BY <1>5, <1>6, <3>2 DEF InTree
    <2>3. Placing(c, b)' /\ \A d \in Cpus : ~ Left(d, b)'
      <3>1. \A d \in Cpus \ {c} : ~ Left(d, b)
        BY <1>1, <1>2, <1>w, NotOthers
      <3> QED
        BY <1>7, <3>1 DEF Placing, Left
    <2>4. ASSUME NEW x \in Bars PROVE DecodeOf(x)'
      <3>1. CASE x = b
        BY <2>2, <2>3, <3>1 DEF DecodeOf
      <3>2. CASE x # b
        <4>1. DecodeOf(x)
          BY <1>1 DEF DecodeInv
        <4> QED
          BY <1>6, <2>1, <3>2, <4>1 DEF DecodeOf
      <3> QED
        BY <3>1, <3>2
    <2> QED
      BY <2>4 DEF DecodeInv
  <1>12. AccessInv'
    BY <1>2, <1>3, <1>5, <1>7, <1>w, RemovalSafe DEF Writes
  <1> QED
    BY <1>8, <1>9, <1>10, <1>11, <1>12 DEF MemInv

\* update_bar_address puts the new range in, if the device decodes memory.
LEMMA RegisterInv ==
    ASSUME MemInv, NEW c \in Cpus, register_mem_bar(c)
    PROVE  MemInv'
  <1>1. MemTypes /\ TreeInv /\ WriteInv /\ DecodeInv /\ AccessInv
    BY DEF MemInv
  <1>w. PICK w \in Jobs : w = mmCpu[c]
    BY <1>1 DEF MemTypes
  <1>b. PICK b \in Bars : b = w.bar
    BY <1>w, JobFacts DEF register_mem_bar
  <1>a. PICK a \in Addrs : a = mmBar.addr[b]
    BY <1>1 DEF MemTypes
  <1> DEFINE r == RangeOf(b, a)
  <1>2. w.op = "placing" /\ w.addr = a /\ w.dev = DevOf[b] /\ Writes(w)
    BY <1>1, <1>w, <1>b, <1>a DEF WriteInv, Writes, Moves, register_mem_bar
  <1>3. ~ InTree(b)
    BY <1>1, <1>2, <1>w, <1>b DEF DecodeInv, DecodeOf, Placing
  <1>4. /\ mm' \in [tree : SUBSET Entries, hint : [Cpus -> SUBSET Entries],
                    readers : SUBSET Cpus]
        /\ mm'.tree = IF mmBar.memen[DevOf[b]] THEN mm.tree \cup {r} ELSE mm.tree
        /\ mm'.hint = mm.hint /\ mm'.readers = mm.readers
        /\ UNCHANGED <<mmBar, mmFault>>
    <2>1. registered(mm.tree, b, a) = mm.tree \cup {r}
      BY <1>1, <1>3, <1>a, AddBar
    <2>2. r \in Entries
      BY DEF RangeOf, Entries
    <2>3. /\ mm' = IF mmBar.memen[DevOf[b]]
                   THEN [mm EXCEPT !.tree = registered(@, b, a)] ELSE mm
          /\ UNCHANGED <<mmBar, mmFault>>
      BY <1>2, <1>w, <1>b DEF register_mem_bar
    <2>4. mmBar.memen[DevOf[b]] => mm' = [mm EXCEPT !.tree = mm.tree \cup {r}]
      BY <1>1, <2>1, <2>3 DEF MemTypes
    <2> HIDE DEF r
    <2>5. CASE mmBar.memen[DevOf[b]]
      <3>1. mm' = [mm EXCEPT !.tree = mm.tree \cup {r}]
        BY <2>4, <2>5
      <3> QED
        BY <1>1, <2>2, <2>3, <2>5, <3>1 DEF MemTypes
    <2>6. CASE ~ mmBar.memen[DevOf[b]]
      BY <1>1, <2>3, <2>6 DEF MemTypes
    <2> QED
      BY <2>5, <2>6
  <1>5. /\ mmCpu' \in [Cpus -> Jobs] /\ mmCpu'[c] = MemIdle /\ mmCpu'[c].op = "idle"
        /\ \A d \in Cpus \ {c} : mmCpu'[d] = mmCpu[d]
    BY <1>1 DEF register_mem_bar, MemTypes, Jobs, MemIdle
  <1>6. MemTypes'
    BY <1>1, <1>4, <1>5 DEF MemTypes
  <1>7. TreeInv'
    <2>1. r.base = mmBar.addr[r.owner]
      BY <1>a DEF RangeOf
    <2> HIDE DEF r
    <2> QED
      BY <1>1, <1>4, <2>1 DEF TreeInv, window
  <1>8. WriteInv'
    <2>1. \A d \in Cpus : Writes(mmCpu'[d]) \/ Moves(mmCpu'[d]) => d # c
      BY <1>5 DEF Writes, Moves
    <2> QED
      BY <1>1, <1>4, <1>5, <2>1 DEF WriteInv, Writes, Moves
  <1>9. DecodeInv'
    <2>1. ASSUME NEW x \in Bars \ {b} PROVE DecodeOf(x)'
      <3>1. InTree(x)' <=> InTree(x)
        BY <1>4 DEF InTree, RangeOf
      <3>2. \A d \in Cpus : /\ Placing(d, x)' <=> Placing(d, x)
                            /\ Left(d, x)' <=> Left(d, x)
        BY <1>2, <1>5, <1>w, <1>b DEF Placing, Left
      <3>3. DecodeOf(x)
        BY <1>1 DEF DecodeInv
      <3> QED
        BY <1>4, <3>1, <3>2, <3>3 DEF DecodeOf
    <2>2. DecodeOf(b)'
      <3>1. InTree(b)' <=> mmBar.memen[DevOf[b]]
        BY <1>3, <1>4, <1>a DEF InTree
      <3>2. \A d \in Cpus : ~ Placing(d, b)' /\ ~ Left(d, b)'
        <4>1. \A d \in Cpus \ {c} : ~ Placing(d, b) /\ ~ Left(d, b)
          BY <1>1, <1>2, <1>w, NotOthers
        <4> QED
          BY <1>5, <4>1 DEF Placing, Left
      <3> QED
        BY <1>4, <3>1, <3>2 DEF DecodeOf
    <2> QED
      BY <2>1, <2>2 DEF DecodeInv
  <1>10. AccessInv'
    BY <1>1, <1>2, <1>4, <1>5, <1>w DEF AccessInv, window
  <1> QED
    BY <1>6, <1>7, <1>8, <1>9, <1>10 DEF MemInv

\* pci_emul_cmdsts_write: all the BARs of the device are left to follow.
LEMMA CmdstsInv ==
    ASSUME MemInv, NEW c \in Cpus, NEW v \in Devices, mem_cmdsts_write(c, v)
    PROVE  MemInv'
  <1>1. MemTypes /\ TreeInv /\ WriteInv /\ DecodeInv /\ AccessInv
    BY DEF MemInv
  <1> DEFINE L == {b \in Bars : DevOf[b] = v}
  <1>2. /\ mmCpu[c].op \in {"idle", "handler"} /\ ~ busy(v)
        /\ mmCpu[c].op = "handler" => window(mmCpu[c].entry)
        /\ UNCHANGED <<mm, mmFault>>
    BY DEF mem_cmdsts_write, MemIdle
  <1>3. /\ mmBar' \in [addr : [Bars -> Addrs], memen : [Devices -> BOOLEAN]]
        /\ mmBar'.addr = mmBar.addr
        /\ mmBar'.memen[v] <=> ~ mmBar.memen[v]
        /\ \A x \in Devices \ {v} : mmBar'.memen[x] = mmBar.memen[x]
    <2>1. mmBar' = [mmBar EXCEPT !.memen[v] = ~ @]
      BY DEF mem_cmdsts_write
    <2>2. (~ mmBar.memen[v]) \in BOOLEAN
      OBVIOUS
    <2> QED
      BY <1>1, <2>1, <2>2, Zenon DEF MemTypes
  <1>4. /\ mmCpu' \in [Cpus -> Jobs]
        /\ mmCpu'[c].op = "decoding" /\ mmCpu'[c].dev = v /\ mmCpu'[c].left = L
        /\ \A d \in Cpus \ {c} : mmCpu'[d] = mmCpu[d]
    <2>1. mmCpu' = [mmCpu EXCEPT ![c] = [op |-> "decoding", dev |-> v, left |-> L]]
      BY DEF mem_cmdsts_write
    <2>2. [op |-> "decoding", dev |-> v, left |-> L] \in Jobs
      BY DEF Jobs
    <2> QED
      BY <1>1, <2>1, <2>2 DEF MemTypes
  <1>5. \A b \in Bars : b \in L <=> DevOf[b] = v
    OBVIOUS
  <1> HIDE DEF L
  <1>6. MemTypes'
    BY <1>1, <1>2, <1>3, <1>4 DEF MemTypes
  <1>7. TreeInv'
    BY <1>1, <1>2, <1>3 DEF TreeInv, window
  <1>8. WriteInv'
    <2>1. \A d \in Cpus \ {c} : Writes(mmCpu[d]) => mmCpu[d].dev # v
      BY <1>2 DEF busy, Writes
    <2>2. ~ Moves(mmCpu'[c])
      BY <1>4 DEF Moves
    <2> QED
      BY <1>1, <1>3, <1>4, <1>5, <2>1, <2>2 DEF WriteInv, Writes, Moves
  <1>9. DecodeInv'
    <2>1. \A x \in Bars : InTree(x)' <=> InTree(x)
      BY <1>2, <1>3 DEF InTree
    <2>2. ASSUME NEW x \in Bars, DevOf[x] # v PROVE DecodeOf(x)'
      <3>1. \A d \in Cpus : /\ Placing(d, x)' <=> Placing(d, x)
                            /\ Left(d, x)' <=> Left(d, x)
        BY <1>2, <1>4, <1>5, <2>2 DEF Placing, Left
      <3>2. DecodeOf(x) /\ mmBar'.memen[DevOf[x]] = mmBar.memen[DevOf[x]]
        BY <1>1, <1>3, <2>2 DEF DecodeInv, Devices
      <3> QED
        BY <2>1, <3>1, <3>2 DEF DecodeOf
    <2>3. ASSUME NEW x \in Bars, DevOf[x] = v PROVE DecodeOf(x)'
      <3>1. \A d \in Cpus : ~ Placing(d, x) /\ ~ Left(d, x)
        BY <1>1, <1>2, <2>3 DEF busy, Placing, Left, WriteInv, Moves
      <3>2. InTree(x) <=> mmBar.memen[v]
        BY <1>1, <2>3, <3>1 DEF DecodeInv, DecodeOf
      <3>3. Left(c, x)' /\ \A d \in Cpus : ~ Placing(d, x)'
        BY <1>4, <1>5, <2>3, <3>1 DEF Placing, Left
      <3> QED
        BY <1>3, <2>1, <2>3, <3>2, <3>3 DEF DecodeOf
    <2> QED
      BY <2>2, <2>3 DEF DecodeInv
  <1>10. AccessInv'
    BY <1>1, <1>2, <1>4 DEF AccessInv, window
  <1> QED
    BY <1>6, <1>7, <1>8, <1>9, <1>10 DEF MemInv

\* A BAR follows its device: its range goes in or out, and it is left no more.
LEMMA ModifyInv ==
    ASSUME MemInv, NEW c \in Cpus, NEW b \in Bars, modify_bar_registration(c, b)
    PROVE  MemInv'
  <1>1. MemTypes /\ TreeInv /\ WriteInv /\ DecodeInv /\ AccessInv
    BY DEF MemInv
  <1>w. PICK w \in Jobs : w = mmCpu[c]
    BY <1>1 DEF MemTypes
  <1>a. PICK a \in Addrs : a = mmBar.addr[b]
    BY <1>1 DEF MemTypes
  <1> DEFINE r == RangeOf(b, a)
             on == mmBar.memen[DevOf[b]]
  <1>2. /\ w.op = "decoding" /\ b \in w.left /\ w.dev = DevOf[b] /\ Writes(w)
        /\ w.dev \in Devices /\ w.left \in SUBSET Bars /\ mm.readers = {}
    BY <1>1, <1>w, JobFacts DEF WriteInv, Writes, modify_bar_registration, wrlock
  <1>3. InTree(b) <=> ~ on
    BY <1>1, <1>2, <1>w DEF DecodeInv, DecodeOf, Left
  <1>4. /\ mm' \in [tree : SUBSET Entries, hint : [Cpus -> SUBSET Entries],
                    readers : SUBSET Cpus]
        /\ mm'.tree = IF on THEN mm.tree \cup {r} ELSE mm.tree \ {r}
        /\ \A d \in Cpus : mm'.hint[d] = mm.hint[d] \ {r}
        /\ mm'.readers = mm.readers
        /\ UNCHANGED <<mmBar, mmFault>>
    <2>1. /\ mm' = IF on THEN [mm EXCEPT !.tree = registered(@, b, a)]
                   ELSE unregister_mem(mm, b, a)
          /\ mmFault' = (mmFault \/ (~ on /\ unregister_fails(b, a)))
          /\ UNCHANGED mmBar
      BY <1>2, <1>w, <1>a DEF modify_bar_registration
    <2>2. CASE ~ on
      <3>1. mm' = unregister_mem(mm, b, a) /\ mmFault' = (mmFault \/ unregister_fails(b, a))
        BY <2>1, <2>2
      <3>2. InTree(b)
        BY <1>3, <2>2
      <3>3. /\ ~ unregister_fails(b, a)
            /\ mm' \in [tree : SUBSET Entries, hint : [Cpus -> SUBSET Entries],
                        readers : SUBSET Cpus]
            /\ mm'.tree = mm.tree \ {r}
            /\ \A d \in Cpus : mm'.hint[d] = mm.hint[d] \ {r}
            /\ mm'.readers = mm.readers
        BY <1>1, <3>1, <3>2, <1>a, RemoveBar, Zenon
      <3>4. mmFault' = mmFault
        BY <1>1, <3>1, <3>3, Zenon DEF MemTypes
      <3> QED
        BY <2>1, <2>2, <3>3, <3>4, Zenon
    <2>3. CASE on
      <3>1. registered(mm.tree, b, a) = mm.tree \cup {r} /\ r \notin mm.tree
        BY <1>1, <1>3, <2>3, <1>a, AddBar DEF InTree
      <3>2. r \in Entries
        BY DEF RangeOf, Entries
      <3> HIDE DEF r
      <3>3. mm' = [mm EXCEPT !.tree = mm.tree \cup {r}] /\ mmFault' = mmFault
        BY <1>1, <2>1, <2>3, <3>1, Zenon DEF MemTypes
      <3>4. \A d \in Cpus : r \notin mm.hint[d]
        BY <1>1, <3>1 DEF AccessInv
      <3>5. /\ mm' \in [tree : SUBSET Entries, hint : [Cpus -> SUBSET Entries],
                        readers : SUBSET Cpus]
            /\ mm'.tree = mm.tree \cup {r}
            /\ mm'.hint = mm.hint /\ mm'.readers = mm.readers
        BY <1>1, <3>2, <3>3 DEF MemTypes
      <3>6. \A d \in Cpus : mm'.hint[d] = mm.hint[d] \ {r}
        BY <3>4, <3>5
      <3> QED
        BY <2>1, <2>3, <3>3, <3>5, <3>6, Zenon
    <2> QED
      BY <2>2, <2>3, Zenon
  <1>5. /\ mmCpu' \in [Cpus -> Jobs]
        /\ \A d \in Cpus \ {c} : mmCpu'[d] = mmCpu[d]
        /\ \/ mmCpu'[c] = MemIdle /\ w.left = {b}
           \/ /\ mmCpu'[c].op = "decoding" /\ mmCpu'[c].dev = w.dev
              /\ mmCpu'[c].left = w.left \ {b}
    <2> DEFINE j == IF w.left = {b} THEN MemIdle ELSE [w EXCEPT !.left = @ \ {b}]
    <2>1. mmCpu' = [mmCpu EXCEPT ![c] = j]
      BY <1>w DEF modify_bar_registration
    <2>2. w = [op |-> "decoding", dev |-> w.dev, left |-> w.left]
      BY <1>2 DEF Jobs, MemIdle
    <2>3. [w EXCEPT !.left = @ \ {b}]
            = [op |-> "decoding", dev |-> w.dev, left |-> w.left \ {b}]
      BY <2>2
    <2>4. j \in Jobs
      BY <1>2, <2>3 DEF Jobs
    <2>5. \/ j = MemIdle /\ w.left = {b}
          \/ /\ j.op = "decoding" /\ j.dev = w.dev
             /\ j.left = w.left \ {b}
      BY <2>3
    <2> HIDE DEF j
    <2> QED
      BY <1>1, <2>1, <2>4, <2>5 DEF MemTypes
  <1>6. /\ mmCpu'[c].op \in {"idle", "decoding"}
        /\ \A x \in Bars : Left(c, x)' <=> Left(c, x) /\ x # b
    BY <1>2, <1>5, <1>w DEF MemIdle, Left
  <1>7. MemTypes'
    BY <1>1, <1>4, <1>5 DEF MemTypes
  <1>8. TreeInv'
    <2>1. r.base = mmBar.addr[r.owner] /\ r # RangeOf(Ecfg, Ecfg)
      BY <1>a, MemAssumption DEF RangeOf
    <2> HIDE DEF r, on
    <2> QED
      BY <1>1, <1>4, <2>1 DEF TreeInv, window
  <1>9. WriteInv'
    <2>1. ~ Moves(mmCpu'[c]) /\ ~ Moves(mmCpu[c])
      BY <1>2, <1>6, <1>w DEF Moves
    <2>2. Writes(mmCpu'[c]) => mmCpu'[c].dev = mmCpu[c].dev /\ Writes(mmCpu[c])
      BY <1>2, <1>5, <1>w DEF Writes, MemIdle
    <2>3. \A d, x \in Cpus :
            d # x /\ Writes(mmCpu'[d]) /\ Writes(mmCpu'[x]) => mmCpu'[d].dev # mmCpu'[x].dev
      BY <1>1, <1>5, <2>2 DEF WriteInv
    <2>4. \A d, x \in Cpus :
            d # x /\ Moves(mmCpu'[d]) /\ Moves(mmCpu'[x]) => mmCpu'[d].addr # mmCpu'[x].addr
      BY <1>1, <1>5, <2>1 DEF WriteInv
    <2>5. \A d \in Cpus : Moves(mmCpu'[d]) => mmCpu'[d].dev = DevOf[mmCpu'[d].bar]
      BY <1>1, <1>5, <2>1 DEF WriteInv
    <2>6. ASSUME NEW d \in Cpus, NEW x \in Bars
          PROVE  /\ mmCpu'[d].op = "moving" => mmBar'.addr[x] # mmCpu'[d].addr
                 /\ mmCpu'[d].op = "placing" /\ mmCpu'[d].bar = x =>
                      mmBar'.addr[x] = mmCpu'[d].addr
                 /\ mmCpu'[d].op = "decoding" /\ x \in mmCpu'[d].left =>
                      mmCpu'[d].dev = DevOf[x]
      <3>1. CASE d = c
        BY <1>1, <1>2, <1>5, <1>6, <3>1, <1>w DEF WriteInv, MemIdle
      <3>2. CASE d # c
        BY <1>1, <1>4, <1>5, <3>2 DEF WriteInv
      <3> QED
        BY <3>1, <3>2
    <2> QED
      BY <2>3, <2>4, <2>5, <2>6 DEF WriteInv, Writes, Moves
  <1>10. DecodeInv'
    <2>1. ASSUME NEW x \in Bars \ {b} PROVE DecodeOf(x)'
      <3>1. InTree(x)' <=> InTree(x)
        BY <1>4 DEF InTree, RangeOf
      <3>2. \A d \in Cpus : /\ Placing(d, x)' <=> Placing(d, x)
                            /\ Left(d, x)' <=> Left(d, x)
        BY <1>2, <1>5, <1>6, <1>w DEF Placing, Left
      <3>3. DecodeOf(x)
        BY <1>1 DEF DecodeInv
      <3> QED
        BY <1>4, <3>1, <3>2, <3>3 DEF DecodeOf
    <2>2. DecodeOf(b)'
      <3>1. InTree(b)' <=> on
        BY <1>3, <1>4, <1>a DEF InTree
      <3>2. \A d \in Cpus : ~ Placing(d, b)' /\ ~ Left(d, b)'
        <4>1. \A d \in Cpus \ {c} : ~ Placing(d, b) /\ ~ Left(d, b)
          BY <1>1, <1>2, <1>w, NotOthers
        <4> QED
          BY <1>5, <1>6, <4>1 DEF Placing, Left
      <3> QED
        BY <1>4, <3>1, <3>2 DEF DecodeOf
    <2> QED
      BY <2>1, <2>2 DEF DecodeInv
  <1>11. AccessInv'
    <2>1. \A d \in Cpus : mmCpu'[d].op = "handler" => mmCpu'[d] = mmCpu[d]
      BY <1>5, <1>6
    <2>2. \A d \in Cpus : mmCpu'[d].op = "handler" <=> mmCpu[d].op = "handler"
      BY <1>2, <1>5, <1>6, <1>w
    <2>3. ASSUME NEW d \in Cpus, mmCpu[d].op = "handler" PROVE mmCpu[d].entry # r
      BY <1>1, <1>2, <2>3, MemAssumption DEF AccessInv, window, RangeOf
    <2> HIDE DEF r, on
    <2> QED
      BY <1>1, <1>2, <1>4, <2>1, <2>2, <2>3 DEF AccessInv, window
  <1> QED
    BY <1>7, <1>8, <1>9, <1>10, <1>11 DEF MemInv

\* Every step keeps the invariant.
LEMMA MemStep == MemInv /\ [MemNext]_memVars => MemInv'
  <1> SUFFICES ASSUME MemInv, [MemNext]_memVars PROVE MemInv'
    OBVIOUS
  <1>1. CASE UNCHANGED memVars
    <2>1. UNCHANGED <<mm, mmBar, mmCpu, mmFault>>
      BY <1>1 DEF memVars
    <2>2. MemTypes'
      BY <2>1 DEF MemInv, MemTypes
    <2>3. TreeInv'
      BY <2>1 DEF MemInv, TreeInv, window
    <2>4. WriteInv'
      BY <2>1 DEF MemInv, WriteInv, Moves, Writes
    <2>5. DecodeInv'
      BY <2>1 DEF MemInv, DecodeInv, DecodeOf, Placing, Left, InTree
    <2>6. AccessInv'
      BY <2>1 DEF MemInv, AccessInv, window
    <2> QED
      BY <2>2, <2>3, <2>4, <2>5, <2>6 DEF MemInv
  <1>2. CASE MemNext
    BY <1>2, EmulateInv, HandlerInv, WindowInv, UpdateInv, RegisterInv, CmdstsInv, ModifyInv
    DEF MemNext
  <1> QED
    BY <1>1, <1>2

\* The invariant holds in every state the memory map reaches.
LEMMA MemInvariance == MemSpec => []MemInv
  BY MemStart, MemStep, PTL DEF MemSpec

(***************************************************************************)
(* Whatever vcpus access and move BARs at the same time, the tree and the  *)
(* BARs agree whenever no write to the device is in progress.              *)
(***************************************************************************)
THEOREM TreeFollowsBars == MemSpec => []TreeMatchesBars
  <1>1. MemInv => TreeMatchesBars
    <2> SUFFICES ASSUME MemInv, NEW b \in Bars, ~ busy(DevOf[b])
                 PROVE  {e \in mm.tree : e.owner = b} =
                          {e \in {[owner |-> b, base |-> mmBar.addr[b]]} :
                             mmBar.memen[DevOf[b]]}
      BY DEF TreeMatchesBars
    <2>1. MemTypes /\ TreeInv /\ WriteInv /\ DecodeInv
      BY DEF MemInv
    <2>2. \A c \in Cpus : ~ Placing(c, b) /\ ~ Left(c, b)
      BY <2>1 DEF busy, Placing, Left, WriteInv, Moves
    <2>3. InTree(b) <=> mmBar.memen[DevOf[b]]
      BY <2>1, <2>2 DEF DecodeInv, DecodeOf
    <2>4. ASSUME NEW e \in mm.tree, e.owner = b PROVE e = RangeOf(b, mmBar.addr[b])
      <3>1. e \in Entries /\ ~ window(e)
        BY <2>1, <2>4, MemAssumption DEF MemTypes, window
      <3> QED
        BY <2>1, <2>4, <3>1, EntryFacts DEF TreeInv
    <2> QED
      BY <2>3, <2>4 DEF InTree, RangeOf
  <1> QED
    BY <1>1, MemInvariance, PTL

(***************************************************************************)
(* No CPU uses a range after it was freed, neither through its hint nor in *)
(* an access that is being handled.                                        *)
(***************************************************************************)
THEOREM RangesStayValid == MemSpec => []NoStaleRange
  <1>1. MemInv => NoStaleRange
    BY DEF MemInv, AccessInv, NoStaleRange
  <1> QED
    BY <1>1, MemInvariance, PTL

(***************************************************************************)
(* No assertion of mem.c or of pci_emul_mem_handler fails.                 *)
(***************************************************************************)
THEOREM AssertionsHold == MemSpec => []NoAssertFails
  <1>1. MemInv => NoAssertFails
    BY DEF MemInv, MemTypes, NoAssertFails
  <1> QED
    BY <1>1, MemInvariance, PTL

(***************************************************************************)
(* A CPU that is about to take the lock for writing does not hold it for   *)
(* reading.                                                                *)
(***************************************************************************)
THEOREM LockNotHeld == MemSpec => []NoSelfDeadlock
  <1>1. MemInv => NoSelfDeadlock
    BY DEF MemInv, AccessInv, NoSelfDeadlock
  <1> QED
    BY <1>1, MemInvariance, PTL

-----------------------------------------------------------------------------
(* The vcpu threads: the inductive invariant.                              *)

ApPcs == {"none", "start", "run", "suspend", "exit", "deleted", "gone"}
BspPcs == {"start", "run", "spinup", "add", "create", "suspend", "exit",
           "deleted", "locked", "wait", "woken", "gone"}

BootRecords ==
  [boot : [BootCpus -> {"INIT", "SIPI", "RUNNING"}],
   active : SUBSET BootCpus, suspended : SUBSET BootCpus,
   mask : SUBSET BootCpus, owner : SUBSET BootCpus,
   suspend : BOOLEAN, fault : BOOLEAN, arg : BootCpus,
   pc : [BootCpus -> ApPcs \cup BspPcs]]

BootTypes ==
  /\ ab \in BootRecords
  /\ ab.pc[BSP] \in BspPcs
  /\ \A v \in Aps : ab.pc[v] \in ApPcs

\* the boot processor has activated v, or has also noted it in cpumask
Adding(v) == ab.arg = v /\ ab.pc[BSP] \in {"add", "create"}
Noted(v) == ab.arg = v /\ ab.pc[BSP] = "create"

\* A vcpu has a thread only after a STARTUP interrupt, and gets one only once.
StartInv ==
  /\ ab.pc[BSP] \in {"spinup", "add", "create"} =>
       ab.arg \in Aps /\ ab.boot[ab.arg] = "RUNNING" /\ ab.pc[ab.arg] = "none"
  /\ \A v \in Aps : ab.pc[v] # "none" => ab.boot[v] = "RUNNING"

\* active_cpus are the vcpus that have a thread or are about to get one,
\* suspended_cpus those on their way out; once one is past the wait, all are.
ActiveInv ==
  /\ BSP \in ab.active
  /\ \A v \in Aps : v \in ab.active <=> ab.pc[v] # "none" \/ Adding(v)
  /\ \A v \in BootCpus :
       v \in ab.suspended <=> ab.pc[v] \in {"suspend", "exit", "deleted", "locked",
                                            "wait", "woken", "gone"}
  /\ (\E v \in BootCpus : ab.pc[v] \in {"exit", "deleted", "locked", "wait", "woken",
                                        "gone"})
       => ab.active = ab.suspended

\* cpumask are the vcpus that have not deleted themselves.
MaskInv ==
  /\ BSP \in ab.mask <=> ab.pc[BSP] \notin {"deleted", "locked", "wait", "woken", "gone"}
  /\ \A v \in Aps :
       v \in ab.mask <=> ab.pc[v] \notin {"none", "deleted", "gone"} \/ Noted(v)

\* The boot processor holds resetcpu_mtx from its test of cpumask to its wait,
\* and waits only for a vcpu that is yet to signal.
LockInv ==
  /\ ab.owner = IF ab.pc[BSP] \in {"locked", "gone"} THEN {BSP} ELSE {}
  /\ ab.pc[BSP] = "gone" => ab.mask = {}
  /\ ab.pc[BSP] \in {"locked", "wait"} =>
       \E v \in Aps : ab.pc[v] \in {"suspend", "exit", "deleted"}

BootInv ==
  /\ BootTypes
  /\ ~ ab.fault
  /\ StartInv
  /\ ActiveInv
  /\ MaskInv
  /\ LockInv

-----------------------------------------------------------------------------
(* The steps of the vcpu threads.                                          *)

\* The boot processor is not an application processor.
LEMMA CpusFacts == BSP \in BootCpus /\ BSP \notin Aps /\ Aps \subseteq BootCpus
                     /\ BootCpus \ {BSP} \subseteq Aps
  BY ApsAssumption DEF BootCpus

\* Places in vcpu_loop and its handlers that a step enters.
LEMMA PcsFacts ==
    /\ "add" \in ApPcs \cup BspPcs /\ "suspend" \in ApPcs \cup BspPcs
    /\ "deleted" \in ApPcs \cup BspPcs /\ "locked" \in ApPcs \cup BspPcs
    /\ "woken" \in ApPcs \cup BspPcs /\ "gone" \in ApPcs \cup BspPcs
  BY DEF ApPcs, BspPcs

\* The boot processor is added and nothing else has happened.
LEMMA BootStart == BootInit => BootInv
  <1> SUFFICES ASSUME BootInit PROVE BootInv
    OBVIOUS
  <1>1. /\ ab.boot \in [BootCpus -> {"INIT", "SIPI", "RUNNING"}]
        /\ ab.active = {BSP} /\ ab.suspended = {} /\ ab.mask = {BSP} /\ ab.owner = {}
        /\ ab.suspend = FALSE /\ ab.fault = FALSE /\ ab.arg = BSP
        /\ ab.pc[BSP] = "start" /\ \A v \in Aps : ab.pc[v] = "none"
    BY ApsAssumption DEF BootInit, BootCpus
  <1>2. BootTypes
    BY <1>1 DEF BootInit, BootTypes, BootRecords, BootCpus, ApPcs, BspPcs
  <1>3. StartInv /\ MaskInv /\ LockInv
    BY <1>1, ApsAssumption DEF StartInv, MaskInv, LockInv, Noted
  <1>4. ActiveInv
    BY <1>1, ApsAssumption DEF ActiveInv, Adding, BootCpus
  <1> QED
    BY <1>1, <1>2, <1>3, <1>4 DEF BootInv

\* A thread enters its loop.
LEMMA ThreadInv ==
    ASSUME BootInv, NEW v \in BootCpus, vcpu_thread(v)
    PROVE  BootInv'
  <1>1. BootTypes /\ ~ ab.fault /\ StartInv /\ ActiveInv /\ MaskInv /\ LockInv
    BY DEF BootInv
  <1>2. /\ ab.pc[v] = "start" /\ ab'.pc[v] = "run"
        /\ \A x \in BootCpus \ {v} : ab'.pc[x] = ab.pc[x]
        /\ ab'.boot = ab.boot /\ ab'.active = ab.active /\ ab'.suspended = ab.suspended
        /\ ab'.mask = ab.mask /\ ab'.owner = ab.owner /\ ab'.fault = ab.fault
        /\ ab'.arg = ab.arg
    BY <1>1 DEF vcpu_thread, BootAt, Goto, BootTypes, BootRecords
  <1>3. BootTypes'
    BY <1>1, <1>2, ApsAssumption
    DEF vcpu_thread, BootAt, Goto, BootTypes, BootRecords, BootCpus, ApPcs, BspPcs
  <1>4. StartInv'
    BY <1>1, <1>2, ApsAssumption DEF BootTypes, BootRecords, StartInv, BootCpus
  <1>5. ActiveInv'
    BY <1>1, <1>2, ApsAssumption DEF BootTypes, BootRecords, ActiveInv, BootCpus, Adding
  <1>6. MaskInv'
    BY <1>1, <1>2, ApsAssumption DEF BootTypes, BootRecords, MaskInv, BootCpus, Noted
  <1>7. LockInv'
    BY <1>1, <1>2, ApsAssumption DEF BootTypes, BootRecords, LockInv, BootCpus
  <1> QED
    BY <1>1, <1>2, <1>3, <1>4, <1>5, <1>6, <1>7 DEF BootInv

\* An INIT changes the boot state of a vcpu without a thread.
LEMMA InitInv ==
    ASSUME BootInv, NEW d \in Aps, icr_init(d)
    PROVE  BootInv'
  <1>1. BootTypes /\ ~ ab.fault /\ StartInv /\ ActiveInv /\ MaskInv /\ LockInv
    BY DEF BootInv
  <1>2. /\ ab.pc[BSP] = "run" /\ ab.boot[d] = "INIT"
        /\ ab'.pc = ab.pc
        /\ ab'.boot = [ab.boot EXCEPT ![d] = "SIPI"] /\ ab'.active = ab.active
        /\ ab'.suspended = ab.suspended /\ ab'.mask = ab.mask
        /\ ab'.owner = ab.owner /\ ab'.fault = ab.fault /\ ab'.arg = ab.arg
    BY <1>1, CpusFacts DEF icr_init, BootAt, Goto, BootTypes, BootRecords
  <1>3. BootTypes'
    BY <1>1, <1>2, CpusFacts
    DEF icr_init, BootAt, Goto, BootTypes, BootRecords, ApPcs, BspPcs
  <1>4. StartInv'
    BY <1>1, <1>2, CpusFacts DEF BootTypes, BootRecords, StartInv
  <1>5. ActiveInv'
    BY <1>1, <1>2, CpusFacts DEF BootTypes, BootRecords, ActiveInv, Adding, StartInv
  <1>6. MaskInv'
    BY <1>1, <1>2, CpusFacts DEF BootTypes, BootRecords, MaskInv, Noted, StartInv
  <1>7. LockInv'
    BY <1>1, <1>2, CpusFacts DEF BootTypes, BootRecords, LockInv
  <1>8. ~ ab'.fault
    BY <1>1, <1>2 DEF BootTypes, BootRecords, StartInv, ActiveInv, MaskInv, Adding
  <1> QED
    BY <1>3, <1>4, <1>5, <1>6, <1>7, <1>8 DEF BootInv

\* A STARTUP interrupt is taken once, since it ends the wait for it.
LEMMA StartupInv ==
    ASSUME BootInv, NEW d \in Aps, icr_startup(d)
    PROVE  BootInv'
  <1>1. BootTypes /\ ~ ab.fault /\ StartInv /\ ActiveInv /\ MaskInv /\ LockInv
    BY DEF BootInv
  <1>2. /\ ab.pc[BSP] = "run" /\ ab.boot[d] = "SIPI"
        /\ ab'.pc[BSP] = "spinup"
        /\ \A x \in BootCpus \ {BSP} : ab'.pc[x] = ab.pc[x]
        /\ ab'.boot = [ab.boot EXCEPT ![d] = "RUNNING"]
        /\ ab'.active = ab.active /\ ab'.suspended = ab.suspended
        /\ ab'.mask = ab.mask /\ ab'.owner = ab.owner /\ ab'.fault = ab.fault
        /\ ab'.arg = d
    BY <1>1, CpusFacts DEF icr_startup, BootAt, Goto, BootTypes, BootRecords
  <1>3. BootTypes'
    BY <1>1, <1>2, CpusFacts, Zenon
    DEF icr_startup, BootAt, Goto, BootTypes, BootRecords, ApPcs, BspPcs
  <1>4. StartInv'
    BY <1>1, <1>2, CpusFacts DEF BootTypes, BootRecords, StartInv
  <1>5. ActiveInv'
    BY <1>1, <1>2, CpusFacts DEF BootTypes, BootRecords, ActiveInv, Adding, StartInv
  <1>6. MaskInv'
    BY <1>1, <1>2, CpusFacts DEF BootTypes, BootRecords, MaskInv, Noted, StartInv
  <1>7. LockInv'
    BY <1>1, <1>2, CpusFacts DEF BootTypes, BootRecords, LockInv
  <1>8. ~ ab'.fault
    BY <1>1, <1>2 DEF BootTypes, BootRecords, StartInv, ActiveInv, MaskInv, Adding
  <1> QED
    BY <1>3, <1>4, <1>5, <1>6, <1>7, <1>8 DEF BootInv

\* The vcpu that is added was not active.
LEMMA ActivateInv ==
    ASSUME BootInv, vm_activate_cpu
    PROVE  BootInv'
  <1>1. BootTypes /\ ~ ab.fault /\ StartInv /\ ActiveInv /\ MaskInv /\ LockInv
    BY DEF BootInv
  <1>2. /\ ab.pc[BSP] = "spinup"
        /\ ab'.pc[BSP] = "add"
        /\ \A x \in BootCpus \ {BSP} : ab'.pc[x] = ab.pc[x]
        /\ ab'.boot = ab.boot /\ ab'.active = ab.active \cup {ab.arg}
        /\ ab'.suspended = ab.suspended /\ ab'.mask = ab.mask
        /\ ab'.owner = ab.owner
        /\ ab'.fault = (ab.fault \/ ab.arg \in ab.active) /\ ab'.arg = ab.arg
    BY <1>1, CpusFacts DEF vm_activate_cpu, BootAt, Goto, BootTypes, BootRecords
  <1>3. BootTypes'
    <2>1. ab' \in BootRecords
      BY <1>1, PcsFacts, CpusFacts, Zenon DEF vm_activate_cpu, BootAt, Goto, BootTypes, BootRecords
    <2>2. ab'.pc[BSP] \in BspPcs
      BY <1>1, <1>2, CpusFacts DEF BootTypes, BspPcs
    <2>3. \A x \in Aps : ab'.pc[x] \in ApPcs
      BY <1>1, <1>2, CpusFacts DEF BootTypes, ApPcs
    <2> QED
      BY <2>1, <2>2, <2>3 DEF BootTypes
  <1>4. StartInv'
    BY <1>1, <1>2, CpusFacts DEF BootTypes, BootRecords, StartInv
  <1>5. ActiveInv'
    BY <1>1, <1>2, CpusFacts DEF BootTypes, BootRecords, ActiveInv, Adding, StartInv
  <1>6. MaskInv'
    BY <1>1, <1>2, CpusFacts DEF BootTypes, BootRecords, MaskInv, Noted, StartInv
  <1>7. LockInv'
    BY <1>1, <1>2, CpusFacts DEF BootTypes, BootRecords, LockInv
  <1>8. ~ ab'.fault
    BY <1>1, <1>2 DEF BootTypes, BootRecords, StartInv, ActiveInv, MaskInv, Adding
  <1> QED
    BY <1>3, <1>4, <1>5, <1>6, <1>7, <1>8 DEF BootInv

\* The vcpu that is added is noted in cpumask.
LEMMA NoteInv ==
    ASSUME BootInv, cpumask_set
    PROVE  BootInv'
  <1>1. BootTypes /\ ~ ab.fault /\ StartInv /\ ActiveInv /\ MaskInv /\ LockInv
    BY DEF BootInv
  <1>2. /\ ab.pc[BSP] = "add"
        /\ ab'.pc[BSP] = "create"
        /\ \A x \in BootCpus \ {BSP} : ab'.pc[x] = ab.pc[x]
        /\ ab'.boot = ab.boot /\ ab'.active = ab.active
        /\ ab'.suspended = ab.suspended /\ ab'.mask = ab.mask \cup {ab.arg}
        /\ ab'.owner = ab.owner /\ ab'.fault = ab.fault /\ ab'.arg = ab.arg
    BY <1>1, CpusFacts DEF cpumask_set, BootAt, Goto, BootTypes, BootRecords
  <1>3. BootTypes'
    BY <1>1, <1>2, CpusFacts, Zenon
    DEF cpumask_set, BootAt, Goto, BootTypes, BootRecords, ApPcs, BspPcs
  <1>4. StartInv'
    BY <1>1, <1>2, CpusFacts DEF BootTypes, BootRecords, StartInv
  <1>5. ActiveInv'
    BY <1>1, <1>2, CpusFacts DEF BootTypes, BootRecords, ActiveInv, Adding, StartInv
  <1>6. MaskInv'
    BY <1>1, <1>2, CpusFacts DEF BootTypes, BootRecords, MaskInv, Noted, StartInv
  <1>7. LockInv'
    BY <1>1, <1>2, CpusFacts DEF BootTypes, BootRecords, LockInv
  <1>8. ~ ab'.fault
    BY <1>1, <1>2 DEF BootTypes, BootRecords, StartInv, ActiveInv, MaskInv, Adding
  <1> QED
    BY <1>3, <1>4, <1>5, <1>6, <1>7, <1>8 DEF BootInv

\* The vcpu that is added gets its thread.
LEMMA CreateInv ==
    ASSUME BootInv, vcpu_create_thread
    PROVE  BootInv'
  <1>1. BootTypes /\ ~ ab.fault /\ StartInv /\ ActiveInv /\ MaskInv /\ LockInv
    BY DEF BootInv
  <1>2. /\ ab.pc[BSP] = "create" /\ ab.arg # BSP /\ ab.arg \in BootCpus
        /\ ab'.pc[BSP] = "run" /\ ab'.pc[ab.arg] = "start"
        /\ \A x \in BootCpus \ {BSP, ab.arg} : ab'.pc[x] = ab.pc[x]
        /\ ab'.boot = ab.boot /\ ab'.active = ab.active
        /\ ab'.suspended = ab.suspended /\ ab'.mask = ab.mask
        /\ ab'.owner = ab.owner /\ ab'.fault = ab.fault /\ ab'.arg = ab.arg
    BY <1>1, CpusFacts DEF vcpu_create_thread, BootAt, Goto, BootTypes, BootRecords, StartInv
  <1>3. BootTypes'
    BY <1>1, <1>2, CpusFacts, Zenon
    DEF vcpu_create_thread, BootAt, Goto, BootTypes, BootRecords, ApPcs, BspPcs
  <1>4. StartInv'
    BY <1>1, <1>2, CpusFacts DEF BootTypes, BootRecords, StartInv
  <1>5. ActiveInv'
    BY <1>1, <1>2, CpusFacts DEF BootTypes, BootRecords, ActiveInv, Adding, StartInv
  <1>6. MaskInv'
    BY <1>1, <1>2, CpusFacts DEF BootTypes, BootRecords, MaskInv, Noted, StartInv
  <1>7. LockInv'
    BY <1>1, <1>2, CpusFacts DEF BootTypes, BootRecords, LockInv
  <1>8. ~ ab'.fault
    BY <1>1, <1>2 DEF BootTypes, BootRecords, StartInv, ActiveInv, MaskInv, Adding
  <1> QED
    BY <1>3, <1>4, <1>5, <1>6, <1>7, <1>8 DEF BootInv

\* vm_suspend only sets its flag.
LEMMA SuspendInv ==
    ASSUME BootInv, vm_suspend
    PROVE  BootInv'
  <1>1. BootTypes /\ ~ ab.fault /\ StartInv /\ ActiveInv /\ MaskInv /\ LockInv
    BY DEF BootInv
  <1>2. /\ ab'.pc = ab.pc
        /\ ab'.boot = ab.boot /\ ab'.active = ab.active
        /\ ab'.suspended = ab.suspended /\ ab'.mask = ab.mask
        /\ ab'.owner = ab.owner /\ ab'.fault = ab.fault /\ ab'.arg = ab.arg
    BY <1>1, CpusFacts DEF vm_suspend, BootAt, Goto, BootTypes, BootRecords
  <1>3. BootTypes'
    BY <1>1, <1>2, CpusFacts, Zenon
    DEF vm_suspend, BootAt, Goto, BootTypes, BootRecords, ApPcs, BspPcs
  <1>4. StartInv'
    BY <1>1, <1>2, CpusFacts DEF BootTypes, BootRecords, StartInv
  <1>5. ActiveInv'
    BY <1>1, <1>2, CpusFacts DEF BootTypes, BootRecords, ActiveInv, Adding, StartInv
  <1>6. MaskInv'
    BY <1>1, <1>2, CpusFacts DEF BootTypes, BootRecords, MaskInv, Noted, StartInv
  <1>7. LockInv'
    BY <1>1, <1>2, CpusFacts DEF BootTypes, BootRecords, LockInv
  <1>8. ~ ab'.fault
    BY <1>1, <1>2 DEF BootTypes, BootRecords, StartInv, ActiveInv, MaskInv, Adding
  <1> QED
    BY <1>3, <1>4, <1>5, <1>6, <1>7, <1>8 DEF BootInv

\* A vcpu that enters vm_handle_suspend was active and not suspended, so no
\* vcpu is past the wait there.
LEMMA HandleInv ==
    ASSUME BootInv, NEW v \in BootCpus, vm_handle_suspend(v)
    PROVE  BootInv'
  <1>1. BootTypes /\ ~ ab.fault /\ StartInv /\ ActiveInv /\ MaskInv /\ LockInv
    BY DEF BootInv
  <1>2. /\ ab.pc[v] = "run"
        /\ ab'.pc[v] = "suspend"
        /\ \A x \in BootCpus \ {v} : ab'.pc[x] = ab.pc[x]
        /\ ab'.boot = ab.boot /\ ab'.active = ab.active
        /\ ab'.suspended = ab.suspended \cup {v} /\ ab'.mask = ab.mask
        /\ ab'.owner = ab.owner /\ ab'.fault = ab.fault /\ ab'.arg = ab.arg
    BY <1>1, CpusFacts DEF vm_handle_suspend, BootAt, Goto, BootTypes, BootRecords
  <1>3. BootTypes'
    <2>1. ab' \in BootRecords
      BY <1>1, PcsFacts, CpusFacts, Zenon DEF vm_handle_suspend, BootAt, Goto, BootTypes, BootRecords
    <2>2. ab'.pc[BSP] \in BspPcs
      BY <1>1, <1>2, CpusFacts DEF BootTypes, BootRecords, BspPcs
    <2>3. \A x \in Aps : ab'.pc[x] \in ApPcs
      BY <1>1, <1>2, CpusFacts DEF BootTypes, BootRecords, ApPcs
    <2> QED
      BY <2>1, <2>2, <2>3 DEF BootTypes
  <1>4. StartInv'
    BY <1>1, <1>2, CpusFacts DEF BootTypes, BootRecords, StartInv
  <1>5. ActiveInv'
    BY <1>1, <1>2, CpusFacts DEF BootTypes, BootRecords, ActiveInv, Adding, StartInv
  <1>6. MaskInv'
    BY <1>1, <1>2, CpusFacts DEF BootTypes, BootRecords, MaskInv, Noted, StartInv
  <1>7. LockInv'
    BY <1>1, <1>2, CpusFacts DEF BootTypes, BootRecords, LockInv, ActiveInv
  <1>8. ~ ab'.fault
    BY <1>1, <1>2 DEF BootTypes, BootRecords, StartInv, ActiveInv, MaskInv, Adding
  <1> QED
    BY <1>3, <1>4, <1>5, <1>6, <1>7, <1>8 DEF BootInv

\* A vcpu leaves the wait when all active vcpus are suspended.
LEMMA AllInv ==
    ASSUME BootInv, NEW v \in BootCpus, all_suspended(v)
    PROVE  BootInv'
  <1>1. BootTypes /\ ~ ab.fault /\ StartInv /\ ActiveInv /\ MaskInv /\ LockInv
    BY DEF BootInv
  <1>2. /\ ab.pc[v] = "suspend" /\ ab.suspended = ab.active
        /\ ab'.pc[v] = "exit"
        /\ \A x \in BootCpus \ {v} : ab'.pc[x] = ab.pc[x]
        /\ ab'.boot = ab.boot /\ ab'.active = ab.active
        /\ ab'.suspended = ab.suspended /\ ab'.mask = ab.mask
        /\ ab'.owner = ab.owner /\ ab'.fault = ab.fault /\ ab'.arg = ab.arg
    BY <1>1, CpusFacts DEF all_suspended, BootAt, Goto, BootTypes, BootRecords
  <1>3. BootTypes'
    BY <1>1, <1>2, CpusFacts
    DEF all_suspended, BootAt, Goto, BootTypes, BootRecords, ApPcs, BspPcs
  <1>4. StartInv'
    BY <1>1, <1>2, CpusFacts DEF BootTypes, BootRecords, StartInv
  <1>5. ActiveInv'
    BY <1>1, <1>2, CpusFacts DEF BootTypes, BootRecords, ActiveInv, Adding, StartInv
  <1>6. MaskInv'
    BY <1>1, <1>2, CpusFacts DEF BootTypes, BootRecords, MaskInv, Noted, StartInv
  <1>7. LockInv'
    BY <1>1, <1>2, CpusFacts DEF BootTypes, BootRecords, LockInv
  <1>8. ~ ab'.fault
    BY <1>1, <1>2 DEF BootTypes, BootRecords, StartInv, ActiveInv, MaskInv, Adding
  <1> QED
    BY <1>3, <1>4, <1>5, <1>6, <1>7, <1>8 DEF BootInv

\* A vcpu that deletes itself is in cpumask.
LEMMA DeleteInv ==
    ASSUME BootInv, NEW v \in BootCpus, vcpu_delete(v)
    PROVE  BootInv'
  <1>1. BootTypes /\ ~ ab.fault /\ StartInv /\ ActiveInv /\ MaskInv /\ LockInv
    BY DEF BootInv
  <1>2. /\ ab.pc[v] = "exit"
        /\ ab'.pc[v] = "deleted"
        /\ \A x \in BootCpus \ {v} : ab'.pc[x] = ab.pc[x]
        /\ ab'.boot = ab.boot /\ ab'.active = ab.active
        /\ ab'.suspended = ab.suspended /\ ab'.mask = ab.mask \ {v}
        /\ ab'.owner = ab.owner /\ ab'.fault = (ab.fault \/ v \notin ab.mask)
        /\ ab'.arg = ab.arg
    BY <1>1, CpusFacts DEF vcpu_delete, BootAt, Goto, BootTypes, BootRecords
  <1>3. BootTypes'
    <2>1. ab' \in BootRecords
      BY <1>1, PcsFacts, CpusFacts, Zenon DEF vcpu_delete, BootAt, Goto, BootTypes, BootRecords
    <2>2. ab'.pc[BSP] \in BspPcs
      BY <1>1, <1>2, CpusFacts DEF BootTypes, BspPcs
    <2>3. \A x \in Aps : ab'.pc[x] \in ApPcs
      BY <1>1, <1>2, CpusFacts DEF BootTypes, ApPcs
    <2> QED
      BY <2>1, <2>2, <2>3 DEF BootTypes
  <1>4. StartInv'
    BY <1>1, <1>2, CpusFacts DEF BootTypes, BootRecords, StartInv
  <1>5. ActiveInv'
    BY <1>1, <1>2, CpusFacts DEF BootTypes, BootRecords, ActiveInv, Adding, StartInv
  <1>6. MaskInv'
    BY <1>1, <1>2, CpusFacts DEF BootTypes, BootRecords, MaskInv, Noted, StartInv
  <1>7. LockInv'
    BY <1>1, <1>2, CpusFacts DEF BootTypes, BootRecords, LockInv, MaskInv, ActiveInv
  <1>8. ~ ab'.fault
    BY <1>1, <1>2, CpusFacts, Zenon DEF MaskInv
  <1> QED
    BY <1>3, <1>4, <1>5, <1>6, <1>7, <1>8 DEF BootInv

\* A vcpu signals under the lock, and wakes a boot processor that waits.
LEMMA SignalInv ==
    ASSUME BootInv, NEW v \in BootCpus, signal(v)
    PROVE  BootInv'
  <1>1. BootTypes /\ ~ ab.fault /\ StartInv /\ ActiveInv /\ MaskInv /\ LockInv
    BY DEF BootInv
  <1>2. /\ v # BSP /\ ab.pc[v] = "deleted" /\ ab.owner = {}
        /\ ab'.pc[v] = "gone"
        /\ ab'.pc[BSP] = IF ab.pc[BSP] = "wait" THEN "woken" ELSE ab.pc[BSP]
        /\ \A x \in BootCpus \ {v, BSP} : ab'.pc[x] = ab.pc[x]
        /\ ab'.boot = ab.boot /\ ab'.active = ab.active
        /\ ab'.suspended = ab.suspended /\ ab'.mask = ab.mask
        /\ ab'.owner = ab.owner /\ ab'.fault = ab.fault /\ ab'.arg = ab.arg
    BY <1>1, CpusFacts DEF signal, BootAt, Goto, BootTypes, BootRecords
  <1>3. BootTypes'
    <2>1. ab' \in BootRecords
      BY <1>1, PcsFacts, CpusFacts, Zenon DEF signal, BootAt, Goto, BootTypes, BootRecords
    <2>2. ab'.pc[BSP] \in BspPcs
      BY <1>1, <1>2, CpusFacts DEF BootTypes, BootRecords, BspPcs
    <2>3. \A x \in Aps : ab'.pc[x] \in ApPcs
      BY <1>1, <1>2, CpusFacts DEF BootTypes, BootRecords, ApPcs
    <2> QED
      BY <2>1, <2>2, <2>3 DEF BootTypes
  <1>4. StartInv'
    BY <1>1, <1>2, CpusFacts DEF BootTypes, BootRecords, StartInv
  <1>5. ActiveInv'
    BY <1>1, <1>2, CpusFacts DEF BootTypes, BootRecords, ActiveInv, Adding, StartInv
  <1>6. MaskInv'
    BY <1>1, <1>2, CpusFacts DEF BootTypes, BootRecords, MaskInv, Noted, StartInv
  <1>7. LockInv'
    BY <1>1, <1>2, CpusFacts DEF BootTypes, BootRecords, LockInv
  <1>8. ~ ab'.fault
    BY <1>1, <1>2 DEF BootTypes, BootRecords, StartInv, ActiveInv, MaskInv, Adding
  <1> QED
    BY <1>3, <1>4, <1>5, <1>6, <1>7, <1>8 DEF BootInv

\* The boot processor finds cpumask empty, or a vcpu that is yet to signal.
LEMMA BspLockInv ==
    ASSUME BootInv, bsp_lock
    PROVE  BootInv'
  <1>1. BootTypes /\ ~ ab.fault /\ StartInv /\ ActiveInv /\ MaskInv /\ LockInv
    BY DEF BootInv
  <1>2. /\ ab.pc[BSP] \in {"deleted", "woken"} /\ ab.owner = {}
        /\ ab'.pc[BSP] = IF ab.mask = {} THEN "gone" ELSE "locked"
        /\ \A x \in BootCpus \ {BSP} : ab'.pc[x] = ab.pc[x]
        /\ ab'.boot = ab.boot /\ ab'.active = ab.active
        /\ ab'.suspended = ab.suspended /\ ab'.mask = ab.mask
        /\ ab'.owner = {BSP} /\ ab'.fault = ab.fault /\ ab'.arg = ab.arg
    BY <1>1, CpusFacts DEF bsp_lock, BootAt, Goto, BootTypes, BootRecords
  <1>3. BootTypes'
    <2>1. ab' \in BootRecords
      BY <1>1, PcsFacts, CpusFacts, Zenon DEF bsp_lock, BootAt, Goto, BootTypes, BootRecords
    <2>2. ab'.pc[BSP] \in BspPcs
      BY <1>1, <1>2, CpusFacts DEF BootTypes, BspPcs
    <2>3. \A x \in Aps : ab'.pc[x] \in ApPcs
      BY <1>1, <1>2, CpusFacts DEF BootTypes, ApPcs
    <2> QED
      BY <2>1, <2>2, <2>3 DEF BootTypes
  <1>4. StartInv'
    BY <1>1, <1>2, CpusFacts DEF BootTypes, BootRecords, StartInv
  <1>5. ActiveInv'
    BY <1>1, <1>2, CpusFacts DEF BootTypes, BootRecords, ActiveInv, Adding, StartInv
  <1>6. MaskInv'
    BY <1>1, <1>2, CpusFacts DEF BootTypes, BootRecords, MaskInv, Noted, StartInv
  <1>7. LockInv'
    <2>1. ASSUME ab.mask # {}
          PROVE  \E v \in Aps : ab.pc[v] \in {"suspend", "exit"}
      <3>1. PICK v \in ab.mask : TRUE
        BY <2>1
      <3>2. v \in Aps /\ ab.pc[v] \notin {"none", "deleted", "gone"}
        BY <1>1, <1>2, CpusFacts DEF BootTypes, BootRecords, MaskInv, Noted
      <3>3. v \in ab.suspended
        BY <1>1, <1>2, <3>2, CpusFacts DEF ActiveInv
      <3>4. ab.pc[v] \in {"suspend", "exit"}
        BY <1>1, <3>2, <3>3, CpusFacts DEF ActiveInv, BootTypes, BootRecords, ApPcs
      <3> QED
        BY <3>2, <3>4
    <2> QED
      BY <1>1, <1>2, <2>1, CpusFacts DEF LockInv
  <1>8. ~ ab'.fault
    BY <1>1, <1>2 DEF BootTypes, BootRecords, StartInv, ActiveInv, MaskInv, Adding
  <1> QED
    BY <1>3, <1>4, <1>5, <1>6, <1>7, <1>8 DEF BootInv

\* The boot processor waits, and lets the lock go.
LEMMA BspWaitInv ==
    ASSUME BootInv, bsp_wait
    PROVE  BootInv'
  <1>1. BootTypes /\ ~ ab.fault /\ StartInv /\ ActiveInv /\ MaskInv /\ LockInv
    BY DEF BootInv
  <1>2. /\ ab.pc[BSP] = "locked"
        /\ ab'.pc[BSP] = "wait"
        /\ \A x \in BootCpus \ {BSP} : ab'.pc[x] = ab.pc[x]
        /\ ab'.boot = ab.boot /\ ab'.active = ab.active
        /\ ab'.suspended = ab.suspended /\ ab'.mask = ab.mask
        /\ ab'.owner = {} /\ ab'.fault = ab.fault /\ ab'.arg = ab.arg
    BY <1>1, CpusFacts DEF bsp_wait, BootAt, Goto, BootTypes, BootRecords
  <1>3. BootTypes'
    BY <1>1, <1>2, CpusFacts, Zenon
    DEF bsp_wait, BootAt, Goto, BootTypes, BootRecords, ApPcs, BspPcs
  <1>4. StartInv'
    BY <1>1, <1>2, CpusFacts DEF BootTypes, BootRecords, StartInv
  <1>5. ActiveInv'
    BY <1>1, <1>2, CpusFacts DEF BootTypes, BootRecords, ActiveInv, Adding, StartInv
  <1>6. MaskInv'
    BY <1>1, <1>2, CpusFacts DEF BootTypes, BootRecords, MaskInv, Noted, StartInv
  <1>7. LockInv'
    BY <1>1, <1>2, CpusFacts DEF BootTypes, BootRecords, LockInv
  <1>8. ~ ab'.fault
    BY <1>1, <1>2 DEF BootTypes, BootRecords, StartInv, ActiveInv, MaskInv, Adding
  <1> QED
    BY <1>3, <1>4, <1>5, <1>6, <1>7, <1>8 DEF BootInv

\* Every step of the vcpu threads keeps the invariant.
LEMMA BootStep == ASSUME BootInv, [BootNext]_abVars PROVE BootInv'
  <1>1. CASE UNCHANGED abVars
    BY <1>1 DEF abVars, BootInv, BootTypes, StartInv, ActiveInv, MaskInv, LockInv,
                Adding, Noted
  <1>2. CASE \E d \in Aps : icr_init(d) \/ icr_startup(d)
    BY <1>2, InitInv, StartupInv
  <1>3. CASE vm_activate_cpu \/ cpumask_set \/ vcpu_create_thread \/ vm_suspend
    BY <1>3, ActivateInv, NoteInv, CreateInv, SuspendInv
  <1>4. CASE bsp_lock \/ bsp_wait
    BY <1>4, BspLockInv, BspWaitInv
  <1>5. CASE \E v \in BootCpus : \/ vcpu_thread(v) \/ vm_handle_suspend(v)
                                 \/ all_suspended(v) \/ vcpu_delete(v) \/ signal(v)
    BY <1>5, ThreadInv, HandleInv, AllInv, DeleteInv, SignalInv
  <1> QED
    BY <1>1, <1>2, <1>3, <1>4, <1>5 DEF BootNext

\* The invariant holds in every state of the vcpu threads.
LEMMA BootInvariance == BootSpec => []BootInv
  <1>1. BootInit => BootInv
    BY BootStart
  <1>2. BootInv /\ [BootNext]_abVars => BootInv'
    BY BootStep
  <1> QED
    BY <1>1, <1>2, PTL DEF BootSpec

\* vcpu_add is called once for a vcpu, and a vcpu that deletes itself is in
\* cpumask, for any number of application processors.
THEOREM VcpusAddedOnce == BootSpec => []AddedOnce
  <1>1. BootInv => AddedOnce
    BY DEF BootInv, AddedOnce
  <1> QED
    BY <1>1, BootInvariance, PTL

\* vm_handle_suspend lets no vcpu go while another has a thread that is not
\* suspended, or is being added.
THEOREM VcpusSuspendTogether == BootSpec => []SuspendedTogether
  <1>1. BootInv => SuspendedTogether
    <2> SUFFICES ASSUME BootInv,
                        NEW v \in BootCpus,
                        ab.pc[v] \in {"exit", "deleted", "locked", "wait", "gone"},
                        NEW w \in BootCpus
                 PROVE  ab.pc[w] \notin {"start", "run", "spinup", "add", "create"}
      BY DEF SuspendedTogether
    <2>1. BootTypes /\ ActiveInv
      BY DEF BootInv
    <2>2. ab.active = ab.suspended
      BY <2>1 DEF ActiveInv
    <2>3. CASE w = BSP
      BY <2>1, <2>2, <2>3, CpusFacts DEF ActiveInv
    <2>4. CASE w \in Aps
      BY <2>1, <2>2, <2>4, CpusFacts DEF ActiveInv
    <2> QED
      BY <2>3, <2>4, CpusFacts
  <1> QED
    BY <1>1, BootInvariance, PTL

\* vmexit_suspend: the boot processor exits when no other thread has work to
\* do, and waits only while one is yet to signal.
THEOREM BspExitsLast == BootSpec => []ExitsLast
  <1>1. BootInv => ExitsLast
    <2> SUFFICES ASSUME BootInv PROVE ExitsLast
      OBVIOUS
    <2>1. BootTypes /\ MaskInv /\ LockInv
      BY DEF BootInv
    <2>2. ab.pc[BSP] = "gone" => \A v \in Aps : ab.pc[v] \in {"none", "deleted", "gone"}
      BY <2>1 DEF MaskInv, LockInv
    <2>3. ab.pc[BSP] = "wait" => \E v \in Aps : ab.pc[v] \in {"suspend", "exit", "deleted"}
      BY <2>1 DEF LockInv
    <2> QED
      BY <2>2, <2>3 DEF ExitsLast, BootAt
  <1> QED
    BY <1>1, BootInvariance, PTL
=============================================================================
