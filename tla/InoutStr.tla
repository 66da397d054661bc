------------------------------ MODULE InoutStr ------------------------------
(***************************************************************************)
(* Port I/O: the exit of an IN, OUT, INS or OUTS, the in-kernel table of   *)
(* ports (vmm_ioport.c), the user table the PCI devices claim ports in and *)
(* emulate_inout, which carries out up to MAX_ITERATIONS elements of a     *)
(* string instruction and lets the guest restart it for the rest.          *)
(*                                                                         *)
(* An element is Size cells of guest memory; a page holds PageSize cells   *)
(* and another vcpu may take a page away between two elements, the guest's *)
(* fault handler brings it back.  The index register is as wide as the     *)
(* address size (IoMask).  A device numbers what it gives.                   *)
(***************************************************************************)
EXTENDS Naturals, Sequences

CONSTANTS IoPorts,         \* the ports of the machine, 0 .. n
          KernelPorts,     \* those with a handler in vmm_ioport.c
          IoDevs,          \* devices with one I/O BAR
          IoSize,          \* [IoDevs -> 1 ..]
          IoAddr,          \* [IoDevs -> IoPorts], where alloc_pbar put them
          PostPorts,       \* INOUT_PORTs with IOPORT_F_IN only, as in post.c
          IoStrict,        \* the -e flag: no access to an unclaimed port
          MAX_ITERATIONS,
          IoSizes, IoAddrSizes, IoStarts, IoCounts,   \* the instructions
          IoAcross,        \* an index may wrap in the middle of a run
          IoPages,         \* the pages that may go away
          IoBounds         \* [unmaps, moves : Nat]

VARIABLES ioTable,         \* inout_handlers: [IoPorts -> device or Default]
          ioBar,           \* [addr: pi_bar[].addr, on: PCIM_CMD_PORTEN] of each
          is,              \* the instruction of the vcpu
          isMem,           \* guest memory
          isGone,          \* pages not present
          isDev,           \* [out: what the device was given, given: Nat]
          ioLeft           \* what IoBounds leaves

isVars == <<ioTable, ioBar, is, isMem, isGone, isDev, ioLeft>>

Default == "default"
Post == "post"
IoIdle == [at |-> "idle"]
Aborted == [at |-> "abort"]
IoPageSize == 2
Cells == 16

IoMask(asize) == IF asize = 2 THEN 4 ELSE IF asize = 4 THEN 8 ELSE 16

\* what memory and the device hold at first: all different
OldMem == [a \in 0 .. Cells - 1 |-> 100 + a]

\* init_inout: the default handler everywhere, then the linker set's ports
init_inout == [p \in IoPorts |-> IF p \in PostPorts THEN Post ELSE Default]

IoInit ==
  /\ ioTable = init_inout
  /\ ioBar = [d \in IoDevs |-> [addr |-> IoAddr[d], on |-> FALSE]]
  /\ is = IoIdle
  /\ isMem = OldMem
  /\ isGone = {}
  /\ isDev = [out |-> <<>>, given |-> 0]
  /\ ioLeft = IoBounds

-----------------------------------------------------------------------------
\* The table

range(d, b) == b .. b + IoSize[d] - 1

\* mutant: the new range takes the ports it finds
refuses_nothing(t, d, b) == FALSE

\* register_inout: a range that is not all unclaimed is refused whole
register_refused(t, d, b) == \E p \in range(d, b) : t[p] # Default

\* register_bar, which asserts that register_inout succeeds
register_io_bar(t, d, b) ==
  /\ ioTable' = IF register_refused(t, d, b) THEN t
                ELSE [p \in IoPorts |-> IF p \in range(d, b) THEN d ELSE t[p]]
  /\ is' = IF register_refused(t, d, b) THEN Aborted ELSE is

\* unregister_inout: every port of the range has the default handler again
unregister_bar(t, d, b) == [p \in IoPorts |-> IF p \in range(d, b) THEN Default ELSE t[p]]

moving(d) ==
  /\ is # Aborted
  /\ ioLeft.moves > 0
  /\ ioLeft' = [ioLeft EXCEPT !.moves = @ - 1]
  /\ UNCHANGED <<isMem, isGone, isDev>>

\* pci_emul_cmdsts_write sets or clears PORTEN.  This vcpu, or another one
\* while this vcpu is in emulate_inout
io_cmdsts_write(d) ==
  /\ moving(d)
  /\ ioBar' = [ioBar EXCEPT ![d].on = ~@]
  /\ IF ioBar[d].on
     THEN ioTable' = unregister_bar(ioTable, d, ioBar[d].addr) /\ UNCHANGED is
     ELSE register_io_bar(ioTable, d, ioBar[d].addr)

\* update_bar_address: the guest moves the BAR
update_io_bar(d, b) ==
  /\ moving(d)
  /\ b # ioBar[d].addr
  /\ range(d, b) \subseteq IoPorts
  /\ ioBar' = [ioBar EXCEPT ![d].addr = b]
  /\ IF ioBar[d].on
     THEN register_io_bar(unregister_bar(ioTable, d, ioBar[d].addr), d, b)
     ELSE UNCHANGED <<ioTable, is>>

-----------------------------------------------------------------------------
\* The exit

\* the whole string instruction lies in memory, and unless IoAcross no index
\* wraps on the way
Fits(s, start, n, down, asize) ==
  IF down THEN start + s <= IoMask(asize) /\ start >= (n - 1) * s
  ELSE start + n * s <= IoMask(asize)

\* the vcpu leaves the guest at an IN, OUT, INS or OUTS
vmx_exit_inout(p, in, s) ==
  /\ is = IoIdle
  /\ \E eax \in {0, 27} :
       is' = [at |-> "exit", str |-> FALSE, port |-> p, in |-> in, size |-> s,
              eax |-> eax, was |-> eax]
  /\ isDev' = [out |-> <<>>, given |-> 0]
  /\ UNCHANGED <<ioTable, ioBar, isMem, isGone, ioLeft>>

\* inout_str_index, inout_str_count and inout_str_addrsize: without a REP the
\* count is one; the registers are read whole
vmx_exit_inout_str(p, in, s, rep, down, asize, start, n) ==
  /\ is = IoIdle
  /\ (~rep => n = 1)
  /\ (~IoAcross => Fits(s, start, n, down, asize))
  /\ is' = [at |-> "exit", str |-> TRUE, port |-> p, in |-> in, size |-> s,
            rep |-> rep, down |-> down, asize |-> asize, index |-> start, rcx |-> n,
            start |-> start, all |-> n, owner |-> Default, idx |-> 0, count |-> 0, runs |-> 0]
  /\ isMem' = OldMem
  /\ isDev' = [out |-> <<>>, given |-> 0]
  /\ UNCHANGED <<ioTable, ioBar, isGone, ioLeft>>

Radix(n) == CASE n = 1 -> 4 [] n = 2 -> 16 [] n = 4 -> 256

\* merging n bytes of a value into eax
io_merged(eax, val, n) == (eax - (eax % Radix(n))) + (val % Radix(n))

\* what a handler answers to an IN: the default one answers all ones
answer(owner) == IF owner = Default THEN 255 ELSE 149

\* emulate_inout_port: a port of the kernel's table is served at once, any
\* other one goes to the user table
emulate_inout_port ==
  /\ is.at = "exit" /\ ~is.str
  /\ IF is.port \in KernelPorts
     THEN /\ is' = [is EXCEPT !.at = "done",
                              !.eax = IF is.in THEN io_merged(@, answer("kernel"), is.size) ELSE @]
          /\ isDev' = IF is.in THEN isDev
                      ELSE [isDev EXCEPT !.out = <<is.eax % Radix(is.size)>>]
     ELSE is' = [is EXCEPT !.at = "user"] /\ UNCHANGED isDev
  /\ UNCHANGED <<ioTable, ioBar, isMem, isGone, ioLeft>>

\* emulate_inout_str: always for the user table, kernel port or not
emulate_inout_str ==
  /\ is.at = "exit" /\ is.str
  /\ is' = [is EXCEPT !.at = "user"]
  /\ UNCHANGED <<ioTable, ioBar, isMem, isGone, isDev, ioLeft>>

\* emulate_inout refuses the access, and vmexit_inout gives the vm up
io_refused ==
  LET o == ioTable[is.port]
  IN  \/ IoStrict /\ o = Default
      \/ o = Post /\ ~is.in

emulate_inout_refused ==
  /\ is.at = "user"
  /\ io_refused
  /\ is' = Aborted
  /\ UNCHANGED <<ioTable, ioBar, isMem, isGone, isDev, ioLeft>>

\* emulate_inout of an IN or OUT
emulate_inout_one ==
  /\ is.at = "user" /\ ~is.str
  /\ ~io_refused
  /\ is' = [is EXCEPT !.at = "done",
                      !.eax = IF is.in THEN io_merged(@, answer(ioTable[is.port]), is.size) ELSE @]
  /\ isDev' = IF is.in THEN isDev ELSE [isDev EXCEPT !.out = <<is.eax % Radix(is.size)>>]
  /\ UNCHANGED <<ioTable, ioBar, isMem, isGone, ioLeft>>

\* emulate_inout of a string instruction up to its loop: the handler is read
\* once, the registers are cut to the address size
emulate_inout_start ==
  /\ is.at = "user" /\ is.str
  /\ ~io_refused
  /\ is' = [is EXCEPT !.at = "loop", !.owner = ioTable[is.port], !.runs = 0,
                      !.idx = is.index % IoMask(is.asize), !.count = is.rcx % IoMask(is.asize)]
  /\ UNCHANGED <<ioTable, ioBar, isMem, isGone, isDev, ioLeft>>

\* the cells of the next element and the pages they are in
cells == {is.idx + k : k \in 0 .. is.size - 1}
pages == {c \div IoPageSize : c \in cells}


\* vm_copy_setup: every page of the element is there before the handler runs
copy_setup == pages \cap isGone = {}

\* pci_emul_io_handler looks the port up among the BARs of the device the
\* table named when the instruction began
handled == is.owner \in IoDevs => is.port \in range(is.owner, ioBar[is.owner].addr)

io_more == is.runs < MAX_ITERATIONS /\ is.count > 0

\* the element's value in memory: its first cell stands for it
value == isMem[is.idx]

\* one element: copy in and out around the handler, then the index moves and
\* the count drops.  A store to a page that is gone is lost
iteration ==
  /\ is.at = "loop"
  /\ io_more
  /\ cells \subseteq 0 .. Cells - 1
  /\ copy_setup
  /\ handled
  /\ IF is.in
     THEN /\ isDev' = [isDev EXCEPT !.given = @ + 1]
          /\ isMem' = [c \in DOMAIN isMem |->
                         IF c \in cells /\ (c \div IoPageSize) \notin isGone
                         THEN isDev.given + 1 ELSE isMem[c]]
     ELSE /\ isDev' = [isDev EXCEPT !.out = Append(@, value)]
          /\ UNCHANGED isMem
  /\ is' = [is EXCEPT !.idx = (IF is.down THEN @ + Cells - is.size ELSE @ + is.size) % Cells,
                      !.count = @ - 1, !.runs = @ + 1]
  /\ UNCHANGED <<ioTable, ioBar, isGone, ioLeft>>

\* the BAR has been moved since: the handler fails, and the vm is given up
iteration_fails ==
  /\ is.at = "loop"
  /\ io_more
  /\ cells \subseteq 0 .. Cells - 1
  /\ copy_setup
  /\ ~handled
  /\ is' = Aborted
  /\ UNCHANGED <<ioTable, ioBar, isMem, isGone, isDev, ioLeft>>

\* the loop ends: out of elements for this run, outside the segment (#GP) or
\* a page is gone (#PF, injected by vm_copy_setup)
break ==
  /\ is.at = "loop"
  /\ \/ ~io_more
     \/ ~(cells \subseteq 0 .. Cells - 1)
     \/ ~copy_setup

\* update_register: the index; RCX only with a REP prefix
written_back(w) ==
  [w EXCEPT !.index = w.idx % IoMask(w.asize),
            !.rcx = IF w.rep THEN w.count ELSE @]

\* after the loop: the instruction is restarted unless its count is used up
emulate_inout_end ==
  /\ break
  /\ is' = [written_back(is) EXCEPT
              !.at = IF is.count = 0 THEN "done"
                     ELSE IF io_more /\ cells \subseteq 0 .. Cells - 1 THEN "fault"
                     ELSE IF io_more THEN "gp" ELSE "exit"]
  /\ UNCHANGED <<ioTable, ioBar, isMem, isGone, isDev, ioLeft>>

\* the guest's page fault handler brings the pages back and returns to the
\* instruction
guest_handles_fault ==
  /\ is.at = "fault"
  /\ isGone' = {}
  /\ is' = [is EXCEPT !.at = "exit"]
  /\ UNCHANGED <<ioTable, ioBar, isMem, isDev, ioLeft>>

\* another vcpu takes a page away
io_unmaps(pg) ==
  /\ is \notin {IoIdle, Aborted}
  /\ ioLeft.unmaps > 0
  /\ pg \notin isGone
  /\ isGone' = isGone \cup {pg}
  /\ ioLeft' = [ioLeft EXCEPT !.unmaps = @ - 1]
  /\ UNCHANGED <<ioTable, ioBar, is, isMem, isDev>>

\* the next instruction, and a fresh stock of pages
next_instruction ==
  /\ is.at \in {"done", "gp"}
  /\ is' = IoIdle
  /\ isMem' = OldMem
  /\ isGone' = {}
  /\ isDev' = [out |-> <<>>, given |-> 0]
  /\ ioLeft' = [ioLeft EXCEPT !.unmaps = IoBounds.unmaps]
  /\ UNCHANGED <<ioTable, ioBar>>

\* the process ends after vmexit_inout returned VMEXIT_ABORT
aborted == is = Aborted /\ UNCHANGED isVars

IoNext ==
  \/ \E d \in IoDevs : io_cmdsts_write(d)
  \/ \E d \in IoDevs, b \in IoPorts : update_io_bar(d, b)
  \/ \E p \in IoPorts, in \in BOOLEAN, s \in {1, 2, 4} : vmx_exit_inout(p, in, s)
  \/ \E p \in IoPorts, in \in BOOLEAN, s \in IoSizes, rep \in BOOLEAN, down \in BOOLEAN,
        asize \in IoAddrSizes, start \in IoStarts, n \in IoCounts :
       vmx_exit_inout_str(p, in, s, rep, down, asize, start, n)
  \/ /\ is \notin {IoIdle, Aborted}
     /\ \/ emulate_inout_port
        \/ emulate_inout_str
        \/ emulate_inout_refused
        \/ emulate_inout_one
        \/ emulate_inout_start
        \/ iteration
        \/ iteration_fails
        \/ emulate_inout_end
        \/ guest_handles_fault
  \/ \E pg \in IoPages : io_unmaps(pg)
  \/ next_instruction
  \/ aborted

IoSpec == IoInit /\ [][IoNext]_isVars

-----------------------------------------------------------------------------
IoTypeOK ==
  /\ ioTable \in [IoPorts -> IoDevs \cup {Default, Post}]
  /\ ioBar \in [IoDevs -> [addr : IoPorts, on : BOOLEAN]]
  /\ isGone \subseteq IoPages
  /\ isDev.given \in Nat

\* What a string instruction does when it is not interrupted: the i-th
\* element is at start + i * size, or start - i * size
IoAt(w, i) == (IF w.down THEN w.start + (IoMask(w.asize) * i) - (i * w.size)
             ELSE w.start + i * w.size) % IoMask(w.asize)

\* The elements done so far: what is left of the count is what is missing
IoDone(w) == IF w.at = "loop" THEN w.all - w.count
           ELSE IF w.rep THEN w.all - w.rcx
           ELSE IF w.at = "done" THEN 1 ELSE 0

\* Restarts and all, however often emulate_inout cuts the instruction short
\* after MAX_ITERATIONS elements or faults, the device has been read or
\* written exactly once for each element that is counted off, in order, and an
\* INS has stored each answer at its own place: a restart neither asks the
\* device again nor loses an answer (inout.c:164-229)
IoElementsOnce ==
  (is \notin {IoIdle, Aborted} /\ is.str) =>
    IF is.in
    THEN /\ isDev.given = IoDone(is)
         /\ \A i \in 0 .. IoDone(is) - 1 : isMem[IoAt(is, i)] = i + 1
    ELSE isDev.out = [i \in 1 .. IoDone(is) |-> OldMem[IoAt(is, i - 1)]]

\* While the guest can see its registers, the index register points at the
\* first element that is not done yet, so the restarted instruction goes on
\* where the last run stopped, and RCX is left alone without a REP
\* (inout.c:231-241)
RegistersFollow ==
  (is.at \in {"exit", "fault", "gp", "done"} /\ is.str) =>
    /\ is.index = IoAt(is, IoDone(is))
    /\ (~is.rep => is.rcx = is.all)

\* Every port of a device's I/O BAR leads to the device and no other port
\* does, whatever the guest moves where, as long as the process lives
\* (inout.c:280-318, pci_emul.c:443-484)
PortsOwned ==
  is # Aborted =>
    \A p \in IoPorts, d \in IoDevs :
      (ioTable[p] = d) <=> (ioBar[d].on /\ p \in range(d, ioBar[d].addr))

\* An IN replaces the bytes it reads and keeps the other bytes of EAX, an OUT
\* keeps all of it (inout.c:242-251, vmm_ioport.c:134-138)
RestOfEaxKept ==
  (is.at = "done" /\ ~is.str) =>
    /\ is.eax \div Radix(is.size) = is.was \div Radix(is.size)
    /\ (~is.in => is.eax = is.was /\ isDev.out = <<is.was % Radix(is.size)>>)
=============================================================================
