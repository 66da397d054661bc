------------------------------ MODULE VieString ------------------------------
(***************************************************************************)
(* The instructions of vmm_instruction_emul.c that touch device memory and *)
(* ordinary memory in one go: MOVS and STOS with and without REP, PUSH and *)
(* POP.  The processor runs the iterations that stay in ordinary memory,   *)
(* the hypervisor emulates the others one at a time and restarts the       *)
(* instruction; page faults, which the guest repairs, interrupt both.      *)
(***************************************************************************)
EXTENDS Integers, Sequences, SequencesExt, FiniteSets

CONSTANTS Mmio,       \* addresses of the device; the rest of Addr is memory
          Starts,     \* initial values of rsi, rdi and rsp
          Counts,     \* initial values of rcx
          Kinds,      \* subset of {"movs", "stos", "push", "pop"}
          AddrSizes,  \* subset of {2, 4, 8}
          MaxUnmaps   \* pages another vcpu takes away meanwhile

VARIABLES st,       \* the instruction, the registers and where it stands
          stMem,    \* ordinary memory, byte by byte
          stDev,    \* reads the device answered and the writes it got
          stMapped, \* pages present in the guest's page tables
          stRef     \* memory and registers when the instruction started

stVars == <<st, stMem, stDev, stMapped, stRef>>

Addr == 0..15
PageSize == 2
Page(a) == a \div PageSize
Pages == {Page(a) : a \in Addr}
Mask(n) == CASE n = 8 -> 16 [] n = 4 -> 8 [] n = 2 -> 4   \* vie_size2mask
Span(a, n) == {a + k : k \in 0..(n - 1)}

NoInsn == [kind |-> "none", rep |-> FALSE, down |-> FALSE, size |-> 1,
           asize |-> 8, gpa |-> 0, rcx |-> 0, rsi |-> 0, rdi |-> 0, rsp |-> 0,
           left |-> 0, at |-> "idle"]
Zero == [a \in Addr |-> <<"m", a, 0>>]
NoDev == [reads |-> 0, writes |-> <<>>]

StrInit ==
  /\ st = NoInsn /\ stMem = Zero /\ stDev = NoDev
  /\ stMapped = [pages |-> {}, unmaps |-> 0]
  /\ stRef = [insn |-> NoInsn, mem |-> Zero]

\* The bytes of n cells from a on, and memory after they are stored there.
Load(m, a, n) == [k \in 1..n |-> m[a + k - 1]]
Store(m, a, v) == [x \in Addr |-> IF x \in Span(a, Len(v)) THEN v[x - a + 1]
                                  ELSE m[x]]
DevBytes(a, n, nth) == [k \in 1..n |-> <<"d", a + k - 1, nth>>]
Rax(n) == [k \in 1..n |-> <<"rax", k, 0>>]

\* vie_update_register for a register that held old.
str_update_register(old, val, size) ==
  CASE size = 2 -> (old - (old % Mask(2))) + (val % Mask(2))
    [] OTHER -> val % Mask(size)

advance(r) == str_update_register(r, IF st.down THEN r - st.size
                                     ELSE r + st.size, st.asize)
src == st.rsi % Mask(st.asize)
dst == st.rdi % Mask(st.asize)
count(i) == IF i.rep THEN i.rcx % Mask(i.asize) ELSE 1
-----------------------------------------------------------------------------
(* Translation                                                             *)

mapped(a, n) == \A x \in Span(a, n) : Page(x) \in stMapped.pages
ram(a, n) == \A x \in Span(a, n) : x \notin Mmio

\* vm_copy_setup walks the page tables for every page of the operand first:
\* a missing page is a fault for the guest, device memory is EFAULT.
vm_copy_setup(a, n) == IF ~mapped(a, n) THEN "fault"
                       ELSE IF ram(a, n) THEN "ok" ELSE "efault"

\* A fault restarts the instruction; the guest's handler repairs it.
inject_pf == /\ st' = [st EXCEPT !.at = "fault"]
             /\ UNCHANGED <<stMem, stDev, stMapped, stRef>>
-----------------------------------------------------------------------------
(* One emulated iteration                                                  *)

\* rsi, rdi and rcx after an iteration; the instruction is restarted until
\* the count is zero.
iterated(s) ==
  LET rcx == str_update_register(s.rcx, s.rcx - 1, s.asize)
      again == s.rep /\ rcx % Mask(s.asize) # 0
  IN  [s EXCEPT !.rcx = IF s.rep THEN rcx ELSE @, !.left = @ - 1,
                !.at = IF again THEN "run" ELSE "done"]

moved == iterated([st EXCEPT !.rsi = advance(@), !.rdi = advance(@)])

\* mutant: the device is read before the destination is translated
movs_from_device_early ==
  /\ vm_copy_setup(src, st.size) = "efault"
  /\ vm_copy_setup(dst, st.size) # "efault"
  /\ stDev' = [stDev EXCEPT !.reads = @ + 1]
  /\ IF vm_copy_setup(dst, st.size) = "ok"
     THEN /\ stMem' = Store(stMem, dst, DevBytes(st.gpa, st.size, stDev.reads))
          /\ st' = moved
     ELSE UNCHANGED stMem /\ st' = [st EXCEPT !.at = "fault"]
  /\ UNCHANGED <<stMapped, stRef>>

\* Case (2): memory to device.
movs_to_device ==
  /\ vm_copy_setup(src, st.size) = "ok"
  /\ stDev' = [stDev EXCEPT !.writes =
                 Append(@, <<st.gpa, Load(stMem, src, st.size)>>)]
  /\ st' = moved
  /\ UNCHANGED <<stMem, stMapped, stRef>>

\* Case (3): device to memory, committed once the destination is there.
movs_from_device ==
  /\ vm_copy_setup(src, st.size) = "efault"
  /\ vm_copy_setup(dst, st.size) = "ok"
  /\ stMem' = Store(stMem, dst, DevBytes(st.gpa, st.size, stDev.reads))
  /\ stDev' = [stDev EXCEPT !.reads = @ + 1]
  /\ st' = moved
  /\ UNCHANGED <<stMapped, stRef>>

\* Case (4): device to device, both addresses translated anew.
movs_between_devices ==
  /\ vm_copy_setup(src, st.size) = "efault"
  /\ vm_copy_setup(dst, st.size) = "efault"
  /\ stDev' = [reads |-> stDev.reads + 1,
               writes |-> Append(stDev.writes,
                            <<dst, DevBytes(src, st.size, stDev.reads)>>)]
  /\ st' = moved
  /\ UNCHANGED <<stMem, stMapped, stRef>>

emulate_movs ==
  /\ st.at = "emul" /\ st.kind = "movs"
  /\ \/ movs_to_device
     \/ movs_from_device
     \/ movs_between_devices
     \/ vm_copy_setup(src, st.size) = "fault" /\ inject_pf
     \/ /\ vm_copy_setup(src, st.size) = "efault"
        /\ vm_copy_setup(dst, st.size) = "fault"
        /\ inject_pf

\* STOS writes at the address that faulted.
emulate_stos ==
  /\ st.at = "emul" /\ st.kind = "stos"
  /\ stDev' = [stDev EXCEPT !.writes = Append(@, <<st.gpa, Rax(st.size)>>)]
  /\ st' = iterated([st EXCEPT !.rdi = advance(@)])
  /\ UNCHANGED <<stMem, stMapped, stRef>>

\* PUSH and POP: the stack lies in memory, the operand in the device.
slot(s) == (IF s.kind = "push" THEN s.rsp - s.size ELSE s.rsp) % Mask(s.asize)

emulate_stack_op ==
  /\ st.at = "emul" /\ st.kind \in {"push", "pop"}
  /\ \/ vm_copy_setup(slot(st), st.size) = "fault" /\ inject_pf
     \/ /\ vm_copy_setup(slot(st), st.size) = "ok"
        /\ st' = [st EXCEPT !.at = "done", !.left = 0, !.rsp =
                    str_update_register(@, IF st.kind = "push" THEN @ - st.size
                                           ELSE @ + st.size, st.asize)]
        /\ IF st.kind = "push"
           THEN /\ stMem' = Store(stMem, slot(st),
                                  DevBytes(st.gpa, st.size, stDev.reads))
                /\ stDev' = [stDev EXCEPT !.reads = @ + 1]
           ELSE /\ stDev' = [stDev EXCEPT !.writes =
                     Append(@, <<st.gpa, Load(stMem, slot(st), st.size)>>)]
                /\ UNCHANGED stMem
        /\ UNCHANGED <<stMapped, stRef>>
-----------------------------------------------------------------------------
(* The processor and the guest (external)                                  *)

\* No element lies half in the device, and none wraps around.
Elements(i, r) ==
  {(IF i.down THEN (r % Mask(i.asize)) - k * i.size
    ELSE (r % Mask(i.asize)) + k * i.size) % Mask(i.asize) :
   k \in 0..(count(i) - 1)}
Whole(i, r) ==
  \A a \in Elements(i, r) : /\ a + i.size <= Mask(i.asize)
                            /\ Span(a, i.size) \subseteq Mmio
                               \/ Span(a, i.size) \cap Mmio = {}

Proper(i) ==
  /\ i.kind = "movs" => Whole(i, i.rsi)
  /\ i.kind \in {"movs", "stos"} => Whole(i, i.rdi) /\ i.rsp = 0
  /\ i.kind = "stos" => i.rsi = 0
  /\ i.kind \in {"push", "pop"} =>
       /\ i.rsi = 0 /\ i.rdi = 0 /\ i.rcx = 0 /\ ~i.rep /\ ~i.down
       /\ slot(i) + i.size <= Mask(i.asize) /\ ram(slot(i), i.size)

issue ==
  /\ st.at = "idle"
  /\ \E k \in Kinds, rep, down \in BOOLEAN, n \in {1, 2}, as \in AddrSizes,
        c \in Counts, si, di, sp \in Starts, gone \in {{}, {1}, {2, 3}} :
       LET i == [kind |-> k, rep |-> rep, down |-> down, size |-> n,
                 asize |-> as, gpa |-> 4, rcx |-> c, rsi |-> si, rdi |-> di,
                 rsp |-> sp, left |-> 0, at |-> "run"]
       IN  /\ Proper(i)
           /\ st' = [i EXCEPT !.left = count(i),
                              !.at = IF count(i) = 0 THEN "done" ELSE "run"]
           /\ stRef' = [insn |-> i, mem |-> stMem]
           /\ stMapped' = [stMapped EXCEPT !.pages = Pages \ gone]
  /\ UNCHANGED <<stMem, stDev>>

\* The operands the processor touches, in the order it touches them.
operands ==
  CASE st.kind = "movs" -> <<src, dst>>
    [] st.kind = "stos" -> <<dst>>
    [] OTHER -> <<4>>

FirstOf(P(_)) == SelectInSeq(operands, P)
missing == FirstOf(LAMBDA a : ~mapped(a, st.size))
device == FirstOf(LAMBDA a : ~ram(a, st.size))

\* The first operand that is not plain mapped memory decides.
cpu_page_fault ==
  /\ st.at = "run" /\ missing # 0 /\ (device # 0 => missing <= device)
  /\ inject_pf

cpu_ept_fault ==
  /\ st.at = "run" /\ device # 0 /\ (missing # 0 => device < missing)
  /\ st' = [st EXCEPT !.at = "emul", !.gpa = operands[device]]
  /\ UNCHANGED <<stMem, stDev, stMapped, stRef>>

cpu_iterate ==
  /\ st.at = "run" /\ missing = 0 /\ device = 0
  /\ stMem' = Store(stMem, dst, IF st.kind = "movs"
                                THEN Load(stMem, src, st.size)
                                ELSE Rax(st.size))
  /\ st' = IF st.kind = "movs" THEN moved
           ELSE iterated([st EXCEPT !.rdi = advance(@)])
  /\ UNCHANGED <<stDev, stMapped, stRef>>

guest_repairs ==
  /\ st.at = "fault"
  /\ stMapped' = [stMapped EXCEPT !.pages = Pages]
  /\ st' = [st EXCEPT !.at = "run"]
  /\ UNCHANGED <<stMem, stDev, stRef>>

\* Another vcpu takes a page away between the exit and the emulation.
guest_unmaps ==
  /\ st.at = "emul" /\ stMapped.unmaps < MaxUnmaps
  /\ \E p \in {0, 2} \cap stMapped.pages :
       stMapped' = [pages |-> stMapped.pages \ {p},
                    unmaps |-> stMapped.unmaps + 1]
  /\ UNCHANGED <<st, stMem, stDev, stRef>>

str_retire ==
  /\ st.at = "done"
  /\ st' = NoInsn /\ stMem' = Zero /\ stDev' = NoDev
  /\ stMapped' = [pages |-> {}, unmaps |-> 0]
  /\ stRef' = [insn |-> NoInsn, mem |-> Zero]

StrNext == emulate_movs \/ emulate_stos \/ emulate_stack_op \/ issue
        \/ cpu_page_fault \/ cpu_ept_fault \/ cpu_iterate \/ guest_repairs
        \/ guest_unmaps \/ str_retire

StrSpec == StrInit /\ [][StrNext]_stVars
-----------------------------------------------------------------------------
(* Reference: the elements one after the other, without faults             *)

Element(i, r, k) == ((r % Mask(i.asize)) +
                     (IF i.down THEN -(k * i.size) ELSE k * i.size))
                    % Mask(i.asize)

Transfer(s, from, to, value, size) ==
  LET v == IF from = {} THEN value
           ELSE LET a == CHOOSE x \in from : TRUE
                IN  IF a \in Mmio THEN DevBytes(a, size, s.reads)
                    ELSE Load(s.mem, a, size)
      s1 == IF from # {} /\ from \subseteq Mmio THEN [s EXCEPT !.reads = @ + 1]
            ELSE s
  IN  IF to \in Mmio THEN [s1 EXCEPT !.writes = Append(@, <<to, v>>)]
      ELSE [s1 EXCEPT !.mem = Store(@, to, v)]

RefRun(i, n) ==
  LET begin == [mem |-> stRef.mem, reads |-> 0, writes |-> <<>>]
      step(s, k) ==
        CASE i.kind = "movs" ->
               Transfer(s, {Element(i, i.rsi, k - 1)}, Element(i, i.rdi, k - 1),
                        <<>>, i.size)
          [] i.kind = "stos" ->
               Transfer(s, {}, Element(i, i.rdi, k - 1), Rax(i.size), i.size)
          [] i.kind = "push" -> Transfer(s, {4}, slot(i), <<>>, i.size)
          [] i.kind = "pop" -> Transfer(s, {slot(i)}, 4, <<>>, i.size)
  IN  FoldLeft(step, begin, [k \in 1..n |-> k])

\* A register moved by n elements: the address size keeps or clears the rest.
Moved(i, r, delta) ==
  IF delta = 0 THEN r
  ELSE (IF i.asize = 2 THEN r - (r % Mask(2)) ELSE 0)
       + ((r + (IF i.down THEN -delta ELSE delta)) % Mask(i.asize))

\* However the iterations are shared between the processor and the
\* hypervisor, and wherever page faults interrupt them, memory, the writes a
\* device saw and every value read from it are those of the elements
\* finished so far, done once each and in order: a device read is committed
\* only after the destination is known to be there.
ElementsOnce ==
  st.at # "idle" =>
    LET i == stRef.insn
        now == RefRun(i, count(i) - st.left)
    IN  /\ stMem = now.mem
        /\ stDev = [reads |-> now.reads, writes |-> now.writes]

\* Count, index and stack registers at the end, in the address size of the
\* instruction.
RegistersEnd ==
  st.at = "done" =>
    LET i == stRef.insn
        n == count(i) * i.size
    IN  /\ st.left = 0
        /\ st.rcx = IF ~i.rep \/ count(i) = 0 THEN i.rcx
                    ELSE IF i.asize = 2 THEN i.rcx - (i.rcx % Mask(2)) ELSE 0
        /\ i.kind = "movs" => st.rsi = Moved(i, i.rsi, n)
        /\ i.kind \in {"movs", "stos"} => st.rdi = Moved(i, i.rdi, n)
        /\ i.kind = "push" => (st.rsp + i.size) % Mask(i.asize)
                              = i.rsp % Mask(i.asize)
        /\ i.kind = "pop" => (i.rsp + i.size) % Mask(i.asize)
                             = st.rsp % Mask(i.asize)
=============================================================================
