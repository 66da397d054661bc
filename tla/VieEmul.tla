------------------------------- MODULE VieEmul -------------------------------
(***************************************************************************)
(* The single-step part of vmm_emulate_instruction                         *)
(* (vmm_instruction_emul.c): MOV, MOVZX/MOVSX, AND, OR, CMP, SUB and BT    *)
(* with an operand in device memory.  A byte has ByteBits bits, so that a  *)
(* quadword is a small integer; the results are compared with a reference  *)
(* on sets of bits and on signed numbers.                                  *)
(***************************************************************************)
EXTENDS Integers, FiniteSets, FiniteSetsExt, Bitwise

CONSTANTS ByteBits,  \* bits of a byte
          Words,     \* values of registers and of the device memory
          Imms,      \* immediates, sign-extended by the decoder
          EmulOps    \* opcodes under test

VARIABLES vem,     \* the decoded instruction and the state it starts from
          vemOut   \* the state it leaves behind

vemVars == <<vem, vemOut>>

VemBits(size) == size * ByteBits
Mod(size) == 2^VemBits(size)
Word == Mod(8)
Trunc(x, size) == x % Mod(size)
Quad(x) == x % Word                    \* (uint64_t)
Status == {"C", "PF", "Z", "N", "V"}   \* RFLAGS_STATUS_BITS
-----------------------------------------------------------------------------
(* Registers                                                               *)

\* The register an 8-bit operand lies in, and whether in its second byte.
vie_calc_bytereg(i) ==
  IF ~i.rex /\ i.reg \in 4..7 THEN [reg |-> i.reg - 4, high |-> TRUE]
  ELSE [reg |-> i.reg, high |-> FALSE]

vie_read_bytereg(i, regs) ==
  LET b == vie_calc_bytereg(i)
  IN  Trunc(IF b.high THEN regs[b.reg] \div Mod(1) ELSE regs[b.reg], 1)

vie_write_bytereg(i, regs, byte) ==
  LET b == vie_calc_bytereg(i)
      shift == IF b.high THEN Mod(1) ELSE 1
      old == regs[b.reg]
  IN  [regs EXCEPT ![b.reg] =
         (old - ((old \div shift) % Mod(1)) * shift) + byte * shift]

\* mutant: a 32-bit result keeps the upper half
vie_update_register_merge(regs, r, val, size) ==
  [regs EXCEPT ![r] =
     IF size = 8 THEN Quad(val) ELSE (@ - Trunc(@, size)) + Trunc(val, size)]

vie_update_register(regs, r, val, size) ==
  [regs EXCEPT ![r] =
     CASE size \in {1, 2} -> (@ - Trunc(@, size)) + Trunc(val, size)
       [] size = 4 -> Trunc(val, 4)
       [] size = 8 -> Quad(val)]

\* The flags of x - y in the given width, as the sub instruction sets them.
getcc(size, a, b) ==
  LET x == Trunc(a, size)
      y == Trunc(b, size)
      r == (x - y) % Mod(size)
      msb == 2^(VemBits(size) - 1)
  IN  (IF x < y THEN {"C"} ELSE {})
      \cup (IF r = 0 THEN {"Z"} ELSE {})
      \cup (IF (r & msb) # 0 THEN {"N"} ELSE {})
      \cup (IF ((x ^^ y) & (x ^^ r) & msb) # 0 THEN {"V"} ELSE {})
      \cup (IF Cardinality({k \in 0..(ByteBits - 1) : (r & 2^k) # 0}) % 2 = 0
            THEN {"PF"} ELSE {})

logic_flags(fl, size, result) ==
  (fl \ Status) \cup (getcc(size, result, 0) \cap {"PF", "Z", "N"})

compare_flags(fl, size, x, y) == (fl \ Status) \cup getcc(size, x, y)
-----------------------------------------------------------------------------
(* The emulated instructions: what each leaves in the registers, in the    *)
(* device memory and in the flags.  i.bus says whether a device answers.   *)

State(i) == [regs |-> i.regs, mem |-> i.mem, fl |-> i.fl, err |-> FALSE]
Failed(i) == [State(i) EXCEPT !.err = TRUE]

memread(i, size) == Trunc(i.mem, size)
memwrite(i, val, size) == (i.mem - Trunc(i.mem, size)) + Trunc(val, size)

emulate_mov(i) ==
  LET load(r) == vie_update_register(i.regs, r, memread(i, i.size), i.size)
      store(v, size) == [State(i) EXCEPT !.mem = memwrite(i, v, size)]
  IN  CASE i.op = 136 -> store(vie_read_bytereg(i, i.regs), 1)
        [] i.op = 137 -> store(Trunc(i.regs[i.reg], i.size), i.size)
        [] i.op = 138 -> [State(i) EXCEPT !.regs =
                            vie_write_bytereg(i, i.regs, memread(i, 1))]
        [] i.op = 139 -> [State(i) EXCEPT !.regs = load(i.reg)]
        [] i.op = 161 -> [State(i) EXCEPT !.regs = load(0)]
        [] i.op = 163 -> store(Trunc(i.regs[0], i.size), i.size)
        [] i.op = 198 -> store(Quad(i.imm), 1)
        [] i.op = 199 -> store(Trunc(Quad(i.imm), i.size), i.size)

sign_extended(x, size) == IF x >= Mod(size) \div 2 THEN Quad(x - Mod(size)) ELSE x

emulate_movx(i) ==
  LET val == CASE i.op = 256 + 182 -> memread(i, 1)
               [] i.op = 256 + 183 -> memread(i, 2)
               [] i.op = 256 + 190 -> sign_extended(memread(i, 1), 1)
  IN  [State(i) EXCEPT !.regs = vie_update_register(@, i.reg, val, i.size)]

\* The result is not cut to the operand size before it is stored; memwrite
\* and vie_update_register do that.
emulate_and(i) ==
  LET result == IF i.op = 35 THEN i.regs[i.reg] & memread(i, i.size)
                ELSE memread(i, i.size) & Quad(i.imm)
      s == [State(i) EXCEPT !.fl = logic_flags(@, i.size, result)]
  IN  IF i.op = 35
      THEN [s EXCEPT !.regs = vie_update_register(@, i.reg, result, i.size)]
      ELSE [s EXCEPT !.mem = memwrite(i, result, i.size)]

emulate_or(i) ==
  LET result == memread(i, i.size) | Quad(i.imm)
  IN  [State(i) EXCEPT !.mem = memwrite(i, result, i.size),
                       !.fl = logic_flags(@, i.size, result)]

emulate_cmp(i) ==
  LET size == IF i.op = 128 THEN 1 ELSE i.size
  IN  [State(i) EXCEPT !.fl =
         IF i.op = 59
         THEN compare_flags(@, size, i.regs[i.reg], memread(i, size))
         ELSE compare_flags(@, size, memread(i, size), Quad(i.imm))]

emulate_sub(i) ==
  LET val1 == i.regs[i.reg]
      val2 == memread(i, i.size)
  IN  [State(i) EXCEPT
         !.regs = vie_update_register(@, i.reg, val1 - val2, i.size),
         !.fl = compare_flags(@, i.size, val1, val2)]

emulate_bittest(i) ==
  LET bitoff == i.imm % VemBits(i.size)
      set == ((memread(i, i.size) \div 2^bitoff) % 2) = 1
  IN  [State(i) EXCEPT !.fl = IF set THEN @ \cup {"C"} ELSE @ \ {"C"}]

\* The opcode extension in ModRM:reg selects the group 1 instruction; only
\* the comparison has an 8-bit form.
emulate_group1(i) ==
  CASE i.reg % 8 = 1 /\ i.op # 128 -> emulate_or(i)
    [] i.reg % 8 = 4 /\ i.op # 128 -> emulate_and(i)
    [] i.reg % 8 = 7 -> emulate_cmp(i)
    [] OTHER -> Failed(i)

vmm_emulate_instruction(i) ==
  IF ~i.bus THEN Failed(i)
  ELSE CASE i.op \in {128, 129, 131} -> emulate_group1(i)
         [] i.op = 59 -> emulate_cmp(i)
         [] i.op \in {136, 137, 138, 139, 161, 163, 198, 199} -> emulate_mov(i)
         [] i.op \in {256 + 182, 256 + 183, 256 + 190} -> emulate_movx(i)
         [] i.op = 35 -> emulate_and(i)
         [] i.op = 43 -> emulate_sub(i)
         [] i.op = 256 + 186 -> IF i.reg % 8 = 4 THEN emulate_bittest(i)
                                ELSE Failed(i)
-----------------------------------------------------------------------------
(* The test bench                                                          *)

\* Word registers 0, 1 and 5 hold independent values, the others are idle.
VemInstruction ==
  {i \in [op : EmulOps, size : {2, 4, 8}, rex : BOOLEAN, reg : {1, 4, 5, 7},
          imm : Imms, mem : Words, bus : BOOLEAN, fl : {{}, Status},
          regs : {[r \in 0..7 |-> IF r \in {0, 1} THEN a ELSE
                                  IF r \in {4, 5} THEN b ELSE 3] :
                  a \in Words, b \in {Word - 1}}] :
   /\ i.size = 8 => i.rex
   /\ i.bus \/ (i.fl = {} /\ i.imm = Max(Imms))
   /\ i.op \in {198, 199, 128, 129, 131, 256 + 186} \/ i.imm = Max(Imms)}

VemIdle == CHOOSE i \in VemInstruction : ~i.bus

VemInit == vem = VemIdle /\ vemOut = Failed(VemIdle)

\* Each instruction starts from a fresh processor state.
emulate ==
  /\ vem = VemIdle
  /\ \E i \in VemInstruction :
       vem' = i /\ vemOut' = vmm_emulate_instruction(i)

vem_again == vem # VemIdle /\ vem' = VemIdle /\ vemOut' = Failed(VemIdle)

VemNext == emulate \/ vem_again

VemSpec == VemInit /\ [][VemNext]_vemVars
-----------------------------------------------------------------------------
(* Reference: sets of bits and signed numbers                              *)

BitSet(x) == {k \in 0..(8 * ByteBits - 1) : (x \div 2^k) % 2 = 1}
FromBits(S) == MapThenSumSet(LAMBDA k : 2^k, S)
Lower(S, size) == {k \in S : k < VemBits(size)}
Above(S, size) == S \ Lower(S, size)
Signed(x, size) == IF x >= Mod(size) \div 2 THEN x - Mod(size) ELSE x

\* A register after a result of the given size: a doubleword clears the
\* upper half, smaller results keep the rest.
Written(old, res, size) ==
  FromBits(Lower(BitSet(Quad(res)), size)
           \cup (IF size < 4 THEN Above(BitSet(old), size) ELSE {}))

SubFlags(x, y, size) ==
  LET a == Trunc(x, size)
      b == Trunc(y, size)
      d == Signed(a, size) - Signed(b, size)
  IN  {f \in Status :
        CASE f = "C" -> a < b
          [] f = "Z" -> a = b
          [] f = "N" -> (d < 0) # (d \notin (-(Mod(size) \div 2))..(Mod(size) \div 2 - 1))
          [] f = "V" -> d \notin (-(Mod(size) \div 2))..(Mod(size) \div 2 - 1)
          [] f = "PF" -> Cardinality(Lower(BitSet((a - b) % Mod(size)), 1)) % 2 = 0}

\* The high-byte registers AH..BH exist only without a REX prefix.
ByteOf(i) == IF i.rex \/ i.reg < 4 THEN <<i.reg, 0>> ELSE <<i.reg - 4, ByteBits>>

GroupOf(i) == CASE i.reg = 1 -> "or" [] i.reg = 4 -> "and" [] i.reg = 7 -> "cmp"
                [] OTHER -> "other"
Kind(i) ==
  CASE i.op \in {136, 137, 163, 198, 199} -> "store"
    [] i.op \in {138, 139, 161} -> "load"
    [] i.op >= 256 /\ i.op # 256 + 186 -> "extend"
    [] i.op = 256 + 186 -> IF i.reg = 4 THEN "bt" ELSE "other"
    [] i.op = 35 -> "and"
    [] i.op = 43 -> "sub"
    [] i.op = 59 -> "cmp"
    [] i.op = 128 -> IF i.reg = 7 THEN "cmp" ELSE "other"
    [] OTHER -> GroupOf(i)

Width(i) == IF i.op \in {128, 136, 138, 198} THEN 1 ELSE i.size
ImmOp(i) == i.op \in {128, 129, 131, 198, 199}
RegVal(i) == CASE i.op = 136 -> i.regs[ByteOf(i)[1]] \div 2^ByteOf(i)[2]
               [] i.op = 163 -> i.regs[0]
               [] OTHER -> i.regs[i.reg]
FirstOperand(i) == IF ImmOp(i) THEN i.mem ELSE i.regs[i.reg]
SecondOperand(i) == IF ImmOp(i) THEN Quad(i.imm) ELSE i.mem

Result(i) ==
  LET a == BitSet(FirstOperand(i))
      b == BitSet(SecondOperand(i))
  IN  CASE Kind(i) = "store" -> IF ImmOp(i) THEN Quad(i.imm) ELSE RegVal(i)
        [] Kind(i) = "load" -> i.mem
        [] Kind(i) = "extend" ->
             (CASE i.op = 256 + 182 -> Trunc(i.mem, 1)
                [] i.op = 256 + 183 -> Trunc(i.mem, 2)
                [] i.op = 256 + 190 -> Quad(Signed(Trunc(i.mem, 1), 1)))
        [] Kind(i) = "and" -> FromBits(a \cap b)
        [] Kind(i) = "or" -> FromBits(a \cup b)
        [] Kind(i) = "sub" -> Quad(FirstOperand(i) - SecondOperand(i))
        [] OTHER -> 0

RefFlags(i) ==
  CASE Kind(i) \in {"and", "or"} ->
         (i.fl \ Status) \cup (SubFlags(Result(i), 0, Width(i)) \ {"C", "V"})
    [] Kind(i) \in {"cmp", "sub"} -> SubFlags(FirstOperand(i), SecondOperand(i), Width(i))
    [] Kind(i) = "bt" ->
         (i.fl \ {"C"}) \cup (IF (i.imm % VemBits(i.size)) \in BitSet(i.mem)
                              THEN {"C"} ELSE {})
    [] OTHER -> i.fl

ToMemory(i) == Kind(i) = "store" \/ (ImmOp(i) /\ Kind(i) \in {"and", "or"})
ToRegister(i) == Kind(i) \in {"load", "extend", "sub"}
                 \/ (~ImmOp(i) /\ Kind(i) = "and")

RefMem(i) ==
  IF ToMemory(i)
  THEN FromBits(Lower(BitSet(Quad(Result(i))), Width(i))
                \cup Above(BitSet(i.mem), Width(i)))
  ELSE i.mem

RefRegs(i) ==
  IF ~ToRegister(i) THEN i.regs
  ELSE IF i.op = 138
  THEN LET r == ByteOf(i)[1]
           at == ByteOf(i)[2]
       IN  [i.regs EXCEPT ![r] =
              FromBits({k \in BitSet(@) : k \notin at..(at + ByteBits - 1)}
                       \cup {k + at : k \in Lower(BitSet(i.mem), 1)})]
  ELSE [i.regs EXCEPT ![IF i.op = 161 THEN 0 ELSE i.reg] =
          Written(@, Result(i), i.size)]

\* The emulation leaves what the processor would have left: the destination
\* in the width of the operand (a doubleword result clears the upper half of
\* the register, a smaller one keeps it, AH..BH only without REX), the flags
\* of the truncated operands, and nothing else; an access no device answers
\* changes nothing.
EmulMatches ==
  LET i == vem IN
  /\ i.bus /\ Kind(i) # "other" =>
       vemOut = [regs |-> RefRegs(i), mem |-> RefMem(i), fl |-> RefFlags(i),
                 err |-> FALSE]
  /\ ~i.bus \/ Kind(i) = "other" => vemOut = Failed(i)
=============================================================================
