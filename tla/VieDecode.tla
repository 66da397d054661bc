------------------------------ MODULE VieDecode ------------------------------
(***************************************************************************)
(* vmm_decode_instruction of vmm_instruction_emul.c: the bytes of the      *)
(* instruction that touched device memory are taken apart, one decoding    *)
(* function per action, and checked against an encoder written from the    *)
(* processor's manual (Encode), over all the addressing forms.             *)
(***************************************************************************)
EXTENDS Integers, Sequences, SequencesExt

CONSTANTS Modes,      \* subset of {"64", "32"}; ModRM is not decoded in real mode
          DecodeOps,  \* opcodes under test, as in the opcode tables
          PfxSets,    \* sets of legacy prefix bytes
          Regs,       \* numbers of base and index registers
          RegFields,  \* numbers of register operands
          Values,     \* displacements and immediates, -128..127
          RipUnknown  \* RIP-relative operands also when the length is not known

VARIABLES vd,    \* struct vie, the bytes and the stage of the decoder
          vdRef  \* the instruction that was encoded

vdVars == <<vd, vdRef>>

NoReg == 16    \* VM_REG_LAST
Rip == 17
VdNone == <<"none">>
VIE_INST_SIZE == 15

-----------------------------------------------------------------------------
(* The opcode tables: a two-byte opcode xx is written 256 + xx.            *)

ModrmOps == {35, 43, 59, 136, 137, 138, 139, 143, 255, 256 + 182, 256 + 183,
             256 + 190}
Imm8Ops == {128, 131, 198, 256 + 186}
ImmOps == {129, 199}
MoffsetOps == {161, 163}
StringOps == {164, 165, 170, 171}
KnownOps == ModrmOps \cup Imm8Ops \cup ImmOps \cup MoffsetOps \cup StringOps
NoModrm == MoffsetOps \cup StringOps
NoGlaVerification == StringOps
-----------------------------------------------------------------------------
(* Reference: instructions and their encoding (Intel SDM, volume 2,        *)
(* chapter 2).                                                             *)

AbsentForm == [form |-> "none", mod |-> 0, base |-> NoReg, index |-> NoReg,
               ss |-> 0, disp |-> 0]

DispOf(mod) == IF mod = 0 THEN {0} ELSE Values

\* [base + disp], [base + index * scale + disp] and [disp32] or [rip + disp32]
Forms ==
  UNION {{[form |-> "base", mod |-> m, base |-> b, index |-> NoReg, ss |-> 0,
           disp |-> d] : b \in {r \in Regs : r % 8 # 4 /\ (m = 0 => r % 8 # 5)},
                         d \in DispOf(m)} : m \in 0..2}
  \cup
  UNION {{[form |-> "sib", mod |-> m, base |-> b, index |-> i, ss |-> s,
           disp |-> d] : b \in {r \in Regs : m = 0 => r % 8 # 5},
                         i \in (Regs \cup {NoReg}) \ {4}, s \in {3},
                         d \in DispOf(m)} : m \in 0..2}
  \cup
  {[form |-> "sibdisp", mod |-> 0, base |-> NoReg, index |-> i, ss |-> 1,
    disp |-> d] : i \in (Regs \cup {NoReg}) \ {4}, d \in Values}
  \cup
  {[form |-> f, mod |-> 0, base |-> NoReg, index |-> NoReg, ss |-> 0,
    disp |-> d] : f \in {"rip", "abs"}, d \in Values}
  \cup
  {[form |-> "direct", mod |-> 3, base |-> b, index |-> NoReg, ss |-> 0,
    disp |-> 0] : b \in Regs}

FormsOf(o) == IF o \in NoModrm THEN {AbsentForm} ELSE Forms

Legal(i) ==
  /\ i.mode = "32" => /\ i.f.base \in 0..7 \cup {NoReg} /\ i.reg \in 0..7
                      /\ i.f.index \in 0..7 \cup {NoReg}
                      /\ ~i.rex /\ ~i.w /\ 103 \notin i.pfx
                      /\ i.f.form # "rip"
  /\ i.mode = "64" => i.f.form # "abs"

\* In 32-bit mode an instruction under test keeps its address size.
Instruction ==
  {i \in UNION {[mode : Modes, op : {o}, pfx : PfxSets, rex : BOOLEAN,
                 w : BOOLEAN, reg : IF o \in NoModrm THEN {0} ELSE RegFields,
                 f : FormsOf(o),
                 imm : IF o \in Imm8Ops \cup ImmOps THEN Values ELSE {0}] :
                o \in DecodeOps} : Legal(i) /\ (i.w => ~i.rex)}

Byte(x) == x % 256
LittleEndian(x, n) ==
  [k \in 1..n |-> IF k = 1 THEN Byte(x) ELSE IF x < 0 THEN 255 ELSE 0]

RexBit(r, bit) == IF r \in 8..15 THEN bit ELSE 0
RexByte(i) == (64 + (IF i.w THEN 8 ELSE 0)) + RexBit(i.reg, 4)
              + RexBit(i.f.index, 2) + RexBit(i.f.base, 1)
HasRex(i) == i.mode = "64" /\ (i.rex \/ RexByte(i) # 64)

Low(r) == r % 8
Modrm(i) == 64 * i.f.mod + 8 * Low(i.reg) +
            (CASE i.f.form \in {"base", "direct"} -> Low(i.f.base)
               [] i.f.form \in {"sib", "sibdisp"} -> 4
               [] OTHER -> 5)
Sib(i) == 64 * i.f.ss
          + 8 * (IF i.f.index = NoReg THEN 4 ELSE Low(i.f.index))
          + (IF i.f.base = NoReg THEN 5 ELSE Low(i.f.base))
DispBytes(f) ==
  IF f.mod = 1 THEN 1
  ELSE IF f.mod = 2 \/ f.form \in {"sibdisp", "rip", "abs"} THEN 4 ELSE 0

OpSize(i) == IF i.mode = "64" /\ i.w THEN 8 ELSE IF 102 \in i.pfx THEN 2 ELSE 4
AddrSize(i) == IF i.mode = "64" THEN (IF 103 \in i.pfx THEN 4 ELSE 8) ELSE 4
ImmBytes(i) == IF i.op \in Imm8Ops THEN 1
               ELSE IF i.op \in ImmOps THEN (IF OpSize(i) = 2 THEN 2 ELSE 4)
               ELSE 0

Encode(i) ==
  SetToSeq(i.pfx)
  \o (IF HasRex(i) THEN <<RexByte(i)>> ELSE <<>>)
  \o (IF i.op >= 256 THEN <<15, i.op - 256>> ELSE <<i.op>>)
  \o (IF i.op \in NoModrm THEN <<>> ELSE <<Modrm(i)>>)
  \o (IF i.f.form \in {"sib", "sibdisp"} THEN <<Sib(i)>> ELSE <<>>)
  \o LittleEndian(i.f.disp, DispBytes(i.f))
  \o LittleEndian(i.imm, ImmBytes(i))
  \o (IF i.op \in MoffsetOps THEN LittleEndian(5, AddrSize(i)) ELSE <<>>)
-----------------------------------------------------------------------------
(* The decoder                                                             *)

\* Register values and the linear address the processor reports with the
\* fault; 64-bit addresses are scaled to 2^28, 32-bit ones to 2^24.
regval(r) == IF r = NoReg THEN 0 ELSE IF r = Rip THEN 4096 ELSE 300 + 100 * r
size2mask(n) == IF n = 8 THEN 2^28 ELSE IF n = 4 THEN 2^24 ELSE 2^16
Gla(i) ==
  ((IF i.f.form = "rip" THEN regval(Rip) + Len(Encode(i))
    ELSE regval(i.f.base))
   + (IF i.f.index = NoReg THEN 0 ELSE 2^i.f.ss * regval(i.f.index))
   + (IF i.op \in MoffsetOps THEN 5 ELSE i.f.disp)) % size2mask(AddrSize(i))

vie_init(i, n) ==
  [stage |-> "prefixes", inst |-> SubSeq(Encode(i) \o [k \in 1..15 |-> 144], 1, n),
   done |-> 0, pfx |-> {}, rex |-> {}, opsize |-> 0, addrsize |-> 0,
   op |-> 0, mod |-> 3, reg |-> 0, rm |-> 0, base |-> NoReg, index |-> NoReg,
   scale |-> 0, dispbytes |-> 0, disp |-> 0, imm |-> 0]

VdIdle == [vie_init([mode |-> "64", op |-> 164, pfx |-> {}, rex |-> FALSE,
                   w |-> FALSE, reg |-> 0, f |-> AbsentForm, imm |-> 0], 0)
         EXCEPT !.stage = "idle"]
NoRef == [insn |-> VdNone, gla |-> 0, ok |-> TRUE]

VdInit == vd = VdIdle /\ vdRef = NoRef

\* vm_handle_inst_emul: the exit gives the instruction length, or the
\* longest instruction is fetched; a buffer may also end too early, and the
\* bytes may no longer be those that faulted (moved: another vcpu wrote them).
fetch ==
  /\ vd.stage = "idle"
  /\ \E i \in Instruction, how \in {"whole", "unknown", "cut", "moved"} :
       LET n == Len(Encode(i)) IN
       /\ i.f.form = "rip" /\ how = "unknown" => RipUnknown
       /\ vd' = vie_init(i, CASE how = "cut" -> n - 1
                              [] how = "unknown" -> VIE_INST_SIZE
                              [] OTHER -> n)
       /\ vdRef' = [insn |-> <<i>>,
                    gla |-> IF how = "moved" THEN Gla(i) + 8 ELSE Gla(i),
                    ok |-> /\ i.op \in KnownOps /\ i.f.form # "direct"
                           /\ \/ how \in {"whole", "unknown"}
                              \/ how = "moved" /\ i.op \in NoGlaVerification]

more == vd.done < Len(vd.inst)
vie_peek == vd.inst[vd.done + 1]
fail == vd' = [vd EXCEPT !.stage = "error"]
VdAt(s) == vd.stage = s
mode == vdRef.insn[1].mode

\* The run of legacy prefixes from here on.
prefix_len == LET rest == SubSeq(vd.inst, vd.done + 1, Len(vd.inst))
                  other == SelectInSeq(rest, LAMBDA x :
                             x \notin {102, 103, 243, 242, 46, 54, 62, 38,
                                       100, 101})
              IN  IF other = 0 THEN Len(rest) ELSE other - 1

sizes(pfx, rex) ==
  [addr |-> IF mode = "64" THEN (IF 103 \in pfx THEN 4 ELSE 8)
            ELSE (IF 103 \in pfx THEN 2 ELSE 4),
   op |-> IF "w" \in rex THEN 8 ELSE IF 102 \in pfx THEN 2 ELSE 4]

rexbits(x) == {"present"} \cup (IF x % 16 >= 8 THEN {"w"} ELSE {})
              \cup (IF x % 8 >= 4 THEN {"r"} ELSE {})
              \cup (IF x % 4 >= 2 THEN {"x"} ELSE {})
              \cup (IF x % 2 = 1 THEN {"b"} ELSE {})

decode_prefixes ==
  /\ VdAt("prefixes")
  /\ LET n == prefix_len
         pfx == {vd.inst[k] : k \in (vd.done + 1)..(vd.done + n)}
         x == vd.inst[vd.done + n + 1]
         isrex == mode = "64" /\ x \in 64..79
         rex == IF isrex THEN rexbits(x) ELSE {}
     IN  \/ vd.done + n >= Len(vd.inst) /\ fail
         \/ /\ vd.done + n < Len(vd.inst)
            /\ vd' = [vd EXCEPT !.stage = "opcode", !.pfx = pfx, !.rex = rex,
                        !.done = @ + n + (IF isrex THEN 1 ELSE 0),
                        !.addrsize = sizes(pfx, rex).addr,
                        !.opsize = sizes(pfx, rex).op]
  /\ UNCHANGED vdRef

decode_opcode ==
  /\ VdAt("opcode")
  /\ \/ ~more /\ fail
     \/ /\ more /\ vie_peek = 15
        /\ vd' = [vd EXCEPT !.stage = "opcode2", !.done = @ + 1]
     \/ more /\ vie_peek \notin KnownOps \cup {15} /\ fail
     \/ /\ more /\ vie_peek \in KnownOps
        /\ vd' = [vd EXCEPT !.stage = "modrm", !.op = vie_peek,
                            !.done = @ + 1]
  /\ UNCHANGED vdRef

decode_two_byte_opcode ==
  /\ VdAt("opcode2")
  /\ \/ (more => 256 + vie_peek \notin KnownOps) /\ fail
     \/ /\ more /\ 256 + vie_peek \in KnownOps
        /\ vd' = [vd EXCEPT !.stage = "modrm", !.op = 256 + vie_peek,
                            !.done = @ + 1]
  /\ UNCHANGED vdRef

rexed(bit, n) == IF bit \in vd.rex THEN n + 8 ELSE n
disp_of_mod(m) == CASE m = 1 -> 1 [] m = 2 -> 4 [] OTHER -> 0

\* A field of the ModRM byte is widened by REX unless it selects a form.
rm_field(m, rm) ==
  IF (m = 0 /\ rm = 5) \/ rm = 4 THEN rm ELSE rexed("b", rm)

base_of(m, rm) ==
  IF m = 0 /\ rm = 5 THEN (IF mode = "64" THEN Rip ELSE NoReg) ELSE rm

decode_modrm ==
  /\ VdAt("modrm")
  /\ \/ /\ vd.op \in NoModrm
        /\ vd' = [vd EXCEPT !.stage = "sib"]
     \/ vd.op \notin NoModrm /\ (more => vie_peek >= 192) /\ fail
     \/ /\ vd.op \notin NoModrm /\ more /\ vie_peek < 192
        /\ LET m == vie_peek \div 64
               rm == rm_field(m, vie_peek % 8)
           IN vd' = [vd EXCEPT !.stage = "sib", !.done = @ + 1, !.mod = m,
                       !.rm = rm, !.reg = rexed("r", (vie_peek \div 8) % 8),
                       !.base = IF rm = 4 THEN @ ELSE base_of(m, rm),
                       !.dispbytes = IF rm = 4 THEN @
                                     ELSE IF m = 0 /\ rm = 5 THEN 4
                                     ELSE disp_of_mod(m)]
  /\ UNCHANGED vdRef

decode_sib ==
  /\ VdAt("sib")
  /\ \/ /\ vd.mod = 3 \/ vd.rm # 4
        /\ vd' = [vd EXCEPT !.stage = "disp"]
     \/ vd.mod # 3 /\ vd.rm = 4 /\ ~more /\ fail
     \/ /\ vd.mod # 3 /\ vd.rm = 4 /\ more
        /\ LET x == vie_peek
               i == rexed("x", (x \div 8) % 8)
               b == rexed("b", x % 8)
               nobase == vd.mod = 0 /\ b \in {5, 13}
           IN vd' = [vd EXCEPT !.stage = "disp", !.done = @ + 1,
                       !.base = IF nobase THEN @ ELSE b,
                       !.index = IF i = 4 THEN @ ELSE i,
                       !.scale = IF i = 4 THEN @ ELSE 2^(x \div 64),
                       !.dispbytes = IF nobase THEN 4 ELSE disp_of_mod(vd.mod)]
  /\ UNCHANGED vdRef

\* n little-endian bytes, sign-extended; Values fit in one byte.
signed(n) == LET low == vd.inst[vd.done + 1]
                 high == vd.inst[vd.done + n]
             IN  IF high >= 128 THEN low - 256 ELSE low
has(n) == vd.done + n <= Len(vd.inst)

decode_displacement ==
  /\ VdAt("disp")
  /\ \/ vd.dispbytes = 0 /\ vd' = [vd EXCEPT !.stage = "imm"]
     \/ vd.dispbytes > 0 /\ ~has(vd.dispbytes) /\ fail
     \/ /\ vd.dispbytes > 0 /\ has(vd.dispbytes)
        /\ vd' = [vd EXCEPT !.stage = "imm", !.disp = signed(vd.dispbytes),
                            !.done = @ + vd.dispbytes]
  /\ UNCHANGED vdRef

\* mutant: every immediate is as wide as the operands
imm_bytes_opsize == IF vd.op \in ImmOps \cup Imm8Ops THEN vd.opsize ELSE 0

imm_bytes == IF vd.op \in ImmOps THEN (IF vd.opsize = 2 THEN 2 ELSE 4)
             ELSE IF vd.op \in Imm8Ops THEN 1 ELSE 0

decode_immediate ==
  /\ VdAt("imm")
  /\ \/ imm_bytes = 0 /\ vd' = [vd EXCEPT !.stage = "moffset"]
     \/ imm_bytes > 0 /\ ~has(imm_bytes) /\ fail
     \/ /\ imm_bytes > 0 /\ has(imm_bytes)
        /\ vd' = [vd EXCEPT !.stage = "moffset", !.imm = signed(imm_bytes),
                            !.done = @ + imm_bytes]
  /\ UNCHANGED vdRef

decode_moffset ==
  /\ VdAt("moffset")
  /\ \/ vd.op \notin MoffsetOps /\ vd' = [vd EXCEPT !.stage = "verify"]
     \/ vd.op \in MoffsetOps /\ ~has(vd.addrsize) /\ fail
     \/ /\ vd.op \in MoffsetOps /\ has(vd.addrsize)
        /\ vd' = [vd EXCEPT !.stage = "verify", !.disp = signed(vd.addrsize),
                            !.done = @ + vd.addrsize]
  /\ UNCHANGED vdRef

\* The address the decoder arrives at; a RIP-relative one starts from the
\* end of the buffer (num_valid).
gla2 == ((regval(vd.base) + (IF vd.base = Rip THEN Len(vd.inst) ELSE 0))
         + vd.scale * regval(vd.index) + vd.disp) % size2mask(vd.addrsize)

\* verify_inst_length accepts any number of processed bytes but none.
verify_gla ==
  /\ VdAt("verify")
  /\ vd' = [vd EXCEPT !.stage =
              IF vd.done > 0 /\ (vd.op \in NoGlaVerification \/ gla2 = vdRef.gla)
              THEN "decoded" ELSE "error"]
  /\ UNCHANGED vdRef

retire ==
  /\ vd.stage \in {"decoded", "error"}
  /\ vd' = VdIdle /\ vdRef' = NoRef

VdNext == fetch \/ decode_prefixes \/ decode_opcode \/ decode_two_byte_opcode
        \/ decode_modrm \/ decode_sib \/ decode_displacement
        \/ decode_immediate \/ decode_moffset \/ verify_gla \/ retire

VdSpec == VdInit /\ [][VdNext]_vdVars
-----------------------------------------------------------------------------
(* Properties                                                              *)

\* What the decoder reports is the instruction that was encoded: operand
\* and address size, registers, scale, displacement and immediate, whatever
\* mixture of prefixes, REX bits, ModRM and SIB forms encodes it, and the
\* next instruction starts where this one ends.
DecodesInverse ==
  vd.stage = "decoded" /\ vdRef.ok =>
    LET i == vdRef.insn[1] IN
    /\ vd.op = i.op /\ vd.done = Len(Encode(i))
    /\ vd.opsize = OpSize(i) /\ vd.addrsize = AddrSize(i)
    /\ vd.op \notin NoModrm =>
         /\ vd.reg = i.reg /\ vd.index = i.f.index /\ vd.disp = i.f.disp
         /\ vd.base = IF i.f.form = "rip" THEN Rip ELSE i.f.base
         /\ vd.index # NoReg => vd.scale = 2^i.f.ss
    /\ ImmBytes(i) > 0 => vd.imm = i.imm

\* Every instruction of the tables with a memory operand is decoded, when its
\* linear address is the one the processor reported; a buffer that ends too
\* early, or bytes that changed since the fault, are never taken for it.
AcceptsExactly ==
  /\ vd.stage = "error" => ~vdRef.ok
  /\ vd.stage = "decoded" => vdRef.ok
=============================================================================
