------------------------------- MODULE GlaCalc -------------------------------
(***************************************************************************)
(* vie_calculate_gla and the checks around it (vmm_instruction_emul.c), as *)
(* get_gla and the string I/O and stack emulation use them: segment        *)
(* limits and types, truncation to the address size, canonical addresses,  *)
(* alignment.  16, 32 and 64-bit quantities have 3, 4 and 6 bits; bit 4 is *)
(* the last implemented address bit (bit 47).                              *)
(***************************************************************************)
EXTENDS Integers, FiniteSets

CONSTANTS Offsets,   \* contents of the index register
          Limits,    \* segment limits, fully expanded
          Bases      \* segment bases

VARIABLES gc,     \* the access
          gcOut   \* what get_gla makes of it

gcVars == <<gc, gcOut>>

Size2mod(n) == CASE n = 2 -> 8 [] n = 4 -> 16 [] n = 8 -> 64
VaBits == 5

Types == {"data-ro", "data-rw", "down-ro", "down-rw", "code-x", "code-rx"}

SegAccess ==
  {a \in [mode : {"prot", "64"}, seg : {"DS", "SS", "FS"}, type : Types,
          unusable : BOOLEAN, def32 : BOOLEAN, base : Bases, limit : Limits,
          offset : Offsets, length : {1, 2, 4}, addrsize : {2, 4, 8},
          prot : {"read", "write"}, ac : BOOLEAN] :
   /\ a.mode = "64" => a.addrsize # 2 /\ a.type = "data-rw" /\ ~a.unusable
                       /\ a.def32 /\ a.limit = 15
   /\ a.mode = "prot" => a.addrsize # 8
   /\ a.seg = "FS" => a.mode = "64"
   /\ a.def32 \/ a.type \in {"down-ro", "down-rw"}
   /\ a.unusable => a.type = "data-rw"
   /\ a.ac => a.seg = "DS"}

SegNone == [mode |-> "none"]

\* Offsets of the bytes, each truncated to the address size.
bytes(a) == {(a.offset + k) % Size2mod(a.addrsize) : k \in 0..(a.length - 1)}

expand_down(a) == a.type \in {"down-ro", "down-rw"}

\* mutant: the limit of an expand-down segment is inside
low_limit_inclusive(a) == IF expand_down(a) THEN a.limit ELSE 0

low_limit(a) == IF expand_down(a) THEN a.limit + 1 ELSE 0

high_limit(a) ==
  IF ~expand_down(a) THEN a.limit
  ELSE IF a.def32 THEN Size2mod(4) - 1 ELSE Size2mod(2) - 1

forbidden(a) ==
  \/ a.prot = "read" /\ a.type = "code-x"
  \/ a.prot = "write" /\ a.type \in {"code-x", "code-rx", "data-ro", "down-ro"}

\* FALSE stands for the -1 of the code.
vie_calculate_gla(a) ==
  a.mode = "64" \/ (/\ ~a.unusable /\ ~forbidden(a)
                    /\ \A o \in bytes(a) : low_limit(a) <= o /\ o <= high_limit(a))

segbase(a) == IF a.mode = "64" /\ a.seg # "FS" THEN 0 ELSE a.base
gla(a) == (segbase(a) + (a.offset % Size2mod(a.addrsize)))
          % Size2mod(IF a.mode = "64" THEN 8 ELSE 4)

\* The bits above the last implemented one repeat it.
vie_canonical_check(a) ==
  a.mode # "64" \/
  LET top == gla(a) \div 2^VaBits
      sign == (gla(a) \div 2^(VaBits - 1)) % 2
  IN  top = (IF sign = 1 THEN (Size2mod(8) \div 2^VaBits) - 1 ELSE 0)

vie_alignment_check(a) == ~a.ac \/ gla(a) % a.length = 0

\* Faults in the order get_gla looks for them.
get_gla(a) ==
  LET wrong == IF a.seg = "SS" THEN "SS" ELSE "GP" IN
  IF ~vie_calculate_gla(a) \/ ~vie_canonical_check(a)
  THEN [fault |-> wrong, gla |-> 0]
  ELSE IF ~vie_alignment_check(a) THEN [fault |-> "AC", gla |-> 0]
  ELSE [fault |-> "none", gla |-> gla(a)]

SegInit == gc = SegNone /\ gcOut = [fault |-> "none", gla |-> 0]

access == gc = SegNone /\ \E a \in SegAccess : gc' = a /\ gcOut' = get_gla(a)
seg_again == gc # SegNone /\ gc' = SegNone /\ gcOut' = [fault |-> "none", gla |-> 0]

SegNext == access \/ seg_again

SegSpec == SegInit /\ [][SegNext]_gcVars
-----------------------------------------------------------------------------
(* Properties                                                              *)

\* Offsets the segment covers: an expand-down segment is what its limit
\* leaves over.
Covered(a) ==
  IF expand_down(a)
  THEN (0..(IF a.def32 THEN 15 ELSE 7)) \ (0..a.limit)
  ELSE 0..a.limit

Wraps(a) == (a.offset % Size2mod(a.addrsize)) + a.length > Size2mod(a.addrsize)

\* An operand that does not wrap around the address size is let through only
\* if every byte the hypervisor will then touch, counted from the linear
\* address it returns, is a byte of the segment, of a type that allows the
\* access, and (in 64-bit mode) a canonical address; and every such operand
\* is let through.
SegmentsProtect ==
  gc # SegNone /\ ~Wraps(gc) =>
    LET first == gc.offset % Size2mod(gc.addrsize)
        inside == /\ ~gc.unusable
                  /\ \A k \in 0..(gc.length - 1) : first + k \in Covered(gc)
                  /\ gc.prot = "write" => gc.type \in {"data-rw", "down-rw"}
                  /\ gc.prot = "read" => gc.type # "code-x"
        signed == IF gcOut.gla >= 32 THEN gcOut.gla - 64 ELSE gcOut.gla
    IN  /\ gc.mode = "prot" => (gcOut.fault \in {"GP", "SS"} <=> ~inside)
        /\ gcOut.fault = "none" =>
             /\ gc.mode = "prot" => gcOut.gla = (gc.base + first) % 16
             /\ gc.mode = "64" => signed \in -16..15
             /\ gc.ac => gcOut.gla % gc.length = 0
=============================================================================
