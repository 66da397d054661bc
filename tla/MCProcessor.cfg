SPECIFICATION ProcSpec
CONSTANTS
  Parts = {"events", "regs", "walk", "decode", "emulate", "string", "segment", "task", "boot", "dest", "inout", "memory"}
  Excs = {"PF", "GP"}
  Intercepted = {"MC"}
  MaxNmis = 2
  MaxInts = 2
  Cr0s = {{"ET"}, {"PE", "CD"}, {"PE", "PG", "WP", "NE", "ET"}, {"PE", "PG", "NE", "NW"}}
  Cr4s = {{}, {"PAE", "XSAVE"}, {"VMXE", "PAE"}}
  Xcr0s = {{"X87"}, {"X87", "AVX"}, {"X87", "SSE", "AVX"}, {"SSE"}, {"X87", "BNDCSR"}, {"X87", "SSE", "AVX", "OPMASK"}}
  HostXcr0 = {"X87", "SSE", "AVX", "OPMASK", "ZMMHI", "HI16ZMM", "BNDREGS", "BNDCSR"}
  Pats = {0, 3, 9}
  Caps = {"hlt", "mtf"}
  MaxSteps = 5
  Careless = FALSE
  Walkers = {"k1", "k2"}
  User = {"k2"}
  Writers = {"k1"}
  Levels = 3
  NoPs = {2}
  Unchecked = {}
  MaxWrites = 1
  Modes = {"64", "32"}
  DecodeOps = {137, 199, 161, 164, 442, 144, 511}
  PfxSets = {{}, {102, 100}}
  Regs = {5, 12, 13}
  RegFields = {3, 11}
  Values <- MCValues
  RipUnknown = FALSE
  ByteBits = 2
  Words = {0, 6, 65535, 33420, 51339}
  Imms <- MCImms
  EmulOps = {35, 43, 59, 128, 129, 131, 136, 137, 138, 139, 161, 163, 198, 199, 438, 439, 442, 446}
  Mmio = {4, 5, 6, 7}
  Starts = {0, 1, 3, 6, 9}
  Counts = {0, 1, 2, 3, 9, 10}
  Kinds = {"movs", "stos", "push", "pop"}
  AddrSizes = {2, 4, 8}
  MaxUnmaps = 1
  Offsets = {0, 3, 6, 7, 8, 14, 15, 18, 40, 60, 63}
  Limits = {0, 7, 10, 15}
  Bases = {0, 9}
  Tasks = {"a", "b", "c", "d"}
  First = "a"
  DescOf <- MCDescOf
  BadSeg <- MCBadSeg
  Absences <- MCAbsences
  Reasons = {"CALL", "JMP", "IRET", "IDT_GATE"}
  MaxSwitches = 3
  Aps = {1, 2, 3}
  Vcpus = {0, 3}
  Active = {{0}, {0, 3}}
  Ids = {2, 8, 33}
  Fields <- MCFields
  IoPorts = {0, 1, 2, 3}
  KernelPorts = {3}
  IoDevs = {"a", "b"}
  IoSize <- MCIoSize
  IoAddr <- MCIoAddr
  PostPorts = {0}
  IoStrict = FALSE
  MAX_ITERATIONS = 2
  IoSizes = {2}
  IoAddrSizes = {4}
  IoStarts = {1, 4}
  IoCounts = {1, 3}
  IoAcross = FALSE
  IoPages = {1, 2}
  IoBounds <- MCIoBounds
  Cpus = {1, 2}
  Bars = {"b1", "b2", "b3"}
  DevOf <- MCDevOf
  Addrs = {"a1", "a2", "a3", "a4"}
  Ecfg = "ecfg"
INVARIANT TypesKept
INVARIANT EventsKept
INVARIANT VmcsValid
 
 
INVARIANT WholeOrNot
PROPERTY WindowsKept
