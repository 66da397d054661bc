SPECIFICATION DevSpec
CONSTANTS
  Parts = {"pic", "pit", "hpet", "rtc", "date", "lapic", "com", "power", "disk", "irq", "bar", "cap", "blk", "net", "regs", "chain"}
  LevelIrqs = {5}
  PulseIrqs = {8}
  Elcs <- MCElcs
  Masks <- MCMasks
  Ocw2s <- MCOcw2s
  Ocw3s <- MCOcw3s
  Icw4s <- MCIcw4s
  QuietInit = TRUE
  Channels = {0}
  Modes = {"RATEGEN", "INTTC"}
  ByteBase = 2
  DefaultCount = 2
  PitMaxTime = 3
  Timers = {0}
  CounterMod = 4
  AllowedPins = {20, 21}
  Configs <- MCConfigs
  CompVals = {1, 3}
  HpetMaxTime = 4
  SBT_1S = 2
  RtcMaxTime = 2
  Epoch = 2
  GuestTimes = {1}
  RegBs <- MCRegBs
  Alarms = {3}
  CenturyBack = FALSE
  Years = {2000, 2100}
  Times = {0, 46805}
  DateBytes = {1, 49, 146}
  Centuries = {25, 32}
  Divisors = {1, 2}
  Counts = {0, 2}
  LtMaxTime = 3
  LiveDivide = FALSE
  Events = {"tty", "sig"}
  MEVENT_MAX = 4
  Tty = "tty"
  FIFOSZ = 2
  MaxInput = 2
  EarlyGuest = FALSE
  Iers <- MCIers
  Mcrs <- MCMcrs
  SIGTERM = "sig"
  MaxSignals = 2
  Hasty = FALSE
  Slots <- MCSlots
  AtaCmds <- MCAtaCmds
  PacketCmds <- MCPacketCmds
  DiskErrors = {TRUE, FALSE}
  AhciMsi = {FALSE}
  AhciResetBusy = FALSE
  Devices <- MCDevs
  Flags = {"msix", "intxdis"}
  NPirqs = 2
  PciPins = 2
  Regs = {128, 5}
  MaxWrites = 1
  BarMax = 2
  Buses = 2
  IoSizesAsked = {5, 40}
  MemSizesAsked = {20, 512}
  MaxAllocs = 3
  BarValues = {0, 40, 255}
  MaxBarWrites = 2
  CfgAddrs = {0, 133120, 4660, 4661, 16777212, 16777215}
  CapKinds <- MCCapKinds
  PciRegMax = 139
  MsixCount = 1
  CapWidths = {2, 4}
  ByteControl = FALSE
  Unmasked = FALSE
  QSize = 2
  IdxMod = 4
  MaxReq = 3
  BlkMsix = {TRUE}
  BlkResetBusy = FALSE
  NetMsix = {TRUE, FALSE}
  OnEmpty = {TRUE}
  TxDepth = 1
  RxDepth = 1
  MaxFrames = 1
  Again = FALSE
  IntxReset = FALSE
  VrKinds = {"net", "blk"}
  VrNvq = 1
  VrQsize = 64
  VrCaps = {0}
  VrValues = {0, 3}
  VrOffsets = {8, 14, 18, 20, 22}
  VcSize = 3
  VQ_MAX_DESCRIPTORS = 4
  VcIov = {3}
  VcDescs <- MCDescs
  VcTables <- MCTables
  VcIndirect = TRUE
INVARIANT TypesKept
 
INVARIANT LinesFollow
INVARIANT RequestsAnswered
INVARIANT OutsideHeard
INVARIANT NobodyStuck
INVARIANT RegistersAgree
