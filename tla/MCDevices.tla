------------------------------ MODULE MCDevices ------------------------------
(***************************************************************************)
(* Model-checking instances of the device models and of the timers.  A     *)
(* behaviour is one of one component, `which'; the variables of the others *)
(* stay Off.  A component whose clock or whose supply of events is bounded *)
(* may stop where the bound is reached; the others always have a step.     *)
(***************************************************************************)
EXTENDS Vatpic, Vatpit, Vhpet, Vrtc, RtcDate, VlapicTimer, Uart, Pm, Ahci, PciIrq, PciBars,
        PciCaps, VirtioBlk, VirtioNet, VirtioRegs, VirtioChain

CONSTANT Parts      \* the components to check

VARIABLE which

Off == 0
-----------------------------------------------------------------------------
(* The interrupt controllers: a level irq on the master and an edge on the  *)
(* slave, masks, a specific rotation, special mask mode and polling.        *)
Ocw2(r, sl, eoi, level) == [R |-> r, SL |-> sl, EOI |-> eoi, level |-> level]

Ocw3(esmm, smm, rr, p) == [ESMM |-> esmm, SMM |-> smm, RR |-> rr, P |-> p]

Chips(master, slave) == (0 :> master) @@ (1 :> slave)

MCElcs == {{5}}

MCMasks == Chips({{}, {2}}, {{}})

MCOcw2s == Chips({Ocw2(FALSE, FALSE, TRUE, 0)},
                 {Ocw2(TRUE, FALSE, TRUE, 0)})

MCOcw3s == Chips({Ocw3(TRUE, TRUE, FALSE, FALSE)}, {Ocw3(FALSE, FALSE, TRUE, TRUE)})

MCIcw4s == Chips({[AEOI |-> FALSE, SFNM |-> TRUE]}, {[AEOI |-> TRUE, SFNM |-> FALSE]})

(* The HPET: one-shot and periodic, edge and level, message and line, and a *)
(* route that is not allowed.                                               *)
Config(fsb, pin, type, level, set) ==
  [fsb |-> fsb, route |-> pin, type |-> type, int_enb |-> TRUE, level |-> level,
   val_set |-> set]

MCConfigs ==
  {Config(FALSE, 20, "oneshot", TRUE, FALSE), Config(FALSE, 21, "periodic", TRUE, TRUE),
   Config(FALSE, 20, "periodic", FALSE, FALSE), Config(TRUE, 5, "oneshot", TRUE, FALSE)}

MCRegBs == {{"HALT"}, {"AINTR", "UINTR"}, {"PINTR"}}

MCIers == {{"ERXRDY", "ERLS", "ETXRDY", "EMSC"}}

MCMcrs == {[loopback |-> b, rts |-> b] : b \in BOOLEAN}

(* The disk and the CD: commands in one and in two parts, queued and not,   *)
(* one that is refused, soft resets.                                        *)
Cmd(op, acmd, parts, refused) ==
  [op |-> op, acmd |-> acmd, parts |-> parts, refused |-> refused]

MCSlots == 0 .. 1

MCAtaCmds ==
  {Cmd("rw", "none", 2, FALSE), Cmd("ncq", "none", 1, FALSE),
   Cmd("softreset", "none", 0, FALSE), Cmd("softreset_end", "none", 0, FALSE)}

MCPacketCmds ==
  {Cmd("packet", "READ", 1, FALSE), Cmd("packet", "READ_TOC", 0, TRUE)}

(* Two functions of one slot and one of another. *)
MCDevs == <<[slot |-> 1], [slot |-> 1], [slot |-> 2]>>

MCCapKinds == {<<"msix", "msi", "pcie">>}

(* Chains that end, that loop, that leave the ring, and indirect tables: a  *)
(* good one, one with a table inside, one whose link leaves it.             *)
Desc(ind, next, link) == [ind |-> ind, next |-> next, link |-> link]

Plain(next, link) == Desc("no", next, link)

MCDescs ==
  {Plain(FALSE, 0), Desc("bad", FALSE, 0), Desc("t1", FALSE, 1)}
  \cup {Plain(TRUE, l) : l \in {0, 1, 3}} \cup {Desc(t, TRUE, 2) : t \in {"t1", "t2", "t3"}}

MCTables ==
  [t1 |-> <<Plain(TRUE, 1), Plain(FALSE, 0)>>,
   t2 |-> <<Plain(TRUE, 2), Desc("t1", FALSE, 0), Plain(TRUE, 3), Plain(FALSE, 0)>>,
   t3 |-> <<Plain(TRUE, 2), Plain(FALSE, 0)>>]
-----------------------------------------------------------------------------
PicOff == pic = Off /\ picVec = Off /\ picGo = Off /\ picLine = Off /\ picDropped = Off

PitOff == pitCh = Off /\ pitCo = Off /\ pitNow = Off /\ pitLoaded = Off

HpetOff == /\ hpetOn = Off /\ hpetBase = Off /\ hpetBaseSbt = Off /\ hpetIsr = Off
           /\ hpetTimer = Off /\ hpetLine = Off /\ hpetNow = Off /\ hpetAborted = Off

RtcOff == rtc = Off /\ rtcNow = Off /\ rtcFault = Off

LapicOff == lt = Off /\ ltNow = Off /\ ltSeen = Off

ComOff == uart = Off /\ uartTyped = Off /\ uartWaiting = Off /\ uartRx = Off

PowerOff == pm = Off /\ pmSuspend = Off /\ pmSent = Off

DiskOff == ahci = Off /\ ahciCmd = Off

IrqOff == pciDev = Off /\ pciPirq = Off /\ pciPic = Off /\ pciIoapic = Off

BlkOff == vb = Off /\ vbIo = Off /\ vbSlots = Off /\ vbGuest = Off /\ vbFault = Off

NetOff == vn = Off /\ vnGuest = Off /\ vnFrames = Off

DevInit ==
  /\ which \in Parts
  /\ IF which = "pic" THEN PicInit ELSE PicOff
  /\ IF which = "pit" THEN PitInit ELSE PitOff
  /\ IF which = "hpet" THEN HpetInit ELSE HpetOff
  /\ IF which = "rtc" THEN RtcInit ELSE RtcOff
  /\ IF which = "date" THEN DateInit ELSE rd = Off
  /\ IF which = "lapic" THEN LtInit ELSE LapicOff
  /\ IF which = "com" THEN UartInit ELSE ComOff
  /\ IF which = "power" THEN PmInit ELSE PowerOff
  /\ IF which \in {"com", "power"} THEN TRUE ELSE mev = Off
  /\ IF which = "disk" THEN AhciInit ELSE DiskOff
  /\ IF which = "irq" THEN PciInit ELSE IrqOff
  /\ IF which = "bar" THEN BarInit ELSE pb = Off /\ pbCfg = Off
  /\ IF which = "cap" THEN CapInit ELSE cp = Off
  /\ IF which = "blk" THEN BlkInit ELSE BlkOff
  /\ IF which = "net" THEN NetInit ELSE NetOff
  /\ IF which = "regs" THEN VrInit ELSE vr = Off
  /\ IF which = "chain" THEN VcInit ELSE vc = Off

\* the component's own step; what is bounded may stop
PartNext ==
  \/ which = "pic" /\ PicNext
  \/ which = "pit" /\ (PitNext \/ UNCHANGED pitVars)
  \/ which = "hpet" /\ (HpetNext \/ UNCHANGED hpetVars)
  \/ which = "rtc" /\ (RtcNext \/ UNCHANGED rtcVars)
  \/ which = "date" /\ DateNext
  \/ which = "lapic" /\ (LtNext \/ UNCHANGED ltVars)
  \/ which = "com" /\ UartNext
  \/ which = "power" /\ PmNext
  \/ which = "disk" /\ AhciNext
  \/ which = "irq" /\ PciNext
  \/ which = "bar" /\ (BarNext \/ UNCHANGED pbVars)
  \/ which = "cap" /\ CapNext
  \/ which = "blk" /\ BlkNext
  \/ which = "net" /\ NetNext
  \/ which = "regs" /\ VrNext
  \/ which = "chain" /\ VcNext

Rests(part, v) == IF which = part THEN TRUE ELSE UNCHANGED v

DevNext ==
  /\ UNCHANGED which
  /\ Rests("pic", picVars)
  /\ Rests("pit", pitVars)
  /\ Rests("hpet", hpetVars)
  /\ Rests("rtc", rtcVars)
  /\ Rests("date", rdVars)
  /\ Rests("lapic", ltVars)
  /\ Rests("com", <<uart, uartTyped, uartWaiting, uartRx>>)
  /\ Rests("power", <<pm, pmSuspend, pmSent>>)
  /\ Rests("disk", ahciVars)
  /\ Rests("irq", pciVars)
  /\ Rests("bar", pbVars)
  /\ Rests("cap", cp)
  /\ Rests("blk", blkVars)
  /\ Rests("net", netVars)
  /\ Rests("regs", vr)
  /\ Rests("chain", vc)
  /\ IF which \in {"com", "power"} THEN TRUE ELSE UNCHANGED mev
  /\ PartNext

devVars == <<which, picVars, pitVars, hpetVars, rtcVars, rd, ltVars, uartVars, pmVars,
             ahciVars, pciVars, pbVars, cp, blkVars, netVars, vr, vc>>

DevSpec == DevInit /\ [][DevNext]_devVars
-----------------------------------------------------------------------------
\* Every component's variables keep the shape the code gives them.
TypesKept ==
  /\ which = "pic" => PicTypeOK
  /\ which = "pit" => PitTypeOK
  /\ which = "hpet" => HpetTypeOK
  /\ which = "rtc" => RtcTypeOK
  /\ which = "lapic" => LtTypeOK
  /\ which = "com" => UartTypeOK
  /\ which = "power" => PmTypeOK
  /\ which = "disk" => AhciTypeOK
  /\ which = "irq" => PciTypeOK
  /\ which = "bar" => BarTypeOK
  /\ which = "cap" => CapTypeOK
  /\ which = "blk" => BlkTypeOK
  /\ which = "net" => NetTypeOK
  /\ which = "regs" => VrTypeOK
  /\ which = "chain" => VcTypeOK


\* An interrupt line is up exactly while its reason lasts, and no request for one is lost:
\* the 8259As tell the vcpu of what they hold (vatpic_notify_intr), and the lines of the HPET,
\* the serial port, the SCI, the AHCI controller, virtio devices and the PCI interrupt router
\* agree with the registers they are made from.
LinesFollow ==
  /\ which = "pic" => NeverQuiet /\ CountsFollowLines
  /\ which = "hpet" => LinesMatchIsr
  /\ which = "com" => PinFollowsReason
  /\ which = "power" => SciFollowsStatus
  /\ which = "disk" => PinFollowsStatus
  /\ which = "irq" => RouterBalanced /\ MaskRemembers
  /\ which = "net" => LineMatchesIsr
  /\ which = "regs" => LineFollowsIsr

\* Every command or buffer the guest hands to a controller comes back once, with its
\* completion told, and none is kept or forgotten: AHCI slots through splits, errors, resets
\* and stops of the port (ahci_port_stop, ata_ioreq_cb); virtio block requests
\* (pci_vtblk_done); the network card's rings and its transmit thread's sleep
\* (pci_vtnet_tx_thread, pci_vtnet_ping_txq).
RequestsAnswered ==
  /\ which = "disk" => /\ PendingIsBusy /\ NothingForgotten
                       /\ CompletionsEarned /\ StoppedMeansIdle
  /\ which = "blk" => ReturnedOnce /\ CompletionHeard
  /\ which = "net" => /\ NoLostKick /\ RingsKept
                      /\ BuffersReturned /\ HeaderMatches

\* What comes from outside reaches the guest through the event loop: characters in the
\* order they were typed (rxfifo_putchar, uart_drain), the power button as long as ACPI is on
\* (power_button_handler); and neither the notification pipe nor the queue of events
\* (mevent_notify, mevent_build) can stop the loop.
OutsideHeard ==
  /\ which = "com" => /\ FifoInOrder /\ InputHeard
                      /\ PipeNeverBlocks /\ QueueMatches
  /\ which = "power" => ButtonArmed /\ PipeNeverBlocks /\ QueueMatches

\* No assertion of these devices fails, no loop of theirs goes on for ever and no thread waits
\* for a lock it holds, as long as the guest uses them the way drivers do.
NobodyStuck ==
  /\ which = "hpet" => NoAbort
  /\ which = "rtc" => NoFault
  /\ which = "blk" => NoAssertFails /\ NoSelfDeadlock
  /\ which = "net" => ResetNotBlocked

\* What the guest finds in registers and tables is what an independent definition says:
\* dates and times through every format of the RTC (secs_to_rtc, rtc_to_secs), virtio's
\* register window (vi_pci_read, vi_pci_write), descriptor chains (vq_getchain), the
\* addresses of BARs (pci_emul_alloc_pbar, pci_cfgrw), capabilities and the messages sent
\* from them (pci_emul_capwrite, pci_generate_msix).
RegistersAgree ==
  /\ which = "date" => RoundTrips /\ ReadsWhatIsShown
  /\ which = "regs" => ReadsBack /\ DeviceWritesApart
  /\ which = "chain" => ChainMatches
  /\ which = "bar" => /\ RangesApart /\ RegisterIsAddress
                      /\ SizingWorks /\ SameRegister
  /\ which = "cap" => ChainKept /\ ControlFollows /\ MessageFromTable
=============================================================================
