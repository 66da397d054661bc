--------------------------------- MODULE Ahci ---------------------------------
(***************************************************************************)
(* The AHCI controller of src/pci_ahci.c with the one port that has a      *)
(* disk or a CD behind it: the command slots, the requests it hands to the *)
(* block backend, their callbacks, which come from the backend's threads,  *)
(* and the interrupt.  A step is what one thread does under the mutex of   *)
(* the controller, sc->mtx; it is a function of the controller's state.    *)
(* Module BlockIf models the backend; here a request is queued (pend) or   *)
(* taken by a thread (busy), and blockif_cancel takes back a queued one.   *)
(*                                                                         *)
(* The transferred bytes are left out: a command has a number of parts,    *)
(* the requests that build_iov or the list of a trim makes of it.          *)
(***************************************************************************)
EXTENDS Integers, Sequences, FiniteSets, SequencesExt

CONSTANTS Slots,         \* 0 .. n - 1: command slots, and as many requests
          AtaCmds,       \* commands the guest gives a disk
          PacketCmds,    \* commands the guest gives a CD
          DiskErrors,    \* whether requests may fail: a subset of BOOLEAN
          AhciMsi,        \* whether the guest uses MSI: a subset of BOOLEAN
          AhciResetBusy  \* the guest may reset the controller while the port runs

VARIABLES ahci,         \* struct pci_ahci_softc and its port 0
          ahciCmd       \* guest memory: the command table, by slot

ahciVars == <<ahci, ahciCmd>>

\* A command: what cfis[2] asks for, how often the backend is needed for it,
\* and whether a field of it has a value the handler refuses.
Command == [op : {"rw", "ncq", "flush", "trim", "send_fpdma", "identify", "setfeatures",
                  "set_multi", "read_log", "power", "atapi_identify", "packet",
                  "softreset", "softreset_end", "unknown"},
            acmd : {"none", "READ", "REQUEST_SENSE", "INQUIRY", "TEST_UNIT_READY",
                    "PREVENT_ALLOW", "READ_CAPACITY", "READ_TOC", "REPORT_LUNS",
                    "START_STOP_UNIT", "MODE_SENSE_10", "GET_EVENT", "unknown"},
            parts : 0 .. 2, refused : BOOLEAN]

NoCmd == [op |-> "unknown", acmd |-> "none", parts |-> 0, refused |-> FALSE]

Request == [slot : Slots, left : 0 .. 2, be : {"pend", "busy"}]

AhciIrqs == {"DHR", "SDB", "TFE"}

AhciTypeOK ==
  /\ ahci.ghc_ie \in BOOLEAN /\ ahci.is \in BOOLEAN /\ ahci.lintr \in BOOLEAN
  /\ ahci.msi \in BOOLEAN /\ ahci.atapi \in BOOLEAN
  /\ ahci.pis \subseteq AhciIrqs /\ ahci.pie \in {{}, AhciIrqs}
  /\ ahci.st \in BOOLEAN /\ ahci.fre \in BOOLEAN /\ ahci.cr \in BOOLEAN
  /\ ahci.ccs \in Slots
  /\ ahci.ci \subseteq Slots /\ ahci.sact \subseteq Slots /\ ahci.pending \subseteq Slots
  /\ ahci.tfd \subseteq {"BUSY", "ERROR"}
  /\ ahci.waitforclear \in BOOLEAN /\ ahci.reset \in BOOLEAN
  /\ ahci.sense \in {0, 32, 33, 36, 57, 83}
  /\ ahci.iobhd \in Seq(Request)
  /\ ahci.started \subseteq Slots /\ ahci.unearned \in BOOLEAN
  /\ ahciCmd \in [Slots -> Command]

\* pci_ahci_init, which ends in ahci_reset; started and unearned are history:
\* the slots whose command has been started since the guest issued it, and
\* whether a command was reported complete that had not been
AhciInit ==
  /\ \E atapi \in BOOLEAN :
       ahci = [ghc_ie |-> FALSE, is |-> FALSE, lintr |-> FALSE, msi |-> FALSE, atapi |-> atapi,
               pis |-> {}, pie |-> {}, st |-> FALSE, fre |-> FALSE, cr |-> FALSE,
               ccs |-> 0, ci |-> {}, sact |-> {}, pending |-> {}, tfd |-> {},
               waitforclear |-> FALSE, reset |-> FALSE, sense |-> 0, iobhd |-> <<>>,
               started |-> {}, unearned |-> FALSE]
  /\ ahciCmd = [s \in Slots |-> NoCmd]

-----------------------------------------------------------------------------
(* Interrupts and the FIS that report a result.                            *)

\* mutant: the pin follows the port and not the latched status
generate_intr_unlatched(a) ==
  [a EXCEPT !.is = @ \/ a.pis \cap a.pie # {},
            !.lintr = a.pis \cap a.pie # {} /\ a.ghc_ie /\ ~a.msi]

ahci_generate_intr(a) ==
  LET is == a.is \/ a.pis \cap a.pie # {}
  IN  [a EXCEPT !.is = is,
                !.lintr = IF is /\ a.ghc_ie THEN @ \/ ~a.msi ELSE FALSE]

\* irq: the interrupt the FIS asks for
ahci_write_fis(a, irq, error) ==
  LET raised == irq \cup (IF error THEN {"TFE"} ELSE {})
      b == [a EXCEPT !.waitforclear = @ \/ error, !.pis = @ \cup raised]
  IN  IF ~a.fre THEN a ELSE IF raised # {} THEN ahci_generate_intr(b) ELSE b

report(a, s) == [a EXCEPT !.unearned = @ \/ s \notin a.started]

\* an error leaves the command issued, for the guest to find it
ahci_write_fis_d2h(a, s, error) ==
  LET b == IF error THEN a ELSE [report(a, s) EXCEPT !.ci = @ \ {s}]
  IN  ahci_write_fis([b EXCEPT !.tfd = IF error THEN {"ERROR"} ELSE {}], {"DHR"}, error)

ahci_write_fis_sdb(a, s, error) ==
  LET b == IF error THEN a ELSE [report(a, s) EXCEPT !.sact = @ \ {s}]
      tfd == (a.tfd \cap {"BUSY"}) \cup (IF error THEN {"ERROR"} ELSE {})
  IN  ahci_write_fis([b EXCEPT !.tfd = tfd], {"SDB"}, error)

\* a queued command is accepted: the device is ready for the next one
ahci_write_fis_d2h_ncq(a, s) ==
  ahci_write_fis([a EXCEPT !.tfd = {}, !.ci = @ \ {s}], {}, FALSE)

ahci_check_stopped(a) ==
  IF a.st \/ a.pending # {} THEN a
  ELSE [a EXCEPT !.ccs = 0, !.cr = FALSE, !.ci = {}, !.sact = {}, !.waitforclear = FALSE]

\* ncq stays set in the loop of the code once a queued command was seen
stop_one(a, r, ncq) ==
  [a EXCEPT !.sact = IF ncq THEN @ \ {r.slot} ELSE @,
            !.ci = IF ncq THEN @ ELSE @ \ {r.slot},
            !.pending = @ \ {r.slot},
            !.iobhd = SelectSeq(@, LAMBDA q : q # r)]

\* requests that a thread has taken go on, and their callbacks come later
ahci_port_stop(a) ==
  LET cancelled == SelectSeq(a.iobhd, LAMBDA r : r.be = "pend")
      seen(i) == \E j \in 1 .. i : ahciCmd[cancelled[j].slot].op = "ncq"
  IN  ahci_check_stopped(
        FoldLeft(LAMBDA b, i : stop_one(b, cancelled[i], seen(i)), a,
                 [i \in 1 .. Len(cancelled) |-> i]))

ahci_port_reset(a) ==
  ahci_write_fis([a EXCEPT !.sact = {}, !.tfd = {}], {}, FALSE)

\* the requests in flight, and the marks of them, are left alone
ahci_reset(a) ==
  ahci_port_reset([a EXCEPT !.ghc_ie = FALSE, !.is = FALSE, !.lintr = FALSE, !.pie = {},
                            !.pis = {}, !.st = FALSE, !.fre = FALSE, !.cr = FALSE])

-----------------------------------------------------------------------------
(* The commands.                                                           *)

\* a request of `left' further parts is given to the backend
submit(a, s, left) ==
  [a EXCEPT !.pending = @ \cup {s},
            !.iobhd = <<[slot |-> s, left |-> left, be |-> "pend"]>> \o @]

ahci_handle_rw(a, s, c, left, first) ==
  LET b == submit(a, s, left - 1)
  IN  IF c.op = "ncq" /\ first THEN ahci_write_fis_d2h_ncq(b, s) ELSE b

ahci_handle_flush(a, s) == submit(a, s, 0)

(***************************************************************************)
(* A trim has `left' ranges that are not empty.  The list goes on after    *)
(* the last of them with empty ones, so the callback comes back here to    *)
(* end the command; the first call ends it if there is no range at all.    *)
(***************************************************************************)
dsm_trim_end(a, s) ==
  LET b == ahci_write_fis_d2h(a, s, FALSE)
  IN  ahci_check_stopped([b EXCEPT !.pending = @ \ {s}])

\* the requests of a CD: handle_packet_cmd with a READ, then with the rest
atapi_read(a, s, left) == submit(a, s, left - 1)

\* commands that end at once: refused, or their data is written and they end
abort(a, s) == ahci_write_fis_d2h(a, s, TRUE)

ready(a, s) == ahci_write_fis_d2h(a, s, FALSE)

ahci_handle_read_log(a, s, c) == IF a.atapi \/ c.refused THEN abort(a, s) ELSE ready(a, s)

handle_identify(a, s, c) == IF a.atapi \/ c.refused THEN abort(a, s) ELSE ready(a, s)

handle_atapi_identify(a, s) == IF ~a.atapi THEN abort(a, s) ELSE ready(a, s)

\* a packet command is refused: sense_key and asc keep the reason
illegal(a, s, asc) == abort([a EXCEPT !.sense = asc], s)

\* a page of product data other than the list of them
atapi_inquiry(a, s, c) == IF c.refused THEN illegal(a, s, 36) ELSE ready(a, s)

atapi_read_capacity(a, s) == ready(a, s)

\* a format other than the three
atapi_read_toc(a, s, c) == IF c.refused THEN illegal(a, s, 36) ELSE ready(a, s)

atapi_report_luns(a, s) == ready(a, s)

\* the reason is not cleared when it has been read
atapi_request_sense(a, s) == ready(a, s)

\* eject
atapi_start_stop_unit(a, s, c) == IF c.refused THEN illegal(a, s, 83) ELSE ready(a, s)

\* saved values are refused with another reason than an unknown page
atapi_mode_sense(a, s, c) ==
  IF c.refused THEN illegal(a, s, IF c.parts = 0 THEN 57 ELSE 36) ELSE ready(a, s)

\* asynchronous operation
atapi_get_event_status_notification(a, s, c) ==
  IF c.refused THEN illegal(a, s, 36) ELSE ready(a, s)

handle_packet_cmd(a, s, c) ==
  CASE c.acmd = "READ" -> atapi_read(a, s, c.parts)
    [] c.acmd \in {"TEST_UNIT_READY", "PREVENT_ALLOW"} -> ready(a, s)
    [] c.acmd = "INQUIRY" -> atapi_inquiry(a, s, c)
    [] c.acmd = "READ_CAPACITY" -> atapi_read_capacity(a, s)
    [] c.acmd = "READ_TOC" -> atapi_read_toc(a, s, c)
    [] c.acmd = "REPORT_LUNS" -> atapi_report_luns(a, s)
    [] c.acmd = "REQUEST_SENSE" -> atapi_request_sense(a, s)
    [] c.acmd = "START_STOP_UNIT" -> atapi_start_stop_unit(a, s, c)
    [] c.acmd = "MODE_SENSE_10" -> atapi_mode_sense(a, s, c)
    [] c.acmd = "GET_EVENT" -> atapi_get_event_status_notification(a, s, c)
    [] OTHER -> illegal(a, s, 32)

ahci_handle_cmd(a, s, c) ==
  LET b == [a EXCEPT !.tfd = @ \cup {"BUSY"}, !.started = @ \cup {s}]
  IN  CASE c.op \in {"rw", "ncq"} -> ahci_handle_rw(b, s, c, c.parts, TRUE)
        [] c.op = "flush" -> ahci_handle_flush(b, s)
        [] c.op = "trim" /\ ~c.refused ->
             IF c.parts = 0 THEN dsm_trim_end(b, s) ELSE submit(b, s, c.parts)
        [] c.op = "identify" -> handle_identify(b, s, c)
        [] c.op = "read_log" -> ahci_handle_read_log(b, s, c)
        [] c.op = "atapi_identify" -> handle_atapi_identify(b, s)
        [] c.op = "packet" /\ a.atapi -> handle_packet_cmd(b, s, c)
        [] c.op = "power" \/ (c.op \in {"setfeatures", "set_multi"} /\ ~c.refused) -> ready(b, s)
        [] OTHER -> abort(b, s)

\* a software reset is a FIS with the command bit off
ahci_handle_slot(a, s) ==
  LET c == ahciCmd'[s]
      b == CASE c.op = "softreset" -> [a EXCEPT !.reset = TRUE]
             [] c.op = "softreset_end" /\ a.reset -> ahci_port_reset([a EXCEPT !.reset = FALSE])
             [] OTHER -> a
  IN  IF c.op \in {"softreset", "softreset_end"}
      THEN [b EXCEPT !.ci = @ \ {s}] ELSE ahci_handle_cmd(a, s, c)

\* mutant: a command is issued without a look at those in flight
port_step_again(a) ==
  IF a.ci = {} \/ a.tfd \cap {"BUSY"} # {} \/ a.waitforclear THEN a
  ELSE LET b == IF a.ccs \in a.ci THEN ahci_handle_slot(a, a.ccs) ELSE a
       IN  [b EXCEPT !.ccs = (@ + 1) % Cardinality(Slots)]

\* one round of the loop of ahci_handle_port, nothing after it has ended
port_step(a) ==
  IF a.ci \ a.pending = {} \/ "BUSY" \in a.tfd \/ a.waitforclear THEN a
  ELSE LET b == IF a.ccs \in a.ci \ a.pending THEN ahci_handle_slot(a, a.ccs) ELSE a
       IN  [b EXCEPT !.ccs = (@ + 1) % Cardinality(Slots)]

\* a slot that is handled is not found issued and idle again, so each slot
\* is visited once
ahci_handle_port(a) ==
  IF ~a.st THEN a
  ELSE FoldLeft(LAMBDA b, s : port_step(b), a, SetToSeq(Slots))

-----------------------------------------------------------------------------
(* The callbacks of the backend.                                           *)

unlinked(a, r) == [a EXCEPT !.iobhd = SelectSeq(@, LAMBDA q : q # r)]

done(a, s) == ahci_handle_port(ahci_check_stopped([a EXCEPT !.pending = @ \ {s}]))

ata_ioreq_cb(r, err) ==
  LET a == unlinked(ahci, r)
      c == ahciCmd[r.slot]
  IN  IF ~err /\ r.left > 0
      THEN IF c.op # "trim" THEN ahci_handle_rw(a, r.slot, c, r.left, FALSE)
           ELSE IF r.left > 1 THEN submit(a, r.slot, r.left - 1)
           ELSE ahci_handle_port(dsm_trim_end(a, r.slot))
      ELSE done(IF c.op = "ncq" THEN ahci_write_fis_sdb(a, r.slot, err)
                ELSE ahci_write_fis_d2h(a, r.slot, err), r.slot)

atapi_ioreq_cb(r, err) ==
  LET a == unlinked(ahci, r)
      b == IF err THEN [a EXCEPT !.sense = 33] ELSE a
  IN  IF ~err /\ r.left > 0 THEN atapi_read(a, r.slot, r.left)
      ELSE done(ahci_write_fis_d2h(b, r.slot, err), r.slot)

\* a thread of the backend takes a request that no request in flight blocks
BackendTake(i) ==
  /\ ahci.iobhd[i].be = "pend"
  /\ ahci' = [ahci EXCEPT !.iobhd[i].be = "busy"]
  /\ UNCHANGED ahciCmd

BackendCallback(i, err) ==
  /\ ahci.iobhd[i].be = "busy"
  /\ UNCHANGED ahciCmd
  /\ ahci' = IF ahci.atapi THEN atapi_ioreq_cb(ahci.iobhd[i], err)
             ELSE ata_ioreq_cb(ahci.iobhd[i], err)

-----------------------------------------------------------------------------
(* The guest: pci_ahci_port_write and pci_ahci_host_write.                 *)

\* The guest uses a slot for a command only while the slot's bits are clear,
\* and does not mix queued commands with others.
issue(a, s) == [a EXCEPT !.started = @ \ {s}]

ahci_sact_write(s, c) ==
  /\ c.op = "ncq" /\ ~ahci.atapi
  /\ ahci.st /\ s \notin ahci.ci \cup ahci.sact
  /\ ahci.ci \subseteq ahci.sact
  /\ ahciCmd' = [ahciCmd EXCEPT ![s] = c]
  /\ ahci' = [issue(ahci, s) EXCEPT !.sact = @ \cup {s}]

ahci_ci_write(s, c) ==
  /\ ahci.st /\ s \notin ahci.ci
  /\ IF s \in ahci.sact
     THEN c = ahciCmd[s] /\ s \notin ahci.started /\ UNCHANGED ahciCmd
     ELSE /\ c.op # "ncq" /\ ahci.sact = {}
          /\ ahciCmd' = [ahciCmd EXCEPT ![s] = c]
  /\ ahci' = ahci_handle_port([issue(ahci, s) EXCEPT !.ci = @ \cup {s}])

\* PxCMD: the guest enables the receive area before it starts the port
port_started(a, clo) ==
  ahci_handle_port([a EXCEPT !.st = TRUE, !.fre = TRUE, !.cr = TRUE,
                             !.tfd = IF clo THEN @ \ {"BUSY"} ELSE @])

ahci_cmd_write(st, clo) ==
  /\ st # ahci.st
  /\ clo => st
  /\ UNCHANGED ahciCmd
  /\ ahci' = IF st THEN port_started(ahci, clo) ELSE ahci_port_stop([ahci EXCEPT !.st = FALSE])

ahci_is_write ==
  /\ ahci.pis # {}
  /\ ahci' = [ahci EXCEPT !.pis = {}]
  /\ UNCHANGED ahciCmd

ahci_ie_write(S) ==
  /\ S # ahci.pie
  /\ ahci' = ahci_generate_intr([ahci EXCEPT !.pie = S])
  /\ UNCHANGED ahciCmd

\* COMRESET of a port that is stopped and done
ahci_sctl_write ==
  /\ ~ahci.st /\ ~ahci.cr
  /\ ahci' = ahci_port_reset(ahci)
  /\ UNCHANGED ahciCmd

host_is_write ==
  /\ ahci.is
  /\ ahci' = ahci_generate_intr([ahci EXCEPT !.is = FALSE])
  /\ UNCHANGED ahciCmd

\* the interrupt enable of the controller is cleared by a reset only
ahci_ghc_write(hr) ==
  /\ hr => AhciResetBusy \/ ~ahci.cr
  /\ ahci' = IF hr THEN ahci_reset(ahci)
             ELSE ahci_generate_intr([ahci EXCEPT !.ghc_ie = TRUE])
  /\ UNCHANGED ahciCmd

\* the guest chooses between MSI and the pin before it enables interrupts
msi_enable(on) ==
  /\ ~ahci.ghc_ie
  /\ ahci' = [ahci EXCEPT !.msi = on]
  /\ UNCHANGED ahciCmd

AhciNext ==
  \/ \E i \in DOMAIN ahci.iobhd :
       BackendTake(i) \/ \E err \in DiskErrors : BackendCallback(i, err)
  \/ \E s \in Slots, c \in IF ahci.atapi THEN PacketCmds ELSE AtaCmds :
       ahci_sact_write(s, c) \/ ahci_ci_write(s, c)
  \/ \E st, clo \in BOOLEAN : ahci_cmd_write(st, clo)
  \/ ahci_is_write
  \/ \E S \in {{}, AhciIrqs} : ahci_ie_write(S)
  \/ ahci_sctl_write
  \/ host_is_write
  \/ \E hr \in BOOLEAN : ahci_ghc_write(hr)
  \/ \E on \in AhciMsi : msi_enable(on)

AhciSpec == AhciInit /\ [][AhciNext]_ahciVars

-----------------------------------------------------------------------------
(***************************************************************************)
(* The requests at the backend are those of the commands marked pending,   *)
(* one for each, so that the free list, which has one for each slot, is    *)
(* never empty when ahci_handle_rw and the others take from it.            *)
(***************************************************************************)
PendingIsBusy ==
  /\ ahci.pending = {ahci.iobhd[i].slot : i \in DOMAIN ahci.iobhd}
  /\ Cardinality(ahci.pending) = Len(ahci.iobhd)

(***************************************************************************)
(* A running port does not forget a command: one that is issued and not    *)
(* started waits for a device that is busy, or that has failed and waits   *)
(* for the guest; and the device is busy only for a command at the backend,*)
(* or after one that was cancelled, which the guest has to clear.          *)
(***************************************************************************)
NothingForgotten ==
  /\ ahci.st /\ ~ahci.waitforclear /\ "BUSY" \notin ahci.tfd => ahci.ci \subseteq ahci.pending
  /\ "BUSY" \in ahci.tfd /\ ahci.ci \cap ahci.started # {} => ahci.pending # {}

(***************************************************************************)
(* No command is reported complete before it was started: the callback of  *)
(* an earlier command does not complete the one now in its slot.           *)
(***************************************************************************)
CompletionsEarned == ~ahci.unearned

(***************************************************************************)
(* The latched status of the controller covers an enabled interrupt of the *)
(* port, and without MSI the pin is asserted just while the status is set  *)
(* and the controller's interrupts are enabled.                            *)
(***************************************************************************)
PinFollowsStatus ==
  /\ ahci.pis \cap ahci.pie # {} => ahci.is
  /\ ahci.lintr = (ahci.is /\ ahci.ghc_ie /\ ~ahci.msi)

(***************************************************************************)
(* What the comment in ahci_check_stopped says of the running bit: it is   *)
(* cleared when the command list is no longer processed and nothing is in  *)
(* flight.                                                                 *)
(***************************************************************************)
StoppedMeansIdle == ~ahci.cr => ahci.pending = {}
=============================================================================
