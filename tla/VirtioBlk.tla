------------------------------ MODULE VirtioBlk ------------------------------
(***************************************************************************)
(* The disk of src/pci_virtio_block.c: the vcpu that notifies the queue,   *)
(* the worker of the block backend (module BlockIf) that completes         *)
(* requests, and the registers of src/virtio.c, all under the mutex of the *)
(* device.  The guest's driver is external: it sleeps until an interrupt,  *)
(* collects what is done with interrupts off, and looks again after it has *)
(* turned them on.                                                         *)
(***************************************************************************)
EXTENDS Virtio

CONSTANTS MaxReq,       \* BLOCKIF_MAXREQ
          BlkMsix,      \* values of pci_msix_enabled
          BlkResetBusy  \* the guest may reset the device with requests in flight

VARIABLES vb,           \* the queue, the softc and the device's mutex
          vbIo,         \* vbsc_ios: what each request is doing
          vbSlots,      \* requests the backend holds
          vbGuest,      \* the guest's driver
          vbFault       \* an assert failed, or a thread waits for its own mutex

blkVars == <<vb, vbIo, vbSlots, vbGuest, vbFault>>

BlkTypeOK ==
  /\ vb.q \in Queue /\ vb.msix \in BOOLEAN
  /\ vb.msi \in BOOLEAN
  /\ vb.owner \in {"none", "vcpu", "worker"}
  /\ vb.ending \in BOOLEAN /\ vb.callback \in BOOLEAN
  /\ vbIo \in [Heads -> {"idle", "busy"}]
  /\ vbSlots \in 0 .. MaxReq
  /\ vbGuest.posted \subseteq Heads /\ vbGuest.seen \in Indices
  /\ vbGuest.state \in {"sleep", "poll", "check"}
  /\ vbFault \subseteq {"assert", "deadlock"}

\* pci_vtblk_init and vi_intr_init, then the guest's first set-up of the ring
BlkInit ==
  /\ vb \in [q : {vi_vq_init(Cleared)}, msix : BlkMsix, msi : {FALSE}, owner : {"none"}, ending : {FALSE}, callback : {FALSE}]
  /\ vbIo = [h \in Heads |-> "idle"] /\ vbSlots = 0
  /\ vbGuest = [posted |-> {}, seen |-> 0, state |-> "sleep"]
  /\ vbFault = {}

blk_alive == vbFault = {}

-----------------------------------------------------------------------------
\* vq_interrupt takes the mutex that its caller holds here, unless MSI-X is enabled
vq_interrupt(s) == IF s.msix THEN [s EXCEPT !.msi = TRUE] ELSE s

vq_interrupt_fault(s) == IF s.msix THEN {} ELSE {"deadlock"}

\* mutant: vq_endchains is left out
done_end_silent(s) == [s EXCEPT !.q = ended(s.q), !.ending = FALSE]

\* the end of pci_vtblk_done_locked, as a new value of vb
done_end(s) ==
  [(IF vq_endchains(s.q, FALSE) THEN vq_interrupt(s) ELSE s) EXCEPT
     !.q = ended(s.q), !.ending = FALSE]

done_fault(s) == IF vq_endchains(s.q, FALSE) THEN vq_interrupt_fault(s) ELSE {}

\* a write to QNOTIFY: vi_pci_write takes the mutex
notify_begin ==
  /\ blk_alive /\ vb.owner = "none" /\ vbGuest.state # "check"
  /\ vb' = [vb EXCEPT !.owner = "vcpu"]
  /\ UNCHANGED <<vbIo, vbSlots, vbGuest, vbFault>>

\* one round of pci_vtblk_notify that hands the request to blockif_read, _write or
\* _flush, which fail when the backend has no free element: "assert(err == 0)"
pci_vtblk_proc ==
  /\ blk_alive /\ vb.owner = "vcpu" /\ ~vb.ending /\ vq_has_descs(vb.q)
  /\ LET bad == confused(vb.q) \/ vbSlots = MaxReq IN
     /\ vbFault' = IF bad THEN {"assert"} ELSE {}
     /\ vb' = [vb EXCEPT !.q = vq_takechain(@)]
     /\ vbIo' = [vbIo EXCEPT ![head(vb.q)] = "busy"]
     /\ vbSlots' = IF bad THEN vbSlots ELSE vbSlots + 1
  /\ UNCHANGED vbGuest

\* one round for VBH_OP_IDENT or an unknown operation, which completes at once
pci_vtblk_proc_ident ==
  /\ blk_alive /\ vb.owner = "vcpu" /\ ~vb.ending /\ vq_has_descs(vb.q)
  /\ vbFault' = IF confused(vb.q) THEN {"assert"} ELSE {}
  /\ vb' = [vb EXCEPT !.q = vq_relchain(vq_takechain(@), head(@)), !.ending = TRUE]
  /\ UNCHANGED <<vbIo, vbSlots, vbGuest>>

\* pci_vtblk_done of the worker takes the mutex and gives the chain back
pci_vtblk_done(h) ==
  /\ blk_alive /\ vb.owner = "none" /\ vbIo[h] = "busy" /\ ~vb.callback
  /\ vb' = [vb EXCEPT !.owner = "worker", !.callback = TRUE, !.q = vq_relchain(@, h),
                      !.ending = TRUE]
  /\ vbIo' = [vbIo EXCEPT ![h] = "idle"]
  /\ UNCHANGED <<vbSlots, vbGuest, vbFault>>

\* ... and both tell the guest; the worker then releases the mutex
pci_vtblk_done_locked ==
  /\ blk_alive /\ vb.ending
  /\ vbFault' = done_fault(vb)
  /\ vb' = [done_end(vb) EXCEPT !.owner = IF @ = "worker" THEN "none" ELSE @]
  /\ UNCHANGED <<vbIo, vbSlots, vbGuest>>

\* blockif_complete after the callback: the element is free again (external).
\* The guest may have posted the chain again, and the vcpu may have taken it.
backend_free ==
  /\ blk_alive /\ vb.owner # "worker" /\ vb.callback
  /\ vbSlots' = vbSlots - 1
  /\ vb' = [vb EXCEPT !.callback = FALSE]
  /\ UNCHANGED <<vbIo, vbGuest, vbFault>>

notify_end ==
  /\ blk_alive /\ vb.owner = "vcpu" /\ ~vb.ending /\ ~vq_has_descs(vb.q)
  /\ vb' = [vb EXCEPT !.owner = "none"]
  /\ UNCHANGED <<vbIo, vbSlots, vbGuest, vbFault>>

\* STATUS := 0 with its pci_vtblk_reset, then the ring is set up again from nothing
pci_vtblk_reset ==
  /\ blk_alive /\ vb.owner = "none" /\ (BlkResetBusy \/ vbGuest.posted = {})
  /\ vb' = [vb EXCEPT !.q = vi_vq_init(vi_reset_vq(Cleared)), !.msi = FALSE]
  /\ vbGuest' = [posted |-> {}, seen |-> 0, state |-> "sleep"]
  /\ UNCHANGED <<vbIo, vbSlots, vbFault>>

-----------------------------------------------------------------------------
guest_post(h) ==
  /\ blk_alive /\ h \notin vbGuest.posted
  /\ vb' = [vb EXCEPT !.q = post(@, h)]
  /\ vbGuest' = [vbGuest EXCEPT !.posted = @ \cup {h}]
  /\ UNCHANGED <<vbIo, vbSlots, vbFault>>

guest_irq ==
  /\ blk_alive /\ vbGuest.state = "sleep" /\ vb.msi
  /\ vb' = [vb EXCEPT !.msi = FALSE, !.q.nointr = TRUE]
  /\ vbGuest' = [vbGuest EXCEPT !.state = "poll"]
  /\ UNCHANGED <<vbIo, vbSlots, vbFault>>

guest_reap ==
  /\ blk_alive /\ vbGuest.state = "poll"
  /\ IF vbGuest.seen # vb.q.vu_idx
     THEN /\ vbGuest' = [vbGuest EXCEPT !.posted = @ \ {returned(vb.q, vbGuest.seen)},
                                        !.seen = (@ + 1) % IdxMod]
          /\ vb' = vb
     ELSE /\ vbGuest' = [vbGuest EXCEPT !.state = "check"]
          /\ vb' = [vb EXCEPT !.q.nointr = FALSE]
  /\ UNCHANGED <<vbIo, vbSlots, vbFault>>

blk_check ==
  /\ blk_alive /\ vbGuest.state = "check"
  /\ vbGuest' = [vbGuest EXCEPT !.state =
                   IF vbGuest.seen # vb.q.vu_idx THEN "poll" ELSE "sleep"]
  /\ vb' = [vb EXCEPT !.q.nointr = vbGuest.seen # vb.q.vu_idx]
  /\ UNCHANGED <<vbIo, vbSlots, vbFault>>

BlkNext ==
  \/ notify_begin \/ pci_vtblk_proc \/ pci_vtblk_proc_ident \/ notify_end
  \/ \E h \in Heads : pci_vtblk_done(h) \/ guest_post(h)
  \/ pci_vtblk_done_locked \/ backend_free \/ pci_vtblk_reset
  \/ guest_irq \/ guest_reap \/ blk_check

BlkSpec == BlkInit /\ [][BlkNext]_blkVars

-----------------------------------------------------------------------------
\* The asserts of pci_vtblk_proc hold: a chain taken from the ring is one that the
\* guest posted, through every wrap of the 16-bit indices, and the backend always has
\* an element for it, as it holds one more than the ring has chains.
NoAssertFails == "assert" \notin vbFault

\* Every chain that the guest gave away comes back at most once: what the used ring
\* returns and the guest has not collected are chains that it posted, all different.
ReturnedOnce ==
  LET n == (vb.q.vu_idx - vbGuest.seen) % IdxMod
      back == [i \in 0 .. n - 1 |-> returned(vb.q, vbGuest.seen + i)]
  IN  /\ n <= QSize
      /\ \A i \in DOMAIN back : back[i] \in vbGuest.posted
      /\ \A i, j \in DOMAIN back : i # j => back[i] # back[j]
      /\ \A i \in DOMAIN back : vbIo[back[i]] # "busy"

\* No completion is lost: a guest that sleeps with interrupts on, while something lies
\* in the used ring, has an interrupt coming (or the one who put it there is about to
\* send it).
CompletionHeard ==
  vbGuest.state = "sleep" /\ vbGuest.seen # vb.q.vu_idx /\ blk_alive => vb.msi \/ vb.ending

\* No thread waits for the mutex of the device that it holds itself.  The code of
\* vi_intr_init says that legacy interrupts are mandatory for virtio devices; the FIXME
\* at pci_vtblk_done_locked suspects such a deadlock.
NoSelfDeadlock == "deadlock" \notin vbFault
=============================================================================
