------------------------------ MODULE VirtioNet ------------------------------
(***************************************************************************)
(* The network card of src/pci_virtio_net_vmnet.c: the vcpu that writes    *)
(* registers under the mutex of the device, the transmit thread with its   *)
(* mutex and condition, and the callback of vmnet that receives.  The      *)
(* transmit thread and the guest agree on who looks at the ring next       *)
(* through VRING_USED_F_NO_NOTIFY; a reset waits until both are idle.      *)
(***************************************************************************)
EXTENDS Virtio

CONSTANTS NetMsix,    \* values of pci_msix_enabled
          OnEmpty,    \* values of NOTIFY_ON_EMPTY in the negotiated features
          TxDepth, RxDepth,  \* bound: chains the driver leaves in a ring, up to QSize
          MaxFrames,  \* bound: frames that arrive at a time
          Again,      \* the driver may negotiate twice without a reset
          IntxReset   \* without MSI-X, it may reset a card that is busy

VARIABLES vn,           \* softc, its two rings, mutexes and threads
          vnGuest,      \* what the driver is doing: idle, check, kick
          vnFrames      \* frames that wait in vmnet

netVars == <<vn, vnGuest, vnFrames>>

Merge == 12             \* sizeof(struct virtio_net_rxhdr)

NetFresh == vi_vq_init(Cleared)

NetTypeOK ==
  /\ vn.tx \in Queue /\ vn.rx \in Queue
  /\ vn.thread \in {"wait", "lock", "check", "clear", "recheck", "send", "end"}
  /\ vn.callback \in {"idle", "chain", "end", "endempty"}
  /\ vn.vcpu \in {"idle", "ping", "txwait", "rxwait"}
  /\ vn.tx_in_progress \in BOOLEAN /\ vn.resetting \in BOOLEAN
  /\ vn.rx_ready \in BOOLEAN /\ vn.isr \in BOOLEAN /\ vn.line \in BOOLEAN
  /\ vnGuest \in {"idle", "check", "kick"}
  /\ vnFrames \in 0 .. MaxFrames

\* pci_vtnet_init; the transmit thread is in its first pthread_cond_wait, and the
\* guest has set up both rings
NetInit ==
  /\ vn \in [tx : {NetFresh}, rx : {NetFresh}, msix : NetMsix,
             onempty : OnEmpty, thread : {"wait"}, callback : {"idle"}, vcpu : {"idle"},
             tx_in_progress : {FALSE}, resetting : {FALSE}, rx_ready : {FALSE},
             rx_merge : {TRUE}, rx_vhdrlen : {Merge}, isr : {FALSE}, line : {FALSE}]
  /\ vnGuest = "idle" /\ vnFrames = 0

\* the thread holds tx_mtx; the callback holds rx_mtx; the vcpu holds the device's mutex
tx_mtx_free == vn.thread \notin {"check", "clear", "recheck"}

rx_mtx_free == vn.callback = "idle"

vs_mtx_free == vn.vcpu = "idle"

-----------------------------------------------------------------------------
\* vq_endchains with the vq_interrupt in it, of a caller that holds no vs_mtx
quiet(q, all) == ~vq_endchains(q, all /\ vn.onempty)

may_end(q, all) == quiet(q, all) \/ vn.msix \/ vs_mtx_free

interrupted(s, q, all) ==
  IF quiet(q, all) \/ vn.msix THEN s ELSE [s EXCEPT !.isr = TRUE, !.line = TRUE]

\* Threads of the device: pci_vtnet_tx_thread.
thread_lock ==
  /\ vn.thread = "lock"
  /\ vn' = [vn EXCEPT !.thread = "check"]
  /\ UNCHANGED <<vnGuest, vnFrames>>

\* the condition of the inner loop
tx_check ==
  /\ vn.thread = "check"
  /\ vn' = IF vn.resetting \/ ~vq_has_descs(vn.tx)
           THEN [vn EXCEPT !.thread = "clear"]
           ELSE [vn EXCEPT !.tx.nonotify = TRUE, !.tx_in_progress = TRUE, !.thread = "send"]
  /\ UNCHANGED <<vnGuest, vnFrames>>

\* without work, notifications are turned on
tx_clear ==
  /\ vn.thread = "clear"
  /\ vn' = [vn EXCEPT !.tx.nonotify = FALSE, !.thread = "recheck"]
  /\ UNCHANGED <<vnGuest, vnFrames>>

\* mutant: the thread goes to sleep without looking at the ring again
tx_recheck_blind ==
  /\ vn.thread = "recheck"
  /\ vn' = [vn EXCEPT !.tx_in_progress = FALSE, !.thread = "wait"]
  /\ UNCHANGED <<vnGuest, vnFrames>>

\* after mb(): either there is work after all, or pthread_cond_wait
tx_recheck ==
  /\ vn.thread = "recheck"
  /\ vn' = IF ~vn.resetting /\ vq_has_descs(vn.tx)
           THEN [vn EXCEPT !.tx.nonotify = TRUE, !.tx_in_progress = TRUE, !.thread = "send"]
           ELSE [vn EXCEPT !.tx_in_progress = FALSE, !.thread = "wait"]
  /\ UNCHANGED <<vnGuest, vnFrames>>

\* one round of the loop around pci_vtnet_proctx
pci_vtnet_proctx ==
  /\ vn.thread = "send"
  /\ vn' = LET q == vq_relchain(vq_takechain(vn.tx), head(vn.tx))
           IN  [vn EXCEPT !.tx = q, !.thread = IF vq_has_descs(q) THEN "send" ELSE "end"]
  /\ UNCHANGED <<vnGuest, vnFrames>>

tx_end ==
  /\ vn.thread = "end" /\ may_end(vn.tx, TRUE)
  /\ vn' = [interrupted(vn, vn.tx, TRUE) EXCEPT !.tx = ended(@), !.thread = "lock"]
  /\ UNCHANGED <<vnGuest, vnFrames>>

-----------------------------------------------------------------------------
\* pci_vtnet_tap_callback up to the loop of pci_vtnet_tap_rx; a frame is dropped when
\* the ring is not ready or empty
pci_vtnet_tap_rx ==
  /\ vn.callback = "idle" /\ vnFrames > 0
  /\ IF ~vn.rx_ready \/ vn.resetting
     THEN vn' = vn /\ vnFrames' = vnFrames - 1
     ELSE IF ~vq_has_descs(vn.rx)
     THEN vn' = [vn EXCEPT !.callback = "endempty"] /\ vnFrames' = vnFrames - 1
     ELSE vn' = [vn EXCEPT !.callback = "chain"] /\ vnFrames' = vnFrames
  /\ UNCHANGED vnGuest

\* one round of the loop: vmn_read gives a frame or, with errno = EWOULDBLOCK, none
rx_chain ==
  /\ vn.callback = "chain"
  /\ LET q == vq_takechain(vn.rx)  p == vq_relchain(q, head(vn.rx)) IN
     IF vnFrames = 0
     THEN /\ vn' = [vn EXCEPT !.rx = vq_retchain(q), !.callback = "end"]
          /\ UNCHANGED vnFrames
     ELSE /\ vn' = [vn EXCEPT !.rx = p, !.callback = IF vq_has_descs(p) THEN "chain" ELSE "endempty"]
          /\ vnFrames' = vnFrames - 1
  /\ UNCHANGED vnGuest

rx_end ==
  /\ vn.callback \in {"end", "endempty"} /\ may_end(vn.rx, vn.callback = "endempty")
  /\ vn' = [interrupted(vn, vn.rx, vn.callback = "endempty") EXCEPT
              !.rx = ended(@), !.callback = "idle"]
  /\ UNCHANGED <<vnGuest, vnFrames>>

\* vmnet (external) has frames
frames_arrive ==
  /\ vnFrames < MaxFrames
  /\ vnFrames' = vnFrames + 1
  /\ UNCHANGED <<vn, vnGuest>>

-----------------------------------------------------------------------------
\* Writes of QNOTIFY by a vcpu.
pci_vtnet_ping_rxq ==
  /\ vs_mtx_free
  /\ vn' = IF vn.rx_ready THEN vn ELSE [vn EXCEPT !.rx_ready = TRUE, !.rx.nonotify = TRUE]
  /\ UNCHANGED <<vnGuest, vnFrames>>

\* the test of pci_vtnet_ping_txq, without tx_mtx
ping_test ==
  /\ vs_mtx_free /\ vnGuest = "kick"
  /\ vn' = IF vq_has_descs(vn.tx) THEN [vn EXCEPT !.vcpu = "ping"] ELSE vn
  /\ vnGuest' = "idle"
  /\ UNCHANGED vnFrames

\* ... and its rest: the thread wakes if it waits, nothing is remembered if it does not
pci_vtnet_ping_txq ==
  /\ vn.vcpu = "ping" /\ tx_mtx_free
  /\ vn' = [vn EXCEPT !.vcpu = "idle", !.tx.nonotify = TRUE,
                      !.thread = IF ~vn.tx_in_progress /\ @ = "wait" THEN "lock" ELSE @]
  /\ UNCHANGED <<vnGuest, vnFrames>>

\* STATUS := 0, in three steps: the flag, then the two waits under the device's mutex
pci_vtnet_reset ==
  /\ vs_mtx_free /\ vnGuest = "idle"
  /\ vn.msix \/ IntxReset \/ (vn.thread = "wait" /\ vn.callback = "idle")
  /\ vn' = [vn EXCEPT !.resetting = TRUE, !.vcpu = "txwait"]
  /\ UNCHANGED <<vnGuest, vnFrames>>

pci_vtnet_txwait ==
  /\ vn.vcpu = "txwait" /\ tx_mtx_free /\ ~vn.tx_in_progress
  /\ vn' = [vn EXCEPT !.vcpu = "rxwait"]
  /\ UNCHANGED <<vnGuest, vnFrames>>

\* pci_vtnet_rxwait and the rest of the reset, with vi_reset_dev; then the driver clears
\* the rings and writes their PFNs again
pci_vtnet_rxwait ==
  /\ vn.vcpu = "rxwait" /\ rx_mtx_free
  /\ vn' = [vn EXCEPT !.vcpu = "idle", !.rx_ready = FALSE, !.rx_merge = TRUE,
                      !.rx_vhdrlen = Merge, !.tx = NetFresh,
                      !.rx = NetFresh,
                      !.line = @ /\ ~vn.isr, !.isr = FALSE, !.resetting = FALSE]
  /\ UNCHANGED <<vnGuest, vnFrames>>

\* a write of GUESTCAP, before the driver uses the rings
pci_vtnet_neg_features(merge) ==
  /\ vs_mtx_free /\ vn.tx = NetFresh /\ vn.rx = NetFresh /\ (vn.rx_merge \/ Again)
  /\ vn' = IF merge THEN vn ELSE [vn EXCEPT !.rx_merge = FALSE, !.rx_vhdrlen = @ - 2]
  /\ UNCHANGED <<vnGuest, vnFrames>>

\* a read of ISR
isr_read ==
  /\ vs_mtx_free
  /\ vn' = [vn EXCEPT !.line = @ /\ ~vn.isr, !.isr = FALSE]
  /\ UNCHANGED <<vnGuest, vnFrames>>

-----------------------------------------------------------------------------
\* The driver (external).  A chain of the transmit ring is free again once the used
\* ring returned it; the driver publishes it, then looks whether to notify.
guest_send ==
  /\ vnGuest = "idle" /\ vn.vcpu \notin {"txwait", "rxwait"}
  /\ (vn.tx.va_idx - vn.tx.vu_idx) % IdxMod < TxDepth
  /\ vn' = [vn EXCEPT !.tx = post(@, @.va_idx % QSize)]
  /\ vnGuest' = "check"
  /\ UNCHANGED vnFrames

net_check ==
  /\ vnGuest = "check"
  /\ vnGuest' = IF vn.tx.nonotify THEN "idle" ELSE "kick"
  /\ UNCHANGED <<vn, vnFrames>>

guest_buffer ==
  /\ vn.vcpu \notin {"txwait", "rxwait"}
  /\ (vn.rx.va_idx - vn.rx.vu_idx) % IdxMod < RxDepth
  /\ vn' = [vn EXCEPT !.rx = post(@, @.va_idx % QSize)]
  /\ UNCHANGED <<vnGuest, vnFrames>>

NetNext ==
  \/ thread_lock \/ tx_check \/ tx_clear \/ tx_recheck \/ pci_vtnet_proctx \/ tx_end
  \/ pci_vtnet_tap_rx \/ rx_chain \/ rx_end \/ frames_arrive
  \/ pci_vtnet_ping_rxq \/ ping_test \/ pci_vtnet_ping_txq
  \/ pci_vtnet_reset \/ pci_vtnet_txwait \/ pci_vtnet_rxwait \/ isr_read
  \/ \E b \in BOOLEAN : pci_vtnet_neg_features(b)
  \/ guest_send \/ net_check \/ guest_buffer

NetSpec == NetInit /\ [][NetNext]_netVars

-----------------------------------------------------------------------------
\* No frame is left in the transmit ring: when the thread sleeps with a chain in the
\* ring, the guest or the vcpu is about to notify it.
NoLostKick ==
  vn.thread = "wait" /\ vq_has_descs(vn.tx) /\ ~vn.resetting
    => vnGuest # "idle" \/ vn.vcpu = "ping"

\* A reset takes the rings away only when nobody uses them: a thread that sends or the
\* callback, once it has looked at rx_ready, always finds work that is really there.
RingsKept ==
  /\ vn.thread = "send" => vq_has_descs(vn.tx) /\ ~confused(vn.tx)
  /\ vn.callback = "chain" => vq_has_descs(vn.rx) /\ ~confused(vn.rx)
  /\ vn.vcpu = "rxwait" => vn.thread \notin {"send", "end"}

\* No buffer of the receive ring is lost: what the card has taken from the ring and did
\* not put back is returned through the used ring.
BuffersReturned == vn.rx.last_avail = vn.rx.vu_idx

\* The header before a received frame has the length of the negotiated format.
HeaderMatches == vn.rx_vhdrlen = IF vn.rx_merge THEN Merge ELSE Merge - 2

\* The interrupt line is up exactly as long as the ISR register says so.
LineMatchesIsr == vn.line <=> vn.isr

\* A reset gets its turn: while it waits, with the device's mutex, for a thread to
\* finish, that thread does not wait for the same mutex in vq_interrupt.
ResetNotBlocked ==
  /\ vn.vcpu = "txwait" /\ vn.thread = "end" => may_end(vn.tx, TRUE)
  /\ vn.vcpu \in {"txwait", "rxwait"} /\ vn.callback \in {"end", "endempty"}
       => may_end(vn.rx, vn.callback = "endempty")
=============================================================================
