-------------------------------- MODULE Virtio --------------------------------
(***************************************************************************)
(* The rings of src/virtio.c and include/xhyve/virtio.h, as operators on   *)
(* the state of a queue: the part in the guest's memory (avail and used    *)
(* ring) and the device's own indices.  An index is a uint16_t that wraps; *)
(* IdxMod stands for 2^16.  A chain of descriptors is its head.            *)
(***************************************************************************)
EXTENDS Integers, Sequences, FiniteSets, TLC

CONSTANTS QSize,        \* vq_qsize, a power of two
          IdxMod        \* 2^16 in the code, a multiple of QSize

Heads == 0 .. QSize - 1
Indices == 0 .. IdxMod - 1

Queue == [alloc : BOOLEAN, last_avail : Indices, save_used : Indices,
          va_idx : Indices, va_ring : [Heads -> Heads], nointr : BOOLEAN,
          vu_idx : Indices, vu_ring : [Heads -> Heads], nonotify : BOOLEAN]

\* a queue whose memory the guest has cleared, before it writes the PFN
Cleared == [alloc |-> FALSE, last_avail |-> 0, save_used |-> 0,
            va_idx |-> 0, va_ring |-> [h \in Heads |-> 0], nointr |-> FALSE,
            vu_idx |-> 0, vu_ring |-> [h \in Heads |-> 0], nonotify |-> FALSE]

vi_vq_init(q) == [q EXCEPT !.alloc = TRUE, !.last_avail = 0, !.save_used = 0]

\* the queue's part of vi_reset_dev: the memory stays as it is
vi_reset_vq(q) == [q EXCEPT !.alloc = FALSE, !.last_avail = 0, !.save_used = 0]

vq_has_descs(q) == q.alloc /\ q.last_avail # q.va_idx

\* mutant: the difference of the indices is not cut to their width
ndesc_wide(q) == IF q.va_idx >= q.last_avail THEN q.va_idx - q.last_avail
                 ELSE q.va_idx - q.last_avail + 2 * IdxMod

\* chains made available since the last one that was taken
ndesc(q) == (q.va_idx - q.last_avail) % IdxMod

\* "driver confused?": vq_getchain refuses, which its callers assert never happens
confused(q) == ndesc(q) \notin 1 .. QSize

head(q) == q.va_ring[q.last_avail % QSize]

vq_takechain(q) == [q EXCEPT !.last_avail = (@ + 1) % IdxMod]

vq_retchain(q) == [q EXCEPT !.last_avail = (@ - 1) % IdxMod]

vq_relchain(q, idx) ==
  [q EXCEPT !.vu_ring[q.vu_idx % QSize] = idx, !.vu_idx = (@ + 1) % IdxMod]

\* vq_endchains: the queue after it, and whether it calls vq_interrupt
ended(q) == [q EXCEPT !.save_used = q.vu_idx]

vq_endchains(q, on_empty) ==
  on_empty \/ (q.vu_idx # q.save_used /\ ~q.nointr)

-----------------------------------------------------------------------------
\* The guest's driver (external), from what virtio.h says of the rings.
post(q, h) ==
  [q EXCEPT !.va_ring[q.va_idx % QSize] = h, !.va_idx = (@ + 1) % IdxMod]

returned(q, seen) == q.vu_ring[seen % QSize]
=============================================================================
