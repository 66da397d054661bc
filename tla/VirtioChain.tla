------------------------------ MODULE VirtioChain ------------------------------
(***************************************************************************)
(* The walk of vq_getchain (src/virtio.c) over a chain of descriptors,     *)
(* some of which point at a table of further ones.  The guest writes the   *)
(* table: links may leave it, loop, or lead through indirect descriptors   *)
(* the device does not offer, are of a bad length or are nested.           *)
(*                                                                         *)
(* A descriptor is [ind, next, link]: what it is ("no": a buffer, "bad": a *)
(* length that is no multiple of 16, or a table number), whether it has    *)
(* the NEXT flag, and its vd_next.  A buffer is known by its position.     *)
(***************************************************************************)
EXTENDS Naturals, Sequences

CONSTANTS VcSize,          \* vq_qsize
          VQ_MAX_DESCRIPTORS,
          VcIov,           \* the lengths of the caller's iov
          VcDescs,         \* descriptors the guest puts into the queue
          VcTables,        \* [table number -> sequence of descriptors]
          VcIndirect       \* does the device offer VIRTIO_RING_F_INDIRECT_DESC?

VARIABLE vc                \* the call, and what came of it

VcIdle == [at |-> "idle"]
Error == [error |-> TRUE]

\* _vq_record: nothing is stored beyond the caller's array
record(i, pos, iov, n_iov) == IF i >= n_iov THEN iov ELSE Append(iov, pos)

\* mutant: the cut-off lets one more buffer through
loopy_late(i) == i > VQ_MAX_DESCRIPTORS + 1

\* the count got excessive inside a table
loopy(i) == i > VQ_MAX_DESCRIPTORS

\* The loop over the entries of table d of the queue: how many buffers there
\* are now and where they are, or Error
RECURSIVE indirects(_, _, _, _, _, _)
indirects(table, d, i, next, iov, n_iov) ==
  LET vp == table[next + 1]
      stored == record(i, <<d, next>>, iov, n_iov)
  IN  IF vp.ind # "no" \/ loopy(i + 1) THEN Error
      ELSE IF ~vp.next THEN [count |-> i + 1, iov |-> stored]
      ELSE IF vp.link >= Len(table) THEN Error
      ELSE indirects(table, d, i + 1, vp.link, stored, n_iov)

\* the condition of the outer loop
in_bounds(i) == i < VQ_MAX_DESCRIPTORS

\* The loop over the descriptors of the queue, from next on
RECURSIVE directs(_, _, _, _, _)
directs(queue, i, next, iov, n_iov) ==
  LET vdir == queue[next + 1]
      got == IF vdir.ind = "no"
             THEN [count |-> i + 1, iov |-> record(i, <<next>>, iov, n_iov)]
             ELSE IF ~VcIndirect \/ vdir.ind = "bad" THEN Error
             ELSE indirects(VcTables[vdir.ind], next, i, 0, iov, n_iov)
  IN  IF ~in_bounds(i) \/ next >= VcSize THEN Error
      ELSE IF got = Error THEN Error
      ELSE IF ~vdir.next THEN got
      ELSE directs(queue, got.count, vdir.link, got.iov, n_iov)

\* vq_getchain, once the head has been taken off the avail ring
vq_getchain(queue, head, n_iov) == directs(queue, 0, head, <<>>, n_iov)

VcInit == vc = VcIdle

\* the guest makes a chain available, the device takes it
getchain(queue, head, n_iov) ==
  /\ vc = VcIdle
  /\ vc' = [at |-> "got", queue |-> queue, head |-> head, n_iov |-> n_iov,
            res |-> vq_getchain(queue, head, n_iov)]

vc_again == vc # VcIdle /\ vc' = VcIdle

VcNext ==
  \/ \E queue \in [1 .. VcSize -> VcDescs], head \in 0 .. VcSize, n_iov \in VcIov :
       getchain(queue, head, n_iov)
  \/ vc_again

VcSpec == VcInit /\ [][VcNext]_vc

-----------------------------------------------------------------------------
VcTypeOK == vc = VcIdle \/ vc.res = Error \/ (vc.res.count \in Nat /\ Len(vc.res.iov) <= vc.n_iov)

\* The chain as one list, without counting: positions, where to enter a
\* descriptor of the queue, and the position after a position
Bad == <<>>
End == <<0, 0, 0>>

Enter(q, d) ==
  IF d >= VcSize THEN Bad
  ELSE IF q[d + 1].ind = "no" THEN <<d>>
  ELSE IF ~VcIndirect \/ q[d + 1].ind = "bad" \/ VcTables[q[d + 1].ind][1].ind # "no" THEN Bad
  ELSE <<d, 0>>

Leave(q, d) == IF q[d + 1].next THEN Enter(q, q[d + 1].link) ELSE End

Succ(q, pos) ==
  IF Len(pos) = 1 THEN Leave(q, pos[1])
  ELSE LET t == VcTables[q[pos[1] + 1].ind]
           e == t[pos[2] + 1]
       IN  IF ~e.next THEN Leave(q, pos[1])
           ELSE IF e.link >= Len(t) THEN Bad
           ELSE IF t[e.link + 1].ind # "no" THEN Bad ELSE <<pos[1], e.link>>

\* the n-th position, Bad and End staying what they are
Position(q, head) ==
  LET p[n \in 0 .. VQ_MAX_DESCRIPTORS] ==
        IF n = 0 THEN Enter(q, head)
        ELSE IF p[n - 1] \in {Bad, End} THEN p[n - 1] ELSE Succ(q, p[n - 1])
  IN  p

\* vq_getchain answers the number of buffers of the chain, tables unfolded,
\* and stores the first ones in order, as many as the caller has room for; it
\* answers an error exactly when a link is bad or the chain is longer than
\* VQ_MAX_DESCRIPTORS, so that a chain that loops ends too, whether it loops
\* in the queue, in a table or through both (virtio.c:288-366)
ChainMatches ==
  vc # VcIdle =>
    LET p == Position(vc.queue, vc.head)
        ends == {n \in 1 .. VQ_MAX_DESCRIPTORS : p[n] = End /\ p[n - 1] # End}
    IN  IF ends = {} THEN vc.res = Error
        ELSE \A n \in ends :
               vc.res = [count |-> n,
                         iov |-> [k \in 1 .. (IF n < vc.n_iov THEN n ELSE vc.n_iov) |-> p[k - 1]]]
=============================================================================
