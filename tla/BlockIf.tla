------------------------------- MODULE BlockIf -------------------------------
(***************************************************************************)
(* The block backend of src/block_if.c: the request queues of one disk     *)
(* (struct blockif_ctxt), its single i/o thread (BLOCKIF_NUMTHR is 1), and *)
(* the cancellation of a request, which holds bc_mtx while it waits for    *)
(* the thread.  The client is a disk controller as src/pci_ahci.c: it      *)
(* calls blockif_request and blockif_cancel with its own mutex held, and   *)
(* its callback, run by the i/o thread, takes that mutex.                  *)
(*                                                                         *)
(* A request element is in exactly one of freeq, pendq and busyq, so freeq *)
(* is represented by what the other two leave of BLOCKIF_MAXREQ.  The data *)
(* transfer of blockif_proc is left out: it only ends, at any time, with   *)
(* or without an error.                                                    *)
(***************************************************************************)
EXTENDS Naturals, Sequences, FiniteSets, SequencesExt

CONSTANTS Reqs,     \* struct blockif_req of the client: as many as blockif_queuesz()
          Extents   \* <<br_offset, be_block>> of the requests that are made

ASSUME ReqsAssumption == IsFiniteSet(Reqs)

VARIABLES pendq,    \* bc_pendq: elements with status "PEND" or "BLOCK"
          busyq,    \* bc_busyq: elements with status "BUSY" or "DONE"
          wpc,      \* where the i/o thread is
          closing,  \* bc_closing
          cpc,      \* where the caller of blockif_cancel is
          creq,     \* the request it cancels
          bse,      \* its bse is on the list blockif_bse_head (bse_pending)
          sigcont,  \* SIGCONT is posted to the event loop
          out,      \* the requests the client has outstanding
          failed    \* an error no client is prepared for

queues == <<pendq, busyq>>
canceller == <<cpc, creq, bse, sigcont>>
vars == <<pendq, busyq, wpc, closing, cpc, creq, bse, sigcont, out, failed>>

\* mutant: no element for the request whose callback is running
BLOCKIF_MAXREQ_tight == Cardinality(Reqs)

\* (64 + BLOCKIF_NUMTHR), where blockif_queuesz() is BLOCKIF_MAXREQ - 1
BLOCKIF_MAXREQ == Cardinality(Reqs) + 1

Offsets == {x[1] : x \in Extents} \cup {x[2] : x \in Extents}

Elems == [req : Reqs, off : Offsets, block : Offsets,
          status : {"PEND", "BLOCK", "BUSY", "DONE"}]

(***************************************************************************)
(* wait : in pthread_cond_wait; lock : about to take bc_mtx and dequeue;   *)
(* proc : in the transfer of blockif_proc; callback : about to call        *)
(* br_callback; complete : about to take bc_mtx and complete.              *)
(***************************************************************************)
TypeOK ==
  /\ pendq \in Seq(Elems)
  /\ busyq \in Seq(Elems)
  /\ Len(pendq) + Len(busyq) <= BLOCKIF_MAXREQ
  /\ wpc \in {"wait", "lock", "proc", "callback", "complete", "exit"}
  /\ closing \in BOOLEAN
  /\ cpc \in {"idle", "test", "kill", "wait"}
  /\ creq \in Reqs
  /\ bse \in BOOLEAN
  /\ sigcont \in BOOLEAN
  /\ out \in SUBSET Reqs
  /\ failed \in {"none", "E2BIG", "EINVAL"}

\* blockif_open
Init ==
  /\ pendq = <<>>
  /\ busyq = <<>>
  /\ wpc = "lock"
  /\ closing = FALSE
  /\ cpc = "idle"
  /\ creq \in Reqs
  /\ bse = FALSE
  /\ sigcont = FALSE
  /\ out = {}
  /\ failed = "none"

\* only a canceller keeps bc_mtx and the client's mutex from one step to the next
mtx_free == cpc = "idle"

-----------------------------------------------------------------------------
(* The queue operations.                                                   *)

\* a request that starts where an earlier one ends waits for it
blockif_enqueue(pq, bq, r, off, block) ==
  LET blocked == \E e \in ToSet(pq) \cup ToSet(bq) : e.block = off
  IN  Append(pq, [req |-> r, off |-> off, block |-> block,
                  status |-> IF blocked THEN "BLOCK" ELSE "PEND"])

\* mutant: the newest request is taken first
blockif_dequeue_last(pq) == SelectLastInSeq(pq, LAMBDA e : e.status = "PEND")

\* the place in pq of the element to take, 0 if there is none
blockif_dequeue(pq) == SelectInSeq(pq, LAMBDA e : e.status = "PEND")

\* mutant: the unblocked elements get the status of the completed one
blockif_complete_free(pq, be) ==
  [i \in 1 .. Len(pq) |->
     IF pq[i].off = be.block THEN [pq[i] EXCEPT !.status = "FREE"] ELSE pq[i]]

\* pq when the element be, already removed from its queue, is completed
blockif_complete(pq, be) ==
  [i \in 1 .. Len(pq) |->
     IF pq[i].off = be.block THEN [pq[i] EXCEPT !.status = "PEND"] ELSE pq[i]]

-----------------------------------------------------------------------------
(* The i/o thread.                                                         *)

\* the loop of blockif_thr with the pending queue pq, up to the next unlock
Serve(pq) ==
  LET i == blockif_dequeue(pq)
  IN  IF i # 0
      THEN /\ pendq' = RemoveAt(pq, i)
           /\ busyq' = <<[pq[i] EXCEPT !.status = "BUSY"]>>
           /\ wpc' = "proc"
      ELSE /\ pendq' = pq
           /\ busyq' = <<>>
           /\ wpc' = IF closing THEN "exit" ELSE "wait"

blockif_thr ==
  /\ wpc = "lock"
  /\ mtx_free
  /\ Serve(pendq)
  /\ UNCHANGED <<closing, canceller, out, failed>>

\* mutant: the status is changed only when the callback has returned
blockif_proc_late ==
  /\ wpc = "proc"
  /\ wpc' = "callback"
  /\ UNCHANGED <<pendq, busyq, closing, canceller, out, failed>>

\* the transfer ends: BST_DONE, without bc_mtx
blockif_proc ==
  /\ wpc = "proc"
  /\ busyq' = <<[busyq[1] EXCEPT !.status = "DONE"]>>
  /\ wpc' = "callback"
  /\ UNCHANGED <<pendq, closing, canceller, out, failed>>

\* the callback takes the client's mutex and gives the request back
br_callback ==
  /\ wpc = "callback"
  /\ mtx_free
  /\ out' = out \ {busyq[1].req}
  /\ wpc' = "complete"
  /\ UNCHANGED <<pendq, busyq, closing, canceller, failed>>

\* mutant: completion leaves blocked requests blocked
blockif_thr_complete_alone ==
  /\ wpc = "complete"
  /\ mtx_free
  /\ Serve(pendq)
  /\ UNCHANGED <<closing, canceller, out, failed>>

blockif_thr_complete ==
  /\ wpc = "complete"
  /\ mtx_free
  /\ Serve(blockif_complete(pendq, busyq[1]))
  /\ UNCHANGED <<closing, canceller, out, failed>>
-----------------------------------------------------------------------------
(* The client.                                                             *)

\* mutant: the thread is not signalled
blockif_request_silent(r, off, block) ==
  /\ mtx_free
  /\ ~closing
  /\ r \notin out
  /\ IF Len(pendq) + Len(busyq) < BLOCKIF_MAXREQ
     THEN /\ pendq' = blockif_enqueue(pendq, busyq, r, off, block)
          /\ out' = out \cup {r}
          /\ UNCHANGED failed
     ELSE /\ failed' = "E2BIG"
          /\ UNCHANGED <<pendq, out>>
  /\ UNCHANGED <<busyq, wpc, closing, canceller>>

\* blockif_read, blockif_write, blockif_flush, blockif_delete
blockif_request(r, off, block) ==
  /\ mtx_free
  /\ ~closing
  /\ r \notin out
  /\ IF Len(pendq) + Len(busyq) < BLOCKIF_MAXREQ
     THEN LET pq == blockif_enqueue(pendq, busyq, r, off, block)
          IN  /\ pendq' = pq
              /\ wpc' = IF wpc = "wait" /\ Last(pq).status = "PEND" THEN "lock" ELSE wpc
              /\ out' = out \cup {r}
              /\ UNCHANGED failed
     ELSE /\ failed' = "E2BIG"
          /\ UNCHANGED <<pendq, wpc, out>>
  /\ UNCHANGED <<busyq, closing, canceller>>

\* mutant: a pending request is taken from the queue without unblocking others
blockif_cancel_alone(r) ==
  /\ mtx_free
  /\ r \in out
  /\ LET i == SelectInSeq(pendq, LAMBDA e : e.req = r)
         b == SelectInSeq(busyq, LAMBDA e : e.req = r)
     IN  \/ /\ i # 0
            /\ pendq' = RemoveAt(pendq, i)
            /\ out' = out \ {r}
            /\ UNCHANGED <<cpc, creq, failed>>
         \/ /\ i = 0 /\ b # 0
            /\ cpc' = "test"
            /\ creq' = r
            /\ UNCHANGED <<pendq, out, failed>>
         \/ /\ i = 0 /\ b = 0
            /\ failed' = "EINVAL"
            /\ UNCHANGED <<pendq, out, cpc, creq>>
  /\ UNCHANGED <<busyq, wpc, closing, bse, sigcont>>

\* mutant: the client takes back a request in flight as well
blockif_cancel_busy(r) ==
  /\ mtx_free
  /\ r \in out
  /\ LET i == SelectInSeq(pendq, LAMBDA e : e.req = r)
     IN  pendq' = IF i # 0 THEN blockif_complete(RemoveAt(pendq, i), pendq[i]) ELSE pendq
  /\ out' = out \ {r}
  /\ UNCHANGED <<busyq, wpc, closing, canceller, failed>>

\* A pending request is completed without its callback (the client takes it
\* back); for one in flight the caller waits, with bc_mtx held.
blockif_cancel(r) ==
  /\ mtx_free
  /\ r \in out
  /\ LET i == SelectInSeq(pendq, LAMBDA e : e.req = r)
         b == SelectInSeq(busyq, LAMBDA e : e.req = r)
     IN  \/ /\ i # 0
            /\ pendq' = blockif_complete(RemoveAt(pendq, i), pendq[i])
            /\ out' = out \ {r}
            /\ UNCHANGED <<cpc, creq, failed>>
         \/ /\ i = 0 /\ b # 0
            /\ cpc' = "test"
            /\ creq' = r
            /\ UNCHANGED <<pendq, out, failed>>
         \/ /\ i = 0 /\ b = 0
            /\ failed' = "EINVAL"
            /\ UNCHANGED <<pendq, out, cpc, creq>>
  /\ UNCHANGED <<busyq, wpc, closing, bse, sigcont>>

\* the loop test: push a bse on the list, or return EBUSY
cancel_test ==
  /\ cpc = "test"
  /\ IF busyq[1].status = "BUSY"
     THEN bse' = TRUE /\ cpc' = "kill"
     ELSE cpc' = "idle" /\ UNCHANGED bse
  /\ UNCHANGED <<queues, wpc, closing, creq, sigcont, out, failed>>

\* pthread_kill(be->be_tid, SIGCONT)
cancel_kill ==
  /\ cpc = "kill"
  /\ sigcont' = TRUE
  /\ cpc' = "wait"
  /\ UNCHANGED <<queues, wpc, closing, creq, bse, out, failed>>

\* the wait for bse_pending to be cleared
cancel_wait ==
  /\ cpc = "wait"
  /\ ~bse
  /\ cpc' = "test"
  /\ UNCHANGED <<queues, wpc, closing, creq, bse, sigcont, out, failed>>

\* the event loop delivers SIGCONT: every bse on the list is released
blockif_sigcont_handler ==
  /\ sigcont
  /\ sigcont' = FALSE
  /\ bse' = FALSE
  /\ UNCHANGED <<queues, wpc, closing, cpc, creq, out, failed>>

\* only a controller whose initialisation fails closes its backend
blockif_close ==
  /\ mtx_free
  /\ out = {}
  /\ ~closing
  /\ closing' = TRUE
  /\ wpc' = IF wpc = "wait" THEN "lock" ELSE wpc
  /\ UNCHANGED <<queues, canceller, out, failed>>

-----------------------------------------------------------------------------

Thread == blockif_thr \/ blockif_proc \/ br_callback \/ blockif_thr_complete

Cancel == cancel_test \/ cancel_kill \/ cancel_wait

Next ==
  \/ Thread
  \/ Cancel
  \/ \E r \in Reqs, x \in Extents : blockif_request(r, x[1], x[2])
  \/ \E r \in Reqs : blockif_cancel(r)
  \/ blockif_sigcont_handler
  \/ blockif_close

Safety == Init /\ [][Next]_vars

(***************************************************************************)
(* The i/o thread, a caller inside blockif_cancel and the event loop run   *)
(* when they can; in particular every transfer ends.  Strong fairness for  *)
(* the thread's locking: a mutex does not starve it for ever.              *)
(***************************************************************************)
Fairness ==
  /\ SF_vars(Thread)
  /\ WF_vars(Cancel)
  /\ WF_vars(blockif_sigcont_handler)

Spec == Safety /\ Fairness

-----------------------------------------------------------------------------
(***************************************************************************)
(* Every blocked element has a reason that comes before it: one that ends  *)
(* where it starts, in flight or ahead of it in the queue.  All variables  *)
(* have their types.                                                       *)
(***************************************************************************)
BlockedBehind ==
  /\ TypeOK
  /\ \A i \in 1 .. Len(pendq) : pendq[i].status = "BLOCK" =>
       \/ \E b \in ToSet(busyq) : b.block = pendq[i].off
       \/ \E j \in 1 .. i - 1 : pendq[j].block = pendq[i].off

(***************************************************************************)
(* With one i/o thread requests are served in the order in which they were *)
(* made: blocking never lets a later request overtake, so the thread only  *)
(* takes the first element of bc_pendq.                                    *)
(***************************************************************************)
InOrder ==
  [][wpc' = "proc" /\ wpc # "proc" => busyq'[1].req = Head(pendq).req]_vars

(***************************************************************************)
(* The i/o thread waits on bc_cond only when nothing is pending, although  *)
(* neither blockif_complete nor blockif_cancel signals what it unblocks.   *)
(***************************************************************************)
WaitsOnlyWhenEmpty == wpc = "wait" => pendq = <<>>

(***************************************************************************)
(* A callback is made only for a request that the client has outstanding:  *)
(* never twice for one request, nor after blockif_cancel returned 0.       *)
(***************************************************************************)
CallbackOwned == wpc \in {"proc", "callback"} => busyq[1].req \in out

(***************************************************************************)
(* A client that keeps to blockif_queuesz() outstanding requests never     *)
(* gets E2BIG, though the element of a request is still in use when its    *)
(* callback runs, and blockif_cancel knows every request outstanding.      *)
(***************************************************************************)
NeverFails == failed = "none"

(***************************************************************************)
(* Every request that is accepted is called back or cancelled.             *)
(***************************************************************************)
RequestsEnd == \A r \in Reqs : r \in out ~> r \notin out

(***************************************************************************)
(* blockif_cancel returns, although it holds both mutexes while it waits   *)
(* for a thread that needs them to complete the request.                   *)
(***************************************************************************)
CancelReturns == cpc # "idle" ~> cpc = "idle"

-----------------------------------------------------------------------------
(* A small instance, for model checking: requests that are adjacent, equal, *)
(* empty or a flush: [0,1), [1,2), no data at 1, a flush with the offset 0. *)

OFF_MAX == 9

SmallExtents == {<<0, 1>>, <<1, 2>>, <<1, 1>>, <<0, OFF_MAX>>}
=============================================================================
