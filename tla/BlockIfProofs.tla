---------------------------- MODULE BlockIfProofs ----------------------------
(***************************************************************************)
(* Proofs about BlockIf for any finite set of requests and any extents:    *)
(* IInv is inductive, and the safety properties of BlockIf follow from it. *)
(***************************************************************************)
EXTENDS BlockIf, SeqFacts, FiniteSetTheorems

USE ReqsAssumption

\* the element in busyq belongs to a request its client has outstanding
InFlight == wpc \in {"proc", "callback"}

\* BlockedBehind, of a pending queue pq and a busy queue bq
Behind(pq, bq) ==
  \A i \in 1 .. Len(pq) : pq[i].status = "BLOCK" =>
    \/ \E k \in 1 .. Len(bq) : bq[k].block = pq[i].off
    \/ \E j \in 1 .. i - 1 : pq[j].block = pq[i].off

\* pq holds elements of different requests, that are pending or blocked
Waiting(pq) ==
  /\ pq \in Seq(Elems)
  /\ \A i \in 1 .. Len(pq) : pq[i].status \in {"PEND", "BLOCK"}
  /\ \A i, j \in 1 .. Len(pq) : i # j => pq[i].req # pq[j].req

\* pq holds an element of the request r
Has(pq, r) == \E i \in 1 .. Len(pq) : pq[i].req = r

\* The requests outstanding are the ones of pendq and the one in flight.
IInv ==
  /\ TypeOK
  /\ Behind(pendq, busyq)
  /\ WaitsOnlyWhenEmpty
  /\ NeverFails
  /\ Waiting(pendq)
  /\ Len(busyq) = IF wpc \in {"proc", "callback", "complete"} THEN 1 ELSE 0
  /\ InFlight => ~ Has(pendq, busyq[1].req)
  /\ \A r \in Reqs :
       r \in out <=> Has(pendq, r) \/ (InFlight /\ busyq[1].req = r)
  /\ Cardinality(out) = Len(pendq) + (IF InFlight THEN 1 ELSE 0)

-----------------------------------------------------------------------------
(* The queue operations.                                                   *)

\* c is pq with the elements unblocked that start where be ends
Completes(c, pq, be) ==
  /\ c \in Seq(Elems)
  /\ Len(c) = Len(pq)
  /\ \A i \in 1 .. Len(pq) :
       /\ c[i].req = pq[i].req
       /\ c[i].off = pq[i].off
       /\ c[i].block = pq[i].block
       /\ c[i].status = IF pq[i].off = be.block THEN "PEND" ELSE pq[i].status

\* blockif_complete changes nothing but the status of elements it unblocks.
LEMMA CompleteFacts ==
    ASSUME NEW pq \in Seq(Elems), NEW be
    PROVE  Completes(blockif_complete(pq, be), pq, be)
  <1> DEFINE c == blockif_complete(pq, be)
  <1>1. ASSUME NEW i \in 1 .. Len(pq)
        PROVE  /\ c[i] = IF pq[i].off = be.block THEN [pq[i] EXCEPT !.status = "PEND"]
                                                 ELSE pq[i]
               /\ pq[i] \in Elems
    BY DEF blockif_complete
  <1>2. ASSUME NEW i \in 1 .. Len(pq)
        PROVE  /\ c[i] \in Elems
               /\ c[i].req = pq[i].req
               /\ c[i].off = pq[i].off
               /\ c[i].block = pq[i].block
               /\ c[i].status = IF pq[i].off = be.block THEN "PEND"
                                                        ELSE pq[i].status
    BY <1>1, Zenon DEF Elems
  <1>3. DOMAIN c = 1 .. Len(pq) /\ Len(pq) \in Nat
    BY DEF blockif_complete
  <1>4. c \in [1 .. Len(pq) -> Elems]
    BY <1>2, <1>3 DEF blockif_complete
  <1>5. c \in Seq(Elems) /\ Len(c) = Len(pq)
    BY <1>3, <1>4
  <1> QED
    BY <1>2, <1>5 DEF Completes

\* blockif_complete keeps the elements of pq and the requests they are for.
LEMMA CompleteWaiting ==
    ASSUME NEW pq, Waiting(pq), NEW be
    PROVE  LET c == blockif_complete(pq, be)
           IN  Waiting(c) /\ Len(c) = Len(pq) /\ \A r : Has(c, r) <=> Has(pq, r)
  <1> DEFINE c == blockif_complete(pq, be)
  <1>1. Completes(c, pq, be)
    BY CompleteFacts DEF Waiting
  <1> HIDE DEF c
  <1>2. Waiting(c)
    BY <1>1 DEF Waiting, Completes
  <1>3. Len(c) = Len(pq) /\ \A r : Has(c, r) <=> Has(pq, r)
    BY <1>1 DEF Has, Completes
  <1> QED
    BY <1>2, <1>3 DEF c

\* When the element in flight completes, what is still blocked is blocked
\* behind an element of the pending queue.
LEMMA CompleteBehind ==
    ASSUME NEW pq \in Seq(Elems), NEW bq \in Seq(Elems), Len(bq) = 1, Behind(pq, bq)
    PROVE  Behind(blockif_complete(pq, bq[1]), <<>>)
  <1> DEFINE be == bq[1]
             c == blockif_complete(pq, be)
  <1>1. Completes(c, pq, be)
    BY CompleteFacts
  <1>2. \A k \in 1 .. Len(bq) : bq[k] = be
    OBVIOUS
  <1> HIDE DEF c, be
  <1>3. ASSUME NEW i \in 1 .. Len(c), c[i].status = "BLOCK"
        PROVE  \E j \in 1 .. i - 1 : c[j].block = c[i].off
    <2>1. pq[i].status = "BLOCK" /\ pq[i].off # be.block /\ i \in 1 .. Len(pq)
      BY <1>1, <1>3 DEF Completes
    <2>2. PICK j \in 1 .. i - 1 : pq[j].block = pq[i].off
      BY <1>2, <2>1 DEF Behind
    <2>3. j \in 1 .. Len(pq)
      BY <2>1
    <2> QED
      BY <1>1, <2>1, <2>2, <2>3 DEF Completes
  <1>4. Behind(c, <<>>)
    BY <1>3 DEF Behind
  <1> QED
    BY <1>4 DEF c, be

\* Taking an element out of pq leaves elements of the other requests.
LEMMA RemoveWaiting ==
    ASSUME NEW pq, Waiting(pq), NEW i \in 1 .. Len(pq)
    PROVE  LET p == RemoveAt(pq, i)
           IN  /\ Waiting(p) /\ Len(p) = Len(pq) - 1
               /\ \A r : Has(p, r) <=> Has(pq, r) /\ r # pq[i].req
  <1> DEFINE p == RemoveAt(pq, i)
  <1>1. p \in Seq(Elems) /\ Len(p) = Len(pq) - 1 /\ Drops(p, pq, i)
    BY RemoveAtFacts, RemoveAtDrops DEF Waiting
  <1> HIDE DEF p
  <1>2. ASSUME NEW j \in 1 .. Len(p)
        PROVE  \E a \in 1 .. Len(pq) : a # i /\ p[j] = pq[a]
    BY <1>1 DEF Drops
  <1>3. \A j \in 1 .. Len(p) : p[j].status \in {"PEND", "BLOCK"}
    BY <1>2 DEF Waiting
  <1>4. ASSUME NEW j \in 1 .. Len(p), NEW k \in 1 .. Len(p), j < k
        PROVE  p[j].req # p[k].req
    <2>1. PICK a, b \in 1 .. Len(pq) :
                 a < b /\ a # i /\ b # i /\ p[j] = pq[a] /\ p[k] = pq[b]
      BY <1>1, <1>4, Zenon DEF Drops
    <2> QED
      BY <2>1 DEF Waiting
  <1>5. \A j, k \in 1 .. Len(p) : j # k => p[j].req # p[k].req
    <2> SUFFICES ASSUME NEW j \in 1 .. Len(p), NEW k \in 1 .. Len(p), j # k
                 PROVE  p[j].req # p[k].req
      OBVIOUS
    <2>1. j < k \/ k < j
      OBVIOUS
    <2> QED
      BY <1>4, <2>1
  <1>6. ASSUME NEW r, Has(p, r) PROVE Has(pq, r) /\ r # pq[i].req
    <2>1. PICK j \in 1 .. Len(p) : p[j].req = r
      BY <1>6 DEF Has
    <2>2. PICK a \in 1 .. Len(pq) : a # i /\ p[j] = pq[a]
      BY <1>2, Zenon
    <2> QED
      BY <2>1, <2>2 DEF Has, Waiting
  <1>7. ASSUME NEW r, Has(pq, r), r # pq[i].req PROVE Has(p, r)
    <2>1. PICK a \in 1 .. Len(pq) : pq[a].req = r
      BY <1>7 DEF Has
    <2>2. PICK j \in 1 .. Len(p) : p[j] = pq[a]
      BY <1>1, <1>7, <2>1, Zenon DEF Drops
    <2> QED
      BY <2>1, <2>2 DEF Has
  <1>8. Waiting(p)
    BY <1>1, <1>3, <1>5, Zenon DEF Waiting
  <1> QED
    BY <1>1, <1>6, <1>7, <1>8 DEF p

\* blockif_cancel unblocks what was blocked behind the element it takes out.
LEMMA CancelBehind ==
    ASSUME NEW pq \in Seq(Elems), NEW bq \in Seq(Elems), Behind(pq, bq),
           NEW i \in 1 .. Len(pq)
    PROVE  Behind(blockif_complete(RemoveAt(pq, i), pq[i]), bq)
  <1> DEFINE p == RemoveAt(pq, i)
             be == pq[i]
             c == blockif_complete(p, be)
  <1>1. /\ p \in Seq(Elems) /\ Len(p) = Len(pq) - 1
        /\ \A j \in 1 .. Len(pq) - 1 : p[j] = IF j < i THEN pq[j] ELSE pq[j + 1]
    BY RemoveAtFacts
  <1> HIDE DEF p
  <1>2. Completes(c, p, be)
    BY <1>1, CompleteFacts
  <1> HIDE DEF c
  <1>3. ASSUME NEW k \in 1 .. Len(c), c[k].status = "BLOCK"
        PROVE  \/ \E m \in 1 .. Len(bq) : bq[m].block = c[k].off
               \/ \E j \in 1 .. k - 1 : c[j].block = c[k].off
    <2> DEFINE a == IF k < i THEN k ELSE k + 1
    <2>1. /\ a \in 1 .. Len(pq) /\ p[k] = pq[a]
          /\ c[k].off = pq[a].off /\ pq[a].status = "BLOCK" /\ pq[a].off # be.block
      <3>1. k \in 1 .. Len(p) /\ Len(p) = Len(pq) - 1
        BY <1>1, <1>2 DEF Completes
      <3>2. a \in 1 .. Len(pq) /\ p[k] = pq[a]
        BY <1>1, <3>1
      <3>3. /\ c[k].off = p[k].off
            /\ c[k].status = IF p[k].off = be.block THEN "PEND" ELSE p[k].status
        BY <1>2, <3>1, Zenon DEF Completes
      <3>4. p[k].off # be.block /\ p[k].status = "BLOCK"
        BY <1>3, <3>3
      <3> QED
        BY <3>2, <3>3, <3>4
    <2>2. CASE \E m \in 1 .. Len(bq) : bq[m].block = pq[a].off
      BY <2>1, <2>2
    <2>3. CASE \E b \in 1 .. a - 1 : pq[b].block = pq[a].off
      <3>1. PICK b \in 1 .. a - 1 : pq[b].block = pq[a].off
        BY <2>3
      <3>2. b # i
        BY <2>1, <3>1
      <3> DEFINE j == IF b < i THEN b ELSE b - 1
      <3>3. j \in 1 .. k - 1 /\ j \in 1 .. Len(p)
        BY <1>1, <1>2, <2>1, <3>2 DEF Completes
      <3>4. p[j] = pq[b]
        <4>1. CASE b < i
          BY <1>1, <3>3, <4>1
        <4>2. CASE b > i
          BY <1>1, <3>3, <4>2
        <4>3. b < i \/ b > i
          BY <2>1, <3>1, <3>2
        <4> QED
          BY <4>1, <4>2, <4>3
      <3>5. c[j].block = p[j].block
        BY <1>2, <3>3, Zenon DEF Completes
      <3> QED
        BY <2>1, <3>1, <3>3, <3>4, <3>5
    <2> HIDE DEF a
    <2> QED
      BY <2>1, <2>2, <2>3, Zenon DEF Behind
  <1>4. Behind(c, bq)
    BY <1>3, Zenon DEF Behind
  <1> QED
    BY <1>4 DEF c, p, be

\* With nothing in flight the first element is not blocked, and the i/o
\* thread takes it.
LEMMA DequeueFacts ==
    ASSUME NEW pq, Waiting(pq), Behind(pq, <<>>)
    PROVE  blockif_dequeue(pq) = IF pq = <<>> THEN 0 ELSE 1
  <1> DEFINE I == {i \in 1 .. Len(pq) : pq[i].status = "PEND"}
  <1>1. blockif_dequeue(pq) = IF I # {} THEN Min(I) ELSE 0
    BY DEF blockif_dequeue, SelectInSeq
  <1>2. CASE pq = <<>>
    <2>1. I = {}
      BY <1>2
    <2> QED
      BY <1>1, <1>2, <2>1
  <1>3. CASE pq # <<>>
    <2>1. 1 \in 1 .. Len(pq)
      BY <1>3 DEF Waiting
    <2>2. pq[1].status = "PEND"
      BY <2>1 DEF Waiting, Behind
    <2>3. 1 \in I /\ I \in SUBSET Nat /\ \A i \in I : i \in Nat /\ i >= 1
      BY <2>1, <2>2
    <2> HIDE DEF I
    <2>4. Min(I) \in I /\ Min(I) <= 1
      BY <2>3, MinFacts
    <2>5. \A i \in I : i <= 1 => i = 1
      BY <2>3
    <2>6. Min(I) = 1
      BY <2>4, <2>5, Zenon
    <2> QED
      BY <1>1, <1>3, <2>3, <2>6
  <1> QED
    BY <1>2, <1>3

\* What the thread does when it has bc_mtx and nothing is in flight.
LEMMA ServeFacts ==
    ASSUME NEW pq, Waiting(pq), Behind(pq, <<>>), Serve(pq)
    PROVE  \/ /\ pq = <<>> /\ pendq' = <<>> /\ busyq' = <<>>
              /\ wpc' \in {"exit", "wait"}
           \/ /\ pq # <<>>
              /\ pendq' = RemoveAt(pq, 1)
              /\ busyq' = <<[pq[1] EXCEPT !.status = "BUSY"]>>
              /\ wpc' = "proc"
  BY DequeueFacts DEF Serve

\* The outstanding requests are never more than the client has.
LEMMA OutCard ==
    ASSUME NEW S \in SUBSET Reqs
    PROVE  /\ IsFiniteSet(S) /\ Cardinality(S) \in Nat /\ Cardinality(Reqs) \in Nat
           /\ Cardinality(S) <= Cardinality(Reqs)
           /\ \A r \in Reqs : r \notin S => Cardinality(S) < Cardinality(Reqs)
  <1>1. IsFiniteSet(S) /\ Cardinality(S) <= Cardinality(Reqs)
    BY FS_Subset
  <1>2. Cardinality(S) \in Nat /\ Cardinality(Reqs) \in Nat
    BY <1>1, FS_CardinalityType
  <1>3. ASSUME NEW r \in Reqs, r \notin S PROVE Cardinality(S) < Cardinality(Reqs)
    <2>1. Cardinality(S) = Cardinality(Reqs) => S = Reqs
      BY FS_Subset
    <2> QED
      BY <1>1, <1>2, <1>3, <2>1
  <1> QED
    BY <1>1, <1>2, <1>3

-----------------------------------------------------------------------------
(* The steps.                                                              *)

\* Behind is what BlockedBehind says.
LEMMA BlockedBehindIs ==
    ASSUME TypeOK
    PROVE  BlockedBehind <=> Behind(pendq, busyq)
  <1>1. \A x : (\E b \in ToSet(busyq) : b.block = x)
                <=> (\E k \in 1 .. Len(busyq) : busyq[k].block = x)
    BY DEF TypeOK, ToSet
  <1> QED
    BY <1>1, Zenon DEF BlockedBehind, Behind

\* The invariant holds when the backend is opened.
LEMMA InitInv == Init => IInv
  <1> SUFFICES ASSUME Init PROVE IInv
    OBVIOUS
  <1>1. Cardinality(Reqs) \in Nat /\ Cardinality({}) = 0
    BY FS_CardinalityType, FS_EmptySet
  <1>2. TypeOK
    <2>1. /\ pendq \in Seq(Elems) /\ busyq \in Seq(Elems)
          /\ Len(pendq) + Len(busyq) <= BLOCKIF_MAXREQ
      BY <1>1 DEF Init, BLOCKIF_MAXREQ
    <2> QED
      BY <2>1, Zenon DEF Init, TypeOK
  <1>3. Behind(pendq, busyq) /\ Waiting(pendq) /\ \A r : ~ Has(pendq, r)
    BY DEF Init, Behind, Waiting, Has
  <1> QED
    BY <1>1, <1>2, <1>3 DEF Init, IInv, InFlight, WaitsOnlyWhenEmpty, NeverFails

\* The thread takes the first request, or waits when there is none.
LEMMA ServeInv ==
    ASSUME TypeOK, NeverFails, NEW pq, Waiting(pq), Behind(pq, <<>>), Serve(pq),
           \A r \in Reqs : r \in out <=> Has(pq, r),
           Cardinality(out) = Len(pq),
           UNCHANGED <<closing, canceller, out, failed>>
    PROVE  IInv'
  <1>0. /\ Len(pq) <= Cardinality(Reqs) /\ Cardinality(Reqs) \in Nat
        /\ Len(pq) \in Nat
    BY OutCard DEF TypeOK, Waiting
  <1>1. CASE /\ pq = <<>> /\ pendq' = <<>> /\ busyq' = <<>>
             /\ wpc' \in {"exit", "wait"}
    <2>1. TypeOK'
      BY <1>0, <1>1 DEF TypeOK, canceller, BLOCKIF_MAXREQ
    <2>2. /\ Behind(pendq, busyq)' /\ Waiting(pendq)'
          /\ \A r : ~ Has(pendq, r)' /\ ~ Has(pq, r)
      BY <1>1 DEF Behind, Waiting, Has
    <2> QED
      BY <1>1, <2>1, <2>2 DEF IInv, InFlight, WaitsOnlyWhenEmpty, NeverFails
  <1>2. CASE /\ pq # <<>>
             /\ pendq' = RemoveAt(pq, 1)
             /\ busyq' = <<[pq[1] EXCEPT !.status = "BUSY"]>>
             /\ wpc' = "proc"
    <2>1. 1 \in 1 .. Len(pq) /\ pq[1] \in Elems /\ pq \in Seq(Elems)
      BY <1>2 DEF Waiting
    <2>2. /\ Waiting(pendq') /\ Len(pendq') = Len(pq) - 1
          /\ \A r : Has(pendq', r) <=> Has(pq, r) /\ r # pq[1].req
      BY <1>2, <2>1, RemoveWaiting
    <2>3. /\ busyq' \in Seq(Elems) /\ Len(busyq') = 1 /\ busyq'[1].req = pq[1].req
          /\ busyq'[1].block = pq[1].block
      BY <1>2, <2>1 DEF Elems
    <2>4. \A j \in 1 .. Len(pq) - 1 : pendq'[j] = pq[j + 1]
      BY <1>2, <2>1, RemoveAtFacts
    <2>5. Behind(pendq', busyq')
      <3> SUFFICES ASSUME NEW k \in 1 .. Len(pendq'), pendq'[k].status = "BLOCK"
                   PROVE  \/ \E m \in 1 .. Len(busyq') :
                               busyq'[m].block = pendq'[k].off
                          \/ \E j \in 1 .. k - 1 :
                               pendq'[j].block = pendq'[k].off
        BY DEF Behind
      <3>1. k + 1 \in 1 .. Len(pq) /\ pendq'[k] = pq[k + 1]
        BY <2>2, <2>4
      <3>2. PICK b \in 1 .. (k + 1) - 1 : pq[b].block = pq[k + 1].off
        BY <3>1 DEF Behind
      <3>3. CASE b = 1
        BY <2>3, <3>1, <3>2, <3>3
      <3>4. CASE b > 1
        <4>1. b - 1 \in 1 .. k - 1 /\ b - 1 \in 1 .. Len(pq) - 1
          BY <3>1, <3>4
        <4>2. pendq'[b - 1] = pq[b]
          BY <2>4, <4>1
        <4> QED
          BY <3>1, <3>2, <4>1, <4>2
      <3> QED
        BY <3>3, <3>4
    <2>6. TypeOK'
      BY <1>0, <1>2, <2>2, <2>3 DEF TypeOK, canceller, BLOCKIF_MAXREQ, Waiting
    <2>7. Has(pq, pq[1].req)
      BY <2>1 DEF Has
    <2>8. pq[1].req \in Reqs
      BY <2>1 DEF Elems
    <2>9. Behind(pendq, busyq)' /\ Waiting(pendq)'
      BY <2>2, <2>5 DEF Behind, Waiting
    <2>10. \A r : Has(pendq, r)' <=> Has(pendq', r)
      BY DEF Has
    <2> QED
      BY <1>0, <1>2, <2>2, <2>3, <2>6, <2>7, <2>8, <2>9, <2>10
      DEF IInv, InFlight, WaitsOnlyWhenEmpty, NeverFails
  <1> QED
    BY <1>1, <1>2, ServeFacts

\* blockif_enqueue adds an element of r, blocked only behind another one.
LEMMA EnqueueFacts ==
    ASSUME NEW pq, Waiting(pq), NEW bq \in Seq(Elems), Behind(pq, bq),
           NEW r \in Reqs, ~ Has(pq, r), NEW off \in Offsets, NEW block \in Offsets
    PROVE  LET n == blockif_enqueue(pq, bq, r, off, block)
           IN  /\ Waiting(n) /\ Len(n) = Len(pq) + 1 /\ Behind(n, bq)
               /\ \A x : Has(n, x) <=> Has(pq, x) \/ x = r
               /\ pq = <<>> /\ bq = <<>> => Last(n).status = "PEND"
  <1> DEFINE blocked == \E e \in ToSet(pq) \cup ToSet(bq) : e.block = off
             el == [req |-> r, off |-> off, block |-> block,
                    status |-> IF blocked THEN "BLOCK" ELSE "PEND"]
             n == blockif_enqueue(pq, bq, r, off, block)
  <1>1. n = Append(pq, el) /\ pq \in Seq(Elems)
    BY DEF blockif_enqueue, Waiting
  <1>2. blocked <=> \/ \E k \in 1 .. Len(bq) : bq[k].block = off
                    \/ \E j \in 1 .. Len(pq) : pq[j].block = off
    BY <1>1 DEF ToSet
  <1> HIDE DEF blocked
  <1>3. /\ el \in Elems /\ el.req = r /\ el.off = off
        /\ el.status \in {"PEND", "BLOCK"}
        /\ el.status = "BLOCK" <=> blocked
    BY DEF Elems
  <1> HIDE DEF el
  <1>4. /\ n \in Seq(Elems) /\ Len(n) = Len(pq) + 1
        /\ \A i \in 1 .. Len(pq) : n[i] = pq[i]
        /\ n[Len(pq) + 1] = el
    BY <1>1, <1>3, AppendProperties
  <1> HIDE DEF n
  <1>5. \A i \in 1 .. Len(pq) : pq[i].req # r
    BY DEF Has
  <1>6. Waiting(n)
    <2>1. \A i \in 1 .. Len(n) : n[i].status \in {"PEND", "BLOCK"}
      BY <1>3, <1>4 DEF Waiting
    <2>2. \A i, j \in 1 .. Len(n) : i # j => n[i].req # n[j].req
      BY <1>1, <1>3, <1>4, <1>5 DEF Waiting
    <2> QED
      BY <1>4, <2>1, <2>2 DEF Waiting
  <1>7. Behind(n, bq)
    <2> SUFFICES ASSUME NEW i \in 1 .. Len(n), n[i].status = "BLOCK"
                 PROVE  \/ \E k \in 1 .. Len(bq) : bq[k].block = n[i].off
                        \/ \E j \in 1 .. i - 1 : n[j].block = n[i].off
      BY DEF Behind
    <2>1. CASE i \in 1 .. Len(pq)
      <3>1. n[i] = pq[i] /\ \A j \in 1 .. i - 1 : n[j] = pq[j]
        BY <1>1, <1>4, <2>1
      <3> QED
        BY <2>1, <3>1, Zenon DEF Behind
    <2>2. CASE i = Len(pq) + 1
      <3>1. \A j \in 1 .. i - 1 : n[j] = pq[j] /\ j \in 1 .. Len(pq)
        BY <1>1, <1>4, <2>2
      <3>2. 1 .. i - 1 = 1 .. Len(pq)
        BY <1>1, <2>2
      <3> QED
        BY <1>2, <1>3, <1>4, <2>2, <3>1, <3>2
    <2> QED
      BY <1>1, <1>4, <2>1, <2>2
  <1>8. \A x : Has(n, x) <=> Has(pq, x) \/ x = r
    <2>1. \A x : Has(pq, x) => Has(n, x)
      BY <1>1, <1>4 DEF Has
    <2>2. Has(n, r)
      BY <1>1, <1>3, <1>4 DEF Has
    <2>3. \A x : Has(n, x) => Has(pq, x) \/ x = r
      BY <1>1, <1>3, <1>4 DEF Has
    <2> QED
      BY <2>1, <2>2, <2>3
  <1>9. pq = <<>> /\ bq = <<>> => Last(n).status = "PEND"
    <2>1. Last(n) = el
      BY <1>4 DEF Last
    <2>2. pq = <<>> /\ bq = <<>> => ~ blocked
      BY <1>2
    <2> QED
      BY <1>3, <2>1, <2>2
  <1> QED
    BY <1>4, <1>6, <1>7, <1>8, <1>9 DEF n

\* A request is accepted: there is always an element for it.
LEMMA RequestInv ==
    ASSUME IInv, NEW r \in Reqs, NEW x \in Extents, blockif_request(r, x[1], x[2])
    PROVE  IInv'
  <1> DEFINE off == x[1]
             block == x[2]
             n == blockif_enqueue(pendq, busyq, r, off, block)
  <1>1. off \in Offsets /\ block \in Offsets
    BY DEF Offsets
  <1>2. /\ TypeOK /\ Waiting(pendq) /\ Behind(pendq, busyq) /\ r \notin out
        /\ busyq \in Seq(Elems) /\ pendq \in Seq(Elems) /\ out \in SUBSET Reqs
        /\ ~ Has(pendq, r)
    BY DEF IInv, TypeOK, blockif_request
  <1>3. /\ Cardinality(out) < Cardinality(Reqs) /\ Cardinality(Reqs) \in Nat
        /\ Cardinality(out) \in Nat /\ IsFiniteSet(out)
    BY <1>2, OutCard
  <1>4. Len(pendq) + Len(busyq) <= Cardinality(out) + 1
    BY <1>2, <1>3 DEF IInv, InFlight, TypeOK
  <1>5. Len(pendq) + Len(busyq) < BLOCKIF_MAXREQ
    BY <1>2, <1>3, <1>4 DEF BLOCKIF_MAXREQ
  <1>6. /\ Waiting(n) /\ Len(n) = Len(pendq) + 1 /\ Behind(n, busyq)
        /\ \A y : Has(n, y) <=> Has(pendq, y) \/ y = r
        /\ pendq = <<>> /\ busyq = <<>> => Last(n).status = "PEND"
    BY <1>1, <1>2, EnqueueFacts
  <1>7. /\ pendq' = n /\ out' = out \cup {r} /\ failed' = failed
        /\ wpc' = IF wpc = "wait" /\ Last(n).status = "PEND" THEN "lock" ELSE wpc
        /\ UNCHANGED <<busyq, closing, canceller>>
    BY <1>5 DEF blockif_request
  <1> HIDE DEF n, off, block
  <1>8. Cardinality(out') = Cardinality(out) + 1
    BY <1>2, <1>3, <1>7, FS_AddElement, Zenon
  <1>9. wpc = "wait" => wpc' = "lock"
    <2>1. wpc = "wait" => pendq = <<>> /\ busyq = <<>>
      BY <1>2 DEF IInv, WaitsOnlyWhenEmpty
    <2> QED
      BY <1>6, <1>7, <2>1
  <1>10. InFlight' = InFlight /\ (wpc' # wpc => wpc = "wait" /\ wpc' = "lock")
    BY <1>7, <1>9 DEF InFlight
  <1>11. TypeOK'
    BY <1>2, <1>3, <1>4, <1>5, <1>6, <1>7, <1>10
    DEF TypeOK, canceller, BLOCKIF_MAXREQ, Waiting
  <1>12. Behind(pendq, busyq)' /\ Waiting(pendq)' /\ WaitsOnlyWhenEmpty' /\ NeverFails'
    BY <1>6, <1>7, <1>9, <1>10
    DEF Behind, Waiting, WaitsOnlyWhenEmpty, NeverFails, IInv
  <1>13. \A y : Has(pendq, y)' <=> Has(pendq, y) \/ y = r
    BY <1>6, <1>7, Zenon DEF Has
  <1>14. InFlight => busyq[1].req # r
    BY <1>2 DEF IInv
  <1>15. (InFlight => ~ Has(pendq, busyq[1].req))'
    BY <1>7, <1>10, <1>13, <1>14 DEF IInv
  <1>16. (\A y \in Reqs : y \in out <=> Has(pendq, y)
                                       \/ (InFlight /\ busyq[1].req = y))'
    BY <1>7, <1>10, <1>13 DEF IInv
  <1>17. (Cardinality(out) = Len(pendq) + (IF InFlight THEN 1 ELSE 0))'
    BY <1>2, <1>3, <1>6, <1>7, <1>8, <1>10 DEF IInv
  <1>18. (Len(busyq) = IF wpc \in {"proc", "callback", "complete"} THEN 1 ELSE 0)'
    BY <1>7, <1>10 DEF IInv
  <1> QED
    BY <1>11, <1>12, <1>15, <1>16, <1>17, <1>18 DEF IInv

\* The cases of blockif_cancel: a pending element is taken out, or the caller
\* waits for the element in flight; no third case as r is outstanding.
LEMMA CancelIs ==
    ASSUME IInv, NEW r \in Reqs, blockif_cancel(r)
    PROVE  \/ \E i \in 1 .. Len(pendq) :
                /\ pendq[i].req = r
                /\ pendq' = blockif_complete(RemoveAt(pendq, i), pendq[i])
                /\ out' = out \ {r}
                /\ UNCHANGED <<cpc, creq, failed>>
           \/ /\ cpc' = "test" /\ creq' = r
              /\ UNCHANGED <<pendq, out, failed>>
  <1> DEFINE I == {i \in 1 .. Len(pendq) : pendq[i].req = r}
             B == {i \in 1 .. Len(busyq) : busyq[i].req = r}
             i0 == SelectInSeq(pendq, LAMBDA e : e.req = r)
             b0 == SelectInSeq(busyq, LAMBDA e : e.req = r)
  <1>1. i0 = (IF I # {} THEN Min(I) ELSE 0) /\ b0 = (IF B # {} THEN Min(B) ELSE 0)
    BY DEF SelectInSeq
  <1>2. \/ /\ i0 # 0
           /\ pendq' = blockif_complete(RemoveAt(pendq, i0), pendq[i0])
           /\ out' = out \ {r}
           /\ UNCHANGED <<cpc, creq, failed>>
        \/ /\ cpc' = "test" /\ creq' = r
           /\ UNCHANGED <<pendq, out, failed>>
        \/ i0 = 0 /\ b0 = 0
    BY Zenon DEF blockif_cancel
  <1> HIDE DEF i0, b0
  <1>3. /\ I \in SUBSET (Nat \ {0}) /\ \A i \in I : i \in 1 .. Len(pendq) /\ pendq[i].req = r
        /\ B \in SUBSET (Nat \ {0})
    BY DEF IInv, TypeOK
  <1>4. I # {} \/ B # {}
    <2>1. r \in out
      BY DEF blockif_cancel
    <2>2. Has(pendq, r) \/ (InFlight /\ busyq[1].req = r)
      BY <2>1 DEF IInv
    <2>3. Has(pendq, r) => I # {}
      BY DEF Has
    <2>4. InFlight /\ busyq[1].req = r => B # {}
      BY DEF IInv, InFlight
    <2> QED
      BY <2>2, <2>3, <2>4
  <1> HIDE DEF I, B
  <1>5. (I # {} => Min(I) \in I) /\ (B # {} => Min(B) \in B)
    BY <1>3, MinFacts
  <1>6. (I # {} => Min(I) # 0) /\ (B # {} => Min(B) # 0)
    BY <1>3, <1>5, Zenon
  <1>7. ~ (i0 = 0 /\ b0 = 0)
    BY <1>1, <1>4, <1>6, Zenon
  <1>8. i0 # 0 => i0 \in 1 .. Len(pendq) /\ pendq[i0].req = r
    BY <1>1, <1>3, <1>5, Zenon
  <1> QED
    BY <1>2, <1>7, <1>8, Zenon

\* A step that changes no queue, and no program counter of the thread but from
\* the wait to the lock, keeps the part of the invariant about the queues.
LEMMA QueuesKept ==
    ASSUME IInv, TypeOK', UNCHANGED <<pendq, busyq, out, failed>>,
           wpc' = wpc \/ (wpc = "wait" /\ wpc' = "lock")
    PROVE  IInv'
  <1>1. Waiting(pendq)' /\ Behind(pendq, busyq)'
    BY DEF IInv, Waiting, Behind
  <1>2. InFlight' <=> InFlight
    BY DEF InFlight
  <1>3. WaitsOnlyWhenEmpty' /\ NeverFails'
    BY DEF IInv, WaitsOnlyWhenEmpty, NeverFails
  <1>4. \A r : Has(pendq, r)' <=> Has(pendq, r)
    BY DEF Has
  <1> QED
    BY <1>1, <1>2, <1>3, <1>4 DEF IInv

\* A request is cancelled.
LEMMA CancelInv ==
    ASSUME IInv, NEW r \in Reqs, blockif_cancel(r)
    PROVE  IInv'
  <1>1. /\ TypeOK /\ Waiting(pendq) /\ Behind(pendq, busyq) /\ r \in out
        /\ busyq \in Seq(Elems) /\ pendq \in Seq(Elems) /\ out \in SUBSET Reqs
        /\ cpc = "idle" /\ UNCHANGED <<busyq, wpc, closing, bse, sigcont>>
    BY DEF IInv, TypeOK, blockif_cancel, mtx_free
  <1>2. CASE \E i \in 1 .. Len(pendq) :
                /\ pendq[i].req = r
                /\ pendq' = blockif_complete(RemoveAt(pendq, i), pendq[i])
                /\ out' = out \ {r}
                /\ UNCHANGED <<cpc, creq, failed>>
    <2>1. PICK i \in 1 .. Len(pendq) :
                /\ pendq[i].req = r
                /\ pendq' = blockif_complete(RemoveAt(pendq, i), pendq[i])
                /\ out' = out \ {r}
                /\ UNCHANGED <<cpc, creq, failed>>
      BY <1>2
    <2> DEFINE p == RemoveAt(pendq, i)
    <2>2. /\ Waiting(p) /\ Len(p) = Len(pendq) - 1
          /\ \A y : Has(p, y) <=> Has(pendq, y) /\ y # r
      <3>1. LET s == RemoveAt(pendq, i)
            IN  /\ Waiting(s) /\ Len(s) = Len(pendq) - 1
                /\ \A y : Has(s, y) <=> Has(pendq, y) /\ y # pendq[i].req
        BY <1>1, RemoveWaiting, Zenon
      <3> QED
        BY <2>1, <3>1, Zenon
    <2>3. Behind(pendq', busyq)
      BY <1>1, <2>1, CancelBehind
    <2>4. pendq' = blockif_complete(p, pendq[i])
      BY <2>1
    <2> HIDE DEF p
    <2>5. /\ Waiting(pendq') /\ Len(pendq') = Len(pendq) - 1
          /\ \A y : Has(pendq', y) <=> Has(pendq, y) /\ y # r
      BY <2>2, <2>4, CompleteWaiting
    <2>6. /\ Cardinality(out') = Cardinality(out) - 1 /\ Cardinality(out) \in Nat
      BY <1>1, <2>1, OutCard, FS_RemoveElement
    <2>7. InFlight' = InFlight
      BY <1>1 DEF InFlight
    <2>8. TypeOK'
      <3>1. pendq' \in Seq(Elems)
        BY <2>5 DEF Waiting
      <3>2. BLOCKIF_MAXREQ \in Nat
        BY ReqsAssumption, FS_CardinalityType DEF BLOCKIF_MAXREQ
      <3>3. Len(pendq') + Len(busyq') <= BLOCKIF_MAXREQ
        BY <1>1, <2>5, <3>2 DEF TypeOK
      <3> QED
        BY <1>1, <2>1, <3>1, <3>3 DEF TypeOK, BLOCKIF_MAXREQ
    <2>9. Has(pendq, r)
      BY <2>1 DEF Has
    <2>10. /\ Behind(pendq, busyq)' /\ Waiting(pendq)' /\ NeverFails'
      BY <1>1, <2>1, <2>3, <2>5, Zenon DEF Behind, Waiting, NeverFails, IInv
    <2>11. WaitsOnlyWhenEmpty'
      BY <1>1, <2>9 DEF WaitsOnlyWhenEmpty, IInv, Has
    <2>12. \A y : Has(pendq, y)' <=> Has(pendq, y) /\ y # r
      BY <2>5, Zenon DEF Has
    <2>13. InFlight => busyq[1].req # r
      BY <2>9 DEF IInv
    <2>14. /\ (InFlight => ~ Has(pendq, busyq[1].req))'
           /\ (Len(busyq) = IF wpc \in {"proc", "callback", "complete"} THEN 1 ELSE 0)'
      BY <1>1, <2>7, <2>12 DEF IInv
    <2>15. (\A y \in Reqs : y \in out <=> Has(pendq, y)
                                         \/ (InFlight /\ busyq[1].req = y))'
      BY <1>1, <2>1, <2>7, <2>12, <2>13 DEF IInv
    <2>16. (Cardinality(out) = Len(pendq) + (IF InFlight THEN 1 ELSE 0))'
      BY <1>1, <2>5, <2>6, <2>7 DEF IInv
    <2> QED
      BY <2>8, <2>10, <2>11, <2>14, <2>15, <2>16 DEF IInv
  <1>3. CASE /\ cpc' = "test" /\ creq' = r
             /\ UNCHANGED <<pendq, out, failed>>
    <2>1. TypeOK'
      BY <1>1, <1>3 DEF TypeOK, BLOCKIF_MAXREQ
    <2>2. UNCHANGED <<pendq, busyq, out, wpc, failed>>
      BY <1>1, <1>3
    <2> QED
      BY <2>1, <2>2, QueuesKept
  <1> QED
    BY <1>2, <1>3, CancelIs

\* The steps of the i/o thread.
LEMMA ThreadInv ==
    ASSUME IInv, Thread
    PROVE  IInv'
  <1>1. /\ TypeOK /\ NeverFails /\ Waiting(pendq) /\ Behind(pendq, busyq)
        /\ busyq \in Seq(Elems) /\ pendq \in Seq(Elems) /\ out \in SUBSET Reqs
    BY DEF IInv, TypeOK
  <1>2. CASE blockif_thr
    <2>1. /\ busyq = <<>> /\ ~ InFlight
      BY <1>1, <1>2 DEF IInv, InFlight, blockif_thr
    <2>2. /\ Cardinality(out) = Len(pendq)
          /\ \A r \in Reqs : r \in out <=> Has(pendq, r)
      BY <1>1, <2>1 DEF IInv
    <2> QED
      BY <1>1, <1>2, <2>1, <2>2, ServeInv DEF blockif_thr
  <1>3. CASE blockif_proc
    <2>a. Len(busyq) = 1 /\ InFlight
      BY <1>3 DEF IInv, InFlight, blockif_proc
    <2>1. Len(busyq) = 1 /\ InFlight /\ busyq[1] \in Elems
      BY <1>1, <2>a
    <2>2. /\ busyq' \in Seq(Elems) /\ Len(busyq') = 1 /\ busyq'[1].req = busyq[1].req
          /\ busyq'[1].block = busyq[1].block
      BY <1>3, <2>1 DEF blockif_proc, Elems
    <2>3. UNCHANGED <<pendq, closing, cpc, creq, bse, sigcont, out, failed>>
      BY <1>3 DEF blockif_proc, canceller
    <2>4. wpc' = "callback" /\ InFlight'
      BY <1>3 DEF blockif_proc, InFlight
    <2>5. TypeOK'
      BY <1>1, <2>1, <2>2, <2>3, <2>4 DEF TypeOK, BLOCKIF_MAXREQ
    <2>6. Behind(pendq, busyq)'
      <3>1. \A x : (\E k \in 1 .. Len(busyq') : busyq'[k].block = x)
                    <=> (\E k \in 1 .. Len(busyq) : busyq[k].block = x)
        BY <2>1, <2>2
      <3> QED
        BY <1>1, <2>3, <3>1, Zenon DEF Behind
    <2>7. Waiting(pendq)' /\ NeverFails' /\ WaitsOnlyWhenEmpty'
      BY <1>1, <2>3, <2>4 DEF Waiting, NeverFails, WaitsOnlyWhenEmpty
    <2>8. /\ (InFlight => ~ Has(pendq, busyq[1].req))'
          /\ (\A y \in Reqs : y \in out <=> Has(pendq, y)
                                         \/ (InFlight /\ busyq[1].req = y))'
          /\ (Cardinality(out) = Len(pendq) + (IF InFlight THEN 1 ELSE 0))'
      BY <2>1, <2>2, <2>3, <2>4 DEF IInv, Has
    <2> QED
      BY <2>2, <2>4, <2>5, <2>6, <2>7, <2>8 DEF IInv
  <1>4. CASE br_callback
    <2> DEFINE r == busyq[1].req
    <2>a. Len(busyq) = 1 /\ InFlight
      BY <1>4 DEF IInv, InFlight, br_callback
    <2>b. busyq[1] \in Elems
      BY <1>1, <2>a
    <2>1. Len(busyq) = 1 /\ InFlight /\ busyq[1] \in Elems /\ r \in Reqs
      BY <2>a, <2>b DEF Elems
    <2>2. /\ UNCHANGED <<pendq, busyq, closing, cpc, creq, bse, sigcont, failed>>
          /\ out' = out \ {r} /\ wpc' = "complete"
      BY <1>4 DEF br_callback, canceller
    <2>3. ~ InFlight' /\ r \in out /\ ~ Has(pendq, r)
      BY <2>1, <2>2 DEF IInv, InFlight
    <2> HIDE DEF r
    <2>4. Cardinality(out') = Cardinality(out) - 1 /\ Cardinality(out) \in Nat
      BY <1>1, <2>2, <2>3, OutCard, FS_RemoveElement
    <2>5. TypeOK'
      BY <1>1, <2>2 DEF TypeOK, BLOCKIF_MAXREQ
    <2>6. Behind(pendq, busyq)' /\ Waiting(pendq)' /\ NeverFails' /\ WaitsOnlyWhenEmpty'
      BY <1>1, <2>2 DEF Behind, Waiting, NeverFails, WaitsOnlyWhenEmpty
    <2>7. (\A y \in Reqs : y \in out <=> Has(pendq, y)
                                         \/ (InFlight /\ busyq[1].req = y))'
      BY <2>1, <2>2, <2>3 DEF IInv, Has, r
    <2>8. (Cardinality(out) = Len(pendq) + (IF InFlight THEN 1 ELSE 0))'
      BY <1>1, <2>1, <2>2, <2>3, <2>4 DEF IInv
    <2> QED
      BY <2>1, <2>2, <2>3, <2>5, <2>6, <2>7, <2>8 DEF IInv
  <1>5. CASE blockif_thr_complete
    <2> DEFINE c == blockif_complete(pendq, busyq[1])
    <2>1. Len(busyq) = 1 /\ ~ InFlight
      BY <1>1, <1>5 DEF IInv, InFlight, blockif_thr_complete
    <2>2. Waiting(c) /\ Len(c) = Len(pendq) /\ \A r : Has(c, r) <=> Has(pendq, r)
      BY <1>1, CompleteWaiting
    <2>3. Behind(c, <<>>)
      BY <1>1, <2>1, CompleteBehind
    <2>4. Serve(c) /\ UNCHANGED <<closing, canceller, out, failed>>
      BY <1>5 DEF blockif_thr_complete
    <2> HIDE DEF c
    <2>5. /\ Cardinality(out) = Len(c)
          /\ \A r \in Reqs : r \in out <=> Has(c, r)
      BY <1>1, <2>1, <2>2 DEF IInv
    <2> QED
      BY <1>1, <2>2, <2>3, <2>4, <2>5, ServeInv
  <1> QED
    BY <1>2, <1>3, <1>4, <1>5 DEF Thread

\* The steps that change no queue.
LEMMA OtherInv ==
    ASSUME IInv,
           Cancel \/ blockif_sigcont_handler \/ blockif_close \/ UNCHANGED vars
    PROVE  IInv'
  <1>1. /\ UNCHANGED <<pendq, busyq, out, failed>>
        /\ wpc' = wpc \/ (wpc = "wait" /\ wpc' = "lock")
    BY DEF Cancel, cancel_test, cancel_kill, cancel_wait, queues, canceller,
           blockif_sigcont_handler, blockif_close, vars
  <1>2. TypeOK
    BY DEF IInv
  <1>3. /\ cpc' \in {"idle", "test", "kill", "wait"} /\ creq' \in Reqs
        /\ closing' \in BOOLEAN /\ bse' \in BOOLEAN /\ sigcont' \in BOOLEAN
    <2>1. CASE Cancel
      BY <1>2, <2>1, Zenon DEF TypeOK, Cancel, cancel_test, cancel_kill, cancel_wait
    <2>2. CASE blockif_sigcont_handler
      BY <1>2, <2>2, Zenon DEF TypeOK, blockif_sigcont_handler, canceller
    <2>3. CASE blockif_close
      BY <1>2, <2>3, Zenon DEF TypeOK, blockif_close, canceller
    <2>4. CASE UNCHANGED vars
      BY <1>2, <2>4, Zenon DEF TypeOK, vars, canceller
    <2> QED
      BY <2>1, <2>2, <2>3, <2>4
  <1>4. TypeOK'
    BY <1>1, <1>2, <1>3 DEF TypeOK, BLOCKIF_MAXREQ
  <1> QED
    BY <1>1, <1>4, QueuesKept

\* Every step keeps the invariant.
LEMMA NextInv == IInv /\ [Next]_vars => IInv'
  BY RequestInv, CancelInv, ThreadInv, OtherInv DEF Next

-----------------------------------------------------------------------------

\* The invariant holds in every state the block device reaches.
LEMMA Invariance == Safety => []IInv
  BY InitInv, NextInv, PTL DEF Safety

(***************************************************************************)
(* For any number of requests and any extents: every blocked element of    *)
(* the queue is behind one that ends where it starts.                      *)
(***************************************************************************)
THEOREM BlockedKept == Safety => []BlockedBehind
  <1>1. IInv => BlockedBehind
    BY BlockedBehindIs DEF IInv
  <1> QED
    BY <1>1, Invariance, PTL

(***************************************************************************)
(* The i/o thread never waits on bc_cond with a request in the queue.      *)
(***************************************************************************)
THEOREM NoRequestForgotten == Safety => []WaitsOnlyWhenEmpty
  BY Invariance, PTL DEF IInv

(***************************************************************************)
(* blockif_proc calls back only for requests that are outstanding.         *)
(***************************************************************************)
THEOREM CallbacksOwned == Safety => []CallbackOwned
  <1>1. IInv => CallbackOwned
    <2> SUFFICES ASSUME IInv, InFlight PROVE busyq[1].req \in out
      BY DEF CallbackOwned, InFlight
    <2>1. Len(busyq) = 1 /\ busyq \in Seq(Elems)
      BY DEF IInv, TypeOK, InFlight
    <2>2. busyq[1] \in Elems
      BY <2>1
    <2>3. busyq[1].req \in Reqs
      BY <2>2 DEF Elems
    <2> QED
      BY <2>3 DEF IInv
  <1> QED
    BY <1>1, Invariance, PTL

(***************************************************************************)
(* A client with at most blockif_queuesz() requests outstanding never gets *)
(* E2BIG from blockif_request nor EINVAL from blockif_cancel.              *)
(***************************************************************************)
THEOREM ErrorsNotReached == Safety => []NeverFails
  BY Invariance, PTL DEF IInv

(***************************************************************************)
(* The thread serves the requests in the order in which they were made.    *)
(***************************************************************************)
THEOREM ServedInOrder == Safety => InOrder
  <1>1. ASSUME IInv, [Next]_vars, wpc' = "proc", wpc # "proc"
        PROVE  busyq'[1].req = Head(pendq).req
    <2>1. /\ TypeOK /\ Waiting(pendq) /\ Behind(pendq, busyq)
          /\ busyq \in Seq(Elems) /\ pendq \in Seq(Elems)
      BY <1>1 DEF IInv, TypeOK
    <2>2. blockif_thr \/ blockif_thr_complete
      BY <1>1, Zenon DEF Next, Thread, Cancel, blockif_proc, br_callback, cancel_test,
                  cancel_kill, cancel_wait, blockif_request, blockif_cancel,
                  blockif_sigcont_handler, blockif_close, vars
    <2>3. ASSUME NEW pq, Waiting(pq), Behind(pq, <<>>), Serve(pq),
                 Len(pq) = Len(pendq), \A i \in 1 .. Len(pendq) : pq[i].req = pendq[i].req
          PROVE  busyq'[1].req = Head(pendq).req
      <3>1. pq # <<>> /\ busyq' = <<[pq[1] EXCEPT !.status = "BUSY"]>>
        BY <1>1, <2>3, ServeFacts
      <3>2. 1 \in 1 .. Len(pq) /\ pq[1] \in Elems
        BY <2>3, <3>1 DEF Waiting
      <3>3. busyq'[1].req = pq[1].req
        BY <3>1, <3>2 DEF Elems
      <3>4. pendq # <<>> /\ Head(pendq) = pendq[1]
        BY <2>1, <2>3, <3>2
      <3> QED
        BY <2>3, <3>2, <3>3, <3>4
    <2>4. CASE blockif_thr
      <3>1. busyq = <<>>
        BY <1>1, <2>1, <2>4 DEF IInv, blockif_thr
      <3> QED
        BY <2>1, <2>3, <2>4, <3>1 DEF blockif_thr
    <2>5. CASE blockif_thr_complete
      <3> DEFINE c == blockif_complete(pendq, busyq[1])
      <3>1. Len(busyq) = 1
        BY <1>1, <2>5 DEF IInv, blockif_thr_complete
      <3>2. Waiting(c) /\ Behind(c, <<>>) /\ Completes(c, pendq, busyq[1])
        BY <2>1, <3>1, CompleteWaiting, CompleteBehind, CompleteFacts
      <3>3. Serve(c)
        BY <2>5 DEF blockif_thr_complete
      <3> HIDE DEF c
      <3> QED
        BY <2>3, <3>2, <3>3 DEF Completes
    <2> QED
      BY <2>2, <2>4, <2>5
  <1>2. IInv /\ [Next]_vars =>
          [wpc' = "proc" /\ wpc # "proc" => busyq'[1].req = Head(pendq).req]_vars
    BY <1>1
  <1> QED
    BY <1>2, Invariance, PTL DEF Safety, InOrder
=============================================================================
