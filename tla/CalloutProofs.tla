---------------------------- MODULE CalloutProofs ----------------------------
(***************************************************************************)
(* Proofs about Callout for any set of timers and any bound on the clock:  *)
(* QueueInv is inductive, so the queue stays sorted and holds what it      *)
(* should, the abort() of the thread is never reached, and no wake-up of   *)
(* the thread is lost.                                                     *)
(***************************************************************************)
EXTENDS Callout, SeqFacts

USE CalloutAssumption DEF Time

\* what QueueInv says of the order of a list of callouts with timeouts tm
Ordered(q, tm) ==
  \A i, j \in 1 .. Len(q) : i < j => q[i] # q[j] /\ tm[q[i]] <= tm[q[j]]

-----------------------------------------------------------------------------
(* The list operations.                                                    *)

\* A callout is queued when it is at some position of the list.
LEMMA QueuedIs ==
    ASSUME NEW q \in Seq(Callouts), NEW c
    PROVE  queued(q, c) <=> \E j \in 1 .. Len(q) : q[j] = c
  BY DEF queued, ToSet

\* callout_remove unlinks the node of c, if c is queued.
LEMMA RemoveIs ==
    ASSUME NEW q \in Seq(Callouts), NEW c
    PROVE  \/ ~ queued(q, c) /\ callout_remove(q, c) = q
           \/ \E i \in 1 .. Len(q) :
                q[i] = c /\ callout_remove(q, c) = RemoveAt(q, i)
  <1> DEFINE I == {i \in 1 .. Len(q) : q[i] = c}
  <1>1. SelectInSeq(q, LAMBDA v : v = c) = IF I # {} THEN Min(I) ELSE 0
    BY DEF SelectInSeq
  <1>2. callout_remove(q, c) = IF I # {} THEN RemoveAt(q, Min(I)) ELSE q
    BY <1>1 DEF callout_remove, RemoveFirst
  <1>3. I = {} => ~ queued(q, c)
    BY DEF queued, ToSet
  <1>4. I \in SUBSET Nat /\ \A i \in I : i \in 1 .. Len(q) /\ q[i] = c
    OBVIOUS
  <1> HIDE DEF I
  <1>5. I # {} => Min(I) \in I
    BY <1>4, MinFacts
  <1> QED
    BY <1>2, <1>3, <1>4, <1>5, Zenon

\* callout_insert puts c behind the callouts that are to fire no later than
\* it and before the others.
LEMMA InsertIs ==
    ASSUME NEW q \in Seq(Callouts), NEW tm \in [Callouts -> Time], Ordered(q, tm),
           NEW c \in Callouts
    PROVE  /\ callout_insert(q, tm, c) \in Seq(Callouts)
           /\ \E i \in 1 .. Len(q) + 1 :
                /\ Adds(callout_insert(q, tm, c), q, i, c)
                /\ \A j \in 1 .. (i - 1) : tm[q[j]] <= tm[c]
                /\ \A j \in i .. Len(q) : tm[c] <= tm[q[j]]
  <1> DEFINE I == {i \in 1 .. Len(q) : tm[c] < tm[q[i]]}
  <1>1. SelectInSeq(q, LAMBDA node : tm[c] < tm[node])
          = IF I # {} THEN Min(I) ELSE 0
    BY DEF SelectInSeq
  <1>2. /\ I \in SUBSET (Nat \ {0})
        /\ \A i \in I : i \in 1 .. Len(q) /\ tm[c] < tm[q[i]]
        /\ \A i \in 1 .. Len(q) : i \notin I => tm[q[i]] <= tm[c]
    OBVIOUS
  <1> HIDE DEF I
  <1>3. I # {} => Min(I) \in I /\ \A j \in I : Min(I) <= j
    BY <1>2, MinFacts
  <1>4. callout_insert(q, tm, c)
          = IF I = {} THEN Append(q, c) ELSE InsertAt(q, Min(I), c)
    BY <1>1, <1>2, <1>3 DEF callout_insert
  <1>5. CASE I = {}
    <2>1. callout_insert(q, tm, c) = Append(q, c)
      BY <1>4, <1>5
    <2>2. Adds(Append(q, c), q, Len(q) + 1, c)
      BY InsertAtAdds
    <2>3. \A j \in 1 .. ((Len(q) + 1) - 1) : tm[q[j]] <= tm[c]
      BY <1>2, <1>5
    <2>4. Len(q) + 1 \in 1 .. Len(q) + 1 /\ (Len(q) + 1) .. Len(q) = {}
      OBVIOUS
    <2> QED
      BY <2>1, <2>2, <2>3, <2>4
  <1>6. CASE I # {}
    <2> DEFINE m == Min(I)
    <2>1. m \in 1 .. Len(q) /\ tm[c] < tm[q[m]]
      BY <1>2, <1>3, <1>6, Zenon
    <2>2. \A j \in 1 .. (m - 1) : j \in 1 .. Len(q) /\ j \notin I
      BY <1>3, <1>6, <2>1
    <2>3. callout_insert(q, tm, c) = InsertAt(q, m, c)
      BY <1>4, <1>6
    <2> HIDE DEF m
    <2>4. Adds(InsertAt(q, m, c), q, m, c)
      BY <2>1, InsertAtAdds
    <2>5. \A j \in 1 .. (m - 1) : tm[q[j]] <= tm[c]
      BY <1>2, <2>2
    <2>6. \A j \in m .. Len(q) : tm[c] <= tm[q[j]]
      <3> SUFFICES ASSUME NEW j \in m .. Len(q) PROVE tm[c] <= tm[q[j]]
        OBVIOUS
      <3>1. q[m] \in Callouts /\ q[j] \in Callouts /\ j \in 1 .. Len(q)
        BY <2>1
      <3>2. m = j \/ tm[q[m]] <= tm[q[j]]
        BY <2>1, <3>1 DEF Ordered
      <3> QED
        BY <2>1, <3>1, <3>2
    <2>7. InsertAt(q, m, c) \in Seq(Callouts) /\ m \in 1 .. Len(q) + 1
      BY <2>1 DEF InsertAt
    <2> QED
      BY <2>3, <2>4, <2>5, <2>6, <2>7, Zenon
  <1> QED
    BY <1>5, <1>6

\* callout_remove takes c out of the list and keeps the order of the others.
LEMMA RemoveFacts ==
    ASSUME NEW q \in Seq(Callouts), NEW tm \in [Callouts -> Time],
           Ordered(q, tm), NEW c
    PROVE  /\ callout_remove(q, c) \in Seq(Callouts)
           /\ \A x : queued(callout_remove(q, c), x) <=> queued(q, x) /\ x # c
           /\ Ordered(callout_remove(q, c), tm)
  <1> DEFINE r == callout_remove(q, c)
  <1>1. CASE ~ queued(q, c) /\ r = q
    BY <1>1
  <1>2. CASE \E i \in 1 .. Len(q) : q[i] = c /\ r = RemoveAt(q, i)
    <2>1. PICK i \in 1 .. Len(q) : q[i] = c /\ r = RemoveAt(q, i)
      BY <1>2
    <2> HIDE DEF r
    <2>2. r \in Seq(Callouts) /\ Drops(r, q, i)
      BY <2>1, RemoveAtFacts, RemoveAtDrops
    <2>3. Ordered(r, tm)
      <3> SUFFICES ASSUME NEW j \in 1 .. Len(r), NEW k \in 1 .. Len(r), j < k
                   PROVE  r[j] # r[k] /\ tm[r[j]] <= tm[r[k]]
        BY Zenon DEF Ordered
      <3>1. PICK a, b \in 1 .. Len(q) :
                   a < b /\ a # i /\ b # i /\ r[j] = q[a] /\ r[k] = q[b]
        BY <2>2 DEF Drops
      <3> QED
        BY <3>1, Zenon DEF Ordered
    <2>4. \A a \in 1 .. Len(q) : a # i => q[a] # c
      BY <2>1 DEF Ordered
    <2>5. ASSUME NEW x, queued(r, x) PROVE queued(q, x) /\ x # c
      <3>1. PICK j \in 1 .. Len(r) : r[j] = x
        BY <2>2, <2>5, QueuedIs
      <3>2. PICK a \in 1 .. Len(q) : a # i /\ q[a] = x
        BY <2>2, <3>1, Zenon DEF Drops
      <3> QED
        BY <2>4, <3>2, QueuedIs
    <2>6. ASSUME NEW x, queued(q, x), x # c PROVE queued(r, x)
      <3>1. PICK a \in 1 .. Len(q) : q[a] = x
        BY <2>6, QueuedIs
      <3>2. PICK j \in 1 .. Len(r) : r[j] = x
        BY <2>1, <2>2, <2>6, <3>1, Zenon DEF Drops
      <3> QED
        BY <2>2, <3>2, QueuedIs
    <2> QED
      BY <2>2, <2>3, <2>5, <2>6 DEF r
  <1> QED
    BY <1>1, <1>2, RemoveIs

\* callout_insert adds c to a list without it and keeps the list sorted.
LEMMA InsertFacts ==
    ASSUME NEW q \in Seq(Callouts), NEW tm \in [Callouts -> Time], Ordered(q, tm),
           NEW c \in Callouts, ~ queued(q, c)
    PROVE  /\ callout_insert(q, tm, c) \in Seq(Callouts)
           /\ \A x : queued(callout_insert(q, tm, c), x) <=> queued(q, x) \/ x = c
           /\ Ordered(callout_insert(q, tm, c), tm)
  <1> DEFINE r == callout_insert(q, tm, c)
  <1>1. /\ r \in Seq(Callouts)
        /\ \E i \in 1 .. Len(q) + 1 :
             /\ Adds(r, q, i, c)
             /\ \A j \in 1 .. (i - 1) : tm[q[j]] <= tm[c]
             /\ \A j \in i .. Len(q) : tm[c] <= tm[q[j]]
    BY InsertIs, Zenon
  <1> HIDE DEF r
  <1>2. PICK i \in 1 .. Len(q) + 1 :
             /\ Adds(r, q, i, c)
             /\ \A j \in 1 .. (i - 1) : tm[q[j]] <= tm[c]
             /\ \A j \in i .. Len(q) : tm[c] <= tm[q[j]]
    BY <1>1
  <1>3. \A j \in 1 .. Len(q) : q[j] # c
    BY QueuedIs
  <1>4. i .. Len(q) \subseteq 1 .. Len(q) /\ 1 .. (i - 1) \subseteq 1 .. Len(q)
    OBVIOUS
  <1>5. Ordered(r, tm)
    <2> SUFFICES ASSUME NEW j \in 1 .. Len(r), NEW k \in 1 .. Len(r), j < k
                 PROVE  r[j] # r[k] /\ tm[r[j]] <= tm[r[k]]
      BY Zenon DEF Ordered
    <2>1. \/ \E a, b \in 1 .. Len(q) : a < b /\ r[j] = q[a] /\ r[k] = q[b]
          \/ r[j] = c /\ \E b \in i .. Len(q) : r[k] = q[b]
          \/ r[k] = c /\ \E a \in 1 .. (i - 1) : r[j] = q[a]
      BY <1>2, Zenon DEF Adds
    <2>2. CASE \E a, b \in 1 .. Len(q) : a < b /\ r[j] = q[a] /\ r[k] = q[b]
      BY <2>2, Zenon DEF Ordered
    <2>3. CASE r[j] = c /\ \E b \in i .. Len(q) : r[k] = q[b]
      BY <1>2, <1>3, <1>4, <2>3, Zenon
    <2>4. CASE r[k] = c /\ \E a \in 1 .. (i - 1) : r[j] = q[a]
      BY <1>2, <1>3, <1>4, <2>4, Zenon
    <2> QED
      BY <2>1, <2>2, <2>3, <2>4
  <1>6. ASSUME NEW x, queued(r, x) PROVE queued(q, x) \/ x = c
    <2>1. PICK j \in 1 .. Len(r) : r[j] = x
      BY <1>1, <1>6, QueuedIs
    <2>2. x = c \/ \E a \in 1 .. Len(q) : q[a] = x
      BY <1>2, <2>1, Zenon DEF Adds
    <2> QED
      BY <2>2, QueuedIs
  <1>7. ASSUME NEW x, queued(q, x) \/ x = c PROVE queued(r, x)
    <2>1. x = c \/ \E a \in 1 .. Len(q) : q[a] = x
      BY <1>7, QueuedIs
    <2>2. \E j \in 1 .. Len(r) : r[j] = x
      BY <1>2, <2>1, Zenon DEF Adds
    <2> QED
      BY <1>1, <2>2, QueuedIs
  <1> QED
    BY <1>1, <1>5, <1>6, <1>7 DEF r
-----------------------------------------------------------------------------
(***************************************************************************)
(* IInv is inductive: QueueInv and NoLostWakeup, and that the thread has   *)
(* not reached the abort().                                                *)
(***************************************************************************)
IInv == QueueInv /\ NoAbort /\ NoLostWakeup

\* The invariant holds before the first timer is started.
LEMMA InitInv == Init => IInv
  <1> SUFFICES ASSUME Init PROVE IInv
    OBVIOUS
  <1>1. TypeOK
    <2>1. flags \in [Callouts -> SUBSET {"ACTIVE", "PENDING"}]
      BY Zenon DEF Init
    <2>2. timeout \in [Callouts -> Time] /\ now \in Time /\ deadline \in Time
      BY DEF Init
    <2>3. queue \in Seq(Callouts)
      BY DEF Init
    <2> QED
      BY <2>1, <2>2, <2>3, Zenon DEF Init, TypeOK, ThreadPcs
  <1>2. \A c : ~ queued(queue, c)
    BY DEF Init, queued, ToSet
  <1> QED
    BY <1>1, <1>2 DEF Init, IInv, QueueInv, NoAbort, NoLostWakeup,
                      callout_pending, queued

\* callout_reset_sbt leaves a sorted list of the callouts that were in it
\* and c, which is pending, and sets `work' when c is the first.
LEMMA ResetInv ==
    ASSUME TypeOK, Ordered(queue, timeout), NEW c \in Callouts, NEW t \in Time,
           callout_reset_sbt(c, t)
    PROVE  /\ queue' \in Seq(Callouts) /\ queue' # <<>>
           /\ timeout' \in [Callouts -> Time]
           /\ flags' = [flags EXCEPT ![c] = {"PENDING", "ACTIVE"}]
           /\ Ordered(queue', timeout')
           /\ \A x : queued(queue', x) <=> queued(queue, x) \/ x = c
           /\ work' = (work \/ Head(queue') = c)
           /\ queue = <<>> => Head(queue') = c
  <1> DEFINE tm == [timeout EXCEPT ![c] = t]
             r == callout_remove(queue, c)
             q == callout_insert(r, tm, c)
  <1>1. /\ timeout' = tm /\ queue' = q
        /\ flags' = [flags EXCEPT ![c] = {"PENDING", "ACTIVE"}]
        /\ work' = (work \/ Head(q) = c)
    BY DEF callout_reset_sbt
  <1>2. /\ tm \in [Callouts -> Time]
        /\ \A x \in Callouts : x # c => tm[x] = timeout[x]
    BY DEF TypeOK
  <1>3. /\ r \in Seq(Callouts)
        /\ \A x : queued(r, x) <=> queued(queue, x) /\ x # c
        /\ Ordered(r, timeout)
    BY RemoveFacts DEF TypeOK
  <1> HIDE DEF tm, r, q
  <1>4. \A j \in 1 .. Len(r) : r[j] \in Callouts /\ r[j] # c
    BY <1>3, QueuedIs
  <1>5. Ordered(r, tm)
    <2>1. \A j \in 1 .. Len(r) : tm[r[j]] = timeout[r[j]]
      BY <1>2, <1>4
    <2> QED
      BY <1>3, <2>1, Zenon DEF Ordered
  <1>6. /\ q \in Seq(Callouts)
        /\ \A x : queued(q, x) <=> queued(r, x) \/ x = c
        /\ Ordered(q, tm)
    BY <1>2, <1>3, <1>5, InsertFacts DEF q
  <1>7. \A x : queued(q, x) <=> queued(queue, x) \/ x = c
    BY <1>3, <1>6
  <1>8. q # <<>> /\ Head(q) \in Callouts /\ queued(q, Head(q))
    <2>1. PICK j \in 1 .. Len(q) : q[j] = c
      BY <1>6, QueuedIs, Zenon
    <2>2. q # <<>> /\ 1 \in 1 .. Len(q) /\ Head(q) = q[1]
      BY <1>6, <2>1
    <2> QED
      BY <1>6, <2>2, QueuedIs
  <1>9. queue = <<>> => Head(q) = c
    <2>1. queue = <<>> => ~ queued(queue, Head(q))
      BY DEF queued, ToSet
    <2> QED
      BY <1>7, <1>8, <2>1
  <1> QED
    BY <1>1, <1>2, <1>6, <1>7, <1>8, <1>9

\* QueueInv in terms of Ordered and queued.
LEMMA QueueInvIs ==
    QueueInv <=> /\ TypeOK
                 /\ Ordered(queue, timeout)
                 /\ \A c \in Callouts : callout_pending(c) => queued(queue, c)
                 /\ \A c : queued(queue, c) /\ ~ callout_pending(c) =>
                             c = cur /\ tpc \in {"call", "rearm", "return"}
  BY DEF QueueInv, Ordered, queued

\* What the lemmas below have to show of the next state.
LEMMA Preserved ==
    ASSUME TypeOK', Ordered(queue, timeout)',
           (\A c \in Callouts : callout_pending(c) => queued(queue, c))',
           (\A c : queued(queue, c) /\ ~ callout_pending(c) =>
                     c = cur /\ tpc \in {"call", "rearm", "return"})',
           NoAbort', NoLostWakeup'
    PROVE  IInv'
  <1>1. QueueInv'
    BY DEF QueueInv, Ordered, queued
  <1> QED
    BY <1>1 DEF IInv

\* A callout is dispatched from a queue in which all callouts are pending.
LEMMA DispatchInv ==
    ASSUME TypeOK, NEW q \in Seq(Callouts), Ordered(q, timeout),
           \A x \in Callouts : callout_pending(x) => queued(q, x),
           \A x : queued(q, x) => callout_pending(x),
           NEW c \in Callouts, queued(q, c),
           Dispatch(c), queue' = q, UNCHANGED <<timeout, now, tosignal>>
    PROVE  IInv'
  <1>1. TypeOK'
    BY Zenon DEF TypeOK, Dispatch, ThreadPcs
  <1>2. Ordered(queue, timeout)'
    BY DEF Ordered
  <1>3. \A x \in Callouts : callout_pending(x)' <=> callout_pending(x) /\ x # c
    BY DEF TypeOK, Dispatch, callout_pending
  <1>4. (\A x \in Callouts : callout_pending(x) => queued(queue, x))'
    BY <1>3 DEF queued
  <1>5. (\A x : queued(queue, x) /\ ~ callout_pending(x) =>
                 x = cur /\ tpc \in {"call", "rearm", "return"})'
    BY <1>3, QueuedIs DEF queued, Dispatch
  <1>6. NoAbort' /\ NoLostWakeup'
    BY DEF NoAbort, NoLostWakeup, Dispatch
  <1> QED
    BY <1>1, <1>2, <1>4, <1>5, <1>6, Preserved

\* The thread starts its loop only when every queued callout is pending.
LEMMA LoopInv ==
    ASSUME TypeOK, NEW q \in Seq(Callouts), Ordered(q, timeout), NEW w \in BOOLEAN,
           \A x \in Callouts : callout_pending(x) => queued(q, x),
           \A x : queued(q, x) => callout_pending(x),
           Loop(q, w), queue' = q, UNCHANGED <<timeout, now, tosignal>>
    PROVE  IInv'
  <1>1. CASE q = <<>>
    <2>1. TypeOK'
      BY <1>1 DEF TypeOK, Loop, ThreadPcs
    <2>2. Ordered(queue, timeout)'
      BY DEF Ordered
    <2>3. /\ (\A x \in Callouts : callout_pending(x) => queued(queue, x))'
          /\ (\A x : queued(queue, x) /\ ~ callout_pending(x) =>
                 x = cur /\ tpc \in {"call", "rearm", "return"})'
      BY <1>1 DEF Loop, callout_pending, queued
    <2>4. NoAbort' /\ NoLostWakeup'
      BY <1>1 DEF NoAbort, NoLostWakeup, Loop
    <2> QED
      BY <2>1, <2>2, <2>3, <2>4, Preserved
  <1>2. CASE q # <<>>
    <2> DEFINE c == Head(q)
    <2>1. c \in Callouts /\ queued(q, c)
      <3>1. 1 \in 1 .. Len(q) /\ c = q[1] /\ c \in Callouts
        BY <1>2
      <3> QED
        BY <3>1, QueuedIs
    <2>2. flags[c] # {}
      BY <2>1 DEF callout_pending
    <2>3. \/ Dispatch(c)
          \/ /\ tpc' = "sleep" /\ cur' = c /\ deadline' = timeout[c]
             /\ work' = FALSE /\ UNCHANGED flags
      BY <1>2, <2>2 DEF Loop
    <2> HIDE DEF c
    <2>4. CASE Dispatch(c)
      BY <2>1, <2>4, DispatchInv
    <2>5. CASE /\ tpc' = "sleep" /\ cur' = c /\ deadline' = timeout[c]
               /\ work' = FALSE /\ UNCHANGED flags
      <3>1. TypeOK'
        BY <2>1, <2>5, Zenon DEF TypeOK, ThreadPcs
      <3>2. Ordered(queue, timeout)'
        BY DEF Ordered
      <3>3. /\ (\A x \in Callouts : callout_pending(x) => queued(queue, x))'
            /\ (\A x : queued(queue, x) /\ ~ callout_pending(x) =>
                   x = cur /\ tpc \in {"call", "rearm", "return"})'
        BY <2>5 DEF callout_pending, queued
      <3>4. NoAbort' /\ NoLostWakeup'
        BY <2>5 DEF NoAbort, NoLostWakeup
      <3> QED
        BY <3>1, <3>2, <3>3, <3>4, Preserved
    <2> QED
      BY <2>3, <2>4, <2>5, Zenon
  <1> QED
    BY <1>1, <1>2

\* After a time-out too.
LEMMA ExpireInv ==
    ASSUME IInv, tpc \in {"woken", "expired"}, Expire,
           UNCHANGED <<queue, timeout, now, tosignal>>
    PROVE  IInv'
  <1>1. /\ TypeOK /\ Ordered(queue, timeout)
        /\ \A x \in Callouts : callout_pending(x) => queued(queue, x)
        /\ \A x : queued(queue, x) => callout_pending(x)
    BY QueueInvIs DEF IInv
  <1>2. queue \in Seq(Callouts) /\ cur \in Callouts
    BY <1>1 DEF TypeOK
  <1>3. CASE queued(queue, cur) /\ Dispatch(cur)
    BY <1>1, <1>2, <1>3, DispatchInv
  <1>4. CASE Loop(queue, FALSE)
    BY <1>1, <1>2, <1>4, LoopInv, Zenon
  <1> QED
    BY <1>3, <1>4, Zenon DEF Expire

\* The steps of the thread.
LEMMA ThreadInv ==
    ASSUME IInv, Thread
    PROVE  IInv'
  <1>1. /\ TypeOK /\ Ordered(queue, timeout) /\ NoLostWakeup
        /\ \A x \in Callouts : callout_pending(x) => queued(queue, x)
        /\ \A x : queued(queue, x) /\ ~ callout_pending(x) =>
                    x = cur /\ tpc \in {"call", "rearm", "return"}
    BY QueueInvIs DEF IInv
  <1>2. queue \in Seq(Callouts) /\ cur \in Callouts /\ work \in BOOLEAN
    BY <1>1 DEF TypeOK
  <1>3. CASE TimedWaitEnds
    <2>1. TypeOK' /\ NoAbort' /\ NoLostWakeup'
      BY <1>1, <1>3 DEF TimedWaitEnds, TypeOK, ThreadPcs, NoAbort, NoLostWakeup
    <2> QED
      BY <1>1, <1>3, <2>1, Preserved
      DEF TimedWaitEnds, Ordered, callout_pending, queued
  <1>4. CASE WokenIdle
    BY <1>1, <1>2, <1>4, LoopInv DEF WokenIdle
  <1>5. CASE Woken
    <2>1. CASE work
      BY <1>1, <1>2, <1>5, <2>1, LoopInv, Zenon DEF Woken
    <2>2. CASE ~ work /\ now >= timeout[cur]
      BY <1>5, <2>2, ExpireInv DEF Woken
    <2>3. CASE ~ work /\ ~ (now >= timeout[cur])
      <3>1. TypeOK' /\ NoAbort' /\ NoLostWakeup'
        BY <1>1, <1>5, <2>3 DEF Woken, TypeOK, ThreadPcs, NoAbort, NoLostWakeup
      <3> QED
        BY <1>1, <1>5, <2>3, <3>1, Preserved
        DEF Woken, Ordered, callout_pending, queued
    <2> QED
      BY <2>1, <2>2, <2>3
  <1>6. CASE Expired
    BY <1>6, ExpireInv DEF Expired
  <1>7. CASE callout_handler
    <2>1. TypeOK' /\ NoAbort' /\ NoLostWakeup'
      BY <1>1, <1>7 DEF callout_handler, TypeOK, ThreadPcs, NoAbort, NoLostWakeup
    <2>2. \A x \in Callouts : callout_pending(x)' <=> callout_pending(x)
      BY <1>1, <1>7, Zenon DEF callout_handler, TypeOK, callout_pending
    <2>3. (\A x : queued(queue, x) /\ ~ callout_pending(x) =>
                   x = cur /\ tpc \in {"call", "rearm", "return"})'
      BY <1>1, <1>2, <1>7, <2>2, QueuedIs DEF callout_handler, queued
    <2>4. (\A x \in Callouts : callout_pending(x) => queued(queue, x))'
      BY <1>1, <1>7, <2>2 DEF callout_handler, queued
    <2>5. Ordered(queue, timeout)'
      BY <1>1, <1>7 DEF callout_handler, Ordered
    <2> QED
      BY <2>1, <2>3, <2>4, <2>5, Preserved
  <1>8. CASE handler_done
    <2>1. TypeOK' /\ NoAbort' /\ NoLostWakeup'
      BY <1>1, <1>8 DEF handler_done, TypeOK, ThreadPcs, NoAbort, NoLostWakeup
    <2> QED
      BY <1>1, <1>8, <2>1, Preserved
      DEF handler_done, Ordered, callout_pending, queued
  <1>9. CASE HandlerReturned
    <2> DEFINE q == IF callout_pending(cur) THEN queue ELSE callout_remove(queue, cur)
    <2>1. queue' = q /\ Loop(q, work) /\ UNCHANGED <<timeout, now, tosignal>>
      BY <1>9 DEF HandlerReturned
    <2>2. /\ callout_remove(queue, cur) \in Seq(Callouts)
          /\ \A x : queued(callout_remove(queue, cur), x) <=> queued(queue, x) /\ x # cur
          /\ Ordered(callout_remove(queue, cur), timeout)
      BY <1>1, RemoveFacts DEF TypeOK
    <2>3. q \in Seq(Callouts) /\ Ordered(q, timeout)
      BY <1>1, <1>2, <2>2
    <2>4. /\ \A x \in Callouts : callout_pending(x) => queued(q, x)
          /\ \A x : queued(q, x) => callout_pending(x)
      BY <1>1, <2>2
    <2> HIDE DEF q
    <2> QED
      BY <1>1, <1>2, <2>1, <2>3, <2>4, LoopInv
  <1> QED
    BY <1>3, <1>4, <1>5, <1>6, <1>7, <1>8, <1>9 DEF Thread

\* A timer is started again, by its handler or by a vcpu.
LEMMA RearmInv ==
    ASSUME IInv, NEW c \in Callouts, NEW t \in (now + 1) .. MaxTime,
           \/ handler_rearm(t) /\ c = cur
           \/ timer_write(c, t)
    PROVE  IInv'
  <1>1. /\ TypeOK /\ Ordered(queue, timeout) /\ NoLostWakeup /\ NoAbort
        /\ \A x \in Callouts : callout_pending(x) => queued(queue, x)
        /\ \A x : queued(queue, x) /\ ~ callout_pending(x) =>
                    x = cur /\ tpc \in {"call", "rearm", "return"}
    BY QueueInvIs DEF IInv
  <1>2. t \in Time
    BY <1>1 DEF TypeOK
  <1>3. callout_reset_sbt(c, t)
    BY DEF handler_rearm, timer_write
  <1>4. /\ queue' \in Seq(Callouts) /\ queue' # <<>>
        /\ timeout' \in [Callouts -> Time]
        /\ flags' = [flags EXCEPT ![c] = {"PENDING", "ACTIVE"}]
        /\ Ordered(queue', timeout')
        /\ \A x : queued(queue', x) <=> queued(queue, x) \/ x = c
        /\ work' = (work \/ Head(queue') = c)
        /\ queue = <<>> => Head(queue') = c
    BY <1>1, <1>2, <1>3, ResetInv
  <1>5. /\ cur' = cur /\ now' = now /\ deadline' = deadline
        /\ \/ tpc = "rearm" /\ tpc' = "return" /\ tosignal' = tosignal
           \/ /\ tpc' = tpc
              /\ tosignal' = IF Head(queue') = c THEN tosignal \cup {c} ELSE tosignal
    BY DEF handler_rearm, timer_write
  <1>6. TypeOK'
    <2>1. flags' \in [Callouts -> SUBSET {"ACTIVE", "PENDING"}]
      BY <1>1, <1>4 DEF TypeOK
    <2>2. work' \in BOOLEAN
      BY <1>4
    <2> QED
      BY <1>1, <1>4, <1>5, <2>1, <2>2, Zenon DEF TypeOK, ThreadPcs
  <1>7. \A x \in Callouts : callout_pending(x)' <=> callout_pending(x) \/ x = c
    BY <1>1, <1>4 DEF TypeOK, callout_pending
  <1>8. (\A x \in Callouts : callout_pending(x) => queued(queue, x))'
    BY <1>1, <1>4, <1>7 DEF queued
  <1>9. (\A x : queued(queue, x) /\ ~ callout_pending(x) =>
                 x = cur /\ tpc \in {"call", "rearm", "return"})'
    <2> SUFFICES ASSUME NEW x, queued(queue, x)', ~ callout_pending(x)'
                 PROVE  x = cur' /\ tpc' \in {"call", "rearm", "return"}
      OBVIOUS
    <2>1. queued(queue', x)
      BY DEF queued
    <2>2. x \in Callouts
      BY <1>4, <2>1, QueuedIs
    <2> QED
      BY <1>1, <1>4, <1>5, <1>7, <2>1, <2>2
  <1>10. Ordered(queue, timeout)'
    BY <1>4 DEF Ordered
  <1>11. NoAbort'
    BY <1>1, <1>5 DEF NoAbort
  <1>12. NoLostWakeup'
    BY <1>1, <1>4, <1>5, Zenon DEF NoLostWakeup
  <1> QED
    BY <1>6, <1>8, <1>9, <1>10, <1>11, <1>12, Preserved

\* The other steps.
LEMMA OtherInv ==
    ASSUME IInv,
           \/ SpuriousWake \/ Tick \/ UNCHANGED vars
           \/ \E c \in Callouts : Signal(c) \/ timer_stop(c)
    PROVE  IInv'
  <1>1. /\ TypeOK /\ Ordered(queue, timeout) /\ NoLostWakeup /\ NoAbort
        /\ \A x \in Callouts : callout_pending(x) => queued(queue, x)
        /\ \A x : queued(queue, x) /\ ~ callout_pending(x) =>
                    x = cur /\ tpc \in {"call", "rearm", "return"}
    BY QueueInvIs DEF IInv
  <1>2. CASE \/ SpuriousWake \/ Tick \/ UNCHANGED vars
             \/ \E c \in Callouts : Signal(c)
    <2>1. TypeOK'
      BY <1>1, <1>2 DEF SpuriousWake, Tick, Signal, vars, Awoken, TypeOK, ThreadPcs
    <2>2. NoAbort' /\ NoLostWakeup'
      BY <1>1, <1>2 DEF SpuriousWake, Tick, Signal, vars, Awoken, NoAbort,
                        NoLostWakeup
    <2>3. /\ UNCHANGED <<queue, timeout, flags, cur>>
          /\ tpc' = tpc \/ tpc \notin {"call", "rearm", "return"}
      BY <1>2 DEF SpuriousWake, Tick, Signal, vars, Awoken
    <2> QED
      BY <1>1, <2>1, <2>2, <2>3, Preserved DEF Ordered, callout_pending, queued
  <1>3. ASSUME NEW c \in Callouts, timer_stop(c) PROVE IInv'
    <2>1. /\ queue' = callout_remove(queue, c) /\ flags' = [flags EXCEPT ![c] = {}]
          /\ UNCHANGED <<timeout, work, now, tpc, cur, deadline, tosignal>>
      BY <1>3 DEF timer_stop, callout_stop
    <2>2. /\ queue' \in Seq(Callouts)
          /\ \A x : queued(queue', x) <=> queued(queue, x) /\ x # c
          /\ Ordered(queue', timeout)
      BY <1>1, <2>1, RemoveFacts DEF TypeOK
    <2>3. TypeOK'
      <3>1. flags' \in [Callouts -> SUBSET {"ACTIVE", "PENDING"}]
        BY <1>1, <2>1 DEF TypeOK
      <3> QED
        BY <1>1, <2>1, <2>2, <3>1 DEF TypeOK
    <2>4. \A x \in Callouts : callout_pending(x)' <=> callout_pending(x) /\ x # c
      BY <1>1, <2>1 DEF TypeOK, callout_pending
    <2>5. (\A x \in Callouts : callout_pending(x) => queued(queue, x))'
      BY <1>1, <2>2, <2>4 DEF queued
    <2>6. (\A x : queued(queue, x) /\ ~ callout_pending(x) =>
                   x = cur /\ tpc \in {"call", "rearm", "return"})'
      <3> SUFFICES ASSUME NEW x, queued(queue, x)', ~ callout_pending(x)'
                   PROVE  x = cur' /\ tpc' \in {"call", "rearm", "return"}
        OBVIOUS
      <3>1. queued(queue', x)
        BY DEF queued
      <3>2. x \in Callouts
        BY <2>2, <3>1, QueuedIs
      <3> QED
        BY <1>1, <2>1, <2>2, <2>4, <3>1, <3>2
    <2>7. Ordered(queue, timeout)'
      BY <2>1, <2>2 DEF Ordered
    <2>8. queue' # <<>> => queue # <<>>
      <3> SUFFICES ASSUME queue = <<>> PROVE queue' = <<>>
        OBVIOUS
      <3>1. \A x : ~ queued(queue, x)
        BY DEF queued, ToSet
      <3>2. ~ queued(queue', queue'[1])
        BY <2>2, <3>1, Zenon
      <3>3. ~ \E j \in 1 .. Len(queue') : queue'[j] = queue'[1]
        BY <2>2, <3>2, QueuedIs, Zenon
      <3>4. Len(queue') = 0
        BY <2>2, <3>3
      <3> QED
        BY <2>2, <3>4
    <2>9. NoAbort' /\ NoLostWakeup'
      BY <1>1, <2>1, <2>8 DEF NoAbort, NoLostWakeup
    <2> QED
      BY <2>3, <2>5, <2>6, <2>7, <2>9, Preserved
  <1> QED
    BY <1>2, <1>3

\* Every step keeps the invariant.
LEMMA NextInv == IInv /\ [Next]_vars => IInv'
  <1> SUFFICES ASSUME IInv, [Next]_vars PROVE IInv'
    OBVIOUS
  <1>1. ASSUME NEW t \in (now + 1) .. MaxTime, handler_rearm(t) PROVE IInv'
    <2>1. cur \in Callouts
      BY DEF IInv, QueueInv, TypeOK
    <2> QED
      BY <1>1, <2>1, RearmInv
  <1>2. ASSUME NEW c \in Callouts, NEW t \in (now + 1) .. MaxTime, timer_write(c, t)
        PROVE  IInv'
    BY <1>2, RearmInv
  <1> QED
    BY <1>1, <1>2, ThreadInv, OtherInv DEF Next

-----------------------------------------------------------------------------

\* The invariant holds in every state the timer queue reaches.
LEMMA Invariance == Spec => []IInv
  BY InitInv, NextInv, PTL DEF Spec

(***************************************************************************)
(* For any number of timers and whatever their clients do, the queue stays *)
(* sorted by timeout and without duplicates, and holds exactly the pending *)
(* callouts and the one whose handler is running.                          *)
(***************************************************************************)
THEOREM QueueKept == Spec => []QueueInv
  BY Invariance, PTL DEF IInv

(***************************************************************************)
(* The abort() of callout_thread_func, for a first callout that is neither *)
(* active nor pending, is never reached.                                   *)
(***************************************************************************)
THEOREM AbortNotReached == Spec => []NoAbort
  BY Invariance, PTL DEF IInv

(***************************************************************************)
(* callout_reset_sbt signals after it dropped callout_mtx, and no wake-up  *)
(* of the thread is lost for it.                                           *)
(***************************************************************************)
THEOREM WakeupsKept == Spec => []NoLostWakeup
  BY Invariance, PTL DEF IInv
=============================================================================
