----------------------------- MODULE ApicProofs -----------------------------
(***************************************************************************)
(* Proofs about the path of an interrupt (module Apic), for any number of  *)
(* vcpus and pins, any vectors, and any number of devices on a pin.        *)
(***************************************************************************)
EXTENDS Apic, TLAPS

\* A write of the redirection entry of p is under way.
Writing(p) == \E v \in Vcpus : pc[v] \in {"smp", "rdv"} /\ arg[v] = p

\* The stack holds the vectors of S, in order of priority.  The i-th vector
\* has at least priority i: with 15 priorities the stack cannot overflow.
Stacked(stk, S) ==
    /\ stk \in Seq(Vectors)
    /\ \A i, j \in 1 .. Len(stk) : i < j => PRIO(stk[i]) < PRIO(stk[j])
    /\ \A i \in 1 .. Len(stk) : PRIO(stk[i]) >= i
    /\ S = {stk[i] : i \in 1 .. Len(stk)}

StackInv ==
    /\ isrvec_stk \in [Vcpus -> Seq(Vectors)]
    /\ \A v \in Vcpus : Stacked(isrvec_stk[v], isr[v])

\* A rendezvous is over when nobody has to run its function any more, and
\* until then the vcpu that started it waits for the others.  It is started
\* for the entry of a pin.
RdvInv ==
    /\ owner = NoCpu => waiting = {}
    /\ owner # NoCpu => waiting # {} /\ pc[owner] = "rdv"
    /\ \A v \in Vcpus : pc[v] \in {"smp", "rdv"} => arg[v] \in Pins

\* The trigger-mode registers that the current rendezvous has recomputed are
\* right, if no other one is due.
TmrInv ==
    (\A w \in Vcpus : pc[w] # "smp")
      => \A v \in Vcpus \ waiting : tmr[v] = LevelVectors(v)

\* v will forward the end of the interrupt of p.
Forwards(v, p) == rtbl[p].level /\ v \in rtbl[p].dest => rtbl[p].vec \in tmr[v]

\* This holds of every pin whose entry is not being written; of one that is,
\* for the vcpus which its rendezvous has reached.
RouteInv ==
    \A p \in Pins, v \in Vcpus :
      /\ ~ Writing(p) => Forwards(v, p)
      /\ (\E w \in Vcpus : pc[w] = "rdv" /\ arg[w] = p) /\ v \notin waiting
           => Forwards(v, p)

\* Remote IRR is set for level-triggered pins only, which have a vector.  An
\* entry that is being written is masked and waits for no end of interrupt.
EntryInv ==
    \A p \in Pins :
      /\ rtbl[p].remirr => rtbl[p].level
      /\ rtbl[p].level => rtbl[p].vec \in IoVectors
      /\ MaskFirst /\ Writing(p) => rtbl[p].masked /\ ~ rtbl[p].remirr

\* The inductive invariant.
IInv ==
    /\ TypeOK
    /\ arg \in [Vcpus -> Pins \union Vectors \union {0}]
    /\ StackInv
    /\ RdvInv
    /\ TmrInv
    /\ RouteInv
    /\ EntryInv
    /\ NoLostLevel
    /\ MaskFirst /\ {} \notin Dests => RemoteIrr

-----------------------------------------------------------------------------
(***************************************************************************)
(* The stack of vectors in service.                                        *)
(***************************************************************************)

\* What PRIO computes for the vectors a local APIC accepts.
LEMMA PrioFacts ==
    ASSUME NEW x \in Vectors
    PROVE  /\ x \in Nat /\ x >= 16 /\ x <= 255
           /\ PRIO(x) \in Nat /\ PRIO(x) >= 1 /\ PRIO(x) <= 15
  BY IoVectorsAssumption, MsiVectorsAssumption DEF Vectors, PRIO

\* A vector of a higher priority is a higher vector.
LEMMA PrioOrder ==
    ASSUME NEW x \in Vectors, NEW y \in Vectors, PRIO(x) < PRIO(y)
    PROVE  x < y
  BY IoVectorsAssumption, MsiVectorsAssumption DEF Vectors, PRIO

\* vlapic_update_ppr does not abort: 15 priorities fit on the stack.
LEMMA StackBound ==
    ASSUME NEW stk, NEW S, Stacked(stk, S)
    PROVE  /\ Len(stk) < ISRVEC_STK_SIZE
           /\ \A i, j \in DOMAIN stk : i < j => PRIO(stk[i]) < PRIO(stk[j])
           /\ {stk[i] : i \in DOMAIN stk} = S
  <1>1. Len(stk) \in Nat /\ DOMAIN stk = 1 .. Len(stk)
    BY DEF Stacked
  <1>2. CASE Len(stk) > 0
    <2>1. stk[Len(stk)] \in Vectors /\ PRIO(stk[Len(stk)]) >= Len(stk)
      BY <1>1, <1>2 DEF Stacked
    <2>2. PRIO(stk[Len(stk)]) \in Nat /\ PRIO(stk[Len(stk)]) <= 15
      BY <2>1, PrioFacts
    <2>3. Len(stk) < 17
      BY <1>1, <2>1, <2>2
    <2> QED
      BY <1>1, <2>3 DEF Stacked, ISRVEC_STK_SIZE
  <1> QED
    BY <1>1, <1>2 DEF Stacked, ISRVEC_STK_SIZE

\* vlapic_intr_accepted keeps the stack in order.
LEMMA StackPush ==
    ASSUME NEW stk, NEW S, Stacked(stk, S), NEW x \in Vectors,
           Len(stk) > 0 => PRIO(x) > PRIO(stk[Len(stk)])
    PROVE  Stacked(Append(stk, x), S \union {x})
  <1> DEFINE r == Append(stk, x)
             n == Len(stk)
  <1>1. n \in Nat /\ stk \in Seq(Vectors)
    BY DEF Stacked
  <1>2. /\ r \in Seq(Vectors) /\ Len(r) = n + 1 /\ r[n + 1] = x
        /\ \A i \in 1 .. n : r[i] = stk[i]
    BY <1>1
  <1>3. n > 0 => PRIO(x) > PRIO(stk[n])
    OBVIOUS
  <1>4. \A i \in 1 .. n : PRIO(stk[i]) \in Nat /\ PRIO(stk[i]) >= i
    <2>1. \A i \in 1 .. n : stk[i] \in Vectors /\ PRIO(stk[i]) >= i
      BY <1>1 DEF Stacked
    <2> QED
      BY <2>1, PrioFacts
  <1>5. PRIO(x) \in Nat /\ PRIO(x) >= 1
    BY PrioFacts
  <1>6. \A i \in 1 .. n : PRIO(stk[i]) < PRIO(x)
    BY <1>1, <1>3, <1>4, <1>5 DEF Stacked
  <1> HIDE DEF r
  <1>7. \A i, j \in 1 .. Len(r) : i < j => PRIO(r[i]) < PRIO(r[j])
    BY <1>1, <1>2, <1>6 DEF Stacked
  <1>8. \A i \in 1 .. Len(r) : PRIO(r[i]) >= i
    BY <1>1, <1>2, <1>3, <1>4, <1>5
  <1>9. S \union {x} = {r[i] : i \in 1 .. Len(r)}
    <2>1. \A y : (\E i \in 1 .. Len(r) : r[i] = y)
                   <=> y = x \/ \E i \in 1 .. n : stk[i] = y
      BY <1>1, <1>2
    <2> QED
      BY <2>1, Zenon DEF Stacked
  <1>10. Stacked(r, S \union {x})
    BY <1>2, <1>7, <1>8, <1>9 DEF Stacked
  <1> QED
    BY <1>10 DEF r

\* vlapic_process_eoi ends the vector at the top of the stack.
LEMMA StackPop ==
    ASSUME NEW stk, NEW S, Stacked(stk, S), S # {}
    PROVE  LET x == CHOOSE y \in S : \A z \in S : z <= y
           IN  x \in S /\ Stacked(SubSeq(stk, 1, Len(stk) - 1), S \ {x})
  <1> DEFINE x == CHOOSE y \in S : \A z \in S : z <= y
             n == Len(stk)
             r == SubSeq(stk, 1, Len(stk) - 1)
  <1>1. n \in Nat /\ stk \in Seq(Vectors) /\ n > 0
    BY DEF Stacked
  <1>a. \A i \in 1 .. n : stk[i] \in Vectors /\ stk[i] \in S
    BY <1>1 DEF Stacked
  <1>2. \A i \in 1 .. n : stk[i] \in Vectors /\ stk[i] \in S /\ stk[i] \in Nat
    BY <1>a, PrioFacts
  <1>b. \A i \in 1 .. n : i # n => PRIO(stk[i]) < PRIO(stk[n])
    BY <1>1 DEF Stacked
  <1>3. \A i \in 1 .. n : i # n => stk[i] < stk[n]
    BY <1>1, <1>2, <1>b, PrioOrder
  <1>4. stk[n] \in S /\ \A z \in S : z <= stk[n] /\ z \in Nat
    BY <1>1, <1>2, <1>3 DEF Stacked
  <1>5. x \in S /\ \A z \in S : z <= x
    BY <1>4
  <1> HIDE DEF x
  <1>6. x = stk[n]
    BY <1>4, <1>5
  <1>7. /\ r \in Seq(Vectors) /\ Len(r) = n - 1
        /\ \A i \in 1 .. n - 1 : r[i] = stk[i]
    <2>1. r = [i \in 1 .. n - 1 |-> stk[i]]
      BY <1>1
    <2>2. n - 1 \in Nat /\ \A i \in 1 .. n - 1 : stk[i] \in Vectors
      BY <1>1, <1>2
    <2> HIDE DEF r, n
    <2> QED
      BY <2>1, <2>2
  <1> HIDE DEF r
  <1>8. S \ {x} = {r[i] : i \in 1 .. Len(r)}
    <2>1. \A i \in 1 .. n : stk[i] = x <=> i = n
      BY <1>1, <1>2, <1>3, <1>6
    <2> QED
      BY <1>1, <1>6, <1>7, <2>1 DEF Stacked
  <1>9. /\ \A i, j \in 1 .. Len(r) : i < j => PRIO(r[i]) < PRIO(r[j])
        /\ \A i \in 1 .. Len(r) : PRIO(r[i]) >= i
    BY <1>1, <1>7 DEF Stacked
  <1>10. Stacked(r, S \ {x})
    BY <1>7, <1>8, <1>9, Zenon DEF Stacked
  <1> QED
    BY <1>5, <1>10 DEF x, r

-----------------------------------------------------------------------------
(***************************************************************************)
(* What the steps do to the redirection table.                             *)
(***************************************************************************)

Tables == [Pins -> [masked : BOOLEAN, level : BOOLEAN,
                    vec : IoVectors \union {0}, dest : Dests \union {{0}},
                    remirr : BOOLEAN, acnt : 0 .. Sharers]]

\* t is the table u except for the masks, the counts and Remote IRR.
SameRoute(t, u) ==
    \A p \in Pins : /\ t[p].level <=> u[p].level
                    /\ t[p].vec = u[p].vec
                    /\ t[p].dest = u[p].dest

\* The effect of sending the pins of S of table t.
Sends(t, S) ==
    /\ rtbl' \in Tables
    /\ irr' \in [Vcpus -> SUBSET Vectors]
    /\ SameRoute(rtbl', t)
    /\ \A p \in Pins : /\ rtbl'[p].masked <=> t[p].masked
                       /\ rtbl'[p].acnt = t[p].acnt
                       /\ rtbl'[p].remirr <=>
                             t[p].remirr \/ (p \in S /\ ~ t[p].masked /\ t[p].level)
    /\ \A v \in Vcpus : irr[v] \subseteq irr'[v]
    /\ \A p \in S, v \in Vcpus : ~ t[p].masked /\ v \in t[p].dest /\ t[p].vec >= 16
                                 => t[p].vec \in irr'[v]

\* vioapic_send_intr sends the unmasked pins of S.
LEMMA SendIs ==
    ASSUME TypeOK, NEW t \in Tables, NEW S \in SUBSET Pins, vioapic_send_intr(t, S)
    PROVE  Sends(t, S)
  <1> DEFINE sent == {p \in S : ~ t[p].masked}
             reqs == {<<t[p].dest, t[p].vec>> : p \in sent}
  <1>1. /\ rtbl' = [p \in Pins |-> IF p \in sent /\ t[p].level
                                   THEN [t[p] EXCEPT !.remirr = TRUE] ELSE t[p]]
        /\ irr' = [v \in Vcpus |-> irr[v] \union
                     {r[2] : r \in {q \in reqs : v \in q[1] /\ q[2] >= 16}}]
    BY DEF vioapic_send_intr, vlapic_deliver_intr
  <1>2. \A p \in Pins : /\ t[p].vec \in IoVectors \union {0}
                        /\ t[p].vec >= 16 => t[p].vec \in Vectors
    BY IoVectorsAssumption DEF Tables, Vectors
  <1>3. irr' \in [Vcpus -> SUBSET Vectors]
    <2>1. \A q \in reqs : q[2] >= 16 => q[2] \in Vectors
      BY <1>2
    <2> HIDE DEF reqs
    <2>2. \A v \in Vcpus : irr[v] \subseteq Vectors
      BY DEF TypeOK
    <2> QED
      BY <1>1, <2>1, <2>2
  <1>4. \A v \in Vcpus : irr[v] \subseteq irr'[v]
    BY <1>1
  <1>5. \A p \in S, v \in Vcpus : ~ t[p].masked /\ v \in t[p].dest /\ t[p].vec >= 16
                                  => t[p].vec \in irr'[v]
    <2> SUFFICES ASSUME NEW p \in S, NEW v \in Vcpus,
                        ~ t[p].masked, v \in t[p].dest, t[p].vec >= 16
                 PROVE  t[p].vec \in irr'[v]
      OBVIOUS
    <2> DEFINE q == <<t[p].dest, t[p].vec>>
    <2>1. q \in reqs /\ v \in q[1] /\ q[2] >= 16 /\ q[2] = t[p].vec
      OBVIOUS
    <2> HIDE DEF reqs, q
    <2>2. q[2] \in {r[2] : r \in {k \in reqs : v \in k[1] /\ k[2] >= 16}}
      BY <2>1
    <2> QED
      BY <1>1, <2>1, <2>2
  <1>6. rtbl' \in Tables
    BY <1>1, ZenonT(30) DEF Tables
  <1>7. SameRoute(rtbl', t)
    BY <1>1 DEF Tables, SameRoute
  <1>8. \A p \in Pins : /\ rtbl'[p].masked <=> t[p].masked
                        /\ rtbl'[p].acnt = t[p].acnt
                        /\ rtbl'[p].remirr <=>
                             t[p].remirr \/ (p \in S /\ ~ t[p].masked /\ t[p].level)
    BY <1>1 DEF Tables
  <1> QED
    BY <1>3, <1>4, <1>5, <1>6, <1>7, <1>8, Zenon DEF Sends

\* The level-triggered vectors of a vcpu depend on the routes only.
LEMMA LevelIs ==
    ASSUME NEW v \in Vcpus, SameRoute(rtbl', rtbl)
    PROVE  LevelVectors(v)' = LevelVectors(v)
  BY DEF LevelVectors, SameRoute

\* No write of an entry begins, and one ends only after its rendezvous.
Proceeds ==
    /\ pc' \in [Vcpus -> Pcs]
    /\ arg' \in [Vcpus -> Pins \union Vectors \union {0}]
    /\ \A w \in Vcpus : pc'[w] \in {"smp", "rdv"} => pc[w] = pc'[w] /\ arg[w] = arg'[w]
    /\ \A w \in Vcpus : pc[w] \in {"smp", "rdv"} /\ pc'[w] \notin {"smp", "rdv"}
                         => pc[w] = "rdv" /\ owner = NoCpu

\* In such a step no entry comes to be written.
LEMMA WritingIs ==
    ASSUME Proceeds, NEW p
    PROVE  Writing(p)' => Writing(p)
  BY DEF Writing, Proceeds

\* A step that changes neither a route nor a trigger-mode register.
LEMMA RoutesKept ==
    ASSUME IInv, Proceeds, SameRoute(rtbl', rtbl), UNCHANGED <<tmr, owner, waiting>>
    PROVE  RdvInv' /\ TmrInv' /\ RouteInv'
  <1>1. RdvInv'
    <2>1. owner # NoCpu => pc'[owner] = "rdv"
      BY DEF IInv, RdvInv, Proceeds, TypeOK
    <2>2. \A v \in Vcpus : pc'[v] \in {"smp", "rdv"} => arg'[v] \in Pins
      BY DEF IInv, RdvInv, Proceeds
    <2> QED
      BY <2>1, <2>2 DEF IInv, RdvInv
  <1>2. TmrInv'
    <2> SUFFICES ASSUME \A w \in Vcpus : pc'[w] # "smp", NEW v \in Vcpus \ waiting
                 PROVE  tmr[v] = LevelVectors(v)'
      BY DEF TmrInv
    <2>1. \A w \in Vcpus : pc[w] # "smp"
      BY DEF Proceeds
    <2>2. tmr[v] = LevelVectors(v)
      BY <2>1 DEF IInv, TmrInv
    <2> QED
      BY <2>2, LevelIs
  <1>3. RouteInv'
    <2> SUFFICES ASSUME NEW p \in Pins, NEW v \in Vcpus
                 PROVE  /\ ~ Writing(p)' => Forwards(v, p)'
                        /\ (\E w \in Vcpus : pc'[w] = "rdv" /\ arg'[w] = p)
                              /\ v \notin waiting => Forwards(v, p)'
      BY DEF RouteInv
    <2>1. Forwards(v, p)' <=> Forwards(v, p)
      BY DEF Forwards, SameRoute
    <2>2. /\ ~ Writing(p) => Forwards(v, p)
          /\ (\E w \in Vcpus : pc[w] = "rdv" /\ arg[w] = p) /\ v \notin waiting
               => Forwards(v, p)
      BY DEF IInv, RouteInv
    <2>3. ASSUME ~ Writing(p)', Writing(p) PROVE Forwards(v, p)
      <3>1. PICK w \in Vcpus : pc[w] \in {"smp", "rdv"} /\ arg[w] = p
        BY <2>3 DEF Writing
      <3>2. pc[w] = "rdv" /\ owner = NoCpu
        BY <2>3, <3>1 DEF Writing, Proceeds
      <3> QED
        BY <2>2, <3>1, <3>2 DEF IInv, RdvInv
    <2>4. (\E w \in Vcpus : pc'[w] = "rdv" /\ arg'[w] = p)
            => \E w \in Vcpus : pc[w] = "rdv" /\ arg[w] = p
      BY DEF Proceeds
    <2> QED
      BY <2>1, <2>2, <2>3, <2>4
  <1> QED
    BY <1>1, <1>2, <1>3

-----------------------------------------------------------------------------
(***************************************************************************)
(* Steps that send pins.                                                   *)
(***************************************************************************)

\* t is the table with no more pins that wait for an end of interrupt, and
\* the entries that are being written are as masked as they were.
Derives(t) ==
    /\ SameRoute(t, rtbl)
    /\ \A p \in Pins : /\ t[p].remirr => rtbl[p].remirr
                       /\ Writing(p) => (t[p].masked <=> rtbl[p].masked)

\* All the pins that NoLostLevel is about are sent.
Covers(t, S) ==
    \A p \in Pins : t[p].level /\ ~ t[p].masked /\ t[p].acnt > 0
                     => t[p].remirr \/ p \in S \/ Writing(p)'

\* An end of interrupt that a pin waits for stays on its way.
EndsKept(t) ==
    \A v \in Vcpus, p \in Pins :
      t[p].remirr /\ pc[v] = "eoi" /\ arg[v] = t[p].vec
        => pc'[v] = "eoi" /\ arg'[v] = arg[v]

\* The destination fields select vcpus.
LEMMA DestIs ==
    ASSUME TypeOK, NEW p \in Pins
    PROVE  /\ rtbl[p].dest \subseteq Vcpus
           /\ {} \notin Dests => rtbl[p].dest # {}
  <1>1. rtbl[p].dest \in Dests \union {{0}}
    BY DEF TypeOK
  <1> QED
    BY <1>1, DestsAssumption, VcpusAssumption, Zenon

\* Only pins that are not being written are sent as level-triggered ones.
LEMMA SendsForwarded ==
    ASSUME IInv, NEW t, NEW S \in SUBSET Pins, Sends(t, S), Derives(t), MaskFirst,
           NEW p \in Pins, ~ rtbl[p].remirr, rtbl'[p].remirr
    PROVE  \A v \in rtbl[p].dest : rtbl[p].vec \in tmr[v]
  <1>1. ~ t[p].masked /\ rtbl[p].level
    BY DEF Sends, Derives, SameRoute
  <1>2. ~ Writing(p)
    BY <1>1 DEF IInv, EntryInv, Derives
  <1>3. rtbl[p].dest \subseteq Vcpus
    BY DestIs DEF IInv
  <1> QED
    BY <1>1, <1>2, <1>3 DEF IInv, RouteInv, Forwards

\* Such a step keeps the invariant.
LEMMA SendKeeps ==
    ASSUME IInv, NEW t, NEW S \in SUBSET Pins, Sends(t, S), Derives(t),
           Covers(t, S), EndsKept(t), Proceeds,
           UNCHANGED <<isr, isrvec_stk, tmr, tpr, entry, owner, waiting>>
    PROVE  IInv'
  <1>1. SameRoute(rtbl', rtbl)
    BY DEF Sends, Derives, SameRoute
  <1>2. RdvInv' /\ TmrInv' /\ RouteInv'
    BY <1>1, RoutesKept
  <1>3. TypeOK' /\ arg' \in [Vcpus -> Pins \union Vectors \union {0}]
    BY DEF IInv, TypeOK, Sends, Tables, Proceeds
  <1>4. StackInv'
    BY DEF IInv, StackInv
  <1>5. EntryInv'
    <2> SUFFICES ASSUME NEW p \in Pins
                 PROVE  /\ rtbl'[p].remirr => rtbl'[p].level
                        /\ rtbl'[p].level => rtbl'[p].vec \in IoVectors
                        /\ MaskFirst /\ Writing(p)' => rtbl'[p].masked /\ ~ rtbl'[p].remirr
      BY DEF EntryInv
    <2>1. /\ rtbl[p].remirr => rtbl[p].level
          /\ rtbl[p].level => rtbl[p].vec \in IoVectors
          /\ MaskFirst /\ Writing(p) => rtbl[p].masked /\ ~ rtbl[p].remirr
      BY DEF IInv, EntryInv
    <2>2. Writing(p)' => Writing(p)
      BY WritingIs
    <2> QED
      BY <2>1, <2>2 DEF Sends, Derives, SameRoute
  <1>6. NoLostLevel'
    <2>1. \A p \in Pins : rtbl'[p].level /\ ~ rtbl'[p].masked /\ rtbl'[p].acnt > 0
                          => rtbl'[p].remirr \/ Writing(p)'
      BY DEF Covers, Sends, SameRoute
    <2> QED
      BY <2>1 DEF NoLostLevel, Writing
  <1>7. ASSUME MaskFirst, {} \notin Dests PROVE RemoteIrr'
    <2> SUFFICES ASSUME NEW p \in Pins, rtbl'[p].remirr
                 PROVE  \E v \in rtbl[p].dest :
                          \/ rtbl[p].vec \in irr'[v] \union isr[v]
                          \/ pc'[v] = "eoi" /\ arg'[v] = rtbl[p].vec
      BY <1>1 DEF RemoteIrr, SameRoute
    <2>1. rtbl[p].dest \subseteq Vcpus /\ rtbl[p].dest # {}
      BY <1>7, DestIs DEF IInv
    <2>2. t[p].vec = rtbl[p].vec /\ t[p].dest = rtbl[p].dest
      BY DEF Derives, SameRoute
    <2>3. CASE t[p].remirr
      <3>1. rtbl[p].remirr /\ RemoteIrr
        BY <1>7, <2>3 DEF Derives, IInv
      <3>2. PICK v \in rtbl[p].dest :
                  \/ rtbl[p].vec \in irr[v] \union isr[v]
                  \/ pc[v] = "eoi" /\ arg[v] = rtbl[p].vec
        BY <3>1 DEF RemoteIrr
      <3> QED
        BY <2>1, <2>2, <2>3, <3>2 DEF Sends, EndsKept
    <2>4. CASE ~ t[p].remirr
      <3>1. p \in S /\ ~ t[p].masked /\ t[p].level /\ rtbl[p].level
        BY <2>4 DEF Sends, Derives, SameRoute
      <3>2. rtbl[p].vec \in IoVectors
        BY <3>1 DEF IInv, EntryInv
      <3>a. \A x \in IoVectors : x >= 16
        BY IoVectorsAssumption
      <3>3. rtbl[p].vec >= 16
        BY <3>2, <3>a, Zenon
      <3> QED
        BY <2>1, <2>2, <3>1, <3>3 DEF Sends
    <2> QED
      BY <2>3, <2>4
  <1> QED
    BY <1>2, <1>3, <1>4, <1>5, <1>6, <1>7 DEF IInv

\* A step that changes neither the table nor the trigger-mode registers, and
\* begins and ends no write.
LEMMA QuietKeeps ==
    ASSUME IInv, Proceeds, \A p \in Pins : Writing(p) => Writing(p)',
           UNCHANGED <<rtbl, tmr, owner, waiting>>
    PROVE  RdvInv' /\ TmrInv' /\ RouteInv' /\ EntryInv' /\ NoLostLevel'
  <1>1. SameRoute(rtbl', rtbl)
    BY DEF SameRoute
  <1>2. RdvInv' /\ TmrInv' /\ RouteInv'
    BY <1>1, RoutesKept
  <1>3. \A p \in Pins : Writing(p)' => Writing(p)
    BY WritingIs
  <1>4. EntryInv'
    BY <1>3 DEF IInv, EntryInv
  <1>5. NoLostLevel <=> \A p \in Pins :
                          rtbl[p].level /\ ~ rtbl[p].masked /\ rtbl[p].acnt > 0
                            => rtbl[p].remirr \/ Writing(p)
    BY DEF NoLostLevel, Writing
  <1>6. NoLostLevel' <=> \A p \in Pins :
                          rtbl'[p].level /\ ~ rtbl'[p].masked /\ rtbl'[p].acnt > 0
                            => rtbl'[p].remirr \/ Writing(p)'
    BY DEF NoLostLevel, Writing
  <1>7. NoLostLevel'
    BY <1>5, <1>6 DEF IInv
  <1> QED
    BY <1>2, <1>4, <1>7

-----------------------------------------------------------------------------
(***************************************************************************)
(* The steps, one by one.                                                  *)
(***************************************************************************)

\* Initially nothing is requested, and every pin is masked.
LEMMA InitInv == Init => IInv
  <1> SUFFICES ASSUME Init PROVE IInv
    OBVIOUS
  <1> USE VcpusAssumption, TprsAssumption, SharersAssumption DEF Init
  <1>1. TypeOK
    BY DEF TypeOK, Pcs, NoCpu
  <1>2. arg \in [Vcpus -> Pins \union Vectors \union {0}]
    OBVIOUS
  <1>3. StackInv
    BY DEF StackInv, Stacked
  <1>4. RdvInv /\ (\A p \in Pins : ~ Writing(p)) /\ NoLostLevel /\ RemoteIrr
    BY DEF RdvInv, Writing, NoLostLevel, RemoteIrr
  <1>5. TmrInv
    BY DEF TmrInv, LevelVectors
  <1>6. RouteInv /\ EntryInv
    BY <1>4 DEF RouteInv, EntryInv, Forwards
  <1> QED
    BY <1>1, <1>2, <1>3, <1>4, <1>5, <1>6 DEF IInv

\* pc and arg stay, or one vcpu moves on that writes no entry.
LEMMA Moves ==
    ASSUME IInv, NEW v \in Vcpus, pc[v] \notin {"smp", "rdv"},
           NEW l \in Pcs \ {"smp", "rdv"}, pc' = [pc EXCEPT ![v] = l],
           NEW a \in Pins \union Vectors \union {0}, arg' = [arg EXCEPT ![v] = a]
    PROVE  Proceeds /\ \A p \in Pins : Writing(p) => Writing(p)'
  BY DEF IInv, TypeOK, Proceeds, Writing

\* The first assertion of a pin is sent, and a pin that stays asserted needs
\* no more.
LEMMA PinInv ==
    ASSUME IInv, NEW p \in Pins, Device(p)
    PROVE  /\ IInv'
           /\ \E t \in Tables, S \in SUBSET Pins : Sends(t, S) /\ Derives(t)
  <1>1. rtbl \in Tables /\ TypeOK /\ rtbl[p].acnt \in 0 .. Sharers
    BY DEF IInv, TypeOK, Tables
  <1>2. UNCHANGED <<isr, isrvec_stk, tmr, tpr, pc, arg, entry, owner, waiting>>
    BY Zenon DEF Device, vioapic_assert_irq, vioapic_deassert_irq, vioapic_pulse_irq, rdv
  <1>3. Proceeds
    BY <1>2 DEF Proceeds, IInv, TypeOK
  <1>4. \A q \in Pins : rtbl[q].level /\ ~ rtbl[q].masked /\ rtbl[q].acnt > 0
                         => rtbl[q].remirr \/ Writing(q)
    BY DEF IInv, NoLostLevel, Writing
  <1>5. \A q \in Pins : Writing(q)' <=> Writing(q)
    BY <1>2 DEF Writing
  <1>6. PICK n \in 0 .. Sharers, S \in SUBSET {p} :
            /\ vioapic_send_intr([rtbl EXCEPT ![p].acnt = n], S)
            /\ n > 0 /\ rtbl[p].acnt = 0 => p \in S
    <2> DEFINE cnt == rtbl[p].acnt
    <2>1. CASE vioapic_assert_irq(p)
      <3> DEFINE m == cnt + 1
                 R == IF cnt = 0 /\ m = 1 THEN {p} ELSE {}
      <3>1. m \in 0 .. Sharers /\ vioapic_send_intr([rtbl EXCEPT ![p].acnt = m], R)
        BY <1>1, <2>1, SharersAssumption DEF vioapic_assert_irq, vioapic_set_pinstate
      <3>2. R \in SUBSET {p} /\ (m > 0 /\ cnt = 0 => p \in R)
        BY <1>1
      <3> HIDE DEF m, R
      <3> QED
        BY <3>1, <3>2
    <2>2. CASE vioapic_deassert_irq(p)
      <3> DEFINE m == cnt - 1
                 R == IF cnt = 0 /\ m = 1 THEN {p} ELSE {}
      <3>1. m \in 0 .. Sharers /\ vioapic_send_intr([rtbl EXCEPT ![p].acnt = m], R)
        BY <1>1, <2>2, SharersAssumption DEF vioapic_deassert_irq, vioapic_set_pinstate
      <3>2. R \in SUBSET {p} /\ (m > 0 /\ cnt = 0 => p \in R)
        BY <1>1, <2>2 DEF vioapic_deassert_irq
      <3> HIDE DEF m, R
      <3> QED
        BY <3>1, <3>2
    <2>3. CASE vioapic_pulse_irq(p)
      <3> DEFINE R == IF cnt = 0 THEN {p} ELSE {}
      <3>1. vioapic_send_intr(rtbl, R)
        BY <2>3 DEF vioapic_pulse_irq
      <3>2. rtbl = [rtbl EXCEPT ![p].acnt = cnt]
        BY <1>1 DEF Tables
      <3>3. R \in SUBSET {p} /\ (cnt > 0 /\ cnt = 0 => p \in R)
        BY <1>1
      <3> HIDE DEF R
      <3> QED
        BY <1>1, <3>1, <3>2, <3>3, Zenon
    <2> QED
      BY <2>1, <2>2, <2>3, Zenon DEF Device
  <1> DEFINE t == [rtbl EXCEPT ![p].acnt = n]
  <1>7. t \in Tables /\ S \in SUBSET Pins
    BY <1>1 DEF Tables
  <1>8. SameRoute(t, rtbl)
    BY <1>1 DEF Tables, SameRoute
  <1>9. \A q \in Pins : /\ t[q].remirr <=> rtbl[q].remirr
                        /\ t[q].masked <=> rtbl[q].masked
                        /\ t[q].acnt = IF q = p THEN n ELSE rtbl[q].acnt
    BY <1>1 DEF Tables
  <1>10. Sends(t, S)
    BY <1>1, <1>6, <1>7, SendIs
  <1> HIDE DEF t
  <1>11. Derives(t)
    BY <1>8, <1>9 DEF Derives
  <1>12. Covers(t, S)
    BY <1>1, <1>4, <1>5, <1>6, <1>8, <1>9 DEF Covers, SameRoute
  <1>13. EndsKept(t)
    BY <1>2 DEF EndsKept
  <1>14. IInv'
    BY <1>2, <1>3, <1>7, <1>10, <1>11, <1>12, <1>13, SendKeeps
  <1> QED
    BY <1>7, <1>10, <1>11, <1>14

\* The interrupts that pins wait for stay requested, in service or ended.
LEMMA RemoteKeeps ==
    ASSUME RemoteIrr, UNCHANGED rtbl, TypeOK,
           \A p \in Pins, v \in Vcpus :
             LET x == rtbl[p].vec
             IN  rtbl[p].remirr /\ v \in rtbl[p].dest
                   => (x \in irr[v] \union isr[v] \/ (pc[v] = "eoi" /\ arg[v] = x)
                       => x \in irr'[v] \union isr'[v] \/ (pc'[v] = "eoi" /\ arg'[v] = x))
    PROVE  RemoteIrr'
  <1> SUFFICES ASSUME NEW p \in Pins, rtbl[p].remirr
               PROVE  \E v \in rtbl[p].dest :
                        \/ rtbl[p].vec \in irr'[v] \union isr'[v]
                        \/ pc'[v] = "eoi" /\ arg'[v] = rtbl[p].vec
    BY DEF RemoteIrr
  <1>1. PICK v \in rtbl[p].dest :
              \/ rtbl[p].vec \in irr[v] \union isr[v]
              \/ pc[v] = "eoi" /\ arg[v] = rtbl[p].vec
    BY DEF RemoteIrr
  <1>2. v \in Vcpus
    BY DestIs
  <1> QED
    BY <1>1, <1>2

\* A vector is accepted only if its priority exceeds the stack's.
LEMMA InjectInv ==
    ASSUME IInv, NEW v \in Vcpus, vmx_inject_interrupts(v)
    PROVE  IInv'
  <1>1. /\ pc[v] = "run" /\ pc' = [pc EXCEPT ![v] = "chk"]
        /\ UNCHANGED <<rtbl, tmr, tpr, arg, owner, waiting>>
    BY DEF vmx_inject_interrupts, Goto, rdv
  <1>2. arg' = [arg EXCEPT ![v] = arg[v]] /\ arg[v] \in Pins \union Vectors \union {0}
    BY <1>1 DEF IInv
  <1>3. Proceeds /\ \A p \in Pins : Writing(p) => Writing(p)'
    BY <1>1, <1>2, Moves, Zenon DEF Pcs
  <1>4. RdvInv' /\ TmrInv' /\ RouteInv' /\ EntryInv' /\ NoLostLevel'
    BY <1>1, <1>3, QuietKeeps
  <1>5. CASE UNCHANGED <<irr, isr, isrvec_stk, entry>>
    <2>1. TypeOK' /\ arg' \in [Vcpus -> Pins \union Vectors \union {0}]
      BY <1>1, <1>3, <1>5 DEF IInv, TypeOK, Proceeds
    <2>2. StackInv'
      BY <1>5 DEF IInv, StackInv
    <2>3. MaskFirst /\ {} \notin Dests => RemoteIrr'
      BY <1>1, <1>5, RemoteKeeps DEF IInv, TypeOK
    <2> QED
      BY <1>4, <2>1, <2>2, <2>3 DEF IInv
  <1>6. CASE /\ \E x \in vlapic_pending_intr(v) : vlapic_intr_accepted(v, x)
             /\ entry' = [entry EXCEPT ![v] = TRUE]
    <2>1. PICK x \in vlapic_pending_intr(v) : vlapic_intr_accepted(v, x)
      BY <1>6
    <2>2. /\ irr' = [irr EXCEPT ![v] = @ \ {x}]
          /\ isr' = [isr EXCEPT ![v] = @ \union {x}]
          /\ isrvec_stk' = [isrvec_stk EXCEPT ![v] = Append(@, x)]
          /\ x \in irr[v] /\ PRIO(x) > ppr(v)
      BY <2>1 DEF vlapic_intr_accepted, vlapic_pending_intr
    <2>3. /\ irr \in [Vcpus -> SUBSET Vectors] /\ isr \in [Vcpus -> SUBSET Vectors]
          /\ tpr[v] \in 0 .. 255
      BY TprsAssumption, Zenon DEF IInv, TypeOK
    <2>4. x \in Vectors /\ PRIO(x) \in Nat
      BY <2>2, <2>3, PrioFacts
    <2>5. Stacked(isrvec_stk[v], isr[v]) /\ isrvec_stk \in [Vcpus -> Seq(Vectors)]
      BY DEF IInv, StackInv
    <2>6. Len(isrvec_stk[v]) > 0 => PRIO(x) > PRIO(isrvec_stk[v][Len(isrvec_stk[v])])
      <3> DEFINE n == Len(isrvec_stk[v])
                 y == isrvec_stk[v][n]
      <3>1. SUFFICES ASSUME n > 0 PROVE PRIO(x) > PRIO(y)
        OBVIOUS
      <3>2. n \in Nat /\ y \in Vectors
        BY <2>5, <3>1
      <3>3. ppr(v) = IF PRIO(tpr[v]) >= PRIO(y) THEN PRIO(tpr[v]) ELSE PRIO(y)
        BY <3>1 DEF ppr
      <3> HIDE DEF y
      <3>4. PRIO(y) \in Nat
        BY <3>2, PrioFacts
      <3>5. PRIO(tpr[v]) \in Nat
        BY <2>3 DEF PRIO
      <3> QED
        BY <2>2, <2>4, <3>3, <3>4, <3>5
    <2>7. Stacked(Append(isrvec_stk[v], x), isr[v] \union {x})
      BY <2>4, <2>5, <2>6, StackPush
    <2>8. isrvec_stk' \in [Vcpus -> Seq(Vectors)]
      BY <2>2, <2>4, <2>5
    <2>9. StackInv'
      <3> SUFFICES ASSUME NEW w \in Vcpus PROVE Stacked(isrvec_stk'[w], isr'[w])
        BY <2>8 DEF StackInv
      <3>1. CASE w = v
        BY <2>2, <2>3, <2>5, <2>7, <3>1
      <3>2. CASE w # v
        <4>1. isrvec_stk'[w] = isrvec_stk[w] /\ isr'[w] = isr[w]
          BY <2>2, <2>3, <2>5, <3>2
        <4> QED
          BY <4>1 DEF IInv, StackInv
      <3> QED
        BY <3>1, <3>2
    <2>10. TypeOK' /\ arg' \in [Vcpus -> Pins \union Vectors \union {0}]
      <3>1. irr' \in [Vcpus -> SUBSET Vectors] /\ isr' \in [Vcpus -> SUBSET Vectors]
        BY <2>2, <2>3, <2>4
      <3>2. entry' \in [Vcpus -> BOOLEAN]
        BY <1>6, Zenon DEF IInv, TypeOK
      <3> QED
        BY <1>1, <1>3, <2>8, <3>1, <3>2 DEF IInv, TypeOK, Proceeds
    <2>11. \A w \in Vcpus : irr[w] \union isr[w] = irr'[w] \union isr'[w]
      BY <2>2, <2>3
    <2>12. \A w \in Vcpus : pc[w] = "eoi" => pc'[w] = "eoi"
      BY <1>1 DEF IInv, TypeOK
    <2>13. MaskFirst /\ {} \notin Dests => RemoteIrr'
      BY <1>1, <2>11, <2>12, RemoteKeeps DEF IInv
    <2> QED
      BY <1>4, <2>9, <2>10, <2>13 DEF IInv
  <1> QED
    BY <1>5, <1>6 DEF vmx_inject_interrupts

\* The vector that ends is the top of the stack; if pins wait for its end it
\* is level-triggered, and its end is passed on.
LEMMA EoiInv ==
    ASSUME IInv, NEW v \in Vcpus, vlapic_process_eoi(v)
    PROVE  IInv'
  <1> DEFINE x == CHOOSE y \in isr[v] : \A z \in isr[v] : z <= y
  <1>1. /\ pc[v] = "guest" /\ isr[v] # {}
        /\ isr' = [isr EXCEPT ![v] = @ \ {x}]
        /\ isrvec_stk' = [isrvec_stk EXCEPT ![v] = SubSeq(@, 1, Len(@) - 1)]
        /\ IF x \in tmr[v]
           THEN arg' = [arg EXCEPT ![v] = x] /\ pc' = [pc EXCEPT ![v] = "eoi"]
           ELSE UNCHANGED arg /\ pc' = [pc EXCEPT ![v] = "run"]
        /\ UNCHANGED <<rtbl, irr, tmr, tpr, entry, owner, waiting>>
    BY DEF vlapic_process_eoi, Goto, rdv
  <1>2. Stacked(isrvec_stk[v], isr[v]) /\ isrvec_stk \in [Vcpus -> Seq(Vectors)]
    BY DEF IInv, StackInv
  <1>3. x \in isr[v] /\ Stacked(SubSeq(isrvec_stk[v], 1, Len(isrvec_stk[v]) - 1), isr[v] \ {x})
    BY <1>1, <1>2, StackPop, Zenon
  <1> HIDE DEF x
  <1>4. isr \in [Vcpus -> SUBSET Vectors] /\ x \in Vectors
    BY <1>3 DEF IInv, TypeOK
  <1>5. /\ \E l \in Pcs \ {"smp", "rdv"} : pc' = [pc EXCEPT ![v] = l]
        /\ \E a \in Pins \union Vectors \union {0} : arg' = [arg EXCEPT ![v] = a]
    <2>1. arg = [arg EXCEPT ![v] = arg[v]] /\ arg[v] \in Pins \union Vectors \union {0}
      BY DEF IInv
    <2> QED
      BY <1>1, <1>4, <2>1 DEF Pcs
  <1>6. Proceeds /\ \A p \in Pins : Writing(p) => Writing(p)'
    BY <1>1, <1>5, Moves, ZenonT(30)
  <1>7. RdvInv' /\ TmrInv' /\ RouteInv' /\ EntryInv' /\ NoLostLevel'
    BY <1>1, <1>6, QuietKeeps
  <1>8. isrvec_stk' \in [Vcpus -> Seq(Vectors)]
    BY <1>1, <1>2, <1>3 DEF Stacked
  <1>9. StackInv'
    <2> SUFFICES ASSUME NEW w \in Vcpus PROVE Stacked(isrvec_stk'[w], isr'[w])
      BY <1>8 DEF StackInv
    <2>1. CASE w = v
      BY <1>1, <1>2, <1>3, <1>4, <2>1
    <2>2. CASE w # v
      <3>1. isrvec_stk'[w] = isrvec_stk[w] /\ isr'[w] = isr[w]
        BY <1>1, <1>2, <1>4, <2>2
      <3> QED
        BY <3>1 DEF IInv, StackInv
    <2> QED
      BY <2>1, <2>2
  <1>10. TypeOK' /\ arg' \in [Vcpus -> Pins \union Vectors \union {0}]
    <2>1. isr' \in [Vcpus -> SUBSET Vectors]
      BY <1>1, <1>4
    <2> QED
      BY <1>1, <1>6, <1>8, <2>1 DEF IInv, TypeOK, Proceeds
  <1>11. ASSUME MaskFirst, {} \notin Dests PROVE RemoteIrr'
    <2>1. \A p \in Pins : rtbl[p].remirr /\ v \in rtbl[p].dest => rtbl[p].vec \in tmr[v]
      <3> SUFFICES ASSUME NEW p \in Pins, rtbl[p].remirr, v \in rtbl[p].dest
                   PROVE  rtbl[p].vec \in tmr[v]
        OBVIOUS
      <3>1. rtbl[p].level /\ ~ Writing(p)
        BY <1>11 DEF IInv, EntryInv
      <3> QED
        BY <3>1 DEF IInv, RouteInv, Forwards
    <2>2. \A w \in Vcpus \ {v} : irr'[w] = irr[w] /\ isr'[w] = isr[w]
                                 /\ pc'[w] = pc[w] /\ arg'[w] = arg[w]
      BY <1>1, <1>4 DEF IInv, TypeOK
    <2>3. isr'[v] = isr[v] \ {x} /\ (x \in tmr[v] => pc'[v] = "eoi" /\ arg'[v] = x)
      BY <1>1, <1>4 DEF IInv, TypeOK
    <2>4. RemoteIrr /\ TypeOK /\ pc[v] # "eoi" /\ irr'[v] = irr[v]
      BY <1>1, <1>11 DEF IInv
    <2>5. ASSUME NEW p \in Pins, NEW w \in Vcpus, rtbl[p].remirr, w \in rtbl[p].dest,
                 \/ rtbl[p].vec \in irr[w] \union isr[w]
                 \/ pc[w] = "eoi" /\ arg[w] = rtbl[p].vec
          PROVE  \/ rtbl[p].vec \in irr'[w] \union isr'[w]
                 \/ pc'[w] = "eoi" /\ arg'[w] = rtbl[p].vec
      <3>1. CASE w # v
        BY <2>2, <2>5, <3>1
      <3>2. CASE w = v
        BY <2>1, <2>3, <2>4, <2>5, <3>2
      <3> QED
        BY <3>1, <3>2
    <2> QED
      BY <1>1, <2>4, <2>5, RemoteKeeps
  <1> QED
    BY <1>7, <1>9, <1>10, <1>11 DEF IInv

\* The steps that touch neither the table nor the local APICs' vectors.
LEMMA PlainInv ==
    ASSUME IInv, NEW v \in Vcpus,
           \/ vmx_run(v)
           \/ vmx_exit(v)
           \/ vlapic_set_tpr(v)
           \/ RendezvousReturn(v) /\ pc[v] = "bar"
    PROVE  IInv'
  <1>1. /\ pc[v] \in {"chk", "guest", "bar"}
        /\ \E l \in Pcs \ {"smp", "rdv"} : pc' = [pc EXCEPT ![v] = l]
        /\ \E a \in Pins \union Vectors \union {0} : arg' = [arg EXCEPT ![v] = a]
        /\ UNCHANGED <<rtbl, irr, isr, isrvec_stk, tmr, owner, waiting>>
    <2>1. arg = [arg EXCEPT ![v] = arg[v]] /\ arg[v] \in Pins \union Vectors \union {0}
      BY DEF IInv
    <2>2. CASE vmx_run(v)
      BY <2>1, <2>2 DEF vmx_run, Goto, rdv, lapic, Pcs
    <2>3. CASE vmx_exit(v)
      BY <2>1, <2>3, Zenon DEF vmx_exit, Goto, rdv, lapic, Pcs
    <2>4. CASE vlapic_set_tpr(v)
      BY <2>1, <2>4, Zenon DEF vlapic_set_tpr, Goto, rdv, Pcs
    <2>5. CASE RendezvousReturn(v) /\ pc[v] = "bar"
      BY <2>5, Zenon DEF RendezvousReturn, Goto, rdv, Pcs
    <2> QED
      BY <2>2, <2>3, <2>4, <2>5
  <1>2. Proceeds /\ \A p \in Pins : Writing(p) => Writing(p)'
    BY <1>1, Moves, Zenon
  <1>3. RdvInv' /\ TmrInv' /\ RouteInv' /\ EntryInv' /\ NoLostLevel'
    BY <1>1, <1>2, QuietKeeps
  <1>4. StackInv'
    BY <1>1 DEF IInv, StackInv
  <1>5. tpr' \in [Vcpus -> Tprs]
    BY DEF IInv, TypeOK, vmx_run, vmx_exit, vlapic_set_tpr, RendezvousReturn, lapic
  <1>6. entry' \in [Vcpus -> BOOLEAN]
    <2>1. entry' = entry \/ entry' = [entry EXCEPT ![v] = FALSE]
      BY DEF vmx_run, vmx_exit, vlapic_set_tpr, RendezvousReturn
    <2>2. entry \in [Vcpus -> BOOLEAN]
      BY DEF IInv, TypeOK
    <2> QED
      BY <2>1, <2>2, Zenon
  <1>7. TypeOK' /\ arg' \in [Vcpus -> Pins \union Vectors \union {0}]
    BY <1>1, <1>2, <1>5, <1>6 DEF IInv, TypeOK, Proceeds
  <1>8. \A w \in Vcpus : pc[w] = "eoi" => pc'[w] = "eoi" /\ arg'[w] = arg[w]
    BY <1>1 DEF IInv, TypeOK
  <1>9. MaskFirst /\ {} \notin Dests => RemoteIrr'
    BY <1>1, <1>8, RemoteKeeps DEF IInv
  <1> QED
    BY <1>3, <1>4, <1>7, <1>9 DEF IInv

\* An MSI or an interrupt from another vcpu, or nothing.
LEMMA MsiInv ==
    ASSUME IInv, \/ \E d \in Dests, x \in MsiVectors : lapic_intr_msi(d, x)
                 \/ UNCHANGED vars
    PROVE  IInv'
  <1>1. /\ UNCHANGED <<rtbl, isr, isrvec_stk, tmr, tpr, pc, arg, entry, owner, waiting>>
        /\ irr' \in [Vcpus -> SUBSET Vectors]
        /\ \A v \in Vcpus : irr[v] \subseteq irr'[v]
    <2>1. CASE UNCHANGED vars
      BY <2>1 DEF vars, lapic, rdv, IInv, TypeOK
    <2>2. ASSUME NEW d \in Dests, NEW x \in MsiVectors, lapic_intr_msi(d, x)
          PROVE  <1>1!2 /\ <1>1!3
      <3>1. irr' = [v \in Vcpus |-> irr[v] \union
                     {r[2] : r \in {q \in {<<d, x>>} : v \in q[1] /\ q[2] >= 16}}]
        BY <2>2 DEF lapic_intr_msi, vlapic_deliver_intr
      <3>2. x \in Vectors /\ irr \in [Vcpus -> SUBSET Vectors]
        BY DEF Vectors, IInv, TypeOK
      <3> QED
        BY <3>1, <3>2
    <2>3. ASSUME NEW d \in Dests, NEW x \in MsiVectors, lapic_intr_msi(d, x)
          PROVE  <1>1!1
      BY <2>3 DEF lapic_intr_msi, rdv
    <2> QED
      BY <2>1, <2>2, <2>3, ZenonT(30)
  <1>2. Proceeds /\ \A p \in Pins : Writing(p) => Writing(p)'
    BY <1>1 DEF Proceeds, Writing, IInv, TypeOK
  <1>3. RdvInv' /\ TmrInv' /\ RouteInv' /\ EntryInv' /\ NoLostLevel'
    BY <1>1, <1>2, QuietKeeps
  <1>4. StackInv'
    BY <1>1 DEF IInv, StackInv
  <1>5. TypeOK' /\ arg' \in [Vcpus -> Pins \union Vectors \union {0}]
    BY <1>1 DEF IInv, TypeOK
  <1>6. MaskFirst /\ {} \notin Dests => RemoteIrr'
    BY <1>1, RemoteKeeps DEF IInv
  <1> QED
    BY <1>3, <1>4, <1>5, <1>6 DEF IInv

\* The end of interrupt reaches the pins that wait for it.
LEMMA ProcessEoiInv ==
    ASSUME IInv, NEW v \in Vcpus, vioapic_process_eoi(v)
    PROVE  /\ IInv'
           /\ \E t \in Tables, S \in SUBSET Pins : Sends(t, S) /\ Derives(t)
  <1> DEFINE ended == {p \in Pins : rtbl[p].remirr /\ rtbl[p].vec = arg[v]}
             t == [p \in Pins |-> IF p \in ended
                                  THEN [rtbl[p] EXCEPT !.remirr = FALSE]
                                  ELSE rtbl[p]]
             S == {p \in ended : rtbl[p].acnt > 0}
  <1>1. /\ pc[v] = "eoi" /\ vioapic_send_intr(t, S)
        /\ arg' = [arg EXCEPT ![v] = 0] /\ pc' = [pc EXCEPT ![v] = "run"]
        /\ UNCHANGED <<isr, isrvec_stk, tmr, tpr, entry, owner, waiting>>
    BY DEF vioapic_process_eoi, Goto, rdv
  <1>2. rtbl \in Tables /\ TypeOK
    BY DEF IInv, TypeOK, Tables
  <1>3. t \in Tables /\ S \in SUBSET Pins /\ SameRoute(t, rtbl)
    <2>1. t \in Tables
      BY <1>2, ZenonT(30) DEF Tables
    <2>2. S \in SUBSET Pins
      OBVIOUS
    <2>3. SameRoute(t, rtbl)
      BY <1>2, ZenonT(30) DEF Tables, SameRoute
    <2> QED
      BY <2>1, <2>2, <2>3
  <1>4. \A p \in Pins : /\ t[p].masked <=> rtbl[p].masked
                        /\ t[p].acnt = rtbl[p].acnt
                        /\ t[p].remirr <=> rtbl[p].remirr /\ rtbl[p].vec # arg[v]
                        /\ p \in S <=> /\ rtbl[p].remirr /\ rtbl[p].vec = arg[v]
                                       /\ rtbl[p].acnt > 0
    BY <1>2 DEF Tables
  <1>5. Sends(t, S)
    BY <1>1, <1>2, <1>3, SendIs
  <1> HIDE DEF t, S
  <1>6. Proceeds /\ \A p \in Pins : Writing(p) => Writing(p)'
    BY <1>1, Moves, ZenonT(30) DEF Pcs
  <1>7. Derives(t)
    BY <1>3, <1>4 DEF Derives
  <1>8. Covers(t, S)
    <2>1. \A q \in Pins : rtbl[q].level /\ ~ rtbl[q].masked /\ rtbl[q].acnt > 0
                          => rtbl[q].remirr \/ Writing(q)
      BY DEF IInv, NoLostLevel, Writing
    <2> QED
      BY <1>3, <1>4, <1>6, <2>1 DEF Covers, SameRoute
  <1>9. EndsKept(t)
    <2>1. \A w \in Vcpus : w # v => pc'[w] = pc[w] /\ arg'[w] = arg[w]
      BY <1>1 DEF IInv, TypeOK
    <2>2. \A p \in Pins : t[p].remirr => t[p].vec # arg[v]
      BY <1>3, <1>4 DEF SameRoute
    <2> QED
      BY <2>1, <2>2 DEF EndsKept
  <1>10. IInv'
    BY <1>1, <1>3, <1>5, <1>6, <1>7, <1>8, <1>9, SendKeeps
  <1> QED
    BY <1>3, <1>5, <1>7, <1>10

\* The end of vioapic_write, for a write that only changes the mask, and for
\* one whose rendezvous is over.
LEMMA WriteEnds ==
    ASSUME IInv, NEW v \in Vcpus, NEW p \in Pins, NEW t \in Tables, Derives(t),
           vioapic_write_end(t, p), Proceeds,
           \A q \in Pins \ {p} : Writing(q) => Writing(q)',
           \A q \in Pins : /\ t[q].remirr <=> rtbl[q].remirr
                           /\ t[q].acnt = rtbl[q].acnt
                           /\ q # p => (t[q].masked <=> rtbl[q].masked),
           \A w \in Vcpus : pc[w] = "eoi" => pc'[w] = "eoi" /\ arg'[w] = arg[w],
           UNCHANGED <<isr, isrvec_stk, tmr, tpr, entry, owner, waiting>>
    PROVE  /\ IInv'
           /\ \E u \in Tables, S \in SUBSET Pins : Sends(u, S) /\ Derives(u)
  <1> DEFINE S == IF t[p].remirr \/ t[p].acnt = 0 THEN {} ELSE {p}
  <1>1. vioapic_send_intr(t, S) /\ S \in SUBSET Pins
    BY DEF vioapic_write_end
  <1>2. Sends(t, S)
    BY <1>1, SendIs, ZenonT(30) DEF IInv
  <1>3. t[p].acnt > 0 => t[p].remirr \/ p \in S
    BY DEF Tables
  <1> HIDE DEF S
  <1>4. Covers(t, S)
    <2>1. \A q \in Pins : rtbl[q].level /\ ~ rtbl[q].masked /\ rtbl[q].acnt > 0
                          => rtbl[q].remirr \/ Writing(q)
      BY Zenon DEF IInv, NoLostLevel, Writing
    <2> QED
      BY <1>3, <2>1, Zenon DEF Covers, Derives, SameRoute
  <1>5. EndsKept(t)
    BY DEF EndsKept
  <1>6. IInv'
    BY <1>1, <1>2, <1>4, <1>5, SendKeeps
  <1> QED
    BY <1>1, <1>2, <1>6

\* The end of a write that changed more than the mask.
LEMMA ReturnInv ==
    ASSUME IInv, NEW v \in Vcpus, RendezvousReturn(v), pc[v] = "rdv"
    PROVE  /\ IInv'
           /\ \E t \in Tables, S \in SUBSET Pins : Sends(t, S) /\ Derives(t)
  <1>1. /\ owner = NoCpu /\ vioapic_write_end(rtbl, arg[v])
        /\ arg' = [arg EXCEPT ![v] = 0] /\ pc' = [pc EXCEPT ![v] = "run"]
        /\ UNCHANGED <<isr, isrvec_stk, tmr, tpr, entry, owner, waiting>>
    BY DEF RendezvousReturn, Goto, rdv
  <1>2. arg[v] \in Pins
    BY DEF IInv, RdvInv
  <1>3. rtbl \in Tables /\ Derives(rtbl)
    BY DEF IInv, TypeOK, Tables, Derives, SameRoute
  <1>4. Proceeds
    BY <1>1 DEF Proceeds, IInv, TypeOK, Pcs
  <1>5. \A w \in Vcpus : w # v => pc'[w] = pc[w] /\ arg'[w] = arg[w]
    BY <1>1 DEF IInv, TypeOK
  <1>6. \A q \in Pins \ {arg[v]} : Writing(q) => Writing(q)'
    BY <1>5 DEF Writing
  <1> QED
    BY <1>1, <1>2, <1>3, <1>4, <1>5, <1>6, WriteEnds

\* A write of an entry: only the mask changes, or a rendezvous is due.
LEMMA WriteInv ==
    ASSUME IInv, NEW v \in Vcpus, vioapic_write(v)
    PROVE  /\ IInv'
           /\ \/ \E t \in Tables, S \in SUBSET Pins : Sends(t, S) /\ Derives(t)
              \/ \A p \in Pins : rtbl'[p].remirr => rtbl[p].remirr
  <1>1. rtbl \in Tables /\ TypeOK
    BY DEF IInv, TypeOK, Tables
  <1>2. PICK p \in Pins : \E new \in Written(rtbl[p]) :
          /\ GuestMayWrite(p, new)
          /\ IF new = [rtbl[p] EXCEPT !.masked = new.masked]
             THEN /\ vioapic_write_end([rtbl EXCEPT ![p] = new], p)
                  /\ Goto(v, "run")
                  /\ UNCHANGED arg
             ELSE /\ rtbl' = [rtbl EXCEPT ![p] = new]
                  /\ arg' = [arg EXCEPT ![v] = p]
                  /\ Goto(v, "smp")
                  /\ UNCHANGED irr
    BY Zenon DEF vioapic_write
  <1>3. PICK new \in Written(rtbl[p]) :
          /\ GuestMayWrite(p, new)
          /\ IF new = [rtbl[p] EXCEPT !.masked = new.masked]
             THEN /\ vioapic_write_end([rtbl EXCEPT ![p] = new], p)
                  /\ Goto(v, "run")
                  /\ UNCHANGED arg
             ELSE /\ rtbl' = [rtbl EXCEPT ![p] = new]
                  /\ arg' = [arg EXCEPT ![v] = p]
                  /\ Goto(v, "smp")
                  /\ UNCHANGED irr
    BY <1>2, Zenon
  <1>4. /\ pc[v] = "guest"
        /\ UNCHANGED <<isr, isrvec_stk, tmr, tpr, entry, owner, waiting>>
    BY DEF vioapic_write, rdv
  <1>5. ~ Writing(p)
    BY <1>3 DEF GuestMayWrite, Writing
  <1> DEFINE t == [rtbl EXCEPT ![p] = new]
  <1>6. /\ new \in [masked : BOOLEAN, level : BOOLEAN,
                    vec : IoVectors \union {0}, dest : Dests \union {{0}},
                    remirr : BOOLEAN, acnt : 0 .. Sharers]
        /\ new.remirr = rtbl[p].remirr /\ new.acnt = rtbl[p].acnt
        /\ new.vec \in IoVectors \/ (new.vec = rtbl[p].vec /\ new.level = rtbl[p].level)
    <2> DEFINE old == rtbl[p]
    <2>1. old \in [masked : BOOLEAN, level : BOOLEAN,
                   vec : IoVectors \union {0}, dest : Dests \union {{0}},
                   remirr : BOOLEAN, acnt : 0 .. Sharers]
      BY <1>1 DEF Tables
    <2>a. new \in Written(old)
      BY <1>3
    <2> HIDE DEF old
    <2>2. \/ \E w \in [masked : BOOLEAN, level : BOOLEAN, vec : IoVectors] :
               new = [old EXCEPT !.masked = w.masked, !.level = w.level, !.vec = w.vec]
          \/ \E d \in Dests : new = [old EXCEPT !.dest = d]
      BY <2>a, Zenon DEF Written
    <2>3. CASE \E w \in [masked : BOOLEAN, level : BOOLEAN, vec : IoVectors] :
                 new = [old EXCEPT !.masked = w.masked, !.level = w.level, !.vec = w.vec]
      <3>1. PICK w \in [masked : BOOLEAN, level : BOOLEAN, vec : IoVectors] :
                 new = [old EXCEPT !.masked = w.masked, !.level = w.level, !.vec = w.vec]
        BY <2>3, Zenon
      <3>2. /\ new.remirr = old.remirr /\ new.acnt = old.acnt /\ new.vec \in IoVectors
        BY <2>1, <3>1
      <3>3. new \in [masked : BOOLEAN, level : BOOLEAN,
                     vec : IoVectors \union {0}, dest : Dests \union {{0}},
                     remirr : BOOLEAN, acnt : 0 .. Sharers]
        BY <2>1, <3>1, Zenon
      <3> QED
        BY <3>2, <3>3 DEF old
    <2>4. CASE \E d \in Dests : new = [old EXCEPT !.dest = d]
      <3>1. PICK d \in Dests : new = [old EXCEPT !.dest = d]
        BY <2>4
      <3>2. /\ new.remirr = old.remirr /\ new.acnt = old.acnt
            /\ new.vec = old.vec /\ new.level = old.level
        BY <2>1, <3>1
      <3>3. new \in [masked : BOOLEAN, level : BOOLEAN,
                     vec : IoVectors \union {0}, dest : Dests \union {{0}},
                     remirr : BOOLEAN, acnt : 0 .. Sharers]
        BY <2>1, <3>1
      <3> QED
        BY <3>2, <3>3 DEF old
    <2> QED
      BY <2>2, <2>3, <2>4, Zenon
  <1>7. t \in Tables /\ t[p] = new /\ \A q \in Pins \ {p} : t[q] = rtbl[q]
    BY <1>1, <1>6 DEF Tables
  <1> HIDE DEF t
  <1>8. CASE new = [rtbl[p] EXCEPT !.masked = new.masked]
    <2>1. /\ vioapic_write_end(t, p) /\ pc' = [pc EXCEPT ![v] = "run"] /\ arg' = arg
      BY <1>3, <1>8 DEF Goto, t
    <2>2. arg' = [arg EXCEPT ![v] = arg[v]] /\ arg[v] \in Pins \union Vectors \union {0}
      BY <2>1 DEF IInv
    <2>3. Proceeds /\ \A q \in Pins : Writing(q) => Writing(q)'
      BY <1>4, <2>1, <2>2, Moves, Zenon DEF Pcs
    <2>4. new.level = rtbl[p].level /\ new.vec = rtbl[p].vec /\ new.dest = rtbl[p].dest
      BY <1>1, <1>8 DEF Tables
    <2>5. SameRoute(t, rtbl)
      BY <1>7, <2>4 DEF SameRoute
    <2>6. \A q \in Pins : /\ t[q].remirr <=> rtbl[q].remirr
                          /\ t[q].acnt = rtbl[q].acnt
                          /\ q # p => (t[q].masked <=> rtbl[q].masked)
      BY <1>6, <1>7
    <2>7. Derives(t)
      BY <1>5, <2>5, <2>6 DEF Derives
    <2>8. \A w \in Vcpus : pc[w] = "eoi" => pc'[w] = "eoi" /\ arg'[w] = arg[w]
      BY <1>4, <2>1 DEF IInv, TypeOK
    <2> QED
      BY <1>4, <1>7, <2>1, <2>3, <2>6, <2>7, <2>8, WriteEnds, Zenon
  <1>9. CASE new # [rtbl[p] EXCEPT !.masked = new.masked]
    <2>1. /\ rtbl' = t /\ arg' = [arg EXCEPT ![v] = p]
          /\ pc' = [pc EXCEPT ![v] = "smp"] /\ irr' = irr
      BY <1>3, <1>9 DEF Goto, t
    <2>2. ~ rtbl[p].remirr /\ (MaskFirst => new.masked)
      BY <1>3, <1>9 DEF GuestMayWrite
    <2>3. /\ pc'[v] = "smp" /\ arg'[v] = p
          /\ \A w \in Vcpus : w # v => pc'[w] = pc[w] /\ arg'[w] = arg[w]
      BY <2>1 DEF IInv, TypeOK
    <2>4. Writing(p)' /\ \A q \in Pins \ {p} : Writing(q)' <=> Writing(q)
      BY <1>4, <2>3 DEF Writing
    <2>5. RdvInv'
      BY <1>4, <2>3 DEF IInv, RdvInv, TypeOK
    <2>6. TmrInv'
      BY <2>3 DEF TmrInv
    <2>7. RouteInv'
      <3> SUFFICES ASSUME NEW q \in Pins, NEW u \in Vcpus
                   PROVE  /\ ~ Writing(q)' => Forwards(u, q)'
                          /\ (\E w \in Vcpus : pc'[w] = "rdv" /\ arg'[w] = q)
                                /\ u \notin waiting => Forwards(u, q)'
        BY <1>4 DEF RouteInv
      <3>1. CASE q = p
        <4>1. ~ \E w \in Vcpus : pc'[w] = "rdv" /\ arg'[w] = p
          BY <1>5, <2>3 DEF Writing
        <4> QED
          BY <2>4, <3>1, <4>1
      <3>2. CASE q # p
        <4>1. Forwards(u, q)' <=> Forwards(u, q)
          BY <1>4, <1>7, <2>1, <3>2 DEF Forwards
        <4>2. (\E w \in Vcpus : pc'[w] = "rdv" /\ arg'[w] = q)
                => \E w \in Vcpus : pc[w] = "rdv" /\ arg[w] = q
          BY <2>3, Zenon
        <4> QED
          BY <2>4, <3>2, <4>1, <4>2 DEF IInv, RouteInv
      <3> QED
        BY <3>1, <3>2, Zenon
    <2>8. EntryInv'
      <3> SUFFICES ASSUME NEW q \in Pins
                   PROVE  /\ t[q].remirr => t[q].level
                          /\ t[q].level => t[q].vec \in IoVectors
                          /\ MaskFirst /\ Writing(q)' => t[q].masked /\ ~ t[q].remirr
        BY <2>1 DEF EntryInv
      <3>1. CASE q = p
        BY <1>6, <1>7, <2>2, <3>1 DEF IInv, EntryInv
      <3>2. CASE q # p
        BY <1>7, <2>4, <3>2 DEF IInv, EntryInv
      <3> QED
        BY <3>1, <3>2
    <2>9. NoLostLevel'
      <3>1. \A q \in Pins : t[q].level /\ ~ t[q].masked /\ t[q].acnt > 0
                            => t[q].remirr \/ Writing(q)'
        <4>1. \A q \in Pins : rtbl[q].level /\ ~ rtbl[q].masked /\ rtbl[q].acnt > 0
                              => rtbl[q].remirr \/ Writing(q)
          BY DEF IInv, NoLostLevel, Writing
        <4> QED
          BY <1>7, <2>4, <4>1
      <3> QED
        BY <2>1, <3>1 DEF NoLostLevel, Writing
    <2>10. MaskFirst /\ {} \notin Dests => RemoteIrr'
      <3> SUFFICES ASSUME RemoteIrr PROVE RemoteIrr'
        BY DEF IInv
      <3>1. ASSUME NEW q \in Pins, t[q].remirr
            PROVE  \E w \in t[q].dest :
                     \/ t[q].vec \in irr[w] \union isr[w]
                     \/ pc'[w] = "eoi" /\ arg'[w] = t[q].vec
        <4>1. t[q] = rtbl[q] /\ rtbl[q].remirr /\ rtbl[q].dest \subseteq Vcpus
          BY <1>1, <1>6, <1>7, <2>2, <3>1, DestIs
        <4>2. PICK w \in rtbl[q].dest :
                    \/ rtbl[q].vec \in irr[w] \union isr[w]
                    \/ pc[w] = "eoi" /\ arg[w] = rtbl[q].vec
          BY <4>1 DEF RemoteIrr
        <4> QED
          BY <1>4, <2>3, <4>1, <4>2
      <3> QED
        BY <1>4, <2>1, <3>1 DEF RemoteIrr
    <2>11. StackInv'
      BY <1>4 DEF IInv, StackInv
    <2>12. pc' \in [Vcpus -> Pcs] /\ arg' \in [Vcpus -> Pins \union Vectors \union {0}]
      BY <2>1 DEF IInv, TypeOK, Pcs
    <2>13. TypeOK'
      BY <1>4, <1>7, <2>1, <2>12 DEF IInv, TypeOK, Tables
    <2>14. IInv'
      BY <2>5, <2>6, <2>7, <2>8, <2>9, <2>10, <2>11, <2>12, <2>13 DEF IInv
    <2> QED
      BY <1>6, <1>7, <2>1, <2>14
  <1> QED
    BY <1>8, <1>9

\* A rendezvous starts: every vcpu has to recompute its trigger modes.
LEMMA SmpInv ==
    ASSUME IInv, NEW v \in Vcpus, vm_smp_rendezvous(v)
    PROVE  IInv'
  <1>1. /\ pc[v] = "smp" /\ owner = NoCpu /\ owner' = v /\ waiting' = Vcpus
        /\ pc' = [pc EXCEPT ![v] = "rdv"]
        /\ UNCHANGED <<rtbl, irr, isr, isrvec_stk, tmr, tpr, arg, entry>>
    BY DEF vm_smp_rendezvous, Goto, lapic
  <1>2. pc'[v] = "rdv" /\ \A w \in Vcpus : w # v => pc'[w] = pc[w]
    BY <1>1 DEF IInv, TypeOK
  <1>3. \A p \in Pins : Writing(p)' <=> Writing(p)
    BY <1>1, <1>2 DEF Writing
  <1>4. RdvInv'
    BY <1>1, <1>2, VcpusAssumption DEF IInv, RdvInv, NoCpu
  <1>5. TmrInv'
    BY <1>1 DEF TmrInv
  <1>6. RouteInv'
    <2>1. \A p \in Pins, u \in Vcpus : Forwards(u, p)' <=> Forwards(u, p)
      BY <1>1 DEF Forwards
    <2> QED
      BY <1>1, <1>3, <2>1 DEF IInv, RouteInv
  <1>7. EntryInv'
    BY <1>1, <1>3 DEF IInv, EntryInv
  <1>8. NoLostLevel'
    <2>1. \A p \in Pins : rtbl[p].level /\ ~ rtbl[p].masked /\ rtbl[p].acnt > 0
                          => rtbl[p].remirr \/ Writing(p)
      BY DEF IInv, NoLostLevel, Writing
    <2>2. \A p \in Pins : rtbl'[p].level /\ ~ rtbl'[p].masked /\ rtbl'[p].acnt > 0
                          => rtbl'[p].remirr \/ Writing(p)'
      BY <1>1, <1>3, <2>1
    <2> QED
      BY <2>2 DEF NoLostLevel, Writing
  <1>9. StackInv'
    BY <1>1 DEF IInv, StackInv
  <1>10. TypeOK' /\ arg' \in [Vcpus -> Pins \union Vectors \union {0}]
    BY <1>1 DEF IInv, TypeOK, Pcs
  <1>11. \A w \in Vcpus : pc[w] = "eoi" => pc'[w] = "eoi" /\ arg'[w] = arg[w]
    BY <1>1, <1>2
  <1>12. MaskFirst /\ {} \notin Dests => RemoteIrr'
    BY <1>1, <1>11, RemoteKeeps DEF IInv
  <1> QED
    BY <1>4, <1>5, <1>6, <1>7, <1>8, <1>9, <1>10, <1>12 DEF IInv

\* A vcpu recomputes its trigger modes.
LEMMA HandleInv ==
    ASSUME IInv, NEW v \in Vcpus, vm_handle_rendezvous(v)
    PROVE  IInv'
  <1>1. /\ v \in waiting /\ waiting' = waiting \ {v}
        /\ owner' = IF waiting' = {} THEN NoCpu ELSE owner
        /\ tmr' = [tmr EXCEPT ![v] = LevelVectors(v)]
        /\ UNCHANGED <<rtbl, irr, isr, isrvec_stk, tpr, pc, arg, entry>>
    BY DEF vm_handle_rendezvous, vioapic_update_tmr
  <1>2. tmr \in [Vcpus -> SUBSET (IoVectors \union {0})]
    BY DEF IInv, TypeOK
  <1>3. /\ tmr'[v] = LevelVectors(v)
        /\ \A u \in Vcpus : u # v => tmr'[u] = tmr[u]
        /\ \A u \in Vcpus : LevelVectors(u)' = LevelVectors(u)
    BY <1>1, <1>2 DEF LevelVectors
  <1>4. \A p \in Pins : Writing(p)' <=> Writing(p)
    BY <1>1 DEF Writing
  <1>5. RdvInv'
    BY <1>1 DEF IInv, RdvInv
  <1>6. TmrInv'
    BY <1>1, <1>3 DEF IInv, TmrInv
  <1>7. RouteInv'
    <2>1. \A p \in Pins : Forwards(v, p)'
      BY <1>1, <1>3 DEF Forwards, LevelVectors
    <2>2. \A p \in Pins, u \in Vcpus \ {v} : Forwards(u, p)' <=> Forwards(u, p)
      BY <1>1, <1>3 DEF Forwards
    <2> QED
      BY <1>1, <1>4, <2>1, <2>2 DEF IInv, RouteInv
  <1>8. EntryInv' /\ NoLostLevel'
    BY <1>1, <1>4, Zenon DEF IInv, EntryInv, NoLostLevel
  <1>9. StackInv'
    BY <1>1 DEF IInv, StackInv
  <1>10. tmr' \in [Vcpus -> SUBSET (IoVectors \union {0})]
    <2>1. LevelVectors(v) \subseteq IoVectors \union {0}
      BY DEF LevelVectors, IInv, TypeOK
    <2> QED
      BY <1>1, <1>2, <2>1
  <1>11. TypeOK' /\ arg' \in [Vcpus -> Pins \union Vectors \union {0}]
    BY <1>1, <1>10 DEF IInv, TypeOK
  <1>12. MaskFirst /\ {} \notin Dests => RemoteIrr'
    BY <1>1, RemoteKeeps DEF IInv
  <1> QED
    BY <1>5, <1>6, <1>7, <1>8, <1>9, <1>11, <1>12 DEF IInv

\* Remote IRR is only ever set by sending pins.
LEMMA NextIs ==
    ASSUME IInv, [Next]_vars
    PROVE  /\ IInv'
           /\ \/ \E t \in Tables, S \in SUBSET Pins : Sends(t, S) /\ Derives(t)
              \/ \A p \in Pins : rtbl'[p].remirr => rtbl[p].remirr
  <1>1. CASE \E p \in Pins : Device(p)
    BY <1>1, PinInv
  <1>2. CASE \E d \in Dests, x \in MsiVectors : lapic_intr_msi(d, x)
    <2>1. IInv'
      BY <1>2, MsiInv
    <2>2. UNCHANGED rtbl
      BY <1>2 DEF lapic_intr_msi
    <2> QED
      BY <2>1, <2>2
  <1>3. CASE UNCHANGED vars
    <2>1. IInv'
      BY <1>3, MsiInv
    <2>2. UNCHANGED rtbl
      BY <1>3 DEF vars
    <2> QED
      BY <2>1, <2>2
  <1>4. ASSUME NEW v \in Vcpus, Vcpu(v)
        PROVE  /\ IInv'
               /\ \/ \E t \in Tables, S \in SUBSET Pins : Sends(t, S) /\ Derives(t)
                  \/ \A p \in Pins : rtbl'[p].remirr => rtbl[p].remirr
    <2>1. CASE vioapic_write(v)
      BY <2>1, WriteInv
    <2>2. CASE vioapic_process_eoi(v)
      BY <2>2, ProcessEoiInv
    <2>3. CASE RendezvousReturn(v) /\ pc[v] = "rdv"
      BY <2>3, ReturnInv
    <2>4. CASE \/ vmx_inject_interrupts(v) \/ vmx_run(v) \/ vmx_exit(v)
               \/ vm_smp_rendezvous(v) \/ vm_handle_rendezvous(v)
               \/ RendezvousReturn(v) /\ pc[v] = "bar"
               \/ vlapic_set_tpr(v) \/ vlapic_process_eoi(v)
      <3>1. IInv'
        BY <2>4, InjectInv, PlainInv, SmpInv, HandleInv, EoiInv
      <3>2. UNCHANGED rtbl
        BY <2>4, Zenon DEF vmx_inject_interrupts, vmx_run, vmx_exit, vm_smp_rendezvous,
                    vm_handle_rendezvous, RendezvousReturn, vlapic_set_tpr,
                    vlapic_process_eoi
      <3> QED
        BY <3>1, <3>2
    <2>5. RendezvousReturn(v) => pc[v] \in {"bar", "rdv"}
      BY DEF RendezvousReturn
    <2> QED
      BY <1>4, <2>1, <2>2, <2>3, <2>4, <2>5, Zenon DEF Vcpu
  <1> QED
    BY <1>1, <1>2, <1>3, <1>4, ZenonT(30) DEF Next

-----------------------------------------------------------------------------

\* The invariant holds in every state the interrupt controllers reach.
LEMMA Invariance == Spec => []IInv
  <1>1. IInv /\ [Next]_vars => IInv'
    BY NextIs
  <1> QED
    BY <1>1, InitInv, PTL DEF Spec

(***************************************************************************)
(* vlapic_update_ppr never aborts, whatever vectors and priorities the     *)
(* guest uses: the stack is sorted, holds the vectors in service, and is   *)
(* never full.                                                             *)
(***************************************************************************)
THEOREM StackKept == Spec => []IsrStack
  <1>1. IInv => IsrStack
    <2> SUFFICES ASSUME IInv, NEW v \in Vcpus
                 PROVE  /\ Len(isrvec_stk[v]) < ISRVEC_STK_SIZE
                        /\ \A i, j \in DOMAIN isrvec_stk[v] :
                             i < j => PRIO(isrvec_stk[v][i]) < PRIO(isrvec_stk[v][j])
                        /\ {isrvec_stk[v][i] : i \in DOMAIN isrvec_stk[v]} = isr[v]
      BY DEF IsrStack, IInv
    <2>1. Stacked(isrvec_stk[v], isr[v])
      BY DEF IInv, StackInv
    <2> QED
      BY <2>1, StackBound
  <1> QED
    BY <1>1, Invariance, PTL

(***************************************************************************)
(* vioapic_set_pinstate, vioapic_process_eoi and the end of vioapic_write  *)
(* lose no level-triggered interrupt between them, whether or not the      *)
(* guest masks pins before it reprograms them.                             *)
(***************************************************************************)
THEOREM LevelsKept == Spec => []NoLostLevel
  BY Invariance, PTL DEF IInv

(***************************************************************************)
(* When the writes of redirection entries are over, the rendezvous have    *)
(* left every trigger-mode register up to date.                            *)
(***************************************************************************)
THEOREM TmrKept == Spec => []TmrCurrent
  <1>1. IInv => TmrCurrent
    <2> SUFFICES ASSUME IInv, \A w \in Vcpus : pc[w] \notin {"smp", "rdv"},
                        NEW v \in Vcpus
                 PROVE  tmr[v] = LevelVectors(v)
      BY DEF TmrCurrent
    <2>1. owner = NoCpu
      BY DEF IInv, RdvInv, TypeOK
    <2>2. waiting = {}
      BY <2>1 DEF IInv, RdvInv
    <2> QED
      BY <2>2 DEF IInv, TmrInv
  <1> QED
    BY <1>1, Invariance, PTL

(***************************************************************************)
(* If the guest masks a pin before it reprograms it, and addresses only    *)
(* vcpus that exist, Remote IRR is set only as long as an end of interrupt *)
(* is to come.  Without the first assumption the run apic_window refutes   *)
(* this; a destination that selects nobody never ends an interrupt.        *)
(***************************************************************************)
THEOREM RemoteIrrKept ==
    ASSUME MaskFirst, {} \notin Dests
    PROVE  Spec => []RemoteIrr
  <1>1. IInv => RemoteIrr
    BY DEF IInv
  <1> QED
    BY <1>1, Invariance, PTL

(***************************************************************************)
(* If the guest masks a pin before it reprograms it, vioapic_send_intr     *)
(* sends level-triggered interrupts only to vcpus that will forward the    *)
(* end of interrupt.                                                       *)
(***************************************************************************)
THEOREM LevelsForwarded ==
    ASSUME MaskFirst
    PROVE  Spec => SentAsLevel
  <1>1. ASSUME IInv, [Next]_vars
        PROVE  \A p \in Pins : ~ rtbl[p].remirr /\ rtbl'[p].remirr
                 => \A v \in rtbl[p].dest : rtbl[p].vec \in tmr[v]
    <2>1. CASE \A p \in Pins : rtbl'[p].remirr => rtbl[p].remirr
      BY <2>1
    <2>2. CASE \E t \in Tables, S \in SUBSET Pins : Sends(t, S) /\ Derives(t)
      BY <1>1, <2>2, SendsForwarded
    <2> QED
      BY <1>1, <2>1, <2>2, NextIs
  <1>2. IInv /\ [Next]_vars =>
          [\A p \in Pins : ~ rtbl[p].remirr /\ rtbl'[p].remirr
             => \A v \in rtbl[p].dest : rtbl[p].vec \in tmr[v]]_vars
    BY <1>1
  <1> QED
    BY <1>2, Invariance, PTL DEF Spec, SentAsLevel
=============================================================================
