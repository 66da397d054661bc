----------------------------- MODULE GlaProofs -----------------------------
(***************************************************************************)
(* Proofs about vm_gla2gpa (Gla2gpa), for any number of levels, walkers    *)
(* and stores of the guest.                                                *)
(***************************************************************************)
EXTENDS Gla2gpa, FiniteSetTheorems, TLAPS

-----------------------------------------------------------------------------
(* The walk of the page tables: the inductive invariant.                   *)

Levs == 0..(Levels - 1)
Pcs == {"idle", "read", "accessed", "next", "dirty", "done"}

GlaTypes ==
  /\ glPte \in [Levs -> Entry]
  /\ glWalk \in [Walkers -> [pc : Pcs, level : Levs, pte : Entry,
                             seen : BOOLEAN, result : Results]]
  /\ glGuest \in [writes : 0..MaxWrites, entry : [Levs -> Entry]]
  /\ glRetry \in [Walkers -> Nat]

\* e and f are the same but for the accessed and dirty flags
Same(e, f) ==
  /\ e.v <=> f.v
  /\ e.u <=> f.u
  /\ e.w <=> f.w
  /\ e.ps <=> f.ps
  /\ e.to = f.to

\* The entries are what the guest wrote, but for the flags.
StoresInv == \A n \in Levs : Same(glPte[n], glGuest.entry[n])

Holds(k) == glWalk[k].pc \in {"accessed", "next", "dirty"}

\* What a walker has tested of the entry it has read.
ReadInv(k) ==
  /\ Holds(k) => ~ denied(k, glWalk[k].level, glWalk[k].pte)
  /\ glWalk[k].pc = "accessed" =>
       glWalk[k].level \notin Unchecked /\ ~ glWalk[k].pte.a
  /\ glWalk[k].pc = "dirty" =>
       /\ k \in Writers /\ ~ glWalk[k].pte.m
       /\ leaf(glWalk[k].level, glWalk[k].pte)
       /\ ~ (large(glWalk[k].level, glWalk[k].pte) /\ glWalk[k].level \in NoPs)

\* A walk that the guest has not disturbed has gone through the levels above
\* n, and has left them accessed.
Walked(k, n) ==
  \A i \in Levs : i > n => ~ Stops(k, i) /\ (i \notin Unchecked => glPte[i].a)

PathInv(k) ==
  (glWalk[k].pc = "read" \/ Holds(k)) /\ ~ glWalk[k].seen
    => Walked(k, glWalk[k].level)

\* What it has read is what is there, but for flags set since.
CopyInv(k) ==
  Holds(k) /\ ~ glWalk[k].seen =>
    /\ Same(glWalk[k].pte, glPte[glWalk[k].level])
    /\ glWalk[k].pte.m => glPte[glWalk[k].level].m
    /\ glWalk[k].pc # "accessed" /\ glWalk[k].level \notin Unchecked
         => glPte[glWalk[k].level].a

\* It ends where the processor's own walk would.
Ends(k, n) ==
  /\ Stops(k, n)
  /\ \A i \in Levs : i > n => ~ Stops(k, i)
  /\ glWalk[k].result = Outcome(k, n)
  /\ glWalk[k].result \notin {PageFault, Efault} =>
       /\ Walked(k, n)
       /\ glPte[n].a
       /\ k \in Writers => glPte[n].m

DoneInv(k) ==
  glWalk[k].pc = "done" /\ ~ glWalk[k].seen => \E n \in Levs : Ends(k, n)

WalkInv(k) == ReadInv(k) /\ PathInv(k) /\ CopyInv(k) /\ DoneInv(k)

\* The flags that are clear, and the copies that no longer match: each
\* restart is paid for by one of them, and a store of the guest adds three.
Unaccessed == {n \in Levs : ~ glPte[n].a}
Clean == {n \in Levs : ~ glPte[n].m}
Stale(k) ==
  IF Holds(k) /\ glWalk[k].pte # glPte[glWalk[k].level] THEN 1 ELSE 0
RetryInv(k) ==
  glRetry[k] + Stale(k) + Cardinality(Unaccessed) + Cardinality(Clean)
    <= 2 * Levels + 3 * glGuest.writes

GlaInv ==
  /\ GlaTypes
  /\ StoresInv
  /\ DirtyOnlyOnWritten
  /\ \A k \in Walkers : WalkInv(k) /\ RetryInv(k)

-----------------------------------------------------------------------------
(* Entries that change only in flags that become set.                      *)

Grows ==
  \A n \in Levs : /\ Same(glPte'[n], glPte[n])
                  /\ glPte[n].a => glPte'[n].a
                  /\ glPte[n].m => glPte'[n].m

\* The tests of the walk do not look at the flags.
LEMMA SameTests ==
    ASSUME NEW k, NEW n, NEW e, NEW f, Same(e, f)
    PROVE  /\ denied(k, n, e) <=> denied(k, n, f)
           /\ large(n, e) <=> large(n, f)
           /\ leaf(n, e) <=> leaf(n, f)
  BY DEF Same, denied, large, leaf

\* So a compare-and-swap of a flag changes neither where a walk stops nor
\* what it gives.
LEMMA GrowsKeeps ==
    ASSUME NEW k, NEW n \in Levs, Grows
    PROVE  /\ Stops(k, n)' <=> Stops(k, n)
           /\ Outcome(k, n)' = Outcome(k, n)
  <1>1. Same(glPte'[n], glPte[n])
    BY DEF Grows
  <1>2. /\ denied(k, n, glPte'[n]) <=> denied(k, n, glPte[n])
        /\ large(n, glPte'[n]) <=> large(n, glPte[n])
        /\ leaf(n, glPte'[n]) <=> leaf(n, glPte[n])
        /\ glPte'[n].to = glPte[n].to
    BY <1>1, SameTests DEF Same
  <1>3. Stops(k, n)' <=> Stops(k, n)
    BY <1>2 DEF Stops, denied, leaf, large
  <1>4. Outcome(k, n)' = Outcome(k, n)
    BY <1>2 DEF Outcome, denied, leaf, large
  <1> QED
    BY <1>3, <1>4

\* Nor which levels a walk has gone through.
LEMMA GrowsWalked ==
    ASSUME NEW k, NEW n \in Levs, Grows, Walked(k, n)
    PROVE  Walked(k, n)'
  <1>1. \A i \in Levs : Stops(k, i)' <=> Stops(k, i)
    BY GrowsKeeps
  <1> QED
    BY <1>1 DEF Grows, Walked

\* A walker that does not move is not disturbed by the flags another sets.
LEMMA OtherWalker ==
    ASSUME GlaTypes, NEW k \in Walkers, WalkInv(k), Grows,
           glWalk'[k] = glWalk[k]
    PROVE  WalkInv(k)'
  <1>1. glWalk[k].level \in Levs
    BY DEF GlaTypes
  <1>2. ReadInv(k)'
    BY DEF WalkInv, ReadInv, Holds, denied, leaf, large
  <1>3. PathInv(k)'
    BY <1>1, GrowsWalked DEF WalkInv, PathInv, Holds
  <1>4. CopyInv(k)'
    BY <1>1 DEF WalkInv, CopyInv, Holds, Grows, Same
  <1>5. DoneInv(k)'
    <2> SUFFICES ASSUME glWalk[k].pc = "done", ~ glWalk[k].seen
                 PROVE  (\E n \in Levs : Ends(k, n))'
      BY DEF DoneInv
    <2>1. PICK n \in Levs : Ends(k, n)
      BY DEF WalkInv, DoneInv
    <2>2. \A i \in Levs : Stops(k, i)' <=> Stops(k, i)
      BY GrowsKeeps
    <2>3. Outcome(k, n)' = Outcome(k, n)
      BY GrowsKeeps
    <2>4. Walked(k, n) => Walked(k, n)'
      BY GrowsWalked
    <2>5. Ends(k, n)'
      BY <2>1, <2>2, <2>3, <2>4 DEF Ends, Grows
    <2> QED
      BY <2>5
  <1> QED
    BY <1>2, <1>3, <1>4, <1>5 DEF WalkInv

-----------------------------------------------------------------------------
(* The steps that write no entry.                                          *)

\* A walker that has not begun: its local variables have their types.
LEMMA IdleType ==
    GlaIdle \in [pc : Pcs, level : Levs, pte : Entry, seen : BOOLEAN, result : Results]
  <1>1. NoEntry \in Entry
    BY Zenon DEF NoEntry, Fresh, Entry
  <1>2. <<"none">> \in Results
    BY DEF Results
  <1>3. Levels - 1 \in Levs
    BY GlaAssumption DEF Levs
  <1> QED
    BY <1>1, <1>2, <1>3 DEF GlaIdle, Pcs

\* There are finitely many flags to set.
LEMMA FlagSets == IsFiniteSet(Unaccessed) /\ IsFiniteSet(Clean)
  <1>1. 0 \in Int /\ Levels - 1 \in Int
    BY GlaAssumption
  <1>2. IsFiniteSet(Levs)
    BY <1>1, FS_Interval DEF Levs
  <1>3. Unaccessed \subseteq Levs /\ Clean \subseteq Levs
    BY DEF Unaccessed, Clean
  <1> QED
    BY <1>2, <1>3, FS_Subset

\* What a step of walker k that writes no entry leaves to show.
Quiet(k) ==
  /\ glPte' = glPte /\ glGuest' = glGuest /\ glRetry' = glRetry
  /\ \A j \in Walkers \ {k} : glWalk'[j] = glWalk[j]

\* A step that writes no entry, and makes no copy stale, keeps the invariant
\* if it keeps what concerns its own walker.
LEMMA QuietStep ==
    ASSUME GlaInv, NEW k \in Walkers, Quiet(k),
           GlaTypes', WalkInv(k)', Holds(k)' => glWalk'[k].pte = glPte[glWalk'[k].level]
                                               \/ Stale(k) = 1
    PROVE  GlaInv'
  <1>1. Grows
    BY DEF Quiet, Grows, Same
  <1>2. StoresInv'
    BY DEF GlaInv, Quiet, StoresInv, Same
  <1>3. DirtyOnlyOnWritten'
    BY DEF GlaInv, Quiet, DirtyOnlyOnWritten, leaf, large
  <1>4. ASSUME NEW j \in Walkers PROVE WalkInv(j)'
    <2>1. CASE j = k
      BY <2>1
    <2>2. CASE j # k
      BY <1>1, <2>2, OtherWalker DEF GlaInv, Quiet
    <2> QED
      BY <2>1, <2>2
  <1>5. ASSUME NEW j \in Walkers PROVE RetryInv(j)'
    <2>1. Unaccessed' = Unaccessed /\ Clean' = Clean
      BY DEF Quiet, Unaccessed, Clean
    <2>2. Stale(j)' = Stale(j) \/ (Stale(j)' = 0 /\ Stale(j) = 1) \/ Stale(j)' = 0
      <3>1. CASE j = k
        BY <3>1 DEF Quiet, Stale
      <3>2. CASE j # k
        BY <3>2 DEF Quiet, Stale, Holds
      <3> QED
        BY <3>1, <3>2
    <2>3. Stale(j) \in {0, 1} /\ Stale(j)' \in {0, 1}
      BY DEF Stale
    <2>4. RetryInv(j)
      BY DEF GlaInv
    <2>6. Cardinality(Unaccessed) \in Nat /\ Cardinality(Clean) \in Nat
      BY FlagSets, FS_CardinalityType
    <2>7. glRetry[j] \in Nat /\ glRetry'[j] = glRetry[j] /\ glGuest'.writes = glGuest.writes
          /\ glGuest.writes \in Nat /\ Levels \in Nat
      BY GlaAssumption DEF GlaInv, GlaTypes, Quiet
    <2> QED
      BY <2>1, <2>2, <2>3, <2>4, <2>6, <2>7 DEF RetryInv
  <1> QED
    BY <1>2, <1>3, <1>4, <1>5 DEF GlaInv

\* A walk begins at the root, with nothing read.
LEMMA BeginInv ==
    ASSUME GlaInv, NEW k \in Walkers, vm_gla2gpa(k)
    PROVE  GlaInv'
  <1>1. GlaTypes
    BY DEF GlaInv
  <1>2. /\ Quiet(k) 
        /\ glWalk'[k] = [pc |-> "read", level |-> Levels - 1, pte |-> NoEntry,
                         seen |-> FALSE, result |-> <<"none">>]
    BY <1>1, Zenon DEF vm_gla2gpa, To, Keep, GlaIdle, Quiet, GlaTypes
  <1>3. GlaTypes'
    BY <1>1, IdleType DEF GlaTypes, vm_gla2gpa, To, Keep, Pcs
  <1>4. WalkInv(k)'
    BY <1>2, GlaAssumption
    DEF WalkInv, ReadInv, PathInv, CopyInv, DoneInv, Holds, Walked, Levs
  <1> QED
    BY <1>2, <1>3, <1>4, QuietStep DEF Holds

\* The caller has used the address.
LEMMA FinishInv ==
    ASSUME GlaInv, NEW k \in Walkers, walk_finish(k)
    PROVE  GlaInv'
  <1>1. GlaTypes
    BY DEF GlaInv
  <1>2. Quiet(k) /\ glWalk'[k] = GlaIdle
    BY <1>1 DEF walk_finish, To, Keep, Quiet, GlaTypes
  <1>3. GlaTypes'
    BY <1>1, IdleType DEF GlaTypes, walk_finish, To, Keep
  <1>4. WalkInv(k)'
    BY <1>2 DEF WalkInv, ReadInv, PathInv, CopyInv, DoneInv, Holds, GlaIdle
  <1> QED
    BY <1>2, <1>3, <1>4, QuietStep DEF Holds, GlaIdle

\* A walker that is done with result r, the walk having stopped at level n.
LEMMA DoneStep ==
    ASSUME GlaInv, NEW k \in Walkers, NEW r \in Results, Keep, GlaDone(k, r),
           glWalk[k].seen \/ \E n \in Levs :
             /\ Stops(k, n) /\ r = Outcome(k, n)
             /\ \A i \in Levs : i > n => ~ Stops(k, i)
             /\ r \notin {PageFault, Efault} =>
                  Walked(k, n) /\ glPte[n].a /\ (k \in Writers => glPte[n].m)
    PROVE  GlaInv'
  <1>1. GlaTypes
    BY DEF GlaInv
  <1>2. /\ Quiet(k) /\ glWalk'[k].pc = "done" /\ glWalk'[k].result = r
        /\ glWalk'[k].seen <=> glWalk[k].seen
    BY <1>1 DEF GlaDone, To, Keep, GlaIdle, Quiet, GlaTypes
  <1>3. GlaTypes'
    <2>1. [GlaIdle EXCEPT !.pc = "done", !.result = r, !.seen = glWalk[k].seen]
            \in [pc : Pcs, level : Levs, pte : Entry, seen : BOOLEAN, result : Results]
      BY <1>1, IdleType, Zenon DEF GlaTypes, Pcs
    <2> QED
      BY <1>1, <2>1 DEF GlaTypes, GlaDone, To, Keep
  <1>4. ReadInv(k)' /\ PathInv(k)' /\ CopyInv(k)'
    BY <1>2 DEF ReadInv, PathInv, CopyInv, Holds
  <1>5. DoneInv(k)'
    <2> SUFFICES ASSUME ~ glWalk[k].seen PROVE (\E n \in Levs : Ends(k, n))'
      BY <1>2 DEF DoneInv
    <2>1. PICK n \in Levs :
             /\ Stops(k, n) /\ r = Outcome(k, n)
             /\ \A i \in Levs : i > n => ~ Stops(k, i)
             /\ r \notin {PageFault, Efault} =>
                  Walked(k, n) /\ glPte[n].a /\ (k \in Writers => glPte[n].m)
      OBVIOUS
    <2>2. Grows
      BY <1>2 DEF Quiet, Grows, Same
    <2>3. \A i \in Levs : Stops(k, i)' <=> Stops(k, i)
      BY <2>2, GrowsKeeps
    <2>4. Outcome(k, n)' = Outcome(k, n)
      BY <2>2, GrowsKeeps
    <2>5. Walked(k, n) => Walked(k, n)'
      BY <2>2, GrowsWalked
    <2>6. Ends(k, n)'
      BY <1>2, <2>1, <2>3, <2>4, <2>5 DEF Ends, Quiet
    <2> QED
      BY <2>6
  <1>6. WalkInv(k)'
    BY <1>4, <1>5 DEF WalkInv
  <1> QED
    BY <1>2, <1>3, <1>6, QuietStep DEF Holds

\* The entry of the level is read: it stops the walk, or is remembered.
LEMMA ReadPteInv ==
    ASSUME GlaInv, NEW k \in Walkers, read_pte(k)
    PROVE  GlaInv'
  <1> PICK n \in Levs : n = glWalk[k].level
    BY DEF GlaInv, GlaTypes
  <1> PICK e \in Entry : e = glPte[n]
    BY DEF GlaInv, GlaTypes
  <1>1. GlaTypes /\ WalkInv(k)
    BY DEF GlaInv
  <1>2. Keep /\ glWalk[k].pc = "read"
    BY DEF read_pte
  <1>3. ~ glWalk[k].seen => Walked(k, n)
    BY <1>1, <1>2 DEF WalkInv, PathInv
  <1>4. CASE denied(k, n, e) /\ GlaDone(k, PageFault)
    <2>1. PageFault \in Results
      BY DEF Results
    <2>2. Stops(k, n) /\ PageFault = Outcome(k, n)
      BY <1>4 DEF Stops, Outcome
    <2>3. ~ glWalk[k].seen => \A i \in Levs : i > n => ~ Stops(k, i)
      BY <1>3 DEF Walked
    <2> QED
      BY <1>2, <1>4, <2>1, <2>2, <2>3, DoneStep
  <1>5. CASE /\ ~ denied(k, n, e)
             /\ To(k, [glWalk[k] EXCEPT !.pte = e, !.pc = IF e.a \/ n \in Unchecked
                                                          THEN "next" ELSE "accessed"])
    <2>1. /\ Quiet(k) /\ glWalk'[k].pte = e /\ glWalk'[k].level = n
          /\ glWalk'[k].seen <=> glWalk[k].seen
          /\ glWalk'[k].pc = IF e.a \/ n \in Unchecked THEN "next" ELSE "accessed"
      BY <1>1, <1>2, <1>5 DEF Quiet, Keep, To, GlaTypes
    <2>2. GlaTypes'
      <3> PICK l \in Pcs : l = IF e.a \/ n \in Unchecked THEN "next" ELSE "accessed"
        BY DEF Pcs
      <3>1. [glWalk[k] EXCEPT !.pte = e, !.pc = l]
              \in [pc : Pcs, level : Levs, pte : Entry, seen : BOOLEAN, result : Results]
        BY <1>1, Zenon DEF GlaTypes
      <3> QED
        BY <1>1, <1>2, <1>5, <3>1 DEF GlaTypes, Keep, To
    <2>3. ReadInv(k)'
      BY <1>5, <2>1 DEF ReadInv, Holds
    <2>4. PathInv(k)'
      <3>1. Grows
        BY <2>1 DEF Quiet, Grows, Same
      <3> QED
        BY <1>3, <2>1, <3>1, GrowsWalked DEF PathInv
    <2>5. CopyInv(k)'
      BY <2>1 DEF CopyInv, Quiet, Same
    <2>6. DoneInv(k)'
      BY <2>1 DEF DoneInv
    <2>7. WalkInv(k)'
      BY <2>3, <2>4, <2>5, <2>6 DEF WalkInv
    <2> QED
      BY <2>1, <2>2, <2>7, QuietStep
  <1> QED
    BY <1>4, <1>5 DEF read_pte

\* The walk goes down, stops with a page or a fault, or has a dirty flag to set.
LEMMA NextLevelInv ==
    ASSUME GlaInv, NEW k \in Walkers, next_level(k)
    PROVE  GlaInv'
  <1> PICK n \in Levs : n = glWalk[k].level
    BY DEF GlaInv, GlaTypes
  <1> PICK e \in Entry : e = glWalk[k].pte
    BY DEF GlaInv, GlaTypes
  <1>1. GlaTypes /\ WalkInv(k)
    BY DEF GlaInv
  <1>2. Keep /\ glWalk[k].pc = "next"
    BY DEF next_level
  <1>3. ~ glWalk[k].seen => Walked(k, n)
    BY <1>1, <1>2 DEF WalkInv, PathInv, Holds
  <1>4. ~ denied(k, n, e)
    BY <1>1, <1>2 DEF WalkInv, ReadInv, Holds
  <1>5. ~ glWalk[k].seen => /\ Same(e, glPte[n])
                            /\ e.m => glPte[n].m
                            /\ n \notin Unchecked => glPte[n].a
    BY <1>1, <1>2 DEF WalkInv, CopyInv, Holds
  <1>6. ~ glWalk[k].seen => /\ denied(k, n, e) <=> denied(k, n, glPte[n])
                            /\ large(n, e) <=> large(n, glPte[n])
                            /\ leaf(n, e) <=> leaf(n, glPte[n])
                            /\ e.to = glPte[n].to
    BY <1>5, SameTests DEF Same
  <1>7. ~ glWalk[k].seen => \A i \in Levs : i > n => ~ Stops(k, i)
    BY <1>3 DEF Walked
  <1>8. leaf(n, e) => n \notin Unchecked
    BY GlaAssumption DEF leaf, large
  <1>9. CASE large(n, e) /\ n \in NoPs /\ GlaDone(k, PageFault)
    <2>1. PageFault \in Results
      BY DEF Results
    <2>2. ~ glWalk[k].seen => Stops(k, n) /\ PageFault = Outcome(k, n)
      BY <1>6, <1>9 DEF Stops, Outcome, leaf
    <2> QED
      BY <1>2, <1>7, <1>9, <2>1, <2>2, DoneStep
  <1>10. CASE /\ leaf(n, e) /\ ~ (large(n, e) /\ n \in NoPs)
              /\ k \in Writers /\ ~ e.m
              /\ To(k, [glWalk[k] EXCEPT !.pc = "dirty"])
    <2>1. /\ Quiet(k) /\ glWalk'[k].pte = e /\ glWalk'[k].level = n
          /\ glWalk'[k].seen <=> glWalk[k].seen
          /\ glWalk'[k].pc = "dirty"
      BY <1>1, <1>2, <1>10 DEF Quiet, Keep, To, GlaTypes
    <2>2. GlaTypes'
      BY <1>1, <1>2, <1>10 DEF GlaTypes, Keep, To, Pcs
    <2>3. ReadInv(k)'
      BY <1>4, <1>10, <2>1 DEF ReadInv, Holds
    <2>4. PathInv(k)'
      <3>1. Grows
        BY <2>1 DEF Quiet, Grows, Same
      <3> QED
        BY <1>3, <2>1, <3>1, GrowsWalked DEF PathInv
    <2>5. CopyInv(k)'
      BY <1>5, <2>1 DEF CopyInv, Quiet
    <2>6. DoneInv(k)'
      BY <2>1 DEF DoneInv
    <2>7. WalkInv(k)'
      BY <2>3, <2>4, <2>5, <2>6 DEF WalkInv
    <2>8. e = glPte[n] \/ Stale(k) = 1
      BY <1>2 DEF Stale, Holds
    <2> QED
      BY <2>1, <2>2, <2>7, <2>8, QuietStep
  <1>11. CASE /\ leaf(n, e) /\ ~ (large(n, e) /\ n \in NoPs)
              /\ ~ (k \in Writers /\ ~ e.m)
              /\ GlaDone(k, <<"page", n, e.to>>)
    <2>1. <<"page", n, e.to>> \in Results
      BY DEF Results, Levs, Entry
    <2>2. ~ glWalk[k].seen => Stops(k, n) /\ <<"page", n, e.to>> = Outcome(k, n)
      BY <1>4, <1>6, <1>11 DEF Stops, Outcome
    <2>3. ~ glWalk[k].seen => glPte[n].a /\ (k \in Writers => glPte[n].m)
      BY <1>5, <1>8, <1>11
    <2> QED
      BY <1>2, <1>3, <1>7, <1>11, <2>1, <2>2, <2>3, DoneStep
  <1>12. CASE ~ leaf(n, e) /\ e.to = "hole" /\ GlaDone(k, Efault)
    <2>1. Efault \in Results
      BY DEF Results
    <2>2. ~ glWalk[k].seen => Stops(k, n) /\ Efault = Outcome(k, n)
      BY <1>4, <1>6, <1>12 DEF Stops, Outcome, leaf
    <2> QED
      BY <1>2, <1>7, <1>12, <2>1, <2>2, DoneStep
  <1>13. CASE /\ ~ leaf(n, e) /\ e.to = "mem"
              /\ To(k, [glWalk[k] EXCEPT !.pc = "read", !.level = n - 1, !.pte = NoEntry])
    <2>1. n - 1 \in Levs
      BY <1>13, GlaAssumption DEF leaf, Levs
    <2>2. /\ Quiet(k) /\ glWalk'[k].level = n - 1 /\ glWalk'[k].pc = "read"
          /\ glWalk'[k].seen <=> glWalk[k].seen
      BY <1>1, <1>2, <1>13 DEF Quiet, Keep, To, GlaTypes
    <2>3. GlaTypes'
      <3>1. NoEntry \in Entry
        BY Zenon DEF NoEntry, Fresh, Entry
      <3>2. [glWalk[k] EXCEPT !.pc = "read", !.level = n - 1, !.pte = NoEntry]
              \in [pc : Pcs, level : Levs, pte : Entry, seen : BOOLEAN, result : Results]
        BY <1>1, <2>1, <3>1, Zenon DEF GlaTypes, Pcs
      <3> QED
        BY <1>1, <1>2, <1>13, <3>2 DEF GlaTypes, Keep, To
    <2>4. ReadInv(k)' /\ CopyInv(k)' /\ DoneInv(k)'
      BY <2>2 DEF ReadInv, CopyInv, DoneInv, Holds
    <2>5. ~ glWalk[k].seen => Walked(k, n - 1)
      <3> SUFFICES ASSUME ~ glWalk[k].seen, NEW i \in Levs, i > n - 1
                   PROVE  ~ Stops(k, i) /\ (i \notin Unchecked => glPte[i].a)
        BY DEF Walked
      <3>1. CASE i = n
        BY <1>4, <1>5, <1>6, <1>13, <3>1 DEF Stops
      <3>2. CASE i > n
        BY <1>3, <3>2 DEF Walked
      <3> QED
        BY <3>1, <3>2 DEF Levs
    <2>6. PathInv(k)'
      <3>1. Grows
        BY <2>2 DEF Quiet, Grows, Same
      <3> QED
        BY <2>1, <2>2, <2>5, <3>1, GrowsWalked DEF PathInv
    <2>7. WalkInv(k)'
      BY <2>4, <2>6 DEF WalkInv
    <2> QED
      BY <2>2, <2>3, <2>7, QuietStep DEF Holds
  <1> QED
    BY <1>9, <1>10, <1>11, <1>12, <1>13 DEF next_level

-----------------------------------------------------------------------------
(* The steps that set a flag.                                              *)

\* A compare-and-swap that succeeds sets one flag that was clear; no copy but
\* those of this entry stop matching, and no restart is counted.
LEMMA FlagSet ==
    ASSUME GlaInv, NEW k \in Walkers, NEW n \in Levs, NEW f \in Entry,
           glPte' = [glPte EXCEPT ![n] = f],
           Same(f, glPte[n]),
           \/ ~ glPte[n].a /\ f.a /\ (f.m <=> glPte[n].m)
           \/ ~ glPte[n].m /\ f.m /\ (f.a <=> glPte[n].a),
           f.m => glPte[n].m \/ (Writers # {} /\ f.w /\ leaf(n, f)),
           glGuest' = glGuest, glRetry' = glRetry,
           \A j \in Walkers \ {k} : glWalk'[j] = glWalk[j],
           GlaTypes', WalkInv(k)'
    PROVE  GlaInv'
  <1>1. GlaTypes /\ GlaTypes'
    BY DEF GlaInv
  <1>2. glPte'[n] = f /\ \A i \in Levs \ {n} : glPte'[i] = glPte[i]
    BY <1>1 DEF GlaTypes
  <1>3. Grows
    BY <1>2 DEF Grows, Same
  <1>4. StoresInv'
    BY <1>2 DEF GlaInv, StoresInv, Same
  <1>5. DirtyOnlyOnWritten'
    <2> SUFFICES ASSUME NEW i \in Levs, glPte'[i].m
                 PROVE  Writers # {} /\ glPte'[i].w /\ leaf(i, glPte'[i])
      BY DEF DirtyOnlyOnWritten, Levs, leaf, large
    <2>1. glPte[i].m => Writers # {} /\ glPte[i].w /\ leaf(i, glPte[i])
      BY DEF GlaInv, DirtyOnlyOnWritten, Levs
    <2>2. CASE i # n
      BY <1>2, <2>1, <2>2
    <2>3. CASE i = n
      <3>1. leaf(n, f) <=> leaf(n, glPte[n])
        BY SameTests
      <3> QED
        BY <1>2, <2>1, <2>3, <3>1 DEF Same
    <2> QED
      BY <2>2, <2>3
  <1>6. ASSUME NEW j \in Walkers PROVE WalkInv(j)'
    <2>1. CASE j = k
      BY <2>1
    <2>2. CASE j # k
      BY <1>1, <1>3, <2>2, OtherWalker DEF GlaInv
    <2> QED
      BY <2>1, <2>2
  <1>7. Cardinality(Unaccessed)' + Cardinality(Clean)'
          = Cardinality(Unaccessed) + Cardinality(Clean) - 1
    <2>1. Cardinality(Unaccessed) \in Nat /\ Cardinality(Clean) \in Nat
      BY FlagSets, FS_CardinalityType
    <2>2. CASE ~ glPte[n].a /\ f.a /\ (f.m <=> glPte[n].m)
      <3>1. n \in Unaccessed /\ Unaccessed' = Unaccessed \ {n} /\ Clean' = Clean
        BY <1>2, <2>2 DEF Unaccessed, Clean
      <3>2. Cardinality(Unaccessed \ {n}) = Cardinality(Unaccessed) - 1
        BY <3>1, FlagSets, FS_RemoveElement, Zenon
      <3> QED
        BY <2>1, <3>1, <3>2
    <2>3. CASE ~ glPte[n].m /\ f.m /\ (f.a <=> glPte[n].a)
      <3>1. n \in Clean /\ Clean' = Clean \ {n} /\ Unaccessed' = Unaccessed
        BY <1>2, <2>3 DEF Unaccessed, Clean
      <3>2. Cardinality(Clean \ {n}) = Cardinality(Clean) - 1
        BY <3>1, FlagSets, FS_RemoveElement, Zenon
      <3> QED
        BY <2>1, <3>1, <3>2
    <2> QED
      BY <2>2, <2>3
  <1>8. ASSUME NEW j \in Walkers PROVE RetryInv(j)'
    <2>1. Stale(j) \in {0, 1} /\ Stale(j)' \in {0, 1}
      BY DEF Stale
    <2>2. RetryInv(j)
      BY DEF GlaInv
    <2>3. Cardinality(Unaccessed) \in Nat /\ Cardinality(Clean) \in Nat
      BY FlagSets, FS_CardinalityType
    <2>4. Cardinality(Unaccessed)' \in Nat /\ Cardinality(Clean)' \in Nat
      <3>1. IsFiniteSet(Unaccessed)' /\ IsFiniteSet(Clean)'
        BY FlagSets, PTL
      <3> QED
        BY <3>1, FS_CardinalityType
    <2>5. glRetry[j] \in Nat /\ glRetry'[j] = glRetry[j] /\ glGuest'.writes = glGuest.writes
          /\ glGuest.writes \in Nat /\ Levels \in Nat
      BY <1>1, GlaAssumption DEF GlaTypes
    <2> QED
      BY <1>7, <2>1, <2>2, <2>3, <2>4, <2>5 DEF RetryInv
  <1> QED
    BY <1>1, <1>4, <1>5, <1>6, <1>8 DEF GlaInv

\* A compare-and-swap that fails restarts the walk; the copy did not match.
LEMMA Restart ==
    ASSUME GlaInv, NEW k \in Walkers, Holds(k),
           glPte[glWalk[k].level] # glWalk[k].pte,
           glPte' = glPte, glGuest' = glGuest, To(k, walk_restart(k)),
           glRetry' = [glRetry EXCEPT ![k] = @ + 1]
    PROVE  GlaInv'
  <1>1. GlaTypes
    BY DEF GlaInv
  <1>2. /\ glWalk'[k].pc = "read" /\ glWalk'[k].level = Levels - 1
        /\ \A j \in Walkers \ {k} : glWalk'[j] = glWalk[j]
    BY <1>1 DEF To, walk_restart, GlaTypes
  <1>3. GlaTypes'
    <2>1. NoEntry \in Entry
      BY Zenon DEF NoEntry, Fresh, Entry
    <2>2. Levels - 1 \in Levs
      BY GlaAssumption DEF Levs
    <2>3. walk_restart(k)
            \in [pc : Pcs, level : Levs, pte : Entry, seen : BOOLEAN, result : Results]
      BY <1>1, <2>1, <2>2, Zenon DEF walk_restart, GlaTypes, Pcs
    <2> QED
      BY <1>1, <2>3 DEF GlaTypes, To
  <1>4. Grows
    BY DEF Grows, Same
  <1>5. StoresInv'
    BY DEF GlaInv, StoresInv, Same
  <1>6. DirtyOnlyOnWritten'
    BY DEF GlaInv, DirtyOnlyOnWritten, leaf, large
  <1>7. ASSUME NEW j \in Walkers PROVE WalkInv(j)'
    <2>1. CASE j = k
      <3>1. \A i \in Levs : ~ (i > Levels - 1)
        BY GlaAssumption DEF Levs
      <3> QED
        BY <1>2, <2>1, <3>1 DEF WalkInv, ReadInv, PathInv, CopyInv, DoneInv, Holds, Walked
    <2>2. CASE j # k
      BY <1>1, <1>2, <1>4, <2>2, OtherWalker DEF GlaInv
    <2> QED
      BY <2>1, <2>2
  <1>8. ASSUME NEW j \in Walkers PROVE RetryInv(j)'
    <2>1. Unaccessed' = Unaccessed /\ Clean' = Clean
      BY DEF Unaccessed, Clean
    <2>2. Cardinality(Unaccessed) \in Nat /\ Cardinality(Clean) \in Nat
      BY FlagSets, FS_CardinalityType
    <2>3. RetryInv(j) /\ glRetry[j] \in Nat /\ glGuest.writes \in Nat /\ Levels \in Nat
      BY <1>1, GlaAssumption DEF GlaInv, GlaTypes
    <2>4. glRetry'[j] + Stale(j)' = glRetry[j] + Stale(j)
      <3>1. CASE j = k
        <4>1. Stale(k) = 1
          BY DEF Stale
        <4>2. Stale(k)' = 0
          BY <1>2 DEF Stale, Holds
        <4>3. glRetry'[k] = glRetry[k] + 1
          BY <1>1 DEF GlaTypes
        <4> QED
          BY <2>3, <3>1, <4>1, <4>2, <4>3
      <3>2. CASE j # k
        BY <1>1, <1>2, <3>2 DEF Stale, Holds, GlaTypes
      <3> QED
        BY <3>1, <3>2
    <2>5. Stale(j) \in {0, 1} /\ Stale(j)' \in {0, 1} /\ glRetry'[j] \in Nat
      BY <1>3 DEF Stale, GlaTypes
    <2> QED
      BY <2>1, <2>2, <2>3, <2>4, <2>5 DEF RetryInv
  <1> QED
    BY <1>3, <1>5, <1>6, <1>7, <1>8 DEF GlaInv

\* The accessed flag is set on exactly the entry that was read.
LEMMA AccessedInv ==
    ASSUME GlaInv, NEW k \in Walkers, set_accessed(k)
    PROVE  GlaInv'
  <1> PICK n \in Levs : n = glWalk[k].level
    BY DEF GlaInv, GlaTypes
  <1> PICK e \in Entry : e = glWalk[k].pte
    BY DEF GlaInv, GlaTypes
  <1>1. GlaTypes /\ WalkInv(k)
    BY DEF GlaInv
  <1>2. glWalk[k].pc = "accessed" /\ Holds(k) /\ glGuest' = glGuest
    BY DEF set_accessed, Holds
  <1>3. ~ denied(k, n, e) /\ n \notin Unchecked /\ ~ e.a
    BY <1>1, <1>2 DEF WalkInv, ReadInv
  <1>4. CASE glPte[n] = e
    <2> PICK f \in Entry : f = [e EXCEPT !.a = TRUE]
      BY Zenon DEF Entry
    <2>1. glPte' = [glPte EXCEPT ![n] = f]
      BY <1>4 DEF set_accessed, cas
    <2>2. To(k, [glWalk[k] EXCEPT !.pc = "next"]) /\ glRetry' = glRetry
      BY <1>4 DEF set_accessed
    <2>3. /\ glWalk'[k].pte = e /\ glWalk'[k].level = n /\ glWalk'[k].pc = "next"
          /\ glWalk'[k].seen <=> glWalk[k].seen
          /\ \A j \in Walkers \ {k} : glWalk'[j] = glWalk[j]
      BY <1>1, <2>2 DEF To, GlaTypes
    <2>4. Same(f, e) /\ f.a /\ (f.m <=> e.m)
      BY DEF Entry, Same
    <2>5. GlaTypes'
      <3>1. [glWalk[k] EXCEPT !.pc = "next"]
              \in [pc : Pcs, level : Levs, pte : Entry, seen : BOOLEAN, result : Results]
        BY <1>1 DEF GlaTypes, Pcs
      <3>2. glPte' \in [Levs -> Entry]
        BY <1>1, <2>1 DEF GlaTypes
      <3> QED
        BY <1>1, <1>2, <2>2, <3>1, <3>2 DEF GlaTypes, To
    <2>6. glPte'[n] = f /\ \A i \in Levs \ {n} : glPte'[i] = glPte[i]
      BY <1>1, <2>1 DEF GlaTypes
    <2>7. Grows
      <3>1. ASSUME NEW i \in Levs
            PROVE  Same(glPte'[i], glPte[i]) /\ (glPte[i].a => glPte'[i].a)
                     /\ (glPte[i].m => glPte'[i].m)
        <4>1. CASE i = n
          BY <1>4, <2>4, <2>6, <4>1, Zenon
        <4>2. CASE i # n
          BY <2>6, <4>2 DEF Same
        <4> QED
          BY <4>1, <4>2
      <3> QED
        BY <3>1 DEF Grows
    <2>8. ReadInv(k)' /\ DoneInv(k)'
      BY <1>3, <2>3 DEF ReadInv, DoneInv, Holds
    <2>9. PathInv(k)'
      BY <1>1, <1>2, <2>3, <2>7, GrowsWalked DEF WalkInv, PathInv
    <2>10. CopyInv(k)'
      BY <2>3, <2>4, <2>6 DEF CopyInv, Same
    <2>11. WalkInv(k)'
      BY <2>8, <2>9, <2>10 DEF WalkInv
    <2>12. f.m => glPte[n].m
      BY <1>4, <2>4
    <2> QED
      BY <1>2, <1>3, <1>4, <2>1, <2>2, <2>3, <2>4, <2>5, <2>11, <2>12, FlagSet, Zenon
  <1>5. CASE glPte[n] # e
    <2>1. glPte' = glPte
      BY <1>1, <1>5 DEF set_accessed, cas, GlaTypes
    <2> QED
      BY <1>2, <1>5, <2>1, Restart DEF set_accessed
  <1> QED
    BY <1>4, <1>5

\* The dirty flag is set on exactly the entry that was read, and the walk ends.
LEMMA DirtyInv ==
    ASSUME GlaInv, NEW k \in Walkers, set_dirty(k)
    PROVE  GlaInv'
  <1> PICK n \in Levs : n = glWalk[k].level
    BY DEF GlaInv, GlaTypes
  <1> PICK e \in Entry : e = glWalk[k].pte
    BY DEF GlaInv, GlaTypes
  <1>1. GlaTypes /\ WalkInv(k)
    BY DEF GlaInv
  <1>2. glWalk[k].pc = "dirty" /\ Holds(k) /\ glGuest' = glGuest
    BY DEF set_dirty, Holds
  <1>3. /\ ~ denied(k, n, e) /\ k \in Writers /\ ~ e.m
        /\ leaf(n, e) /\ ~ (large(n, e) /\ n \in NoPs)
    BY <1>1, <1>2 DEF WalkInv, ReadInv
  <1>4. n \notin Unchecked /\ e.w
    BY <1>3, GlaAssumption DEF leaf, large, denied
  <1>5. CASE glPte[n] = e
    <2> PICK f \in Entry : f = [e EXCEPT !.m = TRUE]
      BY Zenon DEF Entry
    <2>0. <<"page", n, e.to>> \in Results
      BY DEF Results, Levs, Entry
    <2> PICK r \in Results : r = <<"page", n, e.to>>
      BY <2>0
    <2>1. glPte' = [glPte EXCEPT ![n] = f]
      BY <1>5 DEF set_dirty, cas
    <2>2. GlaDone(k, r) /\ glRetry' = glRetry
      BY <1>5 DEF set_dirty
    <2>3. /\ glWalk'[k].pc = "done" /\ glWalk'[k].result = r
          /\ glWalk'[k].seen <=> glWalk[k].seen
          /\ \A j \in Walkers \ {k} : glWalk'[j] = glWalk[j]
      BY <1>1, <2>2 DEF GlaDone, To, GlaIdle, GlaTypes
    <2>4. Same(f, e) /\ f.m /\ (f.a <=> e.a) /\ f.w
      BY <1>4 DEF Entry, Same
    <2>5. GlaTypes'
      <3>1. [GlaIdle EXCEPT !.pc = "done", !.result = r, !.seen = glWalk[k].seen]
              \in [pc : Pcs, level : Levs, pte : Entry, seen : BOOLEAN, result : Results]
        BY <1>1, IdleType, Zenon DEF GlaTypes, Pcs
      <3>2. glPte' \in [Levs -> Entry]
        BY <1>1, <2>1 DEF GlaTypes
      <3> QED
        BY <1>1, <1>2, <2>2, <3>1, <3>2 DEF GlaTypes, GlaDone, To
    <2>6. glPte'[n] = f /\ \A i \in Levs \ {n} : glPte'[i] = glPte[i]
      BY <1>1, <2>1 DEF GlaTypes
    <2>7. Grows
      <3>1. ASSUME NEW i \in Levs
            PROVE  Same(glPte'[i], glPte[i]) /\ (glPte[i].a => glPte'[i].a)
                     /\ (glPte[i].m => glPte'[i].m)
        <4>1. CASE i = n
          BY <1>5, <2>4, <2>6, <4>1, Zenon
        <4>2. CASE i # n
          BY <2>6, <4>2 DEF Same
        <4> QED
          BY <4>1, <4>2
      <3> QED
        BY <3>1 DEF Grows
    <2>8. ReadInv(k)' /\ PathInv(k)' /\ CopyInv(k)'
      BY <2>3 DEF ReadInv, PathInv, CopyInv, Holds
    <2>9. DoneInv(k)'
      <3> SUFFICES ASSUME ~ glWalk[k].seen PROVE Ends(k, n)'
        BY <2>3 DEF DoneInv
      <3>1. Walked(k, n) /\ glPte[n].a
        BY <1>1, <1>2, <1>4 DEF WalkInv, PathInv, CopyInv
      <3>2. Stops(k, n) /\ r = Outcome(k, n)
        BY <1>3, <1>5 DEF Stops, Outcome
      <3>3. Walked(k, n)'
        BY <2>7, <3>1, GrowsWalked
      <3>4. Stops(k, n)' /\ r = Outcome(k, n)'
        BY <2>7, <3>2, GrowsKeeps
      <3>5. glPte'[n].a /\ glPte'[n].m
        BY <1>5, <2>4, <2>6, <3>1
      <3> QED
        BY <2>3, <3>3, <3>4, <3>5 DEF Ends, Walked
    <2>10. WalkInv(k)'
      BY <2>8, <2>9 DEF WalkInv
    <2>11. leaf(n, f)
      BY <1>3, <2>4, SameTests
    <2> QED
      BY <1>2, <1>3, <1>5, <2>1, <2>2, <2>3, <2>4, <2>5, <2>10, <2>11, FlagSet, Zenon
  <1>6. CASE glPte[n] # e
    <2>1. glPte' = glPte
      BY <1>1, <1>6 DEF set_dirty, cas, GlaTypes
    <2> QED
      BY <1>2, <1>6, <2>1, Restart DEF set_dirty
  <1> QED
    BY <1>5, <1>6

-----------------------------------------------------------------------------
(* A store of the guest.                                                   *)

\* It disturbs every walk there is, and may clear two flags and make one
\* copy stale.
LEMMA GuestWriteInv ==
    ASSUME GlaInv, guest_write
    PROVE  GlaInv'
  <1>1. GlaTypes /\ glRetry' = glRetry
    BY DEF GlaInv, guest_write
  <1>2. PICK n \in Levs, f \in Entry :
          /\ ~ f.m
          /\ glPte' = [glPte EXCEPT ![n] = f]
          /\ glGuest' = [writes |-> glGuest.writes + 1,
                         entry |-> [glGuest.entry EXCEPT ![n] = f]]
    <2>1. PICK n \in 0..(Levels - 1), v \in BOOLEAN, u \in BOOLEAN, w \in BOOLEAN,
               p \in BOOLEAN, t \in {"mem", "hole"} :
            LET e == IF v THEN [v |-> v, u |-> u, w |-> w, a |-> FALSE, m |-> FALSE,
                                ps |-> p, to |-> t]
                     ELSE NoEntry
            IN  /\ glPte' = [glPte EXCEPT ![n] = e]
                /\ glGuest' = [writes |-> glGuest.writes + 1,
                               entry |-> [glGuest.entry EXCEPT ![n] = e]]
                /\ glWalk' = [k \in Walkers |-> [glWalk[k] EXCEPT !.seen =
                                                   glWalk[k].pc # "idle"]]
      BY Zenon DEF guest_write
    <2>2. CASE v
      <3>1. [v |-> v, u |-> u, w |-> w, a |-> FALSE, m |-> FALSE, ps |-> p, to |-> t] \in Entry
        BY DEF Entry
      <3> QED
        BY <2>1, <2>2, <3>1, Zenon DEF Levs
    <2>3. CASE ~ v
      <3>1. NoEntry \in Entry /\ ~ NoEntry.m
        BY Zenon DEF Entry, NoEntry, Fresh
      <3> QED
        BY <2>1, <2>3, <3>1, Zenon DEF Levs
    <2> QED
      BY <2>2, <2>3
  <1>3. glWalk' = [k \in Walkers |-> [glWalk[k] EXCEPT !.seen = glWalk[k].pc # "idle"]]
    BY DEF guest_write
  <1>4. glGuest.writes < MaxWrites
    BY DEF guest_write
  <1>5. /\ glPte'[n] = f /\ glGuest'.entry[n] = f
        /\ \A i \in Levs \ {n} : glPte'[i] = glPte[i] /\ glGuest'.entry[i] = glGuest.entry[i]
        /\ glGuest'.writes = glGuest.writes + 1
    BY <1>1, <1>2 DEF GlaTypes
  <1>6. \A j \in Walkers : /\ glWalk'[j].pc = glWalk[j].pc
                           /\ glWalk'[j].level = glWalk[j].level
                           /\ glWalk'[j].pte = glWalk[j].pte
                           /\ glWalk'[j].seen <=> glWalk[j].pc # "idle"
    BY <1>1, <1>3, Zenon DEF GlaTypes
  <1>7. GlaTypes'
    <2>1. glPte' \in [Levs -> Entry]
      BY <1>1, <1>2 DEF GlaTypes
    <2>2. glGuest' \in [writes : 0..MaxWrites, entry : [Levs -> Entry]]
      <3>1. glGuest.writes + 1 \in 0..MaxWrites
        BY <1>1, <1>4, GlaAssumption DEF GlaTypes
      <3>2. [glGuest.entry EXCEPT ![n] = f] \in [Levs -> Entry]
        BY <1>1 DEF GlaTypes
      <3> QED
        BY <1>2, <3>1, <3>2
    <2>3. glWalk' \in [Walkers -> [pc : Pcs, level : Levs, pte : Entry,
                                   seen : BOOLEAN, result : Results]]
      <3>1. ASSUME NEW k \in Walkers
            PROVE  [glWalk[k] EXCEPT !.seen = glWalk[k].pc # "idle"]
                     \in [pc : Pcs, level : Levs, pte : Entry,
                          seen : BOOLEAN, result : Results]
        BY <1>1, Zenon DEF GlaTypes
      <3> QED
        BY <1>3, <3>1
    <2> QED
      BY <1>1, <2>1, <2>2, <2>3 DEF GlaTypes
  <1>8. StoresInv'
    BY <1>5 DEF GlaInv, StoresInv, Same
  <1>9. DirtyOnlyOnWritten'
    <2> SUFFICES ASSUME NEW i \in Levs, glPte'[i].m
                 PROVE  Writers # {} /\ glPte'[i].w /\ leaf(i, glPte'[i])
      BY DEF DirtyOnlyOnWritten, Levs, leaf, large
    <2>1. i # n
      BY <1>2, <1>5
    <2>2. glPte[i].m => Writers # {} /\ glPte[i].w /\ leaf(i, glPte[i])
      BY DEF GlaInv, DirtyOnlyOnWritten, Levs
    <2> QED
      BY <1>5, <2>1, <2>2
  <1>10. ASSUME NEW j \in Walkers PROVE WalkInv(j)'
    <2>1. ReadInv(j)
      BY DEF GlaInv, WalkInv
    <2>2. ReadInv(j)'
      BY <1>6, <2>1 DEF ReadInv, Holds, denied, leaf, large
    <2>3. PathInv(j)' /\ CopyInv(j)' /\ DoneInv(j)'
      BY <1>6 DEF PathInv, CopyInv, DoneInv, Holds
    <2> QED
      BY <2>2, <2>3 DEF WalkInv
  <1>11. /\ Cardinality(Unaccessed)' <= Cardinality(Unaccessed) + 1
         /\ Cardinality(Clean)' <= Cardinality(Clean) + 1
         /\ Cardinality(Unaccessed)' \in Nat /\ Cardinality(Clean)' \in Nat
    <2>1. Unaccessed' \subseteq Unaccessed \cup {n} /\ Clean' \subseteq Clean \cup {n}
      BY <1>5 DEF Unaccessed, Clean
    <2>2. /\ IsFiniteSet(Unaccessed \cup {n}) /\ IsFiniteSet(Clean \cup {n})
          /\ Cardinality(Unaccessed \cup {n}) <= Cardinality(Unaccessed) + 1
          /\ Cardinality(Clean \cup {n}) <= Cardinality(Clean) + 1
          /\ Cardinality(Unaccessed \cup {n}) \in Nat /\ Cardinality(Clean \cup {n}) \in Nat
          /\ Cardinality(Unaccessed) \in Nat /\ Cardinality(Clean) \in Nat
      <3>1. Cardinality(Unaccessed) \in Nat /\ Cardinality(Clean) \in Nat
        BY FlagSets, FS_CardinalityType
      <3>2. /\ IsFiniteSet(Unaccessed \cup {n})
            /\ Cardinality(Unaccessed \cup {n})
                 = IF n \in Unaccessed THEN Cardinality(Unaccessed)
                   ELSE Cardinality(Unaccessed) + 1
        BY FlagSets, FS_AddElement
      <3>3. /\ IsFiniteSet(Clean \cup {n})
            /\ Cardinality(Clean \cup {n})
                 = IF n \in Clean THEN Cardinality(Clean) ELSE Cardinality(Clean) + 1
        BY FlagSets, FS_AddElement
      <3> QED
        BY <3>1, <3>2, <3>3
    <2>3. /\ IsFiniteSet(Unaccessed') /\ IsFiniteSet(Clean')
          /\ Cardinality(Unaccessed') <= Cardinality(Unaccessed \cup {n})
          /\ Cardinality(Clean') <= Cardinality(Clean \cup {n})
      BY <2>1, <2>2, FS_Subset
    <2>4. Cardinality(Unaccessed') \in Nat /\ Cardinality(Clean') \in Nat
      BY <2>3, FS_CardinalityType
    <2> QED
      BY <2>2, <2>3, <2>4
  <1>12. ASSUME NEW j \in Walkers PROVE RetryInv(j)'
    <2>1. Stale(j) \in {0, 1} /\ Stale(j)' \in {0, 1}
      BY DEF Stale
    <2>2. RetryInv(j)
      BY DEF GlaInv
    <2>3. Cardinality(Unaccessed) \in Nat /\ Cardinality(Clean) \in Nat
      BY FlagSets, FS_CardinalityType
    <2>4. glRetry[j] \in Nat /\ glRetry'[j] = glRetry[j] /\ glGuest.writes \in Nat
          /\ Levels \in Nat
      BY <1>1, GlaAssumption DEF GlaTypes
    <2> QED
      BY <1>5, <1>11, <2>1, <2>2, <2>3, <2>4 DEF RetryInv
  <1> QED
    BY <1>7, <1>8, <1>9, <1>10, <1>12 DEF GlaInv

-----------------------------------------------------------------------------
(* Every behaviour.                                                        *)

\* No entry has a flag set, and no walk has begun.
LEMMA GlaStart == GlaInit => GlaInv
  <1> SUFFICES ASSUME GlaInit PROVE GlaInv
    OBVIOUS
  <1>1. Fresh \in Entry /\ ~ Fresh.a /\ ~ Fresh.m
    BY DEF Fresh, Entry
  <1>2. \A n \in Levs : glPte[n] = Fresh
    BY DEF GlaInit, Levs
  <1>3. GlaTypes
    <2>1. glPte \in [Levs -> Entry]
      BY <1>1 DEF GlaInit, Levs
    <2>2. glWalk \in [Walkers -> [pc : Pcs, level : Levs, pte : Entry,
                                  seen : BOOLEAN, result : Results]]
      BY IdleType DEF GlaInit
    <2>3. glGuest \in [writes : 0..MaxWrites, entry : [Levs -> Entry]]
      BY <2>1, GlaAssumption DEF GlaInit
    <2>4. glRetry \in [Walkers -> Nat]
      BY DEF GlaInit
    <2> QED
      BY <2>1, <2>2, <2>3, <2>4 DEF GlaTypes
  <1>4. StoresInv
    BY DEF GlaInit, StoresInv, Same
  <1>5. DirtyOnlyOnWritten
    BY <1>1, <1>2 DEF DirtyOnlyOnWritten, Levs
  <1>6. ASSUME NEW k \in Walkers PROVE WalkInv(k) /\ RetryInv(k)
    <2>1. glWalk[k].pc = "idle" /\ glRetry[k] = 0 /\ glGuest.writes = 0
      BY DEF GlaInit, GlaIdle
    <2>2. WalkInv(k)
      BY <2>1 DEF WalkInv, ReadInv, PathInv, CopyInv, DoneInv, Holds
    <2>3. 0 \in Int /\ Levels - 1 \in Int /\ Levels \in Nat
      BY GlaAssumption
    <2>4. IsFiniteSet(Levs) /\ Cardinality(Levs) = Levels
      BY <2>3, GlaAssumption, FS_Interval DEF Levs
    <2>5. Unaccessed = Levs /\ Clean = Levs
      BY <1>1, <1>2 DEF Unaccessed, Clean
    <2>6. Stale(k) = 0
      BY <2>1 DEF Stale, Holds
    <2> QED
      BY <2>1, <2>2, <2>3, <2>4, <2>5, <2>6 DEF RetryInv
  <1> QED
    BY <1>3, <1>4, <1>5, <1>6 DEF GlaInv

\* Nothing happens.
LEMMA GlaStutter == ASSUME GlaInv, UNCHANGED glVars PROVE GlaInv'
  <1>1. glPte' = glPte /\ glWalk' = glWalk /\ glGuest' = glGuest /\ glRetry' = glRetry
    BY DEF glVars
  <1>2. GlaTypes' /\ StoresInv' /\ DirtyOnlyOnWritten'
    BY <1>1 DEF GlaInv, GlaTypes, StoresInv, Same, DirtyOnlyOnWritten, leaf, large
  <1>3. ASSUME NEW k \in Walkers PROVE WalkInv(k)'
    <2>1. Grows
      BY <1>1 DEF Grows, Same
    <2> QED
      BY <1>1, <2>1, OtherWalker DEF GlaInv
  <1>4. ASSUME NEW k \in Walkers PROVE RetryInv(k)'
    BY <1>1 DEF GlaInv, RetryInv, Stale, Holds, Unaccessed, Clean
  <1> QED
    BY <1>2, <1>3, <1>4 DEF GlaInv

\* Every step of the walkers and of the guest keeps the invariant.
LEMMA GlaStep == ASSUME GlaInv, [GlaNext]_glVars PROVE GlaInv'
  <1>1. CASE UNCHANGED glVars
    BY <1>1, GlaStutter
  <1>2. CASE guest_write
    BY <1>2, GuestWriteInv
  <1>3. CASE \E k \in Walkers : vm_gla2gpa(k) \/ read_pte(k) \/ set_accessed(k)
                                \/ next_level(k) \/ set_dirty(k) \/ walk_finish(k)
    BY <1>3, BeginInv, ReadPteInv, AccessedInv, NextLevelInv, DirtyInv, FinishInv
  <1> QED
    BY <1>1, <1>2, <1>3 DEF GlaNext

\* The invariant holds in every state of every behaviour.
LEMMA GlaInvariance == GlaSpec => []GlaInv
  <1>1. GlaInit => GlaInv
    BY GlaStart
  <1>2. GlaInv /\ [GlaNext]_glVars => GlaInv'
    BY GlaStep
  <1> QED
    BY <1>1, <1>2, PTL DEF GlaSpec

\* An entry is its fields.
LEMMA EntryFields ==
    ASSUME NEW e \in Entry
    PROVE  e = [v |-> e.v, u |-> e.u, w |-> e.w, a |-> e.a, m |-> e.m, ps |-> e.ps,
                to |-> e.to]
  BY Zenon DEF Entry

\* vm_gla2gpa's compare-and-swaps undo no store of the guest to its page
\* tables, for any number of levels, walkers and stores.
THEOREM StoresKept == GlaSpec => []GuestStoresKept
  <1>1. GlaInv => GuestStoresKept
    <2> SUFFICES ASSUME GlaInv, NEW n \in Levs
                 PROVE  [glPte[n] EXCEPT !.a = FALSE, !.m = FALSE]
                          = [glGuest.entry[n] EXCEPT !.a = FALSE, !.m = FALSE]
      BY Zenon DEF GuestStoresKept, Levs
    <2>1. glPte[n] \in Entry /\ glGuest.entry[n] \in Entry
      BY DEF GlaInv, GlaTypes
    <2>2. Same(glPte[n], glGuest.entry[n])
      BY DEF GlaInv, StoresInv
    <2>3. /\ [glPte[n] EXCEPT !.a = FALSE, !.m = FALSE] \in Entry
          /\ [glGuest.entry[n] EXCEPT !.a = FALSE, !.m = FALSE] \in Entry
      BY <2>1, Zenon DEF Entry
    <2> PICK e \in Entry : e = [glPte[n] EXCEPT !.a = FALSE, !.m = FALSE]
      BY <2>3
    <2> PICK f \in Entry : f = [glGuest.entry[n] EXCEPT !.a = FALSE, !.m = FALSE]
      BY <2>3
    <2>4. /\ e.v = f.v /\ e.u = f.u /\ e.w = f.w /\ e.a = f.a /\ e.m = f.m
          /\ e.ps = f.ps /\ e.to = f.to
      <3>1. /\ glPte[n].v = glGuest.entry[n].v /\ glPte[n].u = glGuest.entry[n].u
            /\ glPte[n].w = glGuest.entry[n].w /\ glPte[n].ps = glGuest.entry[n].ps
            /\ glPte[n].to = glGuest.entry[n].to
        BY <2>1, <2>2 DEF Entry, Same
      <3> QED
        BY <2>1, <3>1 DEF Entry
    <2>5. e = [v |-> e.v, u |-> e.u, w |-> e.w, a |-> e.a, m |-> e.m, ps |-> e.ps,
               to |-> e.to]
      BY EntryFields, Zenon
    <2>6. f = [v |-> f.v, u |-> f.u, w |-> f.w, a |-> f.a, m |-> f.m, ps |-> f.ps,
               to |-> f.to]
      BY EntryFields, Zenon
    <2> QED
      BY <2>4, <2>5, <2>6, Zenon
  <1> QED
    BY <1>1, GlaInvariance, PTL

\* The dirty flag is set by a walk that writes, and only on the entry that
\* provides the page.
THEOREM DirtyIsWritten == GlaSpec => []DirtyOnlyOnWritten
  <1>1. GlaInv => DirtyOnlyOnWritten
    BY DEF GlaInv
  <1> QED
    BY <1>1, GlaInvariance, PTL

\* A walk during which the guest stores nothing to its tables gives what the
\* processor's walk gives, and leaves the flags so, however many other
\* walkers set flags in the meantime.
THEOREM WalksMatch == GlaSpec => []WalkMatches
  <1>1. GlaInv => WalkMatches
    <2> SUFFICES ASSUME GlaInv, NEW k \in Walkers,
                        glWalk[k].pc = "done", ~ glWalk[k].seen
                 PROVE  /\ glWalk[k].result = Reference(k)
                        /\ glWalk[k].result \notin {PageFault, Efault} =>
                             \A i \in GlaStop(k)..(Levels - 1) :
                               /\ i \notin Unchecked => glPte[i].a
                               /\ i = GlaStop(k) /\ k \in Writers => glPte[i].m
      BY DEF WalkMatches
    <2>1. PICK n \in Levs : Ends(k, n)
      BY DEF GlaInv, WalkInv, DoneInv
    <2>2. Levels \in Nat
      BY GlaAssumption
    <2>3. Stops(k, n) /\ \A i \in (n + 1)..(Levels - 1) : ~ Stops(k, i)
      BY <2>1, <2>2 DEF Ends, Levs
    <2>4. \A i \in Levs : Stops(k, i) /\ (\A j \in (i + 1)..(Levels - 1) : ~ Stops(k, j)) => i = n
      BY <2>1, <2>2 DEF Ends, Levs
    <2>5. GlaStop(k) = n
      BY <2>3, <2>4 DEF GlaStop, Levs
    <2>6. glWalk[k].result = Reference(k)
      BY <2>1, <2>5 DEF Reference, Ends
    <2>7. ASSUME glWalk[k].result \notin {PageFault, Efault}, NEW i \in n..(Levels - 1)
          PROVE  /\ i \notin Unchecked => glPte[i].a
                 /\ i = n /\ k \in Writers => glPte[i].m
      BY <2>1, <2>2, <2>7 DEF Ends, Walked, Levs
    <2> QED
      BY <2>5, <2>6, <2>7
  <1> QED
    BY <1>1, GlaInvariance, PTL

\* The restarts of a walk are bounded by the flags there are to set and the
\* stores of the guest: the loop does not spin on its own.
THEOREM RetriesBounded == GlaSpec => []BoundedRetries
  <1>1. GlaInv => BoundedRetries
    <2> SUFFICES ASSUME GlaInv, NEW k \in Walkers
                 PROVE  glRetry[k] <= 2 * Levels + 3 * glGuest.writes
      BY DEF BoundedRetries
    <2>1. RetryInv(k)
      BY DEF GlaInv
    <2>2. Cardinality(Unaccessed) \in Nat /\ Cardinality(Clean) \in Nat
      BY FlagSets, FS_CardinalityType
    <2>3. Stale(k) \in {0, 1}
      BY DEF Stale
    <2>4. glRetry[k] \in Nat /\ glGuest.writes \in Nat /\ Levels \in Nat
      BY GlaAssumption DEF GlaInv, GlaTypes
    <2> QED
      BY <2>1, <2>2, <2>3, <2>4 DEF RetryInv
  <1> QED
    BY <1>1, GlaInvariance, PTL
=============================================================================
