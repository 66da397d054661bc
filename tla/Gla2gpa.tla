------------------------------- MODULE Gla2gpa -------------------------------
(***************************************************************************)
(* vm_gla2gpa of vmm_instruction_emul.c: the walk of the guest's page      *)
(* tables while other vcpus of the guest rewrite them.                     *)
(*                                                                         *)
(* One linear address is translated, by several walkers (vcpus in          *)
(* emulation) with their own privilege and access.  Level Levels-1 is the  *)
(* root.  An entry is read in one step and its accessed and dirty flags    *)
(* are set by compare-and-swap in another, so the guest may write between. *)
(***************************************************************************)
EXTENDS Naturals, FiniteSets

CONSTANTS Walkers,    \* vcpus that emulate an access to the address
          User,       \* walkers at CPL 3
          Writers,    \* walkers that write
          Levels,     \* depth of the page tables
          NoPs,       \* levels where a large page is reserved (> 1 GB)
          Unchecked,  \* levels without permission bits (the PAE PDPT)
          MaxWrites   \* bound: writes of the guest to its page tables

ASSUME GlaAssumption == /\ Levels \in Nat \ {0} /\ MaxWrites \in Nat
                        /\ 0 \notin Unchecked

VARIABLES glPte,    \* the page-table entry of every level
          glWalk,   \* every walker's local variables
          glGuest,  \* what the guest last wrote, and how often
          glRetry   \* restarts per walker

glVars == <<glPte, glWalk, glGuest, glRetry>>

Entry == [v : BOOLEAN, u : BOOLEAN, w : BOOLEAN, a : BOOLEAN, m : BOOLEAN,
          ps : BOOLEAN, to : {"mem", "hole"}]
PageFault == <<"pagefault">>
Efault == <<"efault">>
Results == {<<"none">>, PageFault, Efault} \cup
           {<<"page", n, t>> : n \in 0..(Levels - 1), t \in {"mem", "hole"}}

Fresh == [v |-> TRUE, u |-> TRUE, w |-> TRUE, a |-> FALSE, m |-> FALSE,
          ps |-> FALSE, to |-> "mem"]
NoEntry == [Fresh EXCEPT !.v = FALSE]

GlaTypeOK ==
  /\ glPte \in [0..(Levels - 1) -> Entry]
  /\ glWalk \in [Walkers -> [pc : {"idle", "read", "accessed", "next",
                                   "dirty", "done"},
                             level : 0..(Levels - 1), pte : Entry,
                             seen : BOOLEAN, result : Results]]
  /\ glGuest.writes \in 0..MaxWrites
  /\ glRetry \in [Walkers -> Nat]

GlaIdle == [pc |-> "idle", level |-> Levels - 1, pte |-> NoEntry,
         seen |-> FALSE, result |-> <<"none">>]

GlaInit ==
  /\ glPte = [n \in 0..(Levels - 1) |-> Fresh]
  /\ glWalk = [k \in Walkers |-> GlaIdle]
  /\ glGuest = [writes |-> 0, entry |-> glPte]
  /\ glRetry = [k \in Walkers |-> 0]
-----------------------------------------------------------------------------
Keep == UNCHANGED <<glPte, glGuest, glRetry>>
To(k, walk) == glWalk' = [glWalk EXCEPT ![k] = walk]
GlaDone(k, r) == To(k, [GlaIdle EXCEPT !.pc = "done", !.result = r,
                                 !.seen = glWalk[k].seen])

\* PG_PS is the PAT bit on the last level, and ignored in the PAE PDPT.
large(n, e) == n > 0 /\ n \notin Unchecked /\ e.ps

\* mutant: the loop goes on below the last level
leaf_ps_only(n, e) == large(n, e)

leaf(n, e) == n = 0 \/ large(n, e)

\* restart: from cr3, whatever has been read so far is given up.
walk_restart(k) == [glWalk[k] EXCEPT !.pc = "read", !.level = Levels - 1,
                                !.pte = NoEntry]

vm_gla2gpa(k) ==
  /\ glWalk[k].pc = "idle"
  /\ To(k, [GlaIdle EXCEPT !.pc = "read"]) /\ Keep

denied(k, n, e) ==
  \/ ~e.v
  \/ /\ n \notin Unchecked
     /\ (k \in User /\ ~e.u) \/ (k \in Writers /\ ~e.w)

\* pte = ptpbase[ptpindex], and the tests on what was read.
read_pte(k) ==
  LET n == glWalk[k].level
      e == glPte[n]
  IN  /\ glWalk[k].pc = "read"
      /\ \/ denied(k, n, e) /\ GlaDone(k, PageFault)
         \/ /\ ~denied(k, n, e)
            /\ To(k, [glWalk[k] EXCEPT !.pte = e,
                        !.pc = IF e.a \/ n \in Unchecked
                               THEN "next" ELSE "accessed"])
      /\ Keep

\* mutant: the flags are written over whatever is there
cas_blind(n, old, new) == glPte' = [glPte EXCEPT ![n] = new]

\* atomic_cmpset: the new flags are written over exactly what was read.
cas(n, old, new) == glPte' = [glPte EXCEPT ![n] = IF @ = old THEN new ELSE @]

\* The local copy keeps its clear accessed bit, so a compare-and-swap of
\* the dirty bit that follows fails once and the walk restarts.
set_accessed(k) ==
  LET n == glWalk[k].level
      e == glWalk[k].pte
  IN  /\ glWalk[k].pc = "accessed"
      /\ cas(n, e, [e EXCEPT !.a = TRUE])
      /\ IF glPte[n] = e
         THEN To(k, [glWalk[k] EXCEPT !.pc = "next"]) /\ UNCHANGED glRetry
         ELSE To(k, walk_restart(k)) /\ glRetry' = [glRetry EXCEPT ![k] = @ + 1]
      /\ UNCHANGED glGuest

next_level(k) ==
  LET n == glWalk[k].level
      e == glWalk[k].pte
  IN  /\ glWalk[k].pc = "next"
      /\ \/ large(n, e) /\ n \in NoPs /\ GlaDone(k, PageFault)
         \/ /\ leaf(n, e) /\ ~(large(n, e) /\ n \in NoPs)
            /\ k \in Writers /\ ~e.m
            /\ To(k, [glWalk[k] EXCEPT !.pc = "dirty"])
         \/ /\ leaf(n, e) /\ ~(large(n, e) /\ n \in NoPs)
            /\ ~(k \in Writers /\ ~e.m)
            /\ GlaDone(k, <<"page", n, e.to>>)
         \/ ~leaf(n, e) /\ e.to = "hole" /\ GlaDone(k, Efault)
         \/ /\ ~leaf(n, e) /\ e.to = "mem"
            /\ To(k, [glWalk[k] EXCEPT !.pc = "read", !.level = n - 1,
                                       !.pte = NoEntry])
      /\ Keep

set_dirty(k) ==
  LET n == glWalk[k].level
      e == glWalk[k].pte
  IN  /\ glWalk[k].pc = "dirty"
      /\ cas(n, e, [e EXCEPT !.m = TRUE])
      /\ IF glPte[n] = e
         THEN GlaDone(k, <<"page", n, e.to>>) /\ UNCHANGED glRetry
         ELSE To(k, walk_restart(k)) /\ glRetry' = [glRetry EXCEPT ![k] = @ + 1]
      /\ UNCHANGED glGuest

\* The caller uses the address and emulates its next access.
walk_finish(k) ==
  /\ glWalk[k].pc = "done"
  /\ To(k, GlaIdle) /\ Keep

\* External: the guest's own store to an entry; it may clear the flags.  The
\* fields of an entry that is not valid are never looked at.
guest_write ==
  /\ glGuest.writes < MaxWrites
  /\ \E n \in 0..(Levels - 1), v \in BOOLEAN, u \in BOOLEAN, w \in BOOLEAN,
        p \in BOOLEAN, t \in {"mem", "hole"} :
       LET e == IF v THEN [v |-> v, u |-> u, w |-> w, a |-> FALSE, m |-> FALSE,
                           ps |-> p, to |-> t]
                ELSE NoEntry
       IN /\ glPte' = [glPte EXCEPT ![n] = e]
          /\ glGuest' = [writes |-> glGuest.writes + 1,
                         entry |-> [glGuest.entry EXCEPT ![n] = e]]
          /\ glWalk' = [k \in Walkers |-> [glWalk[k] EXCEPT !.seen =
                                             glWalk[k].pc # "idle"]]
  /\ UNCHANGED glRetry

GlaNext ==
  \/ guest_write
  \/ \E k \in Walkers : vm_gla2gpa(k) \/ read_pte(k) \/ set_accessed(k)
                        \/ next_level(k) \/ set_dirty(k) \/ walk_finish(k)

GlaSpec == GlaInit /\ [][GlaNext]_glVars
-----------------------------------------------------------------------------
(* Reference: what the processor's own walk gives on unchanging tables.    *)
\* The level the walk stops at: a leaf, or the first entry that stops it.
Stops(k, n) == \/ denied(k, n, glPte[n]) \/ leaf(n, glPte[n])
               \/ glPte[n].to = "hole"
GlaStop(k) == CHOOSE n \in 0..(Levels - 1) :
             Stops(k, n) /\ \A i \in (n + 1)..(Levels - 1) : ~Stops(k, i)
\* what a walk that stops at level n gives
Outcome(k, n) ==
  LET e == glPte[n]
  IN  IF denied(k, n, e) \/ (large(n, e) /\ n \in NoPs) THEN PageFault
      ELSE IF leaf(n, e) THEN <<"page", n, e.to>> ELSE Efault
Reference(k) == Outcome(k, GlaStop(k))

\* No store of the guest to its page tables is undone by the emulation's
\* update of the accessed and dirty flags, however the two interleave:
\* every other field is what the guest wrote last.
GuestStoresKept ==
  \A n \in 0..(Levels - 1) :
    [glPte[n] EXCEPT !.a = FALSE, !.m = FALSE]
      = [glGuest.entry[n] EXCEPT !.a = FALSE, !.m = FALSE]

\* A walk during which the guest does not write ends in what the
\* processor would do, and leaves the flags as the processor would:
\* accessed on every level it went through, dirty on the leaf of a write.
WalkMatches ==
  \A k \in Walkers : glWalk[k].pc = "done" /\ ~glWalk[k].seen =>
    /\ glWalk[k].result = Reference(k)
    /\ glWalk[k].result \notin {PageFault, Efault} =>
         \A n \in GlaStop(k)..(Levels - 1) :
           /\ n \notin Unchecked => glPte[n].a
           /\ n = GlaStop(k) /\ k \in Writers => glPte[n].m

\* The dirty flag appears only on an entry that maps a page and may be
\* written, never on an entry that leads to another table.
DirtyOnlyOnWritten ==
  \A n \in 0..(Levels - 1) :
    glPte[n].m => Writers # {} /\ glPte[n].w /\ leaf(n, glPte[n])

\* A walk restarts only because somebody got in between: the restarts are
\* bounded by the guest's stores and the flags there are to set, so the
\* loop cannot spin on its own failed compare-and-swap.
BoundedRetries ==
  \A k \in Walkers :
    glRetry[k] <= 2 * Levels + 3 * glGuest.writes
=============================================================================
