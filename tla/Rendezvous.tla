----------------------------- MODULE Rendezvous -----------------------------
(***************************************************************************)
(* What vm_smp_rendezvous promises its caller: rendezvous happen one at a  *)
(* time, each of the requested vcpus runs the function exactly once, and   *)
(* the rendezvous is over as soon as, and not before, all of them have.    *)
(***************************************************************************)
CONSTANTS Cpus, None

VARIABLES
    owner,      \* the initiator of the rendezvous in progress, or None
    waiting     \* the vcpus that have yet to run its function

vars == <<owner, waiting>>

Init == owner = None /\ waiting = {}

Start(c) ==
    /\ owner = None
    /\ owner' = c
    /\ \E d \in SUBSET Cpus : c \in d /\ waiting' = d

Run(c) ==
    /\ c \in waiting
    /\ waiting' = waiting \ {c}
    /\ owner' = IF waiting' = {} THEN None ELSE owner

Next == \E c \in Cpus : Start(c) \/ Run(c)

Safety == Init /\ [][Next]_vars

\* Every vcpu runs the function of a rendezvous it is asked to take part in.
Spec == Safety /\ \A c \in Cpus : WF_vars(Run(c))

=============================================================================
