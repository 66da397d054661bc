------------------------------ MODULE ApicDest ------------------------------
(***************************************************************************)
(* Who receives an interrupt: vlapic_calcdest (vlapic.c) and its callers,  *)
(* the interrupt command register, MSIs and the I/O APIC, computed with    *)
(* the bit arithmetic of the code and compared with the rule by which each *)
(* local APIC accepts a message.                                           *)
(***************************************************************************)
EXTENDS Integers, FiniteSets, Bitwise

CONSTANTS Vcpus,      \* vcpu numbers, which are the APIC ids
          Active,     \* the sets of active vcpus
          Ids,        \* the logical ids the guest writes to LDR, eight bits
          Fields      \* destination fields

VARIABLES ad,         \* registers of the local APICs
          adMsg,      \* the message sent, or Quiet
          adTo        \* its receivers: pairs of a vcpu and what it gets

adVars == <<ad, adMsg, adTo>>

DestQuiet == [from |-> "none", cpu |-> 0, dest |-> 0, phys |-> TRUE,
          short |-> "field", mode |-> "fixed", vec |-> 0]
Models == {"flat", "cluster", "bad"}

\* x2apic_ldr: the cluster above, a bit for the vcpu below.
x2apic_ldr(v) == <<v \div 16, 2 ^ (v % 16)>>

\* vlapic_set_x2apic_state: xAPICs start flat with logical id 0.
DestInit ==
  /\ \E a \in Active, x2 \in BOOLEAN :
       ad = [active |-> a, x2 |-> x2, dfr |-> [v \in Vcpus |-> "flat"],
             ldr |-> [v \in Vcpus |-> 0]]
  /\ adMsg = DestQuiet /\ adTo = {}

\* vlapic_ldr_write_handler, vlapic_dfr_write_handler: read-only in x2APIC
\* mode.
ldr_write(v, id) ==
  /\ adMsg = DestQuiet /\ ~ad.x2 /\ v \in ad.active
  /\ ad' = [ad EXCEPT !.ldr[v] = id]
  /\ UNCHANGED <<adMsg, adTo>>

dfr_write(v, m) ==
  /\ adMsg = DestQuiet /\ ~ad.x2 /\ v \in ad.active
  /\ ad' = [ad EXCEPT !.dfr[v] = m]
  /\ UNCHANGED <<adMsg, adTo>>
-----------------------------------------------------------------------------
\* The logical destination of a message and of a vcpu: cluster and bits.
mda_cluster(dest, x2_dest) ==
  IF x2_dest THEN <<dest \div 65536, dest % 65536>>
  ELSE <<(dest \div 16) % 16, dest % 16>>

ldr_cluster(v) ==
  IF ad.x2 THEN x2apic_ldr(v) ELSE <<ad.ldr[v] \div 16, ad.ldr[v] % 16>>

\* mutant: the cluster is not compared
matches_anywhere(v, dest, x2_dest) ==
  IF ~ad.x2 /\ ad.dfr[v] = "flat" THEN ((dest % 256) & ad.ldr[v]) # 0
  ELSE /\ ad.x2 \/ ad.dfr[v] = "cluster"
       /\ (mda_cluster(dest, x2_dest)[2] & ldr_cluster(v)[2]) # 0

matches(v, dest, x2_dest) ==
  IF ~ad.x2 /\ ad.dfr[v] = "flat" THEN ((dest % 256) & ad.ldr[v]) # 0
  ELSE /\ ad.x2 \/ ad.dfr[v] = "cluster"
       /\ ldr_cluster(v)[1] = mda_cluster(dest, x2_dest)[1]
       /\ (mda_cluster(dest, x2_dest)[2] & ldr_cluster(v)[2]) # 0

\* Lowest priority delivery takes the first vcpu that matches.
vlapic_calcdest(dest, phys, lowprio, x2_dest) ==
  LET all == {v \in ad.active : matches(v, dest, x2_dest)}
  IN  IF dest = (IF x2_dest THEN -1 ELSE 255) THEN ad.active
      ELSE IF phys THEN {v \in Vcpus : v = dest}
      ELSE IF lowprio THEN {v \in all : \A w \in all : v <= w} ELSE all

\* vlapic_icrlo_write_handler for fixed interrupts and NMIs
icr_dest(m) ==
  CASE m.short = "field" -> vlapic_calcdest(m.dest, m.phys, FALSE, ad.x2)
    [] m.short = "self" -> {m.cpu}
    [] m.short = "all" -> ad.active
    [] m.short = "others" -> ad.active \ {m.cpu}

icr_write(m) ==
  IF m.mode = "fixed" /\ m.vec < 16 THEN {}
  ELSE {<<v, IF m.mode = "nmi" THEN "nmi" ELSE m.vec>> : v \in icr_dest(m)}

\* vlapic_deliver_intr, lapic_set_intr; lapic_intr_msi (dest is physical
\* unless both the redirection hint and the logical mode are set)
vlapic_deliver_intr(m) ==
  LET to == vlapic_calcdest(m.dest, m.phys, m.mode = "lowprio", FALSE)
  IN  CASE m.mode = "extint" -> {<<v, "extint">> : v \in to}
        [] m.mode \in {"fixed", "lowprio"} ->
             {<<v, m.vec>> : v \in {w \in to : m.vec >= 16}}
        [] OTHER -> {}

ipi(m) ==
  /\ adMsg = DestQuiet /\ m.cpu \in ad.active
  /\ adMsg' = m /\ adTo' = icr_write(m) /\ UNCHANGED ad

device_interrupt(m) ==
  /\ adMsg = DestQuiet
  /\ adMsg' = m /\ adTo' = vlapic_deliver_intr(m) /\ UNCHANGED ad

dest_again == adMsg # DestQuiet /\ adMsg' = DestQuiet /\ adTo' = {} /\ UNCHANGED ad

DestNext ==
  \/ \E v \in Vcpus, id \in Ids : ldr_write(v, id)
  \/ \E v \in Vcpus, m \in Models : dfr_write(v, m)
  \/ \E c \in Vcpus, d \in Fields, p \in BOOLEAN, x \in {15, 48},
        s \in {"field", "self", "all", "others"}, mode \in {"fixed", "nmi"} :
       /\ s # "field" => d = 0 /\ p
       /\ d > 255 \/ d = -1 => ad.x2
       /\ ipi([from |-> "ipi", cpu |-> c, dest |-> d, phys |-> p,
               short |-> s, mode |-> mode, vec |-> x])
  \/ \E d \in Fields, p \in BOOLEAN, x \in {15, 48},
        mode \in {"fixed", "lowprio", "extint", "smi"} :
       /\ d \in 0..255
       /\ ad.x2 => p \/ d < 16
       /\ device_interrupt([from |-> "device", cpu |-> 0, dest |-> d,
                            phys |-> p, short |-> "field", mode |-> mode,
                            vec |-> x])
  \/ dest_again

DestSpec == DestInit /\ [][DestNext]_adVars
-----------------------------------------------------------------------------
(* Properties                                                              *)

DestBits(n) == {i \in 0..15 : (n \div 2 ^ i) % 2 = 1}

\* The rule of Intel SDM volume 3, "Determining IPI Destination": what the
\* local APIC of vcpu v, looking only at itself, does with a message.
Accepts(v, m) ==
  LET x2msg == ad.x2 /\ m.from = "ipi"
      mine == IF ad.x2 THEN {v % 16} ELSE DestBits(ad.ldr[v] % 16)
      cluster == IF ad.x2 THEN v \div 16 ELSE ad.ldr[v] \div 16
      theirs == IF x2msg THEN m.dest \div 65536 ELSE (m.dest % 256) \div 16
      bits == DestBits(IF x2msg THEN m.dest % 65536 ELSE m.dest % 16)
  IN  \/ m.dest = (IF x2msg THEN -1 ELSE 255)
      \/ m.phys /\ m.dest = v
      \/ /\ ~m.phys /\ ~ad.x2 /\ ad.dfr[v] = "flat"
         /\ DestBits(m.dest) \cap DestBits(ad.ldr[v]) # {}
      \/ /\ ~m.phys /\ (ad.x2 \/ ad.dfr[v] = "cluster")
         /\ cluster = theirs /\ bits \cap mine # {}

Addressed(m) ==
  {v \in ad.active : CASE m.short = "field" -> Accepts(v, m)
                       [] m.short = "self" -> v = m.cpu
                       [] m.short = "all" -> TRUE
                       [] m.short = "others" -> v # m.cpu}

\* Every active vcpu that a message addresses receives it, and no other one:
\* by id, flat and cluster masks, in xAPIC and x2APIC mode, broadcasts and
\* shorthands; exactly one of them for lowest priority delivery; illegal
\* vectors and unsupported modes reach nobody.
DestinationsMatch ==
  adMsg # DestQuiet =>
    LET got == {r \in adTo : r[1] \in ad.active}
        cpus == {r[1] : r \in got}
        legal == adMsg.mode \in {"nmi", "extint"}
                 \/ (adMsg.mode \in {"fixed", "lowprio"} /\ adMsg.vec >= 16)
    IN  IF ~legal THEN adTo = {}
        ELSE /\ cpus \subseteq Addressed(adMsg)
             /\ IF adMsg.mode = "lowprio" /\ ~adMsg.phys /\ adMsg.dest # 255
                THEN Cardinality(cpus) = (IF Addressed(adMsg) = {} THEN 0 ELSE 1)
                ELSE cpus = Addressed(adMsg)
=============================================================================
