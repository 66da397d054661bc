-------------------------------- MODULE Vhpet --------------------------------
(***************************************************************************)
(* The HPET of src/vmm/io/vhpet.c: the main counter, the timers with their *)
(* comparators, and the callout of each timer.  A section under VHPET_LOCK *)
(* is one step.  Time is counted in ticks of the counter (freq_sbt is 1),  *)
(* which has CounterMod values (2^32).  A write to one half of a 64-bit    *)
(* register changes only the fields of that half: the upper halves hold    *)
(* nothing that the timers use.                                            *)
(***************************************************************************)
EXTENDS Integers, FiniteSets, TimerCallout

CONSTANTS Timers,       \* the timers used, of VHPET_NUM_TIMERS
          CounterMod,   \* values of the main counter
          AllowedPins,  \* HPET_TCAP_INT_ROUTE: the pins a timer may use
          Configs,      \* what the guest writes to a timer's configuration
          CompVals,     \* what the guest writes to a comparator or the counter
          HpetMaxTime   \* bound: the clock stops here

VARIABLES hpetOn,       \* HPET_CNF_ENABLE
          hpetBase,     \* countbase
          hpetBaseSbt,  \* countbase_sbt
          hpetIsr,      \* isr
          hpetTimer,    \* timer[n], with the flags of its callout
          hpetLine,     \* assertions less deassertions, per I/O APIC pin
          hpetNow,      \* sbinuptime()
          hpetAborted   \* xhyve_abort or a KASSERT was reached

hpetVars == <<hpetOn, hpetBase, hpetBaseSbt, hpetIsr, hpetTimer, hpetLine, hpetNow, hpetAborted>>

Counter == 0 .. CounterMod - 1

HpetPins == AllowedPins \cup {c.route : c \in Configs}

HpetTypeOK ==
  /\ hpetOn \in BOOLEAN
  /\ hpetBase \in Counter
  /\ hpetBaseSbt \in 0 .. HpetMaxTime
  /\ hpetIsr \subseteq Timers
  /\ \A n \in Timers :
       /\ CalloutFlags(hpetTimer[n]) \subseteq BOOLEAN
       /\ {hpetTimer[n].compval, hpetTimer[n].comprate} \subseteq Counter
       /\ hpetTimer[n].callout_sbt \in 0 .. HpetMaxTime + CounterMod
  /\ hpetNow \in 0 .. HpetMaxTime

\* vhpet_init
HpetInit ==
  /\ hpetOn = FALSE
  /\ hpetBase = 0
  /\ hpetBaseSbt = 0
  /\ hpetIsr = {}
  /\ hpetTimer = [n \in Timers |->
       [fsb |-> FALSE, route |-> 0, type |-> "oneshot", int_enb |-> FALSE, level |-> FALSE,
        val_set |-> FALSE, compval |-> CounterMod - 1, comprate |-> 0, callout_sbt |-> 0,
        pending |-> FALSE, active |-> FALSE, called |-> FALSE]]
  /\ hpetLine = [p \in HpetPins |-> 0]
  /\ hpetNow = 0
  /\ hpetAborted = FALSE

-----------------------------------------------------------------------------

\* a timer that uses MSI is not connected to the I/O APIC
vhpet_timer_ioapic_pin(t) == IF t.fsb THEN 0 ELSE t.route

vhpet_counter ==
  IF hpetOn THEN (hpetBase + hpetNow - hpetBaseSbt) % CounterMod ELSE hpetBase

\* mutant: the next comparator value is one period after the last one
adjust_compval_step(t, counter) ==
  [t EXCEPT !.compval = (@ + t.comprate) % CounterMod]

\* the first multiple of the period after the last value that is ahead of
\* the counter
vhpet_adjust_compval(t, counter) ==
  LET behind == (counter - t.compval) % CounterMod
  IN  [t EXCEPT !.compval = (@ + (behind \div t.comprate + 1) * t.comprate) % CounterMod]

vhpet_start_timer(t, counter) ==
  LET u == IF t.comprate # 0 THEN vhpet_adjust_compval(t, counter) ELSE t
  IN  [callout_reset_sbt(u) EXCEPT
        !.callout_sbt = hpetNow + ((u.compval - counter) % CounterMod)]

\* the timers S are to interrupt: those that assert a pin
asserting(S, isr) ==
  {n \in S : /\ hpetTimer[n].int_enb
             /\ n \notin isr
             /\ vhpet_timer_ioapic_pin(hpetTimer[n]) # 0
             /\ hpetTimer[n].level}

\* hpetLine when the timers U assert and the timers D deassert their pins
lines(U, D) ==
  [p \in HpetPins |-> hpetLine[p]
     + Cardinality({n \in U : vhpet_timer_ioapic_pin(hpetTimer[n]) = p})
     - Cardinality({n \in D : vhpet_timer_ioapic_pin(hpetTimer[n]) = p})]

\* mutant: a level interrupt that is asserted already is asserted again
timer_interrupt_again(S) ==
  LET U == asserting(S, {})
  IN  hpetIsr' = hpetIsr \cup U /\ hpetLine' = lines(U, {})

\* MSIs and pulses leave nothing behind
vhpet_timer_interrupt(S) ==
  LET U == asserting(S, hpetIsr)
  IN  hpetIsr' = hpetIsr \cup U /\ hpetLine' = lines(U, {})

-----------------------------------------------------------------------------
(* The callout of a timer.                                                 *)

HpetDispatch(n) ==
  /\ Dispatchable(hpetTimer[n])
  /\ hpetNow >= hpetTimer[n].callout_sbt
  /\ hpetTimer' = [hpetTimer EXCEPT ![n] = Dispatched(@)]
  /\ UNCHANGED <<hpetOn, hpetBase, hpetBaseSbt, hpetIsr, hpetLine, hpetNow, hpetAborted>>

vhpet_handler(n) ==
  /\ hpetTimer[n].called
  /\ IF HandlerReturns(hpetTimer[n])
     THEN /\ hpetTimer' = [hpetTimer EXCEPT ![n] = Returned(@)]
          /\ UNCHANGED <<hpetIsr, hpetLine, hpetAborted>>
     ELSE /\ hpetAborted' = ~hpetOn
          /\ hpetTimer' = [hpetTimer EXCEPT ![n] =
               vhpet_start_timer(callout_deactivate(Returned(@)), vhpet_counter)]
          /\ vhpet_timer_interrupt({n})
  /\ UNCHANGED <<hpetOn, hpetBase, hpetBaseSbt, hpetNow>>

-----------------------------------------------------------------------------
(* The guest.                                                              *)

\* vhpet_mmio_write of HPET_CONFIG that sets the enable bit: vhpet_start_counting
hpet_enable ==
  /\ ~hpetOn
  /\ hpetOn' = TRUE
  /\ hpetBaseSbt' = hpetNow
  /\ hpetTimer' = [n \in Timers |-> vhpet_start_timer(hpetTimer[n], hpetBase)]
  /\ UNCHANGED <<hpetBase, hpetIsr, hpetLine, hpetNow, hpetAborted>>

\* mutant: the callouts are left running
hpet_disable_running ==
  /\ hpetOn
  /\ hpetOn' = FALSE
  /\ hpetBase' = vhpet_counter
  /\ UNCHANGED <<hpetTimer, hpetIsr, hpetLine, hpetBaseSbt, hpetNow, hpetAborted>>

\* ... that clears it: vhpet_stop_counting.  A timer that has expired and
\* not been handled yet interrupts here.
hpet_disable ==
  /\ hpetOn
  /\ hpetOn' = FALSE
  /\ hpetBase' = vhpet_counter
  /\ hpetTimer' = [n \in Timers |-> callout_stop(hpetTimer[n])]
  /\ vhpet_timer_interrupt({n \in Timers : hpetTimer[n].callout_sbt < hpetNow})
  /\ UNCHANGED <<hpetBaseSbt, hpetNow, hpetAborted>>

\* HPET_ISR: vhpet_timer_clear_isr
hpet_isr_write(S) ==
  LET D == S \cap hpetIsr
  IN  /\ hpetIsr' = hpetIsr \ D
      /\ hpetLine' = lines({}, D)
      /\ hpetAborted' = (hpetAborted \/ \E n \in D : vhpet_timer_ioapic_pin(hpetTimer[n]) = 0)
      /\ UNCHANGED <<hpetOn, hpetBase, hpetBaseSbt, hpetTimer, hpetNow>>

\* HPET_MAIN_COUNTER
hpet_counter_write(v) ==
  /\ hpetBase' = v
  /\ IF hpetOn
     THEN /\ hpetBaseSbt' = hpetNow
          /\ hpetTimer' = [n \in Timers |-> vhpet_start_timer(hpetTimer[n], v)]
     ELSE UNCHANGED <<hpetBaseSbt, hpetTimer>>
  /\ UNCHANGED <<hpetOn, hpetIsr, hpetLine, hpetNow, hpetAborted>>

\* the timer t when c is written to its configuration
configured(t, c) ==
  [t EXCEPT !.fsb = c.fsb, !.type = c.type, !.int_enb = c.int_enb, !.level = c.level,
            !.val_set = c.val_set,
            !.route = IF c.fsb \/ c.route \in AllowedPins THEN c.route ELSE 0,
            !.comprate = IF c.type = "periodic" THEN @ ELSE 0]

\* an asserted interrupt is taken back if it is disabled, is no longer level
\* triggered, or goes to another pin
vhpet_timer_update_config(n, c) ==
  LET t == hpetTimer[n]
      u == configured(t, c)
      clear_isr == /\ n \in hpetIsr
                   /\ ~u.int_enb \/ u.fsb \/ ~u.level
                      \/ vhpet_timer_ioapic_pin(u) # vhpet_timer_ioapic_pin(t)
  IN  /\ hpetAborted' = (hpetAborted \/ (n \in hpetIsr /\ (t.fsb \/ ~t.level)))
      /\ hpetTimer' = [hpetTimer EXCEPT ![n] = u]
      /\ hpetIsr' = IF clear_isr THEN hpetIsr \ {n} ELSE hpetIsr
      /\ hpetLine' = IF clear_isr THEN lines({}, {n}) ELSE hpetLine
      /\ UNCHANGED <<hpetOn, hpetBase, hpetBaseSbt, hpetNow>>

\* HPET_TIMER_COMPARATOR: of a periodic timer it is the period, and the
\* comparator only after HPET_TCNF_VAL_SET
hpet_comparator_write(n, v) ==
  LET t == hpetTimer[n]
      periodic == t.type = "periodic"
      u == [t EXCEPT !.comprate = IF periodic THEN v ELSE @,
                     !.compval = IF periodic /\ ~t.val_set THEN @ ELSE v,
                     !.val_set = FALSE]
      changed == u.compval # t.compval \/ u.comprate # t.comprate
  IN  /\ hpetTimer' = [hpetTimer EXCEPT ![n] =
           IF changed /\ hpetOn THEN vhpet_start_timer(u, vhpet_counter) ELSE u]
      /\ hpetAborted' = (hpetAborted \/ (~periodic /\ t.comprate # 0))
      /\ UNCHANGED <<hpetOn, hpetBase, hpetBaseSbt, hpetIsr, hpetLine, hpetNow>>

HpetTick ==
  /\ hpetNow < HpetMaxTime
  /\ hpetNow' = hpetNow + 1
  /\ UNCHANGED <<hpetOn, hpetBase, hpetBaseSbt, hpetIsr, hpetTimer, hpetLine, hpetAborted>>

HpetNext ==
  \/ \E n \in Timers :
       \/ HpetDispatch(n)
       \/ vhpet_handler(n)
       \/ \E c \in Configs : vhpet_timer_update_config(n, c)
       \/ \E v \in CompVals : hpet_comparator_write(n, v)
  \/ hpet_enable
  \/ hpet_disable
  \/ \E S \in SUBSET Timers : hpet_isr_write(S)
  \/ \E v \in CompVals : hpet_counter_write(v)
  \/ HpetTick

HpetSpec == HpetInit /\ [][HpetNext]_hpetVars

-----------------------------------------------------------------------------
(***************************************************************************)
(* A level-triggered timer interrupt does not remain asserted for ever, as *)
(* the comment in vhpet_timer_update_config has it: a pin is held by       *)
(* exactly the timers that have their status bit set and are routed to it, *)
(* so clearing the bit, or reprogramming the timer, releases it.           *)
(***************************************************************************)
LinesMatchIsr ==
  \A p \in HpetPins : hpetLine[p] =
    Cardinality({n \in hpetIsr : vhpet_timer_ioapic_pin(hpetTimer[n]) = p /\ hpetTimer[n].level})

(***************************************************************************)
(* No abort: the handler never finds the counter disabled, the status bit  *)
(* of an edge or MSI timer is never set, and a cleared bit had a pin.      *)
(***************************************************************************)
NoAbort == ~hpetAborted

(***************************************************************************)
(* While the counter runs every timer has a callout, and a periodic one    *)
(* interrupts within one period, also when the counter wraps, is set back  *)
(* or set ahead; while it is stopped no callout is active.                 *)
(***************************************************************************)
TimersRun ==
  \A n \in Timers :
    LET t == hpetTimer[n]
    IN  /\ t.active = hpetOn
        /\ hpetOn /\ t.comprate # 0 => t.callout_sbt <= hpetNow + t.comprate
=============================================================================
