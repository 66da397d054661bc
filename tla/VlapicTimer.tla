---------------------------- MODULE VlapicTimer ----------------------------
(***************************************************************************)
(* The timer of a local APIC (vlapic.c) with the registers it depends on:  *)
(* the timer and error entries of the local vector table, the divide and   *)
(* initial count registers, the enable bit of SVR and the error status.    *)
(* The vcpu programs it while the callout thread runs its handler.         *)
(***************************************************************************)
EXTENDS Integers, TimerCallout

CONSTANTS Divisors,   \* values of the divide register, in ticks per count
          Counts,     \* initial counts, among them 0
          LtMaxTime,  \* bound on time
          LiveDivide  \* the guest changes the divisor of a running timer

VARIABLES lt, ltNow, ltSeen

ltVars == <<lt, ltNow, ltSeen>>

\* An entry of the local vector table; vec is FALSE for a vector below 16.
Lvts == [masked : BOOLEAN, periodic : BOOLEAN, vec : BOOLEAN]
Masked == [masked |-> TRUE, periodic |-> FALSE, vec |-> FALSE]

LtTypeOK ==
  /\ lt.svr \in BOOLEAN /\ lt.timer \in Lvts /\ lt.error \in Lvts
  /\ lt.icr \in Counts /\ lt.freq \in Divisors /\ lt.period \in Nat
  /\ CalloutFlags(lt.co) \subseteq BOOLEAN /\ lt.pc \in {"run", "disable"}
  /\ lt.irr \subseteq {"timer", "error"} /\ ltNow \in 0..LtMaxTime

\* vlapic_init and vlapic_reset.  ltSeen: the timer is started, it is to
\* fire at base, and whether it ever fired before that.
LtInit ==
  /\ lt = [svr |-> FALSE, timer |-> Masked, error |-> Masked, icr |-> 0,
           freq |-> 2, period |-> 0, fire |-> 0, irr |-> {},
           esr_pending |-> FALSE, esr |-> FALSE, pc |-> "run",
           co |-> [pending |-> FALSE, active |-> FALSE, called |-> FALSE,
                   due |-> 0]]
  /\ ltNow = 0
  /\ ltSeen = [on |-> FALSE, base |-> 0, early |-> FALSE]

reset_at(co, when) == [callout_reset_sbt(co) EXCEPT !.due = when]

vlapic_get_ccr ==
  IF lt.co.active /\ lt.fire > ltNow THEN (lt.fire - ltNow) \div lt.freq ELSE 0

\* vlapic_fire_lvt, by way of vlapic_set_error for an illegal vector; the
\* error entry, whose vector may be illegal too, fires once.
set_intr_ready(s, x) == IF s.svr THEN [s EXCEPT !.irr = @ \cup {x}] ELSE s

vlapic_set_error(s) ==
  LET p == [s EXCEPT !.esr_pending = TRUE]
  IN  IF s.error.masked \/ ~s.error.vec THEN p ELSE set_intr_ready(p, "error")

vlapic_fire_timer(s) ==
  IF s.timer.masked THEN s
  ELSE IF s.timer.vec THEN set_intr_ready(s, "timer")
  ELSE vlapic_set_error(s)


\* The time lost since the timer was to fire is made up for, unless it is a
\* whole period.
next_fire(s) ==
  LET late == ltNow - s.fire IN
  IF late < s.period
  THEN [fire |-> s.fire + s.period, due |-> ltNow + (s.period - late)]
  ELSE [fire |-> ltNow + s.period, due |-> ltNow + s.period]

CoDispatch ==
  /\ Dispatchable(lt.co) /\ ltNow >= lt.co.due
  /\ lt' = [lt EXCEPT !.co = Dispatched(@)]
  /\ UNCHANGED <<ltNow, ltSeen>>

vlapic_callout_handler ==
  /\ lt.co.called
  /\ IF HandlerReturns(lt.co)
     THEN lt' = [lt EXCEPT !.co = Returned(@)] /\ UNCHANGED ltSeen
     ELSE LET s == vlapic_fire_timer(lt)
              n == next_fire(lt)
              co == Returned(callout_deactivate(lt.co))
          IN  /\ lt' = IF lt.timer.periodic
                       THEN [s EXCEPT !.fire = n.fire,
                                      !.co = reset_at(co, n.due)]
                       ELSE [s EXCEPT !.co = co]
              /\ ltSeen' = [on |-> lt.timer.periodic,
                            base |-> lt'.fire,
                            early |-> ltSeen.early \/ ltNow < ltSeen.base]
  /\ UNCHANGED ltNow

\* The handler of a write to the initial count, and the restart of a
\* periodic timer by vlapic_svr_write_handler.
vlapic_icrtmr_write_handler(s) ==
  LET p == s.freq * s.icr
  IN  IF s.icr = 0 THEN [s EXCEPT !.period = p, !.co = callout_stop(@)]
      ELSE [s EXCEPT !.period = p, !.fire = ltNow + p,
                     !.co = reset_at(@, ltNow + p)]

started(s) == [ltSeen EXCEPT !.on = s.icr # 0, !.base = s.fire]

icr_write(n) ==
  /\ lt.pc = "run"
  /\ lt' = vlapic_icrtmr_write_handler([lt EXCEPT !.icr = n])
  /\ ltSeen' = started(lt') /\ UNCHANGED ltNow

vlapic_dcr_write_handler(d) ==
  /\ lt.pc = "run" /\ d # lt.freq
  /\ lt.co.active => LiveDivide
  /\ lt' = [lt EXCEPT !.freq = d, !.period = d * lt.icr]
  /\ UNCHANGED <<ltNow, ltSeen>>

\* An entry is masked as long as the local APIC is disabled.
vlapic_lvt_write_handler(s, e, v) ==
  [s EXCEPT ![e] = [v EXCEPT !.masked = @ \/ ~s.svr]]

lvt_write(e, v) ==
  /\ lt.pc = "run" /\ v # lt[e]
  /\ lt' = vlapic_lvt_write_handler(lt, e, v)
  /\ UNCHANGED <<ltNow, ltSeen>>

\* vlapic_svr_write_handler: enabled ...
svr_enable ==
  /\ lt.pc = "run" /\ ~lt.svr
  /\ LET s == [lt EXCEPT !.svr = TRUE]
     IN  IF lt.timer.periodic
         THEN lt' = vlapic_icrtmr_write_handler(s) /\ ltSeen' = started(lt')
         ELSE lt' = s /\ UNCHANGED ltSeen
  /\ UNCHANGED ltNow

\* ... and disabled: the handler may still run before it is stopped.
svr_disable ==
  /\ lt.pc = "run" /\ lt.svr
  /\ lt' = [lt EXCEPT !.svr = FALSE, !.pc = "disable"]
  /\ UNCHANGED <<ltNow, ltSeen>>

disable_timer ==
  /\ lt.pc = "disable"
  /\ lt' = [lt EXCEPT !.pc = "run", !.co = callout_stop(@),
                      !.timer.masked = TRUE, !.error.masked = TRUE]
  /\ ltSeen' = [ltSeen EXCEPT !.on = FALSE] /\ UNCHANGED ltNow

vlapic_esr_write_handler ==
  /\ lt.pc = "run" /\ (lt.esr_pending \/ lt.esr)
  /\ lt' = [lt EXCEPT !.esr = lt.esr_pending, !.esr_pending = FALSE]
  /\ UNCHANGED <<ltNow, ltSeen>>

\* vlapic_intr_accepted (module Apic)
accept(x) ==
  /\ x \in lt.irr
  /\ lt' = [lt EXCEPT !.irr = @ \ {x}]
  /\ UNCHANGED <<ltNow, ltSeen>>

LtTick == ltNow < LtMaxTime /\ ltNow' = ltNow + 1 /\ UNCHANGED <<lt, ltSeen>>

LtNext ==
  \/ CoDispatch \/ vlapic_callout_handler \/ LtTick
  \/ \E n \in Counts : icr_write(n)
  \/ \E d \in Divisors : vlapic_dcr_write_handler(d)
  \/ \E v \in Lvts : lvt_write("timer", v)
  \/ \E v \in {l \in Lvts : ~l.periodic} : lvt_write("error", v)
  \/ svr_enable \/ svr_disable \/ disable_timer
  \/ vlapic_esr_write_handler \/ \E x \in {"timer", "error"} : accept(x)

LtSpec == LtInit /\ [][LtNext]_ltVars
-----------------------------------------------------------------------------
(* Properties                                                              *)

\* A timer that was started runs until it is stopped, or expires in one-shot
\* mode, whatever the order in which the handler, resets and stops come; one
\* that was stopped, by a count of 0 or with the APIC, does not; and none
\* fires before its time.
TimerRuns ==
  /\ lt.co.active = ltSeen.on
  /\ ltSeen.on => lt.co.pending \/ lt.co.called
  /\ ~lt.svr /\ lt.pc = "run" => lt.timer.masked /\ lt.error.masked
  /\ ~ltSeen.early

\* A late handler does not shift the phase of the timer: it is due exactly
\* when the count the guest reads reaches zero.
PhaseKept == lt.co.pending => lt.co.due = lt.fire

\* "KASSERT(ccr <= lapic->icr_timer": the current count never exceeds the
\* initial count.
CountBounded == vlapic_get_ccr <= lt.icr
=============================================================================
