-------------------------------- MODULE Vatpit --------------------------------
(***************************************************************************)
(* The 8254 timer of src/vmm/io/vatpit.c: the channels with their byte-    *)
(* wise count and latch registers, and the callout that makes channel 0    *)
(* interrupt.  A section under VATPIT_LOCK is one step.  Time is counted   *)
(* in ticks of the 8254 (freq_sbt is 1), and a byte has ByteBase values,   *)
(* so that a 16-bit count is a number below ByteBase^2.                    *)
(***************************************************************************)
EXTENDS Naturals, Sequences, TimerCallout

CONSTANTS Channels,      \* the channels used, 0 among them
          Modes,         \* the modes used, of those vatpit_update_mode accepts
          ByteBase,      \* values of a byte (256)
          DefaultCount,  \* TIMER_DIV(PIT_8254_FREQ, 100)
          PitMaxTime     \* bound: the clock stops here

VARIABLES pitCh,          \* struct channel of every channel
          pitCo,          \* the callout of channel 0, with its callout_sbt
          pitNow,         \* sbinuptime()
          pitLoaded       \* channel 0 has a count other than 0 since its mode was set

pitVars == <<pitCh, pitCo, pitNow, pitLoaded>>

PitBytes == 0 .. ByteBase - 1

MaxCount == ByteBase * ByteBase - 1  \* 0xffff

PitTypeOK ==
  /\ \A n \in Channels :
       LET c == pitCh[n]
       IN  /\ c.mode \in Modes \cup {"INTTC"}
           /\ c.initial \in 0 .. MaxCount \cup {DefaultCount}
           /\ c.crbyte \in 0 .. 1 /\ c.olbyte \in 0 .. 2 /\ c.frbyte \in 0 .. 1
           /\ {c.cr[1], c.cr[2], c.ol[1], c.ol[2]} \subseteq PitBytes
           /\ {c.slatched, c.nullcnt, c.out} \subseteq BOOLEAN
  /\ CalloutFlags(pitCo) \subseteq BOOLEAN
  /\ pitNow \in 0 .. PitMaxTime
  /\ pitCo.sbt \in 0 .. PitMaxTime + MaxCount

\* vatpit_init; mode 0 is TIMER_INTTC
PitInit ==
  /\ pitCh = [n \in Channels |->
       [mode |-> "INTTC", initial |-> 0, now_sbt |-> 0, cr |-> <<0, 0>>, ol |-> <<0, 0>>,
        slatched |-> FALSE, nullcnt |-> FALSE, out |-> FALSE,
        crbyte |-> 0, olbyte |-> 0, frbyte |-> 0]]
  /\ pitCo = [pending |-> FALSE, active |-> FALSE, called |-> FALSE, sbt |-> 0]
  /\ pitNow = 0
  /\ pitLoaded = FALSE

-----------------------------------------------------------------------------

vatpit_get_out(c) == c.mode = "INTTC" /\ c.initial <= pitNow - c.now_sbt

\* mutant: the next interrupt is always counted from the one before
start_cntr0_behind(co, sbt, initial) ==
  IF initial = 0 THEN [co EXCEPT !.sbt = sbt]
  ELSE [callout_reset_sbt(co) EXCEPT !.sbt = sbt + 2 * initial]

\* the next interrupt is one period after the last one was due, or after now
\* if that is past; a count of 0 starts nothing
pit_timer_start_cntr0(co, sbt, initial) ==
  IF initial = 0 THEN [co EXCEPT !.sbt = sbt]
  ELSE [callout_reset_sbt(co) EXCEPT
         !.sbt = IF sbt + initial < pitNow THEN pitNow + initial ELSE sbt + initial]

\* a counter that was never loaded starts here, with the default count
running(c) ==
  IF c.initial # 0 THEN c
  ELSE [c EXCEPT !.initial = DefaultCount, !.now_sbt = pitNow, !.nullcnt = FALSE]

\* the value of a running counter
lval(c) == c.initial - ((pitNow - c.now_sbt) % c.initial)

\* the low byte is ol[2], the high byte ol[1] (C counts from 0)
pit_update_counter_latch(c) ==
  IF c.olbyte # 0 THEN c
  ELSE LET r == running(c)
       IN  [r EXCEPT !.olbyte = 2,
                     !.ol = <<(lval(r) \div ByteBase) % ByteBase, lval(r) % ByteBase>>]

-----------------------------------------------------------------------------
(* The guest.                                                              *)

\* TIMER_LATCH
pit_latch(n) ==
  /\ pitCh' = [pitCh EXCEPT ![n] = pit_update_counter_latch(@)]
  /\ UNCHANGED <<pitCo, pitNow, pitLoaded>>

\* TIMER_16BIT
vatpit_update_mode(n, mode) ==
  /\ pitCh' = [pitCh EXCEPT ![n].mode = mode, ![n].olbyte = 0, ![n].nullcnt = TRUE]
  /\ pitLoaded' = IF n = 0 THEN FALSE ELSE pitLoaded
  /\ UNCHANGED <<pitCo, pitNow>>

\* the read-back command for the channels S: latch the count, the status
pit_readback(S, count, status) ==
  /\ pitCh' = [n \in Channels |->
       IF n \notin S THEN pitCh[n]
       ELSE LET c == IF count THEN pit_update_counter_latch(pitCh[n]) ELSE pitCh[n]
            IN  IF ~status \/ c.slatched THEN c
                ELSE [c EXCEPT !.slatched = TRUE, !.out = vatpit_get_out(c)]]
  /\ UNCHANGED <<pitCo, pitNow, pitLoaded>>

\* a read of a counter port: the latched status, a latched byte, or a byte
\* of the free running counter
counter_read(n) ==
  LET c == pitCh[n]
  IN  /\ pitCh' = [pitCh EXCEPT ![n] =
           IF c.slatched
           THEN [c EXCEPT !.slatched = FALSE, !.nullcnt = FALSE, !.out = FALSE]
           ELSE IF c.olbyte = 0
                THEN [running(c) EXCEPT !.frbyte = 1 - @]
                ELSE [c EXCEPT !.olbyte = @ - 1]]
      /\ UNCHANGED <<pitCo, pitNow, pitLoaded>>

\* The first byte is only stored.  With the second the counter starts, and
\* only then is a count of 0 made the longest one.
counter_write(n, b) ==
  LET c == [pitCh[n] EXCEPT !.cr[pitCh[n].crbyte + 1] = b]
      initial == c.cr[1] + ByteBase * c.cr[2]
  IN  /\ IF c.crbyte = 0
         THEN /\ pitCh' = [pitCh EXCEPT ![n] = [c EXCEPT !.crbyte = 1]]
              /\ UNCHANGED <<pitCo, pitLoaded>>
         ELSE /\ pitCh' = [pitCh EXCEPT ![n] =
                   [c EXCEPT !.nullcnt = FALSE, !.frbyte = 0, !.crbyte = 0,
                             !.initial = IF initial = 0 THEN MaxCount ELSE initial,
                             !.now_sbt = pitNow]]
              /\ IF n = 0
                 THEN /\ pitCo' = pit_timer_start_cntr0(pitCo, pitNow, initial)
                      /\ pitLoaded' = (initial # 0)
                 ELSE UNCHANGED <<pitCo, pitLoaded>>
      /\ UNCHANGED pitNow

-----------------------------------------------------------------------------
(* The callout.                                                            *)

PitDispatch ==
  /\ Dispatchable(pitCo)
  /\ pitNow >= pitCo.sbt
  /\ pitCo' = Dispatched(pitCo)
  /\ UNCHANGED <<pitCh, pitNow, pitLoaded>>

\* the pulses of vatpic_pulse_irq and vioapic_pulse_irq have no state here
vatpit_callout_handler ==
  /\ pitCo.called
  /\ LET fired == callout_deactivate(Returned(pitCo))
     IN  pitCo' =
           IF HandlerReturns(pitCo) THEN Returned(pitCo)
           ELSE IF pitCh[0].mode = "RATEGEN"
                THEN pit_timer_start_cntr0(fired, pitCo.sbt, pitCh[0].initial)
                ELSE fired
  /\ UNCHANGED <<pitCh, pitNow, pitLoaded>>

PitTick ==
  /\ pitNow < PitMaxTime
  /\ pitNow' = pitNow + 1
  /\ UNCHANGED <<pitCh, pitCo, pitLoaded>>

PitNext ==
  \/ \E n \in Channels :
       \/ pit_latch(n)
       \/ \E mode \in Modes : vatpit_update_mode(n, mode)
       \/ counter_read(n)
       \/ \E b \in PitBytes : counter_write(n, b)
  \/ \E count, status \in BOOLEAN : pit_readback(Channels, count, status)
  \/ PitDispatch
  \/ vatpit_callout_handler
  \/ PitTick

PitSpec == PitInit /\ [][PitNext]_pitVars

-----------------------------------------------------------------------------
(***************************************************************************)
(* A rate generator never stops: channel 0 in that mode, with a count      *)
(* loaded since the mode was set, has its callout active, also while the   *)
(* handler waits for the lock and is overtaken by a new count; and the     *)
(* next interrupt is due within one period.                                *)
(***************************************************************************)
RateGenRuns ==
  pitCh[0].mode = "RATEGEN" /\ pitLoaded =>
    /\ pitCo.active
    /\ pitCo.sbt <= pitNow + pitCh[0].initial
=============================================================================
