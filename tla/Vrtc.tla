--------------------------------- MODULE Vrtc ---------------------------------
(***************************************************************************)
(* The real time clock of src/vmm/io/vrtc.c: its date and time, which runs *)
(* unless the guest halts it or holds the dividers in reset, its periodic, *)
(* alarm and update interrupts, and the callout that drives them.  A       *)
(* section under VRTC_LOCK is one step, and the sections are functions of  *)
(* the whole state, so that they can be put together as the code does.     *)
(*                                                                         *)
(* The date and time fields are one number of seconds, or Broken if they   *)
(* hold nothing valid; module RtcDate has their formats.  secs_to_rtc sets *)
(* them from the calendar clock of the host, not from the time it is given.*)
(***************************************************************************)
EXTENDS Integers, FiniteSets, TimerCallout

CONSTANTS SBT_1S,      \* a second, in ticks of sbinuptime()
          RtcMaxTime,  \* bound: the clock stops here
          Epoch,       \* the calendar clock of the host at the start
          GuestTimes,  \* date and time values the guest writes
          RegBs,       \* values of register B the guest writes: sets of bits
          Alarms,      \* alarm fields the guest writes, or AnyField
          CenturyBack  \* the guest may set the clock back with the alarm on

VARIABLES rtc,          \* struct vrtc
          rtcNow,       \* sbinuptime()
          rtcFault      \* what went wrong: assertions, a loop that does not end

rtcVars == <<rtc, rtcNow, rtcFault>>

Broken == -1  \* VRTC_BROKEN_TIME

AnyField == -2     \* alarm fields of 0xC0 or more match always

INTRS == {"PINTR", "AINTR", "UINTR"}  \* RTCSB_ALL_INTRS

Secs == 0 .. Epoch + RtcMaxTime \cup GuestTimes

RtcTypeOK ==
  /\ rtc.a \in [divider : BOOLEAN, rate : {0, 1}]
  /\ rtc.b \subseteq INTRS \cup {"HALT"}
  /\ rtc.c \subseteq {"ALARM", "PERIOD", "UPDATE", "INT"}
  /\ rtc.base_rtctime \in Secs \cup {Broken}
  /\ rtc.base_uptime \in 0 .. RtcMaxTime
  /\ rtc.fields \in Secs \cup {Broken}
  /\ rtc.alarm \in Alarms \cup {0}
  /\ {rtc.pending, rtc.active, rtc.called} \subseteq BOOLEAN
  /\ rtc.dead \in BOOLEAN
  /\ rtcNow \in 0 .. RtcMaxTime
  /\ rtcFault \subseteq {"assert", "loop"}

\* vrtc_init and rtc_init, which sets the time of the host
RtcInit ==
  /\ rtc = [a |-> [divider |-> TRUE, rate |-> 0], b |-> {}, c |-> {},
            base_rtctime |-> Epoch, base_uptime |-> 0, fields |-> Epoch, alarm |-> 0,
            pending |-> FALSE, active |-> FALSE, called |-> FALSE, due |-> 0,
            dead |-> FALSE]
  /\ rtcNow = 0
  /\ rtcFault = {}

-----------------------------------------------------------------------------

update_enabled(r) == r.a.divider /\ "HALT" \notin r.b /\ r.base_rtctime # Broken

\* whole seconds since base_uptime at the time `now'
elapsed(r, now) == IF update_enabled(r) THEN (now - r.base_uptime) \div SBT_1S ELSE 0

\* the result of vrtc_curtime, and its basetime
vrtc_curtime(r, now) == r.base_rtctime + elapsed(r, now)

basetime(r, now) == r.base_uptime + elapsed(r, now) * SBT_1S

host_clock == Epoch + rtcNow \div SBT_1S

\* nothing for a broken time, nor, unless forced, if the guest has halted
\* the updates and so owns the fields
refresh_fields(r, secs, force) ==
  IF secs = Broken \/ ("HALT" \in r.b /\ ~force) THEN r
  ELSE [r EXCEPT !.fields = host_clock]

field_secs(r) == r.fields

\* the flags S, and whether one of them is enabled
vrtc_set_reg_c(r, S) ==
  LET flags == S \cap {"ALARM", "PERIOD", "UPDATE"}
      enabled == \/ "ALARM" \in flags /\ "AINTR" \in r.b
                 \/ "PERIOD" \in flags /\ "PINTR" \in r.b
                 \/ "UPDATE" \in flags /\ "UINTR" \in r.b
  IN  [r EXCEPT !.c = IF enabled THEN flags \cup {"INT"} ELSE flags]

\* The alarm is compared with the fields once per second from the old time
\* to the new one, but each of these sets the fields from the host's clock.
vrtc_time_update(r, newtime, newbase) ==
  LET r1 == [r EXCEPT !.base_uptime = newbase]
      r2 == [r1 EXCEPT !.base_rtctime = newtime]
      r3 == IF "AINTR" \in r.b THEN refresh_fields(r2, newtime, FALSE) ELSE r2
      r4 == IF "AINTR" \in r.b /\ r3.alarm \in {AnyField, r3.fields}
            THEN vrtc_set_reg_c(r3, r3.c \cup {"ALARM"}) ELSE r3
  IN  IF newtime = r.base_rtctime THEN r1
      ELSE IF newtime = Broken THEN r2
      ELSE IF "HALT" \in r.b THEN r1
      ELSE IF "UINTR" \in r.b THEN vrtc_set_reg_c(r4, r4.c \cup {"UPDATE"}) ELSE r4

\* an error of vrtc_time_update
EBUSY(r, newtime) ==
  newtime # r.base_rtctime /\ newtime # Broken /\ "HALT" \in r.b

\* the loop of vrtc_time_update counts up, and so past, an earlier time
endless(r, newtime) ==
  /\ "AINTR" \in r.b /\ "HALT" \notin r.b
  /\ r.base_rtctime # Broken /\ newtime # Broken /\ newtime < r.base_rtctime

\* the period of the callout, 0 for none: the rate 0 has no period
vrtc_freq(r) ==
  IF "PINTR" \in r.b /\ r.a.divider THEN r.a.rate
  ELSE IF r.b \cap {"AINTR", "UINTR"} # {} /\ update_enabled(r) THEN SBT_1S ELSE 0

vrtc_callout_reset(r, freq) ==
  IF freq = 0 THEN (IF r.active THEN callout_stop(r) ELSE r)
  ELSE [callout_reset_sbt(r) EXCEPT !.due = rtcNow + freq]

\* mutant: a callout that is no longer needed goes on
callout_refresh_keep(old, new) ==
  IF vrtc_freq(new) # vrtc_freq(old) /\ vrtc_freq(new) # 0
  THEN vrtc_callout_reset(new, vrtc_freq(new)) ELSE new

\* the end of vrtc_set_reg_a and vrtc_set_reg_b
callout_refresh(old, new) ==
  IF vrtc_freq(new) # vrtc_freq(old) THEN vrtc_callout_reset(new, vrtc_freq(new)) ELSE new

\* vrtc_callout_check fails
check_fails(old, new) ==
  vrtc_freq(new) = vrtc_freq(old) /\ (vrtc_freq(new) # 0) # new.active

-----------------------------------------------------------------------------
(* The guest: vrtc_data_handler.  Each access first brings the time up to  *)
(* date; an error that it returns stops the virtual machine (dead).        *)

accessed == vrtc_time_update(rtc, vrtc_curtime(rtc, rtcNow), basetime(rtc, rtcNow))

refreshed == refresh_fields(accessed, vrtc_curtime(rtc, rtcNow), FALSE)

rtc_alive == ~rtc.dead /\ rtcFault = {}

\* a read of a date or time field
time_read ==
  /\ rtc_alive
  /\ rtc' = refreshed
  /\ UNCHANGED <<rtcNow, rtcFault>>

\* a write of the date and time fields, or of the alarm
time_write(t) ==
  /\ rtc_alive
  /\ rtc' = [refreshed EXCEPT !.fields = t]
  /\ UNCHANGED <<rtcNow, rtcFault>>

alarm_write(t) ==
  /\ rtc_alive
  /\ rtc' = [refreshed EXCEPT !.alarm = t]
  /\ UNCHANGED <<rtcNow, rtcFault>>

\* the century may be written without HALT: the time is set to the fields
century_write(t) ==
  LET r == [refreshed EXCEPT !.fields = t]
  IN  /\ rtc_alive
      /\ endless(r, t) => CenturyBack
      /\ IF "HALT" \in r.b
         THEN rtc' = r /\ UNCHANGED rtcFault
         ELSE /\ rtc' = [vrtc_time_update(r, field_secs(r), rtcNow) EXCEPT !.dead = (t = Broken)]
              /\ rtcFault' = IF endless(r, t) THEN {"loop"} ELSE {}
      /\ UNCHANGED rtcNow

\* reading register C clears it
reg_c_read ==
  /\ rtc_alive
  /\ rtc' = vrtc_set_reg_c(accessed, {})
  /\ UNCHANGED <<rtcNow, rtcFault>>

\* time stands still while the dividers are off
vrtc_set_reg_a(divider, rate) ==
  LET r == accessed
      s == [r EXCEPT !.a = [divider |-> divider, rate |-> rate],
                     !.base_uptime = IF ~r.a.divider /\ divider THEN rtcNow ELSE @]
  IN  /\ rtc_alive
      /\ rtc' = callout_refresh(r, s)
      /\ rtcFault' = IF check_fails(r, s) THEN {"assert"} ELSE {}
      /\ UNCHANGED rtcNow

(***************************************************************************)
(* Setting HALT freezes the fields, which hold the time so far, and breaks *)
(* the time; clearing it takes the time from the fields.                   *)
(***************************************************************************)
vrtc_set_reg_b(b) ==
  LET r == accessed
      s == [r EXCEPT !.b = b]
      halting == "HALT" \in b /\ "HALT" \notin r.b
      resuming == "HALT" \notin b /\ "HALT" \in r.b
      frozen == [refresh_fields(s, vrtc_curtime(s, rtcNow), TRUE) EXCEPT !.b = @ \ {"UINTR"}]
      t == CASE halting -> vrtc_time_update(frozen, Broken, basetime(s, rtcNow))
             [] resuming -> vrtc_time_update(s, field_secs(s), rtcNow)
             [] OTHER -> s
      u == IF r.b \cap INTRS # b \cap INTRS THEN vrtc_set_reg_c(t, t.c) ELSE t
  IN  /\ rtc_alive
      /\ IF resuming /\ field_secs(s) = Broken
         THEN rtc' = [s EXCEPT !.dead = TRUE] /\ UNCHANGED rtcFault
         ELSE /\ rtc' = callout_refresh(r, u)
              /\ rtcFault' = IF check_fails(r, u) \/ (halting /\ vrtc_curtime(s, rtcNow) # s.base_rtctime)
                             THEN {"assert"} ELSE {}
      /\ UNCHANGED rtcNow

-----------------------------------------------------------------------------
(* The callout.                                                            *)

RtcDispatch ==
  /\ rtc_alive
  /\ Dispatchable(rtc)
  /\ rtcNow >= rtc.due
  /\ rtc' = Dispatched(rtc)
  /\ UNCHANGED <<rtcNow, rtcFault>>

vrtc_callout_handler ==
  LET r0 == callout_deactivate(Returned(rtc))
      r1 == IF "PINTR" \in r0.b THEN vrtc_set_reg_c(r0, r0.c \cup {"PERIOD"}) ELSE r0
      late == r1.b \cap {"AINTR", "UINTR"} # {}
      t == vrtc_curtime(r1, rtcNow)
      r2 == IF late THEN vrtc_time_update(r1, t, basetime(r1, rtcNow)) ELSE r1
  IN  /\ rtc_alive
      /\ rtc.called
      /\ IF HandlerReturns(rtc)
         THEN rtc' = Returned(rtc) /\ UNCHANGED rtcFault
         ELSE /\ rtc' = vrtc_callout_reset(r2, vrtc_freq(r2))
              /\ rtcFault' = IF r0.b \cap INTRS = {} \/ (late /\ EBUSY(r1, t)) \/ vrtc_freq(r2) = 0
                             THEN {"assert"} ELSE {}
      /\ UNCHANGED rtcNow

\* vm_reset: vrtc_reset
vrtc_reset ==
  LET r == [rtc EXCEPT !.b = @ \ INTRS]
      s == IF rtc.b \cap INTRS # {} THEN vrtc_set_reg_c(r, r.c) ELSE r
  IN  /\ rtc_alive
      /\ rtc' = vrtc_set_reg_c(callout_refresh(rtc, s), {})
      /\ rtcFault' = IF check_fails(rtc, s) \/ rtc'.active THEN {"assert"} ELSE {}
      /\ UNCHANGED rtcNow

RtcTick ==
  /\ rtcNow < RtcMaxTime
  /\ rtcNow' = rtcNow + 1
  /\ UNCHANGED <<rtc, rtcFault>>

RtcNext ==
  \/ time_read
  \/ \E t \in GuestTimes \cup {Broken} : time_write(t) \/ century_write(t)
  \/ \E t \in Alarms : alarm_write(t)
  \/ reg_c_read
  \/ \E divider \in BOOLEAN, rate \in {0, 1} : vrtc_set_reg_a(divider, rate)
  \/ \E b \in RegBs : vrtc_set_reg_b(b)
  \/ RtcDispatch
  \/ vrtc_callout_handler
  \/ vrtc_reset
  \/ RtcTick

RtcSpec == RtcInit /\ [][RtcNext]_rtcVars

-----------------------------------------------------------------------------
(***************************************************************************)
(* The assertions about the callout hold: when it fires some interrupt is  *)
(* enabled, the time can be updated and there is a period to set it for,   *)
(* and whenever a register write leaves the period alone the callout is    *)
(* active just when there is one; the loop over the seconds ends.          *)
(***************************************************************************)
NoFault == rtcFault = {}

(***************************************************************************)
(* The callout runs just when there is something to do, in spite of writes *)
(* that overtake its handler; and a flag that is enabled is signalled by   *)
(* the interrupt flag in register C.                                       *)
(***************************************************************************)
CalloutFollowsFreq ==
  rtc_alive =>
    /\ rtc.active = (vrtc_freq(rtc) # 0)
    /\ "INT" \notin rtc.c => vrtc_set_reg_c(rtc, rtc.c).c = rtc.c

(***************************************************************************)
(* What the comment in vrtc_time_update says of its loop: all the seconds  *)
(* between the old time and the new one are visited to check for the       *)
(* alarm, so the alarm is not missed if the callout comes late.            *)
(***************************************************************************)
AlarmNotMissed ==
  [][ rtc.called /\ ~rtc'.called /\ "AINTR" \in rtc.b
      /\ rtc.alarm \in rtc.base_rtctime + 1 .. rtc'.base_rtctime => "ALARM" \in rtc'.c ]_rtcVars
=============================================================================
