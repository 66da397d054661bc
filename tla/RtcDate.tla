------------------------------ MODULE RtcDate ------------------------------
(***************************************************************************)
(* The date and time fields of the real time clock (src/vmm/io/vrtc.c):    *)
(* seconds since 1970 to clock fields and back, in the four formats        *)
(* register B selects (binary or BCD, 24 or 12 hours).                     *)
(*                                                                         *)
(* A time_t is a pair of a day number and the second of that day, which    *)
(* keeps the arithmetic within the integers of the model checker.          *)
(***************************************************************************)
EXTENDS Integers, Sequences, FiniteSets

CONSTANTS Years,      \* years of the host's clock
          Times,      \* seconds of the day
          DateBytes,  \* what the guest writes to a field
          Centuries   \* what it writes to the century, below 100

VARIABLE rd  \* the clock fields, the time they were set to or read as

NoTime == [day |-> -1, sec |-> -1]  \* VRTC_BROKEN_TIME

month_days == <<31, 28, 31, 30, 31, 30, 31, 31, 30, 31, 30, 31>>

POSIX_BASE_YEAR == 1970

\* A century is a leap year only every 400 years.
leapyear(year) == year % 4 = 0 /\ (year % 100 = 0 => year % 400 = 0)

days_in_year(y) == IF leapyear(y) THEN 366 ELSE 365

days_in_month(y, m) ==
  month_days[m] + (IF m = 2 /\ leapyear(y) THEN 1 ELSE 0)

\* The days of the years from 1970 on, and of the months before m.
years_to_days(y) ==
  LET past == POSIX_BASE_YEAR .. y - 1
  IN  365 * Cardinality(past) + Cardinality({i \in past : leapyear(i)})

RECURSIVE months_to_days(_, _)
months_to_days(y, m) ==
  IF m = 1 THEN 0 ELSE months_to_days(y, m - 1) + days_in_month(y, m - 1)

clock_ct_to_ts(ct) ==
  IF \/ ct.mon < 1 \/ ct.mon > 12 \/ ct.day < 1
     \/ ct.day > days_in_month(ct.year, ct.mon)
     \/ ct.hour > 23 \/ ct.min > 59 \/ ct.sec > 59
  THEN NoTime
  ELSE [day |-> years_to_days(ct.year) + months_to_days(ct.year, ct.mon)
                + (ct.day - 1),
        sec |-> (ct.hour * 60 + ct.min) * 60 + ct.sec]

\* Whole years are taken off, as long as the days last: what is left, and the
\* year it falls in.  A year has 365 or 366 days, which leaves few candidates.
take_years(days) ==
  LET years == POSIX_BASE_YEAR + days \div 366 .. POSIX_BASE_YEAR + days \div 365
  IN  CHOOSE left \in {<<days - years_to_days(y), y>> : y \in years} :
        0 <= left[1] /\ left[1] < days_in_year(left[2])

\* ... then whole months.
RECURSIVE take_months(_, _, _)
take_months(days, year, m) ==
  IF days < days_in_month(year, m) THEN <<days, m>>
  ELSE take_months(days - days_in_month(year, m), year, m + 1)

clock_ts_to_ct(ts) ==
  LET y == take_years(ts.day)
      m == take_months(y[1], y[2], 1)
  IN  [year |-> y[2], mon |-> m[2], day |-> m[1] + 1,
       dow |-> (ts.day + 4) % 7, hour |-> ts.sec \div 3600,
       min |-> (ts.sec % 3600) \div 60, sec |-> ts.sec % 60]

\* bin2bcd_data and rtcget; -1 stands for its error.
rtcset(b, val) ==
  IF "BIN" \in b THEN val ELSE (val \div 10) * 16 + (val % 10)

rtcget(b, val) ==
  LET lower == val % 16
      upper == (val \div 16) % 16
  IN  IF "BIN" \in b THEN val
      ELSE IF lower > 9 \/ upper > 9 THEN -1
      ELSE upper * 10 + lower

\* mutant: midnight is hour 0 of the 12-hour format
hour12_zero(h) == h % 12

hour12(h) == IF h \in {0, 12} THEN 12 ELSE h % 12

secs_to_rtc(ts, b) ==
  LET ct == clock_ts_to_ct(ts)
      set(v) == rtcset(b, v)
  IN  [sec |-> set(ct.sec), min |-> set(ct.min),
       hour |-> IF "24HR" \in b THEN set(ct.hour)
                ELSE set(hour12(ct.hour)) + (IF ct.hour >= 12 THEN 128 ELSE 0),
       dow |-> set(ct.dow + 1), day |-> set(ct.day), mon |-> set(ct.mon),
       year |-> set(ct.year % 100), century |-> set(ct.year \div 100)]

\* The hour of the 12-hour format, or -1.
hour24(b, hour) ==
  LET pm == hour >= 128
      h == rtcget(b, IF pm THEN hour - 128 ELSE hour)
  IN  IF h \notin 1..12 THEN -1 ELSE (h % 12) + (IF pm THEN 12 ELSE 0)

rtc_to_secs(f, b) ==
  LET get(v) == rtcget(b, v)
      hour == IF "24HR" \in b THEN get(f.hour) ELSE hour24(b, f.hour)
      ct == [sec |-> get(f.sec), min |-> get(f.min), hour |-> hour,
             day |-> get(f.day), mon |-> get(f.mon),
             year |-> get(f.century) * 100 + get(f.year)]
  IN  IF /\ ct.sec \in 0..59 /\ ct.min \in 0..59 /\ ct.hour \in 0..23
         /\ ct.day \in 1..31 /\ ct.mon \in 1..12
         /\ get(f.year) \in 0..99 /\ get(f.century) >= 0 /\ ct.year >= 1900
      THEN clock_ct_to_ts(ct) ELSE NoTime

-----------------------------------------------------------------------------
(* The clock is set from the host, the guest writes fields, and reads it.  *)

rdVars == <<rd>>

DateIdle == [phase |-> "idle"]

DateInit == rd = DateIdle

\* The day number of a date by counting leap days since March of year 0.
DayNumber(y, m, d) ==
  LET yy == IF m <= 2 THEN y - 1 ELSE y
      mm == IF m <= 2 THEN m + 9 ELSE m - 3
  IN  yy * 365 + yy \div 4 - yy \div 100 + yy \div 400
      + (mm * 153 + 2) \div 5 + (d - 1) - 719468

set_clock ==
  /\ rd = DateIdle
  /\ \E y \in Years, off \in 0..365, s \in Times,
        b \in SUBSET {"BIN", "24HR"} :
       LET ts == [day |-> DayNumber(y, 1, 1) + off, sec |-> s]
       IN rd' = [phase |-> "set", b |-> b, ts |-> ts,
                 fields |-> secs_to_rtc(ts, b), edited |-> FALSE]

\* The bounds: the guest edits one field, of the first and last days of
\* months only.
guest_edit ==
  /\ rd.phase = "set"
  /\ clock_ts_to_ct(rd.ts).day \in {1, 31}
  /\ \E f \in DOMAIN rd.fields : \E v \in IF f = "century" THEN Centuries ELSE DateBytes :
       rd' = [rd EXCEPT !.fields[f] = v, !.edited = TRUE, !.phase = "edited"]

read_clock ==
  /\ rd.phase \in {"set", "edited"}
  /\ rd' = [phase |-> "read", b |-> rd.b, ts |-> rd.ts, edited |-> rd.edited,
            fields |-> rd.fields, got |-> rtc_to_secs(rd.fields, rd.b)]

date_again == rd.phase = "read" /\ rd' = DateIdle

DateNext == set_clock \/ guest_edit \/ read_clock \/ date_again

DateSpec == DateInit /\ [][DateNext]_rdVars
-----------------------------------------------------------------------------
(* Properties                                                              *)

\* The byte that shows a number, and an hour, by the data sheet.
Shown(b, v) == IF "BIN" \in b THEN v ELSE 16 * (v \div 10) + (v % 10)

ShownHour(b, h) ==
  IF "24HR" \in b THEN Shown(b, h)
  ELSE Shown(b, IF h % 12 = 0 THEN 12 ELSE h % 12) + 128 * (h \div 12)

\* The dates that the fields show, in the calendar.
MonthEnd(y, m) == DayNumber(IF m = 12 THEN y + 1 ELSE y, (m % 12) + 1, 1)
                  - DayNumber(y, m, 1)

\* What the fields of the clock mean, as the set of the times they show.
Means(f, b) ==
  {[day |-> DayNumber(c * 100 + y, m, d), sec |-> h * 3600 + mi * 60 + s] :
     c \in {x \in 19..99 : Shown(b, x) = f.century},
     y \in {x \in 0..99 : Shown(b, x) = f.year},
     m \in {x \in 1..12 : Shown(b, x) = f.mon},
     d \in {x \in 1..31 : Shown(b, x) = f.day},
     h \in {x \in 0..23 : ShownHour(b, x) = f.hour},
     mi \in {x \in 0..59 : Shown(b, x) = f.min},
     s \in {x \in 0..59 : Shown(b, x) = f.sec}}

\* rtc_to_secs undoes secs_to_rtc in each of the formats, at every day of a
\* leap year, a common year and a century, and at midnight and noon.
RoundTrips ==
  rd.phase = "read" /\ ~rd.edited => rd.got = rd.ts

\* Fields the guest has written are read as the date they show in the
\* calendar, or as broken when they show none: a month's day that does not
\* exist, a digit that is not decimal, hour 0 of a 12-hour clock.  A year
\* before 1970 is left out, which clock_ct_to_ts takes for 1970.
ReadsWhatIsShown ==
  rd.phase = "read" =>
    LET f == rd.fields
        b == rd.b
        year == rtcget(b, f.century) * 100 + rtcget(b, f.year)
        fits == \E y \in {year}, m \in 1..12, d \in 1..31 :
                  Shown(b, m) = f.mon /\ Shown(b, d) = f.day
                  /\ d <= MonthEnd(y, m)
    IN  year >= POSIX_BASE_YEAR \/ rtcget(b, f.century) < 0 =>
          IF Means(f, b) # {} /\ fits THEN {rd.got} = Means(f, b)
          ELSE rd.got = NoTime
=============================================================================
