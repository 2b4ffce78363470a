------------------------------ MODULE Calendar ------------------------------
(***************************************************************************)
(* Calendar time: util.rs's two conversions between seconds since 1970 and *)
(* a date, the readings bm-stack's port.rs makes of them, and the dev      *)
(* kit's clock (rtc.rs), a calendar with a sub-second counter that counts  *)
(* down.  A time is days since 1970, seconds of the day and milliseconds,  *)
(* since the seconds of the code do not fit TLC's integers; they are a u32 *)
(* and wrap in 2106.                                                       *)
(*                                                                         *)
(* A definition marked "slip" is a plausible mistake in the one below it;  *)
(* the model uses none of them.                                            *)
(***************************************************************************)
EXTENDS Integers, Sequences

CONSTANT PREDIV_S       \* the sub-second counter starts here every second

ASSUME CalendarAssumption == PREDIV_S \in Nat \ {0} /\ 65536 % (PREDIV_S + 1) = 0

SECS_PER_MIN == 60
SECS_PER_HOUR == 3600
SECS_PER_DAY == 86400
EPOCH_YEAR == 1970
\* 2^32 seconds are this many days and seconds.
WrapDays == 49710
WrapSecs == 23296

MONTH_DAYS == <<31, 28, 31, 30, 31, 30, 31, 31, 30, 31, 30, 31>>
IsLeapYear(year) == year > 0 /\ year % 4 = 0 /\ (year % 100 # 0 \/ year % 400 = 0)
DaysInYear(year) == IF IsLeapYear(year) THEN 366 ELSE 365
DaysInMonth(year, month) == IF month = 2 /\ IsLeapYear(year) THEN 29 ELSE MONTH_DAYS[month]

RECURSIVE LeapDays(_)
LeapDays(year) ==
  IF year <= EPOCH_YEAR THEN 0 ELSE LeapDays(year - 1) + IF IsLeapYear(year - 1) THEN 1 ELSE 0
RECURSIVE MonthsBefore(_, _)
MonthsBefore(year, month) ==
  IF month = 1 THEN 0 ELSE MonthsBefore(year, month - 1) + DaysInMonth(year, month - 1)
\* utc_from_date_time, of dates from 1970 to 2241: days and seconds.
UtcFromDateTime(t) ==
  LET days == 365 * (t.year - EPOCH_YEAR) + LeapDays(t.year) + MonthsBefore(t.year, t.month)
              + t.day - 1
      secs == t.hour * SECS_PER_HOUR + t.minute * SECS_PER_MIN + t.second
      over == days > WrapDays \/ (days = WrapDays /\ secs >= WrapSecs)
  IN IF ~over THEN <<days, secs>>
     ELSE IF secs >= WrapSecs THEN <<days - WrapDays, secs - WrapSecs>>
     ELSE <<days - WrapDays - 1, secs + SECS_PER_DAY - WrapSecs>>

RECURSIVE YearOf(_, _)
YearOf(year, days) ==
  IF days < DaysInYear(year) THEN [year |-> year, left |-> days]
  ELSE YearOf(year + 1, days - DaysInYear(year))
RECURSIVE MonthOf(_, _, _)
MonthOf(year, month, days) ==
  IF days < DaysInMonth(year, month) THEN [month |-> month, day |-> days + 1]
  ELSE MonthOf(year, month + 1, days - DaysInMonth(year, month))
\* date_time_from_utc and RtcTimeAndDate::from_utc_micros, which keeps the
\* milliseconds.
FromUtc(days, secs, ms) ==
  LET y == YearOf(EPOCH_YEAR, days)
      m == MonthOf(y.year, 1, y.left)
  IN [year |-> y.year, month |-> m.month, day |-> m.day, hour |-> secs \div SECS_PER_HOUR,
      minute |-> (secs \div SECS_PER_MIN) % SECS_PER_MIN, second |-> secs % SECS_PER_MIN,
      ms |-> ms]
\* RtcTimeAndDate::to_utc_micros.
ToUtc(t) == UtcFromDateTime(t) \o <<t.ms>>

(* rtc.rs.  The hardware, external: the year has two digits, counts from   *)
(* 2000 and wraps; writing the time restarts the counter; an advance adds  *)
(* a second and `adjust` ticks of the counter; a tick past zero carries    *)
(* into the calendar.                                                      *)
OFFSET_YEAR == 2000
CENTURY == 100
NextSecond(cal) ==
  LET utc == UtcFromDateTime([cal EXCEPT !.year = @ + OFFSET_YEAR])
      next == IF utc[2] + 1 < SECS_PER_DAY THEN FromUtc(utc[1], utc[2] + 1, 0)
              ELSE FromUtc(utc[1] + 1, 0, 0)
  IN [next EXCEPT !.year = (@ - OFFSET_YEAR) % CENTURY]
Ticked(clock) ==
  IF clock.ss > 0 THEN [clock EXCEPT !.ss = @ - 1]
  ELSE [clock EXCEPT !.ss = PREDIV_S, !.cal = NextSecond(@)]

\* DevkitRtc::set: years the calendar has no room for are refused.
SetRefused(t) == t.year \notin OFFSET_YEAR..OFFSET_YEAR + CENTURY - 1
RtcSet(t) ==
  [cal |-> NextSecond([t EXCEPT !.year = @ - OFFSET_YEAR, !.ms = 0]),
   ss |-> PREDIV_S + ((1000 - t.ms) * (PREDIV_S + 1)) \div 1000]

\* calculate_rtc_ms: one count beyond 2 * PREDIV_S wraps.
WrappedMs == 65536 - (1000 + PREDIV_S) \div (PREDIV_S + 1)
CalculateRtcMs(ss) ==
  LET diff == IF PREDIV_S < ss THEN 2 * PREDIV_S - ss ELSE PREDIV_S - ss
  IN IF diff < 0 THEN WrappedMs ELSE (1000 * diff) \div (PREDIV_S + 1)
DecrementInDay(t) ==  \* slip
  LET secs == (t.hour * SECS_PER_HOUR + t.minute * SECS_PER_MIN + t.second + SECS_PER_DAY - 1)
              % SECS_PER_DAY
  IN [t EXCEPT !.hour = secs \div SECS_PER_HOUR, !.minute = (secs \div 60) % 60,
               !.second = secs % 60]
\* decrement_one_second borrows from field to field.
DecrementOneSecond(t) ==
  IF t.second > 0 THEN [t EXCEPT !.second = @ - 1]
  ELSE IF t.minute > 0 THEN [t EXCEPT !.second = 59, !.minute = @ - 1]
  ELSE IF t.hour > 0 THEN [t EXCEPT !.second = 59, !.minute = 59, !.hour = @ - 1]
  ELSE LET eve == [t EXCEPT !.second = 59, !.minute = 59, !.hour = 23]
       IN IF t.day > 1 THEN [eve EXCEPT !.day = @ - 1]
          ELSE LET month == IF t.month = 1 THEN 12 ELSE t.month - 1
                   year == IF t.month = 1 /\ t.year > 0 THEN t.year - 1 ELSE t.year
               IN [eve EXCEPT !.month = month, !.year = year, !.day = DaysInMonth(year, month)]
\* read_calendar.
ReadCalendar(clock) == [clock.cal EXCEPT !.year = @ + OFFSET_YEAR]
\* What DevkitRtc::get, of a clock that was set, makes of the calendar it read
\* (twice the same) and of the counter, which it reads afterwards.
RtcGet(calendar, ss) ==
  LET reading == [calendar EXCEPT !.ms = CalculateRtcMs(ss)]
  IN IF ss > PREDIV_S THEN DecrementOneSecond(reading) ELSE reading
=============================================================================
