------------------------------- MODULE Calendar -------------------------------
(***************************************************************************)
(* Dates and time zones of muduo: Julian day numbers (Date.cc), the times   *)
(* of a day in UTC, and the local times of a zone file (TimeZone.cc). A     *)
(* behaviour walks either over the days of a year, counted by hand, or over *)
(* the hours around a change of a zone's clock.                             *)
(***************************************************************************)
EXTENDS Integers, Sequences, FiniteSetsExt

CONSTANTS
    CalendarYears,   \* the years whose days are walked over
    ZoneFiles,       \* what is in a zone file: types of local time, changes
    Quarters         \* how many quarter hours after its start a walk ends

kSecondsPerDay == 24 * 60 * 60

VARIABLES civil, day, instant, zone

calendarVars == <<civil, day, instant, zone>>

\* A quotient and a remainder of C++, which truncate towards zero.
CQuotient(a, b) == IF a >= 0 THEN a \div b ELSE -((-a) \div b)
CRemainder(a, b) == a - b * CQuotient(a, b)

-----------------------------------------------------------------------------
\* Date.cc: from a date to its Julian day number, and back.
\* Code that takes the leap years of the old calendar.
LeapDaysOfOld(y) == y \div 4
LeapDays(y) == (y \div 4) - (y \div 100) + (y \div 400)

GetJulianDayNumber(date) ==
    LET a == (14 - date.month) \div 12
        y == date.year + 4800 - a
        m == date.month + 12 * a - 3
    IN  date.day + (153 * m + 2) \div 5 + y * 365 + LeapDays(y) - 32045

GetYearMonthDay(number) ==
    LET a == number + 32044
        b == (4 * a + 3) \div 146097
        c == a - ((b * 146097) \div 4)
        d == (4 * c + 3) \div 1461
        e == c - ((1461 * d) \div 4)
        m == (5 * e + 2) \div 153
    IN  [day |-> e - ((153 * m + 2) \div 5) + 1, month |-> m + 3 - 12 * (m \div 10),
         year |-> b * 100 + d - 4800 + (m \div 10)]

\* [0, 1, ..., 6] stands for [Sunday, Monday, ..., Saturday].
WeekDay(number) == (number + 1) % 7

kJulianDayOf1970 == GetJulianDayNumber([year |-> 1970, month |-> 1, day |-> 1])

\* Hours, minutes and seconds of a second of the day.
FillHMS(s) == [sec |-> s % 60, min |-> (s \div 60) % 60, hour |-> s \div 3600]

\* Code that leaves the rest of an instant before 1970 negative.
DayTruncated(s) == [days |-> CQuotient(s, kSecondsPerDay), rest |-> CRemainder(s, kSecondsPerDay)]

\* TimeZone::toUtcTime: such a rest belongs to the day before.
DayOf(s) ==
    IF CRemainder(s, kSecondsPerDay) < 0
      THEN [days |-> CQuotient(s, kSecondsPerDay) - 1,
            rest |-> CRemainder(s, kSecondsPerDay) + kSecondsPerDay]
      ELSE DayTruncated(s)

ToUtcTime(s) ==
    LET number == DayOf(s).days + kJulianDayOf1970
    IN  [date |-> GetYearMonthDay(number), time |-> FillHMS(DayOf(s).rest), wday |-> WeekDay(number)]

FromUtcTime(tm) ==
    (GetJulianDayNumber(tm.date) - kJulianDayOf1970) * kSecondsPerDay
        + tm.time.hour * 3600 + tm.time.min * 60 + tm.time.sec

-----------------------------------------------------------------------------
(* readTimeZoneFile: each change of the clock at its instant in UTC and in
   the local time it starts, with the type that applies from then on. *)
ReadTimeZoneFile(file) ==
    [localtimes |-> file.types,
     transitions |-> [i \in DOMAIN file.changes |->
        [gmttime |-> file.changes[i].at,
         localtime |-> file.changes[i].at + file.types[file.changes[i].type].gmtOffset,
         localtimeIdx |-> file.changes[i].type]]]

\* Comp: transitions are compared by the one or the other time.
Key(t, gmt) == IF gmt THEN t.gmttime ELSE t.localtime

\* findLocaltime: the type of the last change at or before the time, by lower_bound;
\* before the first change the first type of the file.
FindLocaltime(data, time, gmt) ==
    LET ts == data.transitions
        notLess == {i \in DOMAIN ts : Key(ts[i], gmt) >= time}
        found == IF notLess = {} THEN Len(ts)
                 ELSE IF Key(ts[Min(notLess)], gmt) = time THEN Min(notLess)
                 ELSE Min(notLess) - 1
    IN  IF ts = <<>> \/ time < Key(ts[1], gmt) THEN data.localtimes[1]
        ELSE data.localtimes[ts[found].localtimeIdx]

\* toLocalTime: the broken down time of the place, and whether it is summer time.
ToLocalTime(data, s) ==
    LET local == FindLocaltime(data, s, TRUE)
    IN  [tm |-> ToUtcTime(s + local.gmtOffset), isdst |-> local.isDst]

\* Code without the hack.
NeverShownAgain(data, local, s) == FALSE

\* fromLocalTime, "FIXME: HACK": a summer time whose hour and minute the clock shows once
\* more in winter time is meant an hour earlier.
ShownAgain(data, local, s) ==
    LET tryTm == ToLocalTime(data, s)
    IN  local.isdst /\ ~tryTm.isdst /\ tryTm.tm.time.hour = local.tm.time.hour
        /\ tryTm.tm.time.min = local.tm.time.min

FromLocalTime(data, local) ==
    LET s == FromUtcTime(local.tm)
        offset == FindLocaltime(data, s, FALSE).gmtOffset
    IN  IF ShownAgain(data, local, s - offset) THEN s - 3600 - offset ELSE s - offset

-----------------------------------------------------------------------------
\* The calendar by hand: its leap years, the lengths of its months, the next day.
Leap(y) == y % 4 = 0 /\ (y % 100 # 0 \/ y % 400 = 0)
MonthDays(y, m) == IF m \in {4, 6, 9, 11} THEN 30 ELSE IF m # 2 THEN 31 ELSE IF Leap(y) THEN 29 ELSE 28
CivilNext(d) ==
    IF d.day < MonthDays(d.year, d.month) THEN [d EXCEPT !.day = @ + 1]
    ELSE IF d.month < 12 THEN [d EXCEPT !.day = 1, !.month = @ + 1]
    ELSE [year |-> d.year + 1, month |-> 1, day |-> 1]

\* Days from 1970 to a year, which began on day 2440588, a Thursday.
DaysTo(y) == 365 * (y - 1970) + Cardinality({x \in 1970 .. y - 1 : Leap(x)})

Nowhere == [types |-> <<[gmtOffset |-> 0, isDst |-> FALSE]>>, changes |-> <<>>]

CalendarAt(y) ==
    /\ civil = [year |-> y, month |-> 1, day |-> 1] /\ day = 2440588 + DaysTo(y)
    /\ instant = 0 /\ zone = Nowhere

CalendarInit ==
    \/ \E y \in CalendarYears : CalendarAt(y)
    \/ /\ zone \in ZoneFiles
       /\ instant \in {c.at - 3 * 3600 : c \in {zone.changes[i] : i \in DOMAIN zone.changes}}
                        \cup {-kSecondsPerDay - 5400}
       /\ civil = [year |-> 1970, month |-> 1, day |-> 1] /\ day = 2440588

NextDay ==
    /\ zone = Nowhere
    /\ civil.month # 12 \/ civil.day # 31
    /\ civil' = CivilNext(civil) /\ day' = day + 1
    /\ UNCHANGED <<instant, zone>>

\* A quarter of an hour later, until the walk that passes a change ends.
NextQuarter ==
    /\ zone # Nowhere
    /\ \/ \E i \in DOMAIN zone.changes :
             instant - zone.changes[i].at \in -3 * 3600 .. (Quarters - 12) * 900
       \/ instant \in -kSecondsPerDay - 5400 .. 0
    /\ instant' = instant + 900
    /\ UNCHANGED <<civil, day, zone>>

CalendarNext == NextDay \/ NextQuarter

CalendarSpec == CalendarInit /\ [][CalendarNext]_calendarVars

-----------------------------------------------------------------------------
\* The formulas of Date.cc name the days as the calendar counted by hand does, in both
\* directions, over the ends of months, leap days and centuries; the week goes on.
DaysRight ==
    /\ GetYearMonthDay(day) = civil /\ GetJulianDayNumber(civil) = day
    /\ WeekDay(day) = (4 + day - 2440588) % 7

\* Each instant is shown as a time of its own: what toLocalTime gives and the summer time
\* flag lead back to the instant, also in the hour shown twice, and UTC without the flag.
InstantsRight ==
    LET data == ReadTimeZoneFile(zone)
        utc == ToUtcTime(instant)
    IN  /\ FromLocalTime(data, ToLocalTime(data, instant)) = instant
        /\ FromUtcTime(utc) = instant
        /\ utc.time.hour \in 0 .. 23 /\ utc.time.min \in 0 .. 59 /\ utc.time.sec \in 0 .. 59

CalendarRight == DaysRight /\ InstantsRight
=============================================================================
