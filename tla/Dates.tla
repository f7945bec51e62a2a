------------------------------- MODULE Dates --------------------------------
(***************************************************************************)
(* DateTime, which keeps a date both as seconds since 1970 and as the      *)
(* fields of a tm.                                                         *)
(*                                                                         *)
(* localtime and mktime are the system's, here of a zone at UTC without    *)
(* daylight saving time (where the constructors leave tm_isdst as it is in *)
(* memory, that makes no difference).  Hours, minutes and seconds of a tm  *)
(* are taken together as the second of the day.                            *)
(***************************************************************************)
EXTENDS Integers

CONSTANTS
  FirstDates,  \* [year, mon, mday]: the dates an object is made with; mon is counted from 0
  Amounts,     \* what is added
  MaxChanges   \* bound

ASSUME DatesAreAfterEpoch == \A d \in FirstDates : d.year >= 1970

VARIABLES
  date,   \* an object: its seconds, and its tm
  added   \* history: the last change: what was added, and the object before

dateVars == <<date, added>>

Day == 86400

-----------------------------------------------------------------------------
\* The days from 1970-01-01 to a date of the Gregorian calendar.
DaysBefore(year) == 365 * (year - 1970) + (year - 1969) \div 4 - (year - 1901) \div 100 + (year - 1601) \div 400
IsLeap(year) == year % 4 = 0 /\ (year % 100 # 0 \/ year % 400 = 0)

MonthDays(year, mon) == CASE mon = 1 -> IF IsLeap(year) THEN 29 ELSE 28
                          [] mon \in {3, 5, 8, 10} -> 30
                          [] OTHER -> 31

DaysBeforeMonth(year, mon) ==
  LET f[m \in 0 .. 11] == IF m = 0 THEN 0 ELSE f[m - 1] + MonthDays(year, m - 1) IN f[mon]

\* mktime: months beyond the year, and days beyond the month, are carried.
MkTime(tm) ==
  LET year == tm.year + tm.mon \div 12
  IN  (DaysBefore(year) + DaysBeforeMonth(year, tm.mon % 12) + tm.mday - 1) * Day + tm.second

\* localtime
LocalTime(seconds) ==
  LET days == seconds \div Day
      year == CHOOSE y \in 1960 .. 2060 : DaysBefore(y) <= days /\ days < DaysBefore(y + 1)
      yday == days - DaysBefore(year)
      mon  == CHOOSE m \in 0 .. 11 : /\ DaysBeforeMonth(year, m) <= yday
                                     /\ yday < DaysBeforeMonth(year, m) + MonthDays(year, m)
  IN  [year |-> year, mon |-> mon, mday |-> yday - DaysBeforeMonth(year, mon) + 1,
       second |-> seconds % Day, wday |-> (days + 4) % 7, yday |-> yday]

At(seconds) == [seconds |-> seconds, tm |-> LocalTime(seconds)]

-----------------------------------------------------------------------------
\* The constructors from a year, a month counted from 1, and a day.
FromFields(year, month, day, second) ==
  At(MkTime([year |-> year, mon |-> month - 1, mday |-> day, second |-> second]))

\* InitByStr: numbers that are too small are replaced, but month 0 and day 0 are let through.
FromText(year, month, day, second) ==
  FromFields(IF year < 1900 THEN 1970 ELSE year, IF month < 0 THEN 1 ELSE month,
             IF day < 0 THEN 1 ELSE day, second)

DatesInit == date = At(0) /\ added = [count |-> 0, unit |-> "none", amount |-> 0, old |-> At(0)]

\* (Bound: MaxChanges.)
Changed(unit, amount, new) ==
  /\ added.count < MaxChanges
  /\ date' = new
  /\ added' = [count |-> added.count + 1, unit |-> unit, amount |-> amount, old |-> date]

\* AddSeconds
AddSeconds(seconds) == At(date.seconds + seconds)

\* AddMinutes, AddHours, AddDays, AddWeeks: each by the one before.
Units == [second |-> 1, minute |-> 60, hour |-> 3600, day |-> Day, week |-> 7 * Day]

Add(unit, amount) == Changed(unit, amount, AddSeconds(amount * Units[unit]))

\* AddYears: mktime puts the fields in order, too.
AddYears(years) == Changed("year", years, At(MkTime([date.tm EXCEPT !.year = @ + years])))

\* AddMonths: the months of the date go into the new month twice.
AddMonths(months) ==
  LET all == date.tm.mon + months
  IN  /\ months >= 0
      /\ Changed("month", months,
           At(MkTime([date.tm EXCEPT !.year = @ + all \div 12, !.mon = @ + (all % 12) - 1])))

\* A date that is made anew: by the constructors, and by Parse.
MakeDate(new) == date' = new /\ added' = [count |-> 0, unit |-> "none", amount |-> 0, old |-> new]

ParseText(year, month, day) == MakeDate(FromText(year, month, day, 0))

\* Equals, Compare, and the operators
Compare(d, e) == IF d.seconds = e.seconds THEN 0 ELSE IF d.seconds < e.seconds THEN -1 ELSE 1

DatesNext ==
  \/ \E n \in Amounts : AddYears(n) \/ AddMonths(n) \/ \E unit \in DOMAIN Units : Add(unit, n)
  \/ \E d \in FirstDates :
       \/ MakeDate(FromFields(d.year, d.mon + 1, d.mday, 0))
       \/ ParseText(d.year, 0, 31) \/ ParseText(1, d.mon, d.mday)

DatesSpec == DatesInit /\ [][DatesNext]_dateVars

-----------------------------------------------------------------------------
Earlier(d, e) ==
  \/ d.year < e.year
  \/ d.year = e.year /\ d.mon < e.mon
  \/ d.year = e.year /\ d.mon = e.mon /\ d.mday < e.mday
  \/ d.year = e.year /\ d.mon = e.mon /\ d.mday = e.mday /\ d.second < e.second

DatesTypeOK ==
  /\ date.seconds \in Int
  /\ date.tm.mon \in 0 .. 11 /\ date.tm.mday \in 1 .. 31 /\ date.tm.second \in 0 .. Day - 1

\* Whatever is added, months included, seconds and fields stay the same date: two dates compare
\* by their seconds as they do by their fields.  Weeks keep the day of the week and the time of
\* day, and years the day and the month, but for a 29th of February that becomes the 1st of
\* March.  (Where AddMonths takes the date is for MonthsAreAdded.)
DateStaysADate ==
  LET tm == date.tm
      old == added.old.tm
  IN  /\ Compare(added.old, date) = IF Earlier(old, tm) THEN -1 ELSE IF Earlier(tm, old) THEN 1 ELSE 0
      /\ added.unit = "week" => tm.wday = old.wday /\ tm.second = old.second
      /\ added.unit = "year" =>
           /\ tm.year = old.year + added.amount /\ tm.second = old.second
           /\ <<tm.mon, tm.mday>> = IF old.mon = 1 /\ old.mday = 29 /\ ~IsLeap(tm.year)
                                    THEN <<2, 1>> ELSE <<old.mon, old.mday>>

\* AddMonths adds the given number of months to the date, on days that every month has: what
\* date_time.h says of it.  The code does not.
MonthsAreAdded ==
  added.unit = "month" /\ added.old.tm.mday <= 28 =>
    12 * date.tm.year + date.tm.mon = 12 * added.old.tm.year + added.old.tm.mon + added.amount
=============================================================================
