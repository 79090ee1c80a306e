--------------------------------- MODULE Dates ---------------------------------
(***************************************************************************)
(* The methods that date.js adds to the dates of the browser, and the      *)
(* table of days that jquery.datePicker.js draws of a month.  A date is a  *)
(* number of hours since 1970 in UTC; the clocks of the time zone are an   *)
(* hour ahead from Spring to Autumn.  Days are numbered from 1 January     *)
(* 1970, a Thursday; months and days of the week from 0, as in the code.   *)
(***************************************************************************)
EXTENDS Integers, Sequences

CONSTANTS
  Spring, Autumn,  \* the hours at which the clocks are changed
  FirstDayOfWeek,  \* Date.firstDayOfWeek
  Format,          \* Date.format, the fields in their order: "d", "m", "yy", "yyyy"
  Jobs,            \* what is computed
  None

VARIABLES job, result

dateVars == <<job, result>>

-----------------------------------------------------------------------------
(* Years, months and days *)

IsLeapYear(y) == (y % 4 = 0 /\ y % 100 # 0) \/ y % 400 = 0

\* A variant that knows every fourth year for a leap year.
EveryFourth(y) == y % 4 = 0

DaysInMonth(y, m) ==
  <<31, IF IsLeapYear(y) THEN 29 ELSE 28, 31, 30, 31, 30, 31, 31, 30, 31, 30, 31>>[m + 1]

DaysBefore(y) == 365 * (y - 1970) + (y - 1) \div 4 - (y - 1) \div 100 + (y - 1) \div 400 - 477

\* The day of `new Date(y, m, d)', whose month and date may be out of range.
DayNumber(y, m, d) ==
  LET year  == y + m \div 12
      month == m % 12
  IN DaysBefore(year) + <<0, 31, 59, 90, 120, 151, 181, 212, 243, 273, 304, 334>>[month + 1]
     + (IF month > 1 /\ DaysBefore(year + 1) - DaysBefore(year) = 366 THEN 1 ELSE 0) + d - 1

YearOf(n)  == CHOOSE y \in (n \div 365 + 1965)..(n \div 366 + 1975) :
                DaysBefore(y) <= n /\ n < DaysBefore(y + 1)
MonthOf(n) == CHOOSE m \in 0..11 :
                DayNumber(YearOf(n), m, 1) <= n /\ n < DayNumber(YearOf(n), m + 1, 1)
DateOf(n)  == n - DayNumber(YearOf(n), MonthOf(n), 1) + 1
WeekDay(n) == (n + 4) % 7

\* Months are counted from the year 0.
MonthIndex(n) == 12 * YearOf(n) + MonthOf(n)

-----------------------------------------------------------------------------
(* Dates of the browser: what it shows of one, and the setters *)

Local(t)  == t + (IF Spring <= t /\ t < Autumn THEN 1 ELSE 0)
DayOf(t)  == Local(t) \div 24
HourOf(t) == Local(t) % 24

\* The hour h of the day n: the earlier one when the clocks show it twice, and the
\* one after the change when they never do.
At(n, h) ==
  LET t == 24 * n + h - 1 IN IF Local(t) = t + 1 THEN t ELSE t + 1

SetDate(t, d)     == At(DayNumber(YearOf(DayOf(t)), MonthOf(DayOf(t)), d), HourOf(t))
SetMonth(t, m)    == At(DayNumber(YearOf(DayOf(t)), m, DateOf(DayOf(t))), HourOf(t))
SetFullYear(t, y) == At(DayNumber(y, MonthOf(DayOf(t)), DateOf(DayOf(t))), HourOf(t))
SetYear(t, y)     == SetFullYear(t, IF y \in 0..99 THEN 1900 + y ELSE y)
SetHours(t, h)    == At(DayOf(t), h)

-----------------------------------------------------------------------------
(* The methods *)

IsWeekend(t)     == WeekDay(DayOf(t)) \in {0, 6}
GetDayOfYear(t)  == (t - At(DayNumber(YearOf(DayOf(t)), 0, 1), 0)) \div 24
GetWeekOfYear(t) == (GetDayOfYear(t) + 6) \div 7
SetDayOfYear(t, day) == SetDate(SetMonth(t, 0), day)

AddYears(t, num) == SetFullYear(t, YearOf(DayOf(t)) + num)
AddDays(t, num)  == t + 24 * num
AddHours(t, num) == SetHours(t, HourOf(t) + num)
ZeroTime(t)      == SetHours(t, 0)

\* A day that the month has not is the last one of the month.
AddMonths(t, num) ==
  LET moved == SetMonth(t, MonthOf(DayOf(t)) + num)
      date  == DateOf(DayOf(moved))
  IN IF DateOf(DayOf(t)) > date THEN AddDays(moved, 0 - date) ELSE moved

\* `asString': what the fields of the format say of a day.
AsString(n) ==
  [i \in DOMAIN Format |->
     CASE Format[i] = "d"    -> DateOf(n)
       [] Format[i] = "m"    -> MonthOf(n) + 1
       [] Format[i] = "yy"   -> YearOf(n) % 100
       [] Format[i] = "yyyy" -> YearOf(n)]

\* `fromString' sets the fields one by one, in the order of the format, in a date
\* that is 1 January 1970 to begin with.
FromString(s) ==
  LET set[i \in 0..Len(Format)] ==
        IF i = 0 THEN At(0, 0)
        ELSE CASE Format[i] = "d" -> SetDate(set[i - 1], s[i])
               [] Format[i] = "m" -> SetMonth(set[i - 1], s[i] - 1)
               [] Format[i] \in {"yy", "yyyy"} -> SetYear(set[i - 1], s[i])
  IN set[Len(Format)]

-----------------------------------------------------------------------------
(* `renderCalendar': the cells of the table, row by row, as dates at midday *)

Calendar(year, month) ==
  LET first  == At(DayNumber(year, month, 1), 12)
      offset == LET o == FirstDayOfWeek - WeekDay(DayOf(first)) + 1 IN IF o > 1 THEN o - 7 ELSE o
      weeks  == (1 - offset + DaysInMonth(year, month) + 6) \div 7
      start  == AddDays(first, offset - 1)
  IN [i \in 1..(7 * weeks) |-> At(DayOf(start) + i - 1, 12)]

-----------------------------------------------------------------------------
Compute(j) ==
  CASE j.of = "addMonths" -> AddMonths(j.date, j.num)
    [] j.of = "addYears"  -> AddYears(j.date, j.num)
    [] j.of = "addDays"   -> AddDays(j.date, j.num)
    [] j.of = "addHours"  -> AddHours(j.date, j.num)
    [] j.of = "zeroTime"  -> ZeroTime(j.date)
    [] j.of = "dayOfYear" -> GetDayOfYear(j.date)
    [] j.of = "setDayOfYear" -> SetDayOfYear(j.date, GetDayOfYear(j.date) + 1)
    [] j.of = "weekOfYear"   -> GetWeekOfYear(j.date)
    [] j.of = "weekend"   -> IsWeekend(j.date)
    [] j.of = "string"    -> FromString(AsString(DayOf(j.date)))
    [] j.of = "calendar"  -> Calendar(j.year, j.month)

DateInit == job \in Jobs /\ result = None

ComputeDate ==
  /\ result = None
  /\ result' = Compute(job)
  /\ UNCHANGED job

DateSpec == DateInit /\ [][ComputeDate]_dateVars

-----------------------------------------------------------------------------
(* Properties *)

\* A month later it is the same day, or the last one of a month without it: 31
\* January and a month is the end of February, in every zone (addMonths).
MonthsAreAdded ==
  LET n == DayOf(job.date)
      r == DayOf(result)
      m == MonthIndex(n) + job.num
  IN /\ MonthIndex(r) = m
     /\ DateOf(r) = IF DateOf(n) > DaysInMonth(m \div 12, m % 12)
                      THEN DaysInMonth(m \div 12, m % 12) ELSE DateOf(n)
     /\ HourOf(result) = HourOf(job.date)

\* A date survives its own string if the string has the whole year, and unless it is
\* a 29 February whose year is set last, in 1970 (asString, fromString).
StringsAreRead ==
  LET n    == DayOf(job.date)
      leap == MonthOf(n) = 1 /\ DateOf(n) = 29
  IN \/ \E i \in DOMAIN Format : Format[i] = "yy"
     \/ result = At(n, 0)
     \/ leap /\ Format[1] # "yyyy" /\ result = At(n + 1, 0)

\* The table begins with the first day of a week, shows day after day, and has every
\* day of the month once and no week without one, whatever the clocks do.
CalendarIsComplete ==
  LET first == DayNumber(job.year, job.month, 1)
      last  == first + DaysInMonth(job.year, job.month) - 1
      days  == [i \in DOMAIN result |-> DayOf(result[i])]
  IN /\ WeekDay(days[1]) = FirstDayOfWeek /\ Len(days) % 7 = 0
     /\ \A i \in 1..(Len(days) - 1) : days[i + 1] = days[i] + 1
     /\ days[1] <= first /\ first < days[1] + 7
     /\ last <= days[Len(days)] /\ days[Len(days)] < last + 7

\* The day of the year counts the days since 1 January, at midday; at midnight the
\* hour that the clocks are ahead is missing, and with it the day.
DaysAreCounted ==
  LET n     == DayOf(job.date)
      count == n - DayNumber(YearOf(n), 0, 1)
  IN result = IF Local(job.date) # job.date /\ HourOf(job.date) = 0 THEN count - 1 ELSE count

\* What date.js computes is right, at the ends of months, in leap years and on the
\* days on which the clocks are changed, and wrong exactly where it is said above.
DatesKept ==
  result # None =>
    CASE job.of = "addMonths" -> MonthsAreAdded
      [] job.of = "addDays"   -> (HourOf(job.date) = 12 => DayOf(result) = DayOf(job.date) + job.num)
      [] job.of = "addYears"  -> DayOf(result) = DayNumber(YearOf(DayOf(job.date)) + job.num,
                                    MonthOf(DayOf(job.date)), DateOf(DayOf(job.date)))
      [] job.of = "zeroTime"  -> DayOf(result) = DayOf(job.date)
      [] job.of = "dayOfYear" -> DaysAreCounted
      [] job.of = "setDayOfYear" -> (HourOf(job.date) = 12 => DayOf(result) = DayOf(job.date))
      [] job.of = "string"    -> StringsAreRead
      [] job.of = "calendar"  -> CalendarIsComplete
      [] OTHER -> TRUE
=============================================================================
