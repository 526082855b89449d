------------------------------- MODULE Schedule -------------------------------
(***************************************************************************)
(* When a watchlist is due: the rule of its configuration, the time of its *)
(* last successful check as the file log tells it, and the local calendar. *)
(* A check is judged by the time it ENDED, so one that starts before       *)
(* midnight and ends after it counts for the new day.                      *)
(***************************************************************************)
EXTENDS Integers, Sequences

CONSTANTS
  TicksPerHour, HoursPerDay, WeekDays, WeeksPerYear, \* the local calendar
  MonthLengths,  \* days of the months of a year
  Rules,         \* schedules to consider
  WatchlistFile, \* downloaded files of the list
  MaxTime,       \* bound: ticks
  MaxLog         \* bound: rows of the file log

Never == -1     \* there is no successful check yet

Calendar == {"daily", "weekly", "monthly", "hourly"}

ASSUME CalendarAssumption ==
  /\ {TicksPerHour, HoursPerDay, WeekDays, WeeksPerYear} \subseteq Nat \ {0}
  /\ MonthLengths \in Seq(Nat \ {0}) /\ MonthLengths # <<>>
  /\ Rules \subseteq [every : {0}, unit : Calendar]
       \union [every : Nat \ {0}, unit : {"days", "weeks", "months", "hours"}]

ASSUME BoundsAssumption == MaxTime \in Nat /\ MaxLog \in Nat

VARIABLES
  rule,      \* the schedule of the list
  now,       \* local time, in ticks
  fileLog,   \* raw.watchlist_file_log: downloads found unchanged, files that reached Core
  checking   \* the job has decided to check the list

scheduleVars == <<rule, now, fileLog, checking>>

ScheduleTypeOK ==
  /\ rule \in Rules
  /\ now \in 0..MaxTime
  /\ fileLog \in Seq([file : WatchlistFile, step : {"NORMALIZATION", "DOWNLOAD"}, at : 0..MaxTime])
  /\ checking \in BOOLEAN

------------------------------------------------------------------------------
\* The calendar.

Hour(t) == t \div TicksPerHour
Day(t) == Hour(t) \div HoursPerDay

\* Mutant: the number of the week without its year.
WeekOfYear(d) == <<0, (d \div WeekDays) % WeeksPerYear>>

\* isocalendar()[:2]
Week(d) == <<(d \div WeekDays) \div WeeksPerYear, (d \div WeekDays) % WeeksPerYear>>

LengthOf(m) == MonthLengths[1 + (m % Len(MonthLengths))]
FirstDay[m \in Nat] == IF m = 0 THEN 0 ELSE FirstDay[m - 1] + LengthOf(m - 1)
Month(d) == CHOOSE m \in 0..d : FirstDay[m] <= d /\ d < FirstDay[m + 1]
DayOfMonth(d) == d - FirstDay[Month(d)]

\* Mutant: the day is not clamped and runs into the month after.
AddMonthsUnclamped(d, n) == FirstDay[Month(d) + n] + DayOfMonth(d)

\* _add_months: the same day, clamped at the end of the month.
AddMonths(d, n) ==
  LET m == Month(d) + n
      last == LengthOf(m) - 1
      day == DayOfMonth(d)
  IN  FirstDay[m] + (IF day < last THEN day ELSE last)

\* decide_run, for a list checked before.
DueAt(r, last, t) ==
  CASE r.unit = "daily"   -> Day(t) > Day(last)
    [] r.unit = "weekly"  -> Week(Day(t)) # Week(Day(last))
    [] r.unit = "monthly" -> Month(Day(t)) # Month(Day(last))
    [] r.unit = "hourly"  -> Hour(t) # Hour(last)
    [] r.unit = "days"    -> Day(t) >= Day(last) + r.every
    [] r.unit = "weeks"   -> Day(t) >= Day(last) + r.every * WeekDays
    [] r.unit = "months"  -> Day(t) >= AddMonths(Day(last), r.every)
    [] r.unit = "hours"   -> t >= last + r.every * TicksPerHour

------------------------------------------------------------------------------
\* The last successful check.

ReachedCore(f) == \E i \in DOMAIN fileLog : fileLog[i].file = f /\ fileLog[i].step = "NORMALIZATION"

\* The rows find_last_successful_check accepts: a file that reached Core, or a
\* download found equal to a file that has.
Checks == {i \in DOMAIN fileLog : fileLog[i].step = "NORMALIZATION" \/ ReachedCore(fileLog[i].file)}

LastCheck == IF Checks = {} THEN Never
             ELSE CHOOSE t \in {fileLog[i].at : i \in Checks} : \A i \in Checks : fileLog[i].at <= t

Due == IF LastCheck = Never THEN TRUE ELSE DueAt(rule, LastCheck, now)

------------------------------------------------------------------------------
\* The nightly job.

Tick == now < MaxTime /\ now' = now + 1 /\ UNCHANGED <<rule, fileLog, checking>>

\* should_run_today: the source is due and its pipeline starts.
Decide == ~checking /\ Due /\ checking' = TRUE /\ UNCHANGED <<rule, now, fileLog>>

Logged(f, step) == /\ Len(fileLog) < MaxLog
                   /\ fileLog' = Append(fileLog, [file |-> f, step |-> step, at |-> now])

\* The file is committed to Core: NORMALIZATION SUCCESS.
Normalized(f) ==
  checking /\ Logged(f, "NORMALIZATION") /\ checking' = FALSE /\ UNCHANGED <<rule, now>>

\* The download has the hash of a file of the list: DOWNLOAD SKIPPED. What
\* follows for a file that never reached Core may still fail.
Unchanged(f) ==
  checking /\ Logged(f, "DOWNLOAD") /\ checking' = FALSE /\ UNCHANGED <<rule, now>>

\* Every attempt failed, or the list waits for detail pages: nothing is logged
\* that counts.
GivesUp == checking /\ checking' = FALSE /\ UNCHANGED <<rule, now, fileLog>>

ScheduleInit == rule \in Rules /\ now = 0 /\ fileLog = <<>> /\ checking = FALSE

ScheduleNext ==
  \/ Tick \/ Decide \/ GivesUp
  \/ \E f \in WatchlistFile : Normalized(f) \/ Unchanged(f)

ScheduleSpec == ScheduleInit /\ [][ScheduleNext]_scheduleVars

\* The log is of the past.
ScheduleInv == ScheduleTypeOK /\ \A i \in DOMAIN fileLog : fileLog[i].at <= now

------------------------------------------------------------------------------
\* Properties.

\* A list that is due stays due until a check succeeds, however long the job is
\* away: no rule wraps around and calls an old check recent.
DueStaysDue == [][Due /\ LastCheck' = LastCheck => Due']_scheduleVars

Months(r) == IF r.unit = "monthly" THEN 1 ELSE r.every

\* The decision follows the calendar and the log: a rule in months asks for no
\* check before its months are over and puts none off into a month after them,
\* whatever their lengths; and a list whose files never reached Core is due,
\* however often its download was found unchanged.
DueInTime ==
  /\ (\A f \in WatchlistFile : ~ReachedCore(f)) => Due
  /\ rule.unit \in {"monthly", "months"} /\ LastCheck # Never =>
       LET gone == Month(Day(now)) - Month(Day(LastCheck))
       IN  /\ gone < Months(rule) => ~Due
           /\ gone > Months(rule) => Due
==============================================================================
