SPECIFICATION Spec
CONSTANTS
  TicksPerHour = 2
  HoursPerDay = 2
  WeekDays = 2
  WeeksPerYear = 2
  MonthLengths <- MCMonthLengths
  Rules <- MCRules
  WatchlistFile = {f1}
  MaxTime = 32
  MaxLog = 2
  s1 = s1
  s2 = s2
  Configured <- MCConfigured
  Job = {p, q}
  NoJob = NoJob
  MaxAttempts = 3
  MaxKills = 1
INVARIANTS DueInTime CountsAddUp LeftoversAreRetried
PROPERTIES DueStaysDue Served
CHECK_DEADLOCK FALSE
