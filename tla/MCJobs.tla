-------------------------------- MODULE MCJobs --------------------------------
(***************************************************************************)
(* An instance for TLC of the schedule of a list and of the job that asks  *)
(* it. What the job sees of the schedule is the set of lists that are due, *)
(* so the two are explored each on its own, the variables of the other     *)
(* staying as they begin; DueStaysDue is what lets the job's model take a  *)
(* list off that set only when it was checked.                             *)
(***************************************************************************)
EXTENDS Schedule, JobRunner

CONSTANTS s1, s2

VARIABLE part   \* the one that runs

vars == <<part, scheduleVars, jobVars>>

Init ==
  /\ part \in {"schedule", "job"}
  /\ ScheduleInit /\ JobInit
  /\ part # "schedule" => rule = CHOOSE r \in Rules : TRUE
  /\ part # "job" => adapter = "media"

Next ==
  \/ part = "schedule" /\ ScheduleNext /\ UNCHANGED <<part, jobVars>>
  \/ part = "job" /\ JobNext /\ UNCHANGED <<part, scheduleVars>>

Spec == Init /\ [][Next]_vars /\ (part = "job" => JobFairness)

Rule(every, unit) == [every |-> every, unit |-> unit]
MCRules ==
  {Rule(0, "daily"), Rule(0, "weekly"), Rule(0, "monthly"), Rule(0, "hourly"),
   Rule(2, "days"), Rule(2, "weeks"), Rule(1, "months"), Rule(3, "hours")}

\* A month of four days is followed by one of two.
MCMonthLengths == <<4, 2, 3>>

MCConfigured == <<s1, s2>>
===============================================================================
