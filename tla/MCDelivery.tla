----------------------------- MODULE MCDelivery -----------------------------
(***************************************************************************)
(* Small instances of Delivery for TLC. DaysSpec explores two of them side *)
(* by side: the job by itself with all members and days, and two runs that *)
(* may overlap, with the operator's tools, on one member and fewer days.   *)
(***************************************************************************)
EXTENDS Delivery, TLC

CONSTANTS m1, m2, names, aliases, r1, r2,
          ToolDays, ToolRows  \* bounds where runs and tools may overlap

VARIABLE part  \* the instance explored

Symmetry == Permutations(Member) \union Permutations(Runner)

\* A run begins only when no other one is at work or was completed.
Job ==
  /\ part = "job"
  /\ Ingest \/ \E r \in Runner : Deliver(r) /\ \A o \in Runner \ {r} : job[o] = Idle

\* The guards before Ingest only spare TLC what the bounds behind it refuse.
Tools ==
  /\ part = "tools"
  /\ \/ (day < ToolDays \/ Len(rows) < ToolRows) /\ Ingest
     \/ \E r \in Runner : Deliver(r) \/ Operate(r)
  /\ day' <= ToolDays /\ Len(rows') <= ToolRows
  /\ \A i, k \in 1..Len(rows') : rows'[i].member = rows'[k].member
  /\ \A r \in Runner : {job'[r].start, job'[r].latest} \subseteq 0..ToolDays

JobSpec == part = "job" /\ Init /\ [][Job /\ UNCHANGED part]_<<vars, part>>

DaysInit == part \in {"job", "tools"} /\ Init
DaysSpec == DaysInit /\ [][(Job \/ Tools) /\ UNCHANGED part]_<<vars, part>>
=============================================================================
