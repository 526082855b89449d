------------------------------ MODULE JobRunner ------------------------------
(***************************************************************************)
(* The job: run_sources with the adapters of the watchlist job and of the  *)
(* media job. One process at a time holds the advisory lock of its kind;   *)
(* it takes the sources one after the other, tries each up to three times, *)
(* and tries once more those that left a state file behind (a held crawl,  *)
(* a to-do list), at the end and, for media, at the start as well.         *)
(*                                                                         *)
(* A process that finds the lock taken returns ALREADY_RUNNING and changes *)
(* nothing: that is no step here. The sources of a job are a mapping from  *)
(* names, so a set of them is kept and taken in the order of the           *)
(* configuration; the retried ones (by file name) are taken in it as well. *)
(* When a job dies, the process of the attempt it was waiting for may go   *)
(* on and leave its state file, or take it away, later.                    *)
(***************************************************************************)
EXTENDS Integers, Sequences, FiniteSets

CONSTANTS
  Configured,  \* WATCHLIST_CONFIGS, or the enabled media sources, in order
  Job,         \* job processes
  NoJob,       \* nobody holds the lock
  MaxAttempts, \* of a source that is due
  MaxKills     \* bound: job processes that die

ASSUME NoJobAssumption == NoJob \notin Job
ASSUME AttemptsAssumption == MaxAttempts \in Nat \ {0}
ASSUME KillsAssumption == MaxKills \in Nat

Source == {Configured[i] : i \in DOMAIN Configured}

ASSUME ConfiguredAssumption == Configured \in Seq(Source)

Done == {"SUCCESS", "UNCHANGED", "WAITING", "PARTIAL"}
Leftover == {"WAITING", "PARTIAL"}
Statuses == Done \union {"NOT_DUE", "FAILED"}
Passes == {"BEFORE", "MAIN", "AFTER"}
Stages == {"MAIN", "RETRY"}

VARIABLES
  adapter,  \* "watchlist" or "media"
  due,      \* watchlists their schedule wants checked
  pending,  \* sources with a state file
  lock,     \* the job that holds the advisory lock, or NoJob
  job,      \* [Job -> its progress]
  kills,    \* job processes that died
  orphans,  \* <<kill, source>>: attempts that go on although their job died
  stray     \* history: sources an orphan left a state file of, after the files
            \* were read for the last retry pass

jobVars == <<adapter, due, pending, lock, job, kills, orphans, stray>>

NoTally == [t \in Stages \X Statuses |-> 0]

NotRunning ==
  [pass |-> "NONE", sources |-> {}, mode |-> "none", left |-> {},
   attempt |-> 0, rows |-> <<>>, tally |-> NoTally]

Progress ==
  [pass : Passes \union {"CLOSING", "NONE"}, mode : {"none", "scheduled", "by_hand", "retry_only"},
   sources : SUBSET Source, left : SUBSET Source, attempt : 0..MaxAttempts,
   rows : Seq([source : Source, stage : Stages, status : Statuses]),
   tally : [Stages \X Statuses -> Nat]]

JobTypeOK ==
  /\ adapter \in {"watchlist", "media"}
  /\ due \subseteq Source /\ pending \subseteq Source
  /\ lock \in Job \union {NoJob}
  /\ kills \in 0..MaxKills
  /\ job \in [Job -> Progress]
  /\ orphans \subseteq (1..MaxKills) \X Source /\ stray \subseteq Source

------------------------------------------------------------------------------
\* held_sources, todo_sources: those of the job's sources with a state file.
WithState(sources) == sources \intersect pending

Asked(j) == IF j.mode = "retry_only" THEN {} ELSE j.sources

Stage(p) == IF job[p].pass = "MAIN" THEN "MAIN" ELSE "RETRY"

\* The one of these sources that the configuration names first.
First(sources) ==
  CHOOSE s \in sources :
    \E i \in DOMAIN Configured :
      Configured[i] = s /\ \A k \in 1..(i - 1) : Configured[k] \notin sources

Current(p) == First(job[p].left)

\* A job starts and gets the lock: the whole list on schedule, what an operator
\* chose, or leftovers only. retry_before is for media.
Start(p, sources, mode) ==
  /\ lock = NoJob
  /\ lock' = p
  /\ job' = [job EXCEPT ![p] =
       [NotRunning EXCEPT
          !.sources = sources, !.mode = mode,
          !.pass = IF adapter = "media" /\ mode # "retry_only" THEN "BEFORE" ELSE "MAIN",
          !.left = IF mode = "retry_only" THEN {}
                   ELSE IF adapter = "media" THEN WithState(sources) ELSE sources]]
  /\ UNCHANGED <<adapter, due, pending, kills, orphans, stray>>

\* Mutant: a source that failed ends the pass.
RowEndsPass(j, s, stage, status) ==
  [j EXCEPT !.left = IF status = "FAILED" THEN {} ELSE @ \ {s}, !.attempt = 0,
            !.rows = Append(@, [source |-> s, stage |-> stage, status |-> status]),
            !.tally[<<stage, status>>] = @ + 1]

\* The end of _run_source: the source is counted once and has one row.
Row(j, s, stage, status) ==
  [j EXCEPT !.left = @ \ {s}, !.attempt = 0,
            !.rows = Append(@, [source |-> s, stage |-> stage, status |-> status]),
            !.tally[<<stage, status>>] = @ + 1]

Counted(p, status) == job' = [job EXCEPT ![p] = Row(@, Current(p), Stage(p), status)]

Waits(p) == job[p].pass \in Passes /\ job[p].attempt = 0 /\ job[p].left # {}

AlwaysDue(p) == adapter = "media" \/ Stage(p) = "RETRY" \/ job[p].mode = "by_hand"

\* The decision function finds the source due: its first attempt starts.
IsDue(p) ==
  /\ Waits(p)
  /\ AlwaysDue(p) \/ Current(p) \in due
  /\ job' = [job EXCEPT ![p].attempt = 1]
  /\ UNCHANGED <<adapter, due, pending, lock, kills, orphans, stray>>

NotDue(p) ==
  /\ Waits(p) /\ ~AlwaysDue(p) /\ Current(p) \notin due
  /\ Counted(p, "NOT_DUE")
  /\ UNCHANGED <<adapter, due, pending, lock, kills, orphans, stray>>

\* The lookup of the source fails: retrying the pipeline would not help.
DecisionFails(p) ==
  /\ Waits(p) /\ ~AlwaysDue(p)
  /\ Counted(p, "FAILED")
  /\ UNCHANGED <<adapter, due, pending, lock, kills, orphans, stray>>

------------------------------------------------------------------------------
\* An attempt, in a process of its own. What it leaves of the schedule and of
\* the state file is all the job sees of the pipeline.

\* A watchlist: complete (its hold is gone and its check recorded) or held.
WatchlistLeaves(s, status) ==
  \/ status \in {"SUCCESS", "UNCHANGED"} /\ due' = due \ {s} /\ pending' = pending \ {s}
  \/ status = "WAITING" /\ pending' = pending \union {s} /\ UNCHANGED due

\* A media source: without a failure nothing is added to its to-do list; with
\* some, the list may have more items or none (failures no list can hold).
MediaLeaves(s, status) ==
  /\ UNCHANGED due
  /\ \/ status \in {"SUCCESS", "PARTIAL"} /\ pending' = pending
     \/ status \in {"SUCCESS", "PARTIAL"} /\ pending' = pending \ {s}
     \/ status = "PARTIAL" /\ pending' = pending \union {s}

Leaves(s, status) ==
  IF adapter = "media" THEN MediaLeaves(s, status) ELSE WatchlistLeaves(s, status)

\* The attempt raises. It may be too late: the check may be recorded, the hold
\* may be gone, the to-do list written.
LeavesRaising(s) ==
  /\ due' \in IF adapter = "media" THEN {due} ELSE {due, due \ {s}}
  /\ pending' \in {pending, pending \ {s}}
       \union (IF adapter = "media" THEN {pending \union {s}} ELSE {})

Finishes(p, status) ==
  /\ job[p].attempt > 0
  /\ Leaves(Current(p), status)
  /\ Counted(p, status)
  /\ UNCHANGED <<adapter, lock, kills, orphans, stray>>

\* The hold a retry was to resume is gone: an orphan finished the list. The pipeline
\* is not run, nothing is recorded.
FindsNoHold(p) ==
  /\ adapter = "watchlist" /\ job[p].attempt > 0 /\ Stage(p) = "RETRY"
  /\ Current(p) \notin pending
  /\ Counted(p, "UNCHANGED")
  /\ UNCHANGED <<adapter, due, pending, lock, kills, orphans, stray>>

\* Mutant: every failed attempt is counted.
RaisesCounted(p) ==
  /\ job[p].attempt > 0
  /\ LeavesRaising(Current(p))
  /\ IF job[p].attempt = (IF Stage(p) = "RETRY" THEN 1 ELSE MaxAttempts)
       THEN Counted(p, "FAILED")
       ELSE job' = [job EXCEPT ![p].attempt = @ + 1, ![p].tally[<<"MAIN", "FAILED">>] = @ + 1]
  /\ UNCHANGED <<adapter, lock, kills, orphans, stray>>

\* The last of the attempts fails the source, a retry has one.
Raises(p) ==
  /\ job[p].attempt > 0
  /\ LeavesRaising(Current(p))
  /\ IF job[p].attempt = (IF Stage(p) = "RETRY" THEN 1 ELSE MaxAttempts)
       THEN Counted(p, "FAILED")
       ELSE job' = [job EXCEPT ![p].attempt = @ + 1]
  /\ UNCHANGED <<adapter, lock, kills, orphans, stray>>

------------------------------------------------------------------------------
PassDone(p) == job[p].left = {}

MainPass(p) ==
  /\ job[p].pass = "BEFORE" /\ PassDone(p)
  /\ job' = [job EXCEPT ![p].pass = "MAIN", ![p].left = Asked(job[p])]
  /\ UNCHANGED <<adapter, due, pending, lock, kills, orphans, stray>>

\* Mutant: the leftovers are the sources whose main run told of some, a state
\* file of an earlier day is not looked for.
RetryPassOfRows(p) ==
  /\ job[p].pass = "MAIN" /\ PassDone(p)
  /\ job' = [job EXCEPT ![p].pass = "AFTER",
       ![p].left = {s \in job[p].sources : \E i \in DOMAIN job[p].rows :
                      job[p].rows[i].source = s /\ job[p].rows[i].status \in Leftover}]
  /\ UNCHANGED <<adapter, due, pending, lock, kills, orphans, stray>>

\* The final retry pass reads the state files again.
RetryPass(p) ==
  /\ job[p].pass = "MAIN" /\ PassDone(p)
  /\ job' = [job EXCEPT ![p].pass = "AFTER", ![p].left = WithState(job[p].sources)]
  /\ stray' = {}
  /\ UNCHANGED <<adapter, due, pending, lock, kills, orphans>>

\* The summary is complete: still_pending counts the state files that are left.
Summarise(p) ==
  /\ job[p].pass = "AFTER" /\ PassDone(p)
  /\ job' = [job EXCEPT ![p].pass = "CLOSING"]
  /\ UNCHANGED <<adapter, due, pending, lock, kills, orphans, stray>>

Unlock(p) ==
  /\ job[p].pass = "CLOSING"
  /\ lock' = NoJob
  /\ job' = [job EXCEPT ![p] = NotRunning]
  /\ UNCHANGED <<adapter, due, pending, kills, orphans, stray>>

\* The process dies and its session releases the lock. The child process of a
\* running attempt may die with it or go on.
Dies(p) ==
  /\ lock = p /\ kills < MaxKills /\ kills' = kills + 1
  /\ lock' = NoJob
  /\ job' = [job EXCEPT ![p] = NotRunning]
  /\ orphans' \in {orphans} \union
       (IF job[p].attempt > 0 THEN {orphans \union {<<kills', Current(p)>>}} ELSE {})
  /\ UNCHANGED <<adapter, due, pending, stray>>

\* An attempt that outlived its job comes to its end, whatever another job is
\* doing by then: it asks for no lock and nobody waits for its outcome.
OrphanEnds(o) ==
  /\ o \in orphans /\ orphans' = orphans \ {o}
  /\ LeavesRaising(o[2]) \/ \E status \in Done : Leaves(o[2], status)
  /\ stray' = stray \union (pending' \ pending)
  /\ UNCHANGED <<adapter, lock, job, kills>>

\* The schedule of a list asks for its next check.
BecomesDue(s) ==
  /\ adapter = "watchlist" /\ due' = due \union {s}
  /\ UNCHANGED <<adapter, pending, lock, job, kills, orphans, stray>>

------------------------------------------------------------------------------
JobInit ==
  /\ adapter \in {"watchlist", "media"}
  /\ due = IF adapter = "watchlist" THEN Source ELSE {}
  /\ pending = {} /\ lock = NoJob /\ kills = 0 /\ orphans = {} /\ stray = {}
  /\ job = [p \in Job |-> NotRunning]

\* --source, the menu: some of the sources.
ByHand(p) ==
  \E chosen \in SUBSET Source \ {{}}, mode \in {"by_hand", "retry_only"} : Start(p, chosen, mode)

Works(p) ==
  \/ IsDue(p) \/ NotDue(p) \/ DecisionFails(p)
  \/ (\E status \in Done : Finishes(p, status)) \/ FindsNoHold(p) \/ Raises(p)
  \/ MainPass(p) \/ RetryPass(p) \/ Summarise(p) \/ Unlock(p)

JobNext ==
  \/ \E p \in Job : Start(p, Source, "scheduled") \/ ByHand(p) \/ Works(p) \/ Dies(p)
  \/ \E o \in orphans : OrphanEnds(o)
  \/ \E s \in Source : BecomesDue(s)

\* A process that holds the lock goes on (attempts end: timeouts of browsers and
\* downloads), and the scheduler starts a job again and again.
JobFairness ==
  /\ \A p \in Job : WF_jobVars(Works(p))
  /\ SF_jobVars(\E p \in Job : Start(p, Source, "scheduled"))

JobSpec == JobInit /\ [][JobNext]_jobVars

------------------------------------------------------------------------------
\* Properties.

RowsWith(rows, stage, status) ==
  {i \in DOMAIN rows : rows[i].stage = stage /\ rows[i].status = status}

RowsOf(rows, s, stage) == {i \in DOMAIN rows : rows[i].source = s /\ rows[i].stage = stage}

\* The summary tells of every source once: between two sources the counters are
\* those of the rows, and when the job ends each source asked for has its row.
CountsAddUp ==
  \A p \in Job :
    /\ job[p].attempt = 0 =>
         \A t \in DOMAIN job[p].tally :
           job[p].tally[t] = Cardinality(RowsWith(job[p].rows, t[1], t[2]))
    /\ job[p].pass = "CLOSING" =>
         \A s \in Asked(job[p]) : Cardinality(RowsOf(job[p].rows, s, "MAIN")) = 1

Retried(rows, s) ==
  \E i \in RowsOf(rows, s, "RETRY") : \A k \in RowsOf(rows, s, "MAIN") : k < i

\* What a job leaves pending it has tried again, last: still_pending counts
\* no source that became pending, or still was, without a retry in this job,
\* except one an attempt of a dead job left behind after the files were read.
LeftoversAreRetried ==
  \A p \in Job : job[p].pass = "CLOSING" =>
    \A s \in job[p].sources \intersect pending : Retried(job[p].rows, s) \/ s \in stray

\* What is true between any two steps of a job: where it is, what it has written
\* and what is left of its pass.
PassInv(j) ==
  /\ j.left \subseteq j.sources
  /\ j.attempt > 0 => j.pass \in Passes /\ j.left # {}
  /\ j.attempt > 1 => j.pass = "MAIN"
  /\ j.pass \in {"CLOSING", "NONE"} => j.left = {}
  /\ j.pass = "MAIN" => j.left \subseteq Asked(j)

TallyInv(j) ==
  \A stage \in Stages, status \in Statuses :
    j.tally[<<stage, status>>] = Cardinality(RowsWith(j.rows, stage, status))

\* The sources of the main pass that have their row.
Attempted(j) ==
  CASE j.pass = "MAIN" -> Asked(j) \ j.left
    [] j.pass \in {"AFTER", "CLOSING"} -> Asked(j)
    [] OTHER -> {}

MainRowInv(j) ==
  \A s \in Source : IF s \in Attempted(j) THEN Cardinality(RowsOf(j.rows, s, "MAIN")) = 1
                    ELSE RowsOf(j.rows, s, "MAIN") = {}

RetryInv(j, still) ==
  j.pass \in {"AFTER", "CLOSING"} =>
    \A s \in j.sources \intersect still : s \in j.left \/ Retried(j.rows, s)

JobIInv ==
  /\ JobTypeOK
  /\ \A p \in Job :
       /\ job[p].pass # "NONE" <=> lock = p
       /\ PassInv(job[p]) /\ TallyInv(job[p]) /\ MainRowInv(job[p])
       /\ RetryInv(job[p], pending \ stray)

Attended(s) ==
  \E p \in Job :
    \/ job[p].pass = "MAIN" /\ job[p].attempt > 0 /\ Current(p) = s
    \/ \E i \in DOMAIN job[p].rows : job[p].rows[i].source = s /\ job[p].rows[i].stage = "MAIN"

\* A list that is due is taken up again and again while it is, whatever
\* becomes of the lists before it and of jobs that die.
Served == \A s \in Source : s \in due ~> (s \notin due \/ Attended(s))
==============================================================================
