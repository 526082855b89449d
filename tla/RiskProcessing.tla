--------------------------- MODULE RiskProcessing ---------------------------
(***************************************************************************)
(* The risk category job of one domain (services/risk/processing.py with   *)
(* repositories/risk): it classifies the Core version each delta action    *)
(* names (INCREMENTAL) or every current version (INITIAL) and keeps one    *)
(* current assessment per subject, beside archived ones.                   *)
(*                                                                         *)
(* Work that fails three times is queued in a state file, which also holds *)
(* the scan frontier; assessments are committed to the database one work   *)
(* item at a time.  The two can never be written together, and the process *)
(* may die between them.                                                   *)
(*                                                                         *)
(* A definition marked as a mutant is a plausible bug in the definition    *)
(* that follows it; no specification uses one.  It shows what the property *)
(* that notices the bug is worth.                                          *)
(***************************************************************************)
EXTENDS Integers, Sequences, FiniteSets

CONSTANTS
  Subject,   \* vv_member_id or vv_media_id
  Payload,   \* what the classifier tells apart
  Model,     \* classifiers a run can be started with (model path, rule release)
  Result,    \* hashes of what a classifier says of a payload
  Verdict,   \* [Model -> [Payload -> Result]]; two models may say the same
  LastDay,   \* bound: the last calendar day
  MaxRows,   \* bound: versions in Core
  MaxSwitch  \* bound: how often a run has another classifier than the one before

Day == 1..LastDay
NoDay == 0
None == 0

ASSUME RiskAssumption ==
  /\ LastDay \in Nat \ {0} /\ MaxRows \in Nat /\ MaxSwitch \in Nat
  /\ Verdict \in [Model -> [Payload -> Result]]

VARIABLES
  day,     \* today, for the job and the database
  model,   \* the classifier of the run, or of the last one
  switches, \* how often it was another one
  rows,    \* Core versions; the id of a version is its place here
  delta,   \* delta actions in id order
  risk,    \* member_risk_category in id order
  state,   \* data/state/risk/<subject>.json
  job,     \* the job that holds the advisory lock
  since    \* history: the first date a scan started from

vars == <<day, model, switches, rows, delta, risk, state, job, since>>

(***************************************************************************)
(* Reading the tables                                                      *)
(***************************************************************************)
Largest(S) == CHOOSE i \in S : \A k \in S : k <= i
Least(S) == CHOOSE i \in S : \A k \in S : i <= k

\* find_current_source: the id of the subject's current version.
CurrentSource(s) ==
  LET S == {i \in 1..Len(rows) : rows[i].subject = s} IN
  IF S = {} THEN None ELSE Largest(S)

\* find_current_risk.
CurrentRisk(s) == {k \in 1..Len(risk) : risk[k].subject = s /\ risk[k].current}

\* latest_risk_date.
LatestRiskDate ==
  IF risk = <<>> THEN NoDay ELSE Largest({risk[k].day : k \in 1..Len(risk)})

\* result_hash: what this run's classifier says, and nothing of who says it.
Hash(i) == Verdict[model][rows[i].payload]

(***************************************************************************)
(* _process: the transaction of one work item, as the new risk table.      *)
(* FOR UPDATE on the current version keeps Core out until the commit.      *)
(***************************************************************************)

Expired(s) == [k \in 1..Len(risk) |->
                 IF risk[k].subject = s THEN [risk[k] EXCEPT !.current = FALSE]
                 ELSE risk[k]]

Assessment(i, current) ==
  [subject |-> rows[i].subject, row |-> i, hash |-> Hash(i),
   current |-> current, day |-> day]

\* Mutants: work is held for historical by the current assessment instead of the
\* current version; archived assessments are not looked up.
ProcessByAssessment(item, mode) ==
  LET s == item.subject
      source == IF mode = "incremental" THEN item.row ELSE CurrentSource(s)
      newer == {k \in CurrentRisk(s) : risk[k].row > source}
      same == {k \in 1..Len(risk) : risk[k].row = source /\ risk[k].hash = Hash(source)}
  IN
  IF item.action = "DELETE" \/ rows[source].type = "DELETED"
  THEN IF newer = {} THEN Expired(s) ELSE risk
  ELSE IF same # {} THEN risk
  ELSE IF newer # {} THEN Append(risk, Assessment(source, FALSE))
  ELSE Append(Expired(s), Assessment(source, TRUE))

ProcessAgain(item, mode) ==
  IF item.action = "DELETE" THEN Expired(item.subject)
  ELSE IF CurrentSource(item.subject) # item.row
  THEN Append(risk, Assessment(item.row, FALSE))
  ELSE Append(Expired(item.subject), Assessment(item.row, TRUE))

Process(item, mode) ==
  LET s == item.subject
      latest == CurrentSource(s)
      source == IF mode = "incremental" THEN item.row ELSE latest
      historical == latest # source
      current == CurrentRisk(s)
  IN
  IF item.action = "DELETE" \/ rows[source].type = "DELETED"
  THEN IF ~historical /\ \E k \in current : risk[k].row <= source
       THEN Expired(s) ELSE risk
  ELSE IF historical
  THEN IF \E k \in 1..Len(risk) : risk[k].row = source /\ risk[k].hash = Hash(source)
       THEN risk ELSE Append(risk, Assessment(source, FALSE))
  ELSE IF \E k \in current : risk[k].row = source /\ risk[k].hash = Hash(source)
       THEN risk ELSE Append(Expired(s), Assessment(source, TRUE))

(***************************************************************************)
(* Core and the delta procedure                                            *)
(***************************************************************************)
CommitVersion(s, type, payload) ==
  LET i == CurrentSource(s) IN
  /\ Len(rows) < MaxRows
  /\ type = "DELETED" => i # None /\ rows[i].type # "DELETED"
  /\ rows' = Append(rows, [subject |-> s, type |-> type, payload |-> payload])
  /\ UNCHANGED <<day, model, switches, delta, risk, state, job, since>>

\* An action for date d names a version that has none yet.  It is late when d
\* is behind the frontier, or its scan has read the end already.
Scanning(d) == job.pc \in {"scan", "record"} /\ job.date = d

GenerateDelta(i, d) ==
  /\ d <= day
  /\ \A k \in 1..Len(delta) :
       delta[k].subject = rows[i].subject => delta[k].row < i /\ delta[k].date <= d
  /\ delta' = Append(delta,
       [subject |-> rows[i].subject, row |-> i, date |-> d,
        action |-> IF rows[i].type = "DELETED" THEN "DELETE" ELSE "UPDATE",
        late |-> d < state.next \/ Scanning(d)])
  /\ UNCHANGED <<day, model, switches, rows, risk, state, job, since>>

Midnight ==
  /\ day < LastDay
  /\ day' = day + 1
  /\ UNCHANGED <<model, switches, rows, delta, risk, state, job, since>>

(***************************************************************************)
(* run                                                                     *)
(***************************************************************************)
Idle == [pc |-> "idle", mode |-> "none", target |-> NoDay, date |-> NoDay,
         queue |-> {}, batch |-> {}, work |-> {}, failed |-> FALSE, back |-> "idle"]

\* A work item and its key in the queue: <<mode, id>>.
DeltaWork(k) ==
  [key |-> <<"incremental", k>>, date |-> delta[k].date,
   item |-> [subject |-> delta[k].subject, row |-> delta[k].row,
             action |-> delta[k].action]]
CurrentWork(i) ==
  [key |-> <<"initial", i>>, date |-> NoDay,
   item |-> [subject |-> rows[i].subject, row |-> i, action |-> "UPDATE"]]

\* The lock is taken. The caller chooses the classifier of the run, and may
\* give a target date of any day; pending entries newer than it are left alone.
Start(mode, target, m) ==
  /\ job.pc = "idle"
  /\ m # model => switches < MaxSwitch
  /\ model' = m
  /\ switches' = IF m = model THEN switches ELSE switches + 1
  /\ job' = [Idle EXCEPT !.pc = "queue", !.mode = mode, !.target = target,
                         !.queue = {w \in state.items : w.date <= target}]
  /\ UNCHANGED <<day, rows, delta, risk, state, since>>

\* Queued work comes in the order of its date and id.
Earlier(v, w) == v.date < w.date \/ (v.date = w.date /\ v.key[2] <= w.key[2])
First(W) == CHOOSE w \in W : \A v \in W : Earlier(w, v)

\* _attempt: three transactions at most; the last of them commits, or fails.
Attempt(w, failed) ==
  /\ job' = [job EXCEPT !.pc = "record", !.back = job.pc, !.work = {w},
                        !.failed = failed]
  /\ risk' = IF failed THEN risk ELSE Process(w.item, w.key[1])
  /\ UNCHANGED <<day, model, switches, rows, delta, state, since>>

Retry(failed) ==
  /\ job.pc = "queue"
  /\ job.queue # {}
  /\ Attempt(First(job.queue), failed)

Scan(failed) ==
  /\ job.pc = "scan"
  /\ job.batch # {}
  /\ Attempt(First(job.batch), failed)

\* Mutant: a failure is counted and forgotten.
RecordDropsFailures ==
  /\ job.pc = "record"
  /\ state' = [state EXCEPT !.items = @ \ job.work]
  /\ job' = [job EXCEPT !.pc = job.back,
                        !.queue = @ \ job.work,
                        !.batch = @ \ job.work,
                        !.work = {}]
  /\ UNCHANGED <<day, model, switches, rows, delta, risk, since>>

\* record_result: a failure is queued, a success leaves the queue.
Record ==
  /\ job.pc = "record"
  /\ state' = [state EXCEPT !.items = IF job.failed THEN @ \union job.work
                                      ELSE @ \ job.work]
  /\ job' = [job EXCEPT !.pc = job.back,
                        !.queue = @ \ job.work,
                        !.batch = @ \ job.work,
                        !.work = {}]
  /\ UNCHANGED <<day, model, switches, rows, delta, risk, since>>

\* The frontier of INCREMENTAL: the saved one or the baseline, and dates that
\* were interrupted or are to be replayed.  None of them: INITIAL_REQUIRED.
Starts ==
  {IF state.next # NoDay THEN state.next ELSE LatestRiskDate,
   state.inflight, state.replay} \ {NoDay}

Frontier ==
  /\ job.pc = "queue" /\ job.queue = {}
  /\ job.mode = "incremental"
  /\ job' = IF Starts = {} THEN Idle
            ELSE [job EXCEPT !.pc = "date", !.date = Least(Starts)]
  /\ UNCHANGED <<day, model, switches, rows, delta, risk, state, since>>

\* inflight_date is saved before the scan; a replay also moves the frontier.
OpenDate ==
  /\ job.pc = "date"
  /\ job.date <= job.target
  /\ state' = [state EXCEPT
       !.inflight = job.date,
       !.next = IF state.replay # NoDay THEN job.date ELSE @,
       !.replay = NoDay]
  /\ since' = IF since = NoDay \/ job.date < since THEN job.date ELSE since
  /\ job' = [job EXCEPT !.pc = "scan_end"]
  /\ UNCHANGED <<day, model, switches, rows, delta, risk>>

\* find_scan_end and the batch.
ReadDate ==
  /\ job.pc = "scan_end"
  /\ job' = [job EXCEPT !.pc = "scan",
       !.batch = {DeltaWork(k) : k \in {j \in 1..Len(delta) : delta[j].date = job.date}}]
  /\ UNCHANGED <<day, model, switches, rows, delta, risk, state, since>>

\* Mutant: the frontier skips a date.
CloseDateSkips ==
  /\ job.pc = "scan" /\ job.batch = {}
  /\ job.mode = "incremental"
  /\ state' = [state EXCEPT !.next = job.date + 2, !.inflight = NoDay]
  /\ job' = [job EXCEPT !.pc = "date", !.date = @ + 1]
  /\ UNCHANGED <<day, model, switches, rows, delta, risk, since>>

CloseDate ==
  /\ job.pc = "scan" /\ job.batch = {}
  /\ job.mode = "incremental"
  /\ state' = [state EXCEPT !.next = IF @ > job.date + 1 THEN @ ELSE job.date + 1,
                            !.inflight = NoDay]
  /\ job' = [job EXCEPT !.pc = "date", !.date = @ + 1]
  /\ UNCHANGED <<day, model, switches, rows, delta, risk, since>>

\* INITIAL: one scan of the current versions.
ReadCurrent ==
  /\ job.pc = "queue" /\ job.queue = {}
  /\ job.mode = "initial"
  /\ job' = [job EXCEPT !.pc = "scan",
       !.batch = {CurrentWork(i) : i \in {j \in 1..Len(rows) :
                                            j = CurrentSource(rows[j].subject)}}]
  /\ UNCHANGED <<day, model, switches, rows, delta, risk, state, since>>

Finish ==
  /\ \/ job.pc = "date" /\ job.date > job.target
     \/ job.pc = "scan" /\ job.batch = {} /\ job.mode = "initial"
  /\ job' = Idle
  /\ UNCHANGED <<day, model, switches, rows, delta, risk, state, since>>

\* The process dies, the classifier cannot be loaded, or the row limit is
\* reached: the job ends where it is.
Stop ==
  /\ job.pc # "idle"
  /\ job' = Idle
  /\ UNCHANGED <<day, model, switches, rows, delta, risk, state, since>>

(***************************************************************************)
(* Specification                                                           *)
(***************************************************************************)
\* A state file written before the queue existed may ask for a replay.
Init ==
  /\ day = 1 /\ model \in Model /\ switches = 0
  /\ rows = <<>> /\ delta = <<>> /\ risk = <<>>
  /\ \E replay \in {NoDay, 1} :
       state = [items |-> {}, next |-> NoDay, inflight |-> NoDay, replay |-> replay]
  /\ job = Idle
  /\ since = NoDay

Environment ==
  \/ \E s \in Subject, type \in {"LIVE", "DELETED"}, p \in Payload : CommitVersion(s, type, p)
  \/ \E i \in 1..Len(rows), d \in Day : GenerateDelta(i, d)
  \/ Midnight

Step ==
  \/ \E failed \in BOOLEAN : Retry(failed) \/ Scan(failed)
  \/ Record \/ Frontier \/ OpenDate \/ ReadDate \/ CloseDate
  \/ ReadCurrent \/ Finish

Begin == \E mode \in {"initial", "incremental"}, target \in Day, m \in Model :
           Start(mode, target, m)

Next == Environment \/ Begin \/ Step \/ Stop

Spec == Init /\ [][Next]_vars

\* The work on delta action k is tried and succeeds.
Succeeds(k) ==
  \/ Retry(FALSE) /\ First(job.queue).key = <<"incremental", k>>
  \/ Scan(FALSE) /\ First(job.batch).key = <<"incremental", k>>

\* The job is started again and again for today, with any classifier, it goes on
\* while it runs, and no work item that is tried again and again fails every time.
Fairness ==
  /\ WF_vars(Step)
  /\ SF_vars(\E m \in Model : Start("incremental", day, m))
  /\ \A k \in 1..MaxRows : SF_vars(Succeeds(k))

FairSpec == Spec /\ Fairness

(***************************************************************************)
(* Properties                                                              *)
(***************************************************************************)
Work ==
  [key : {"incremental", "initial"} \X Nat, date : Day \union {NoDay},
   item : [subject : Subject, row : Nat \ {0}, action : {"UPDATE", "DELETE"}]]

\* Type correctness.
TypeOK ==
  /\ day \in Day /\ model \in Model /\ switches \in 0..MaxSwitch
  /\ since \in Day \union {NoDay}
  /\ rows \in Seq([subject : Subject, type : {"LIVE", "DELETED"}, payload : Payload])
  /\ delta \in Seq([subject : Subject, row : 1..Len(rows), date : Day,
                    action : {"UPDATE", "DELETE"}, late : BOOLEAN])
  /\ risk \in Seq([subject : Subject, row : 1..Len(rows),
                   hash : Result, current : BOOLEAN, day : Day])
  /\ state \in [items : SUBSET Work, next : 0..LastDay + 1, inflight : 0..LastDay + 1,
                replay : 0..LastDay + 1]
  /\ job \in [pc : {"idle", "queue", "record", "date", "scan_end", "scan"},
              mode : {"none", "initial", "incremental"}, target : 0..LastDay,
              date : 0..LastDay + 1, queue : SUBSET Work, batch : SUBSET Work,
              work : SUBSET Work, failed : BOOLEAN, back : {"idle", "queue", "scan"}]
  /\ Cardinality(job.work) <= 1

\* However often a date is scanned again or an entry retried, the same result
\* for the same version is inserted again only when another result was inserted
\* for it since: under one classifier never.
NoDuplicates ==
  \A k \in 1..Len(risk) : \A j \in 1..k-1 :
    risk[j].row = risk[k].row /\ risk[j].hash = risk[k].hash =>
      \E i \in j+1..k-1 : risk[i].row = risk[k].row /\ risk[i].hash # risk[k].hash

\* Done: the version was assessed, and while it is the subject's newest its
\* assessment is the current one; a deletion leaves no current assessment.
Done(a) ==
  LET newest == CurrentSource(a.subject) = a.row IN
  IF a.action = "DELETE" THEN newest => CurrentRisk(a.subject) = {}
  ELSE /\ \E k \in 1..Len(risk) : risk[k].row = a.row
       /\ newest => \E k \in CurrentRisk(a.subject) : risk[k].row = a.row

\* The actions the job owes: not late, and not before the first scan.
Owed(k) == ~delta[k].late /\ since # NoDay /\ since <= delta[k].date

\* No action is lost: once the frontier has passed its date, it is done or in
\* the queue, whatever failed and wherever the process died.
NothingLost ==
  \A k \in 1..Len(delta) :
    Owed(k) /\ delta[k].date < state.next
      => Done(delta[k]) \/ DeltaWork(k) \in state.items

\* Older work displaces nothing: the subject's current assessment is never of an
\* older version than before, and once a deletion expired it, no version from
\* before any deletion of the subject becomes current again.
NeverDisplaced ==
  [][\A s \in Subject : \A k \in CurrentRisk(s)' :
       /\ \A j \in CurrentRisk(s) : risk'[k].row >= risk[j].row
       /\ CurrentRisk(s) = {} =>
            \A i \in 1..Len(rows) :
              rows[i].subject = s /\ rows[i].type = "DELETED" => i < risk'[k].row]_vars

\* The job ended before the end of its work.
Interrupted == Stop /\ ~Finish /\ ~Frontier

\* When the job is no longer interrupted, every owed action ends up done.
Drains ==
  <>[][~Interrupted]_vars => <>[](\A k \in 1..Len(delta) : Owed(k) => Done(delta[k]))

(***************************************************************************)
(* The inductive invariant behind the three                                *)
(***************************************************************************)
\* An action names a version of its subject, and says what became of it.
DeltaInv ==
  \A k \in 1..Len(delta) :
    /\ delta[k].subject = rows[delta[k].row].subject
    /\ delta[k].action = "DELETE" <=> rows[delta[k].row].type = "DELETED"

\* Every work item was made of an action or of a version.
Known == {DeltaWork(k) : k \in 1..Len(delta)} \union {CurrentWork(i) : i \in 1..Len(rows)}
WorkInv == state.items \union job.queue \union job.batch \union job.work \subseteq Known

\* An assessment is of a version that was not a deletion; a subject has one
\* current assessment at most, and if its newest version was assessed at all, the
\* last of its assessments is the current one.
RiskInv ==
  \A k \in 1..Len(risk) :
    LET r == risk[k] IN
    /\ r.subject = rows[r.row].subject /\ rows[r.row].type # "DELETED"
    /\ r.row = CurrentSource(r.subject) =>
         \E j \in CurrentRisk(r.subject) : risk[j].row = r.row /\ k <= j
    /\ r.current => CurrentRisk(r.subject) = {k}

\* The job reads a date of the delta actions, or has opened one.
AtScan == job.pc = "scan" \/ (job.pc = "record" /\ job.back = "scan")
Reading == AtScan /\ job.mode = "incremental"
Opened == job.pc = "scan_end" \/ Reading

\* The frontier stands at or behind the date that is open; without a frontier
\* that date is the first one of all, and stays in the file when the job dies.
FrontInv ==
  /\ state.next # NoDay => since # NoDay /\ since <= state.next
  /\ state.next = NoDay => state.inflight = since
  /\ state.inflight # NoDay => since # NoDay /\ since <= state.inflight
  /\ job.pc = "record" => job.back \in {"queue", "scan"}
  /\ job.pc \in {"date", "scan_end"} => job.mode = "incremental"
  /\ job.pc = "date" \/ Opened =>
       /\ job.date # NoDay
       /\ state.next # NoDay => job.date <= state.next
  /\ job.pc = "date" =>
       /\ state.next = NoDay /\ since # NoDay => job.date <= since
       /\ state.next # NoDay /\ job.date < since => state.replay # NoDay
  /\ Opened => /\ job.date <= job.target
               /\ state.inflight = job.date

\* What is owed of the open date is done, queued or still to come; what is recorded
\* as a success was one.
DoneInv ==
  /\ Reading => \A k \in 1..Len(delta) :
       Owed(k) /\ delta[k].date = job.date
         => Done(delta[k]) \/ DeltaWork(k) \in state.items \union job.batch
  /\ job.pc = "record" /\ ~job.failed => \A k \in 1..Len(delta) :
       DeltaWork(k) \in job.work => Done(delta[k])

RiskIInv ==
  /\ TypeOK /\ DeltaInv /\ WorkInv /\ RiskInv /\ FrontInv /\ DoneInv
  /\ NoDuplicates /\ NothingLost

=============================================================================
