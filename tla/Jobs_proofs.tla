------------------------------ MODULE Jobs_proofs ------------------------------
(***************************************************************************)
(* Proofs about JobRunner and Schedule, for any sources, job processes,    *)
(* calendar and schedules.                                                 *)
(*                                                                         *)
(* JobIInv is inductive: one process at a time has a progress, and what it *)
(* has written fits what is left of its pass.                              *)
(***************************************************************************)
EXTENDS JobRunner, Schedule, Induction_proofs, SequenceTheorems, FiniteSetTheorems

(***************************************************************************)
(* One row more                                                            *)
(***************************************************************************)
RowRec == [source : Source, stage : Stages, status : Statuses]

LEMMA AppendIs ==
  ASSUME NEW S, NEW q \in Seq(S), NEW e \in S
  PROVE  /\ Append(q, e) \in Seq(S) /\ Len(Append(q, e)) = Len(q) + 1 /\ Len(q) \in Nat
         /\ Append(q, e)[Len(q) + 1] = e
         /\ \A k \in 1..Len(q) : Append(q, e)[k] = q[k]
OBVIOUS

LEMMA RowSets ==
  ASSUME NEW q \in Seq(RowRec), NEW e \in RowRec, NEW a, NEW b
  PROVE  /\ e.stage = a /\ e.status = b =>
              RowsWith(Append(q, e), a, b) = RowsWith(q, a, b) \union {Len(q) + 1}
         /\ ~(e.stage = a /\ e.status = b) => RowsWith(Append(q, e), a, b) = RowsWith(q, a, b)
         /\ e.source = a /\ e.stage = b =>
              RowsOf(Append(q, e), a, b) = RowsOf(q, a, b) \union {Len(q) + 1}
         /\ ~(e.source = a /\ e.stage = b) => RowsOf(Append(q, e), a, b) = RowsOf(q, a, b)
         /\ Len(q) \in Nat /\ \A k \in RowsOf(q, a, b) : k \in 1..Len(q)
         /\ IsFiniteSet(RowsWith(q, a, b)) /\ Len(q) + 1 \notin RowsWith(q, a, b)
<1> DEFINE n == Len(q)
           r == Append(q, e)
<1>1. /\ n \in Nat /\ DOMAIN q = 1..n /\ DOMAIN r = 1..(n + 1)
      /\ r[n + 1] = e /\ \A k \in 1..n : r[k] = q[k]
  BY AppendIs
<1> HIDE DEF r, n
<1>2. 1..(n + 1) = 1..n \union {n + 1} /\ n + 1 \notin 1..n
  BY <1>1
<1>3. RowsWith(r, a, b) = IF e.stage = a /\ e.status = b THEN RowsWith(q, a, b) \union {n + 1}
                          ELSE RowsWith(q, a, b)
  BY <1>1, <1>2 DEF RowsWith
<1>4. RowsOf(r, a, b) = IF e.source = a /\ e.stage = b THEN RowsOf(q, a, b) \union {n + 1}
                        ELSE RowsOf(q, a, b)
  BY <1>1, <1>2 DEF RowsOf
<1>5. RowsWith(q, a, b) \subseteq 1..n /\ RowsOf(q, a, b) \subseteq 1..n
  BY <1>1 DEF RowsWith, RowsOf
<1>6. IsFiniteSet(1..n)
  BY <1>1, FS_Interval
<1>7. IsFiniteSet(RowsWith(q, a, b))
  BY <1>5, <1>6, FS_Subset
<1> QED BY <1>1, <1>2, <1>3, <1>4, <1>5, <1>7 DEF n, r

LEMMA RowIs ==
  ASSUME NEW j \in Progress, NEW s \in Source, NEW stage \in Stages, NEW status \in Statuses
  PROVE  LET k == Row(j, s, stage, status)
             r == [source |-> s, stage |-> stage, status |-> status]
         IN  /\ k \in Progress /\ r \in RowRec
             /\ k.pass = j.pass /\ k.mode = j.mode /\ k.sources = j.sources
             /\ k.left = j.left \ {s} /\ k.attempt = 0 /\ k.rows = Append(j.rows, r)
             /\ k.tally \in [Stages \X Statuses -> Nat]
             /\ \A a \in Stages, b \in Statuses :
                  k.tally[<<a, b>>] = IF a = stage /\ b = status THEN j.tally[<<a, b>>] + 1 ELSE j.tally[<<a, b>>]
<1> DEFINE r == [source |-> s, stage |-> stage, status |-> status]
<1>1. r \in RowRec /\ j.rows \in Seq(RowRec) /\ j.left \in SUBSET Source
      /\ j.tally \in [Stages \X Statuses -> Nat]
  BY DEF Progress, RowRec
<1>2. Append(j.rows, r) \in Seq(RowRec)
  BY <1>1
<1>3. j.left \ {s} \in SUBSET Source /\ 0 \in 0..MaxAttempts
  BY <1>1, AttemptsAssumption
<1>4. <<stage, status>> \in Stages \X Statuses
  OBVIOUS
<1> DEFINE T == [j.tally EXCEPT ![<<stage, status>>] = @ + 1]
           R == Append(j.rows, r)
           L == j.left \ {s}
<1>5. T \in [Stages \X Statuses -> Nat]
  BY <1>1, <1>4
<1>6. \A a \in Stages, b \in Statuses :
        T[<<a, b>>] = IF a = stage /\ b = status THEN j.tally[<<a, b>>] + 1 ELSE j.tally[<<a, b>>]
  BY <1>1, <1>4
<1>7. Row(j, s, stage, status) = [j EXCEPT !.left = L, !.attempt = 0, !.rows = R, !.tally = T]
  BY DEF Row, Progress
<1>8. R \in Seq(RowRec) /\ L \in SUBSET Source
  BY <1>2, <1>3
<1> HIDE DEF r, T, L, R
<1>9. [j EXCEPT !.left = L, !.attempt = 0, !.rows = R, !.tally = T] \in Progress
  BY <1>3, <1>5, <1>8 DEF Progress, RowRec
<1>10. LET k == [j EXCEPT !.left = L, !.attempt = 0, !.rows = R, !.tally = T]
       IN  /\ k.pass = j.pass /\ k.mode = j.mode /\ k.sources = j.sources
           /\ k.left = L /\ k.attempt = 0 /\ k.rows = R /\ k.tally = T
  BY DEF Progress
<1> QED BY <1>1, <1>5, <1>6, <1>7, <1>9, <1>10 DEF r, L, R


\* A source that is left is the one the configuration names first.
LEMMA FirstIs ==
  ASSUME NEW S \in SUBSET Source, S # {}
  PROVE  First(S) \in S
<1> DEFINE T == {i \in 1..Len(Configured) : Configured[i] \in S}
<1>1. Len(Configured) \in Nat /\ DOMAIN Configured = 1..Len(Configured)
  BY ConfiguredAssumption
<1>2. T \in SUBSET Nat /\ T # {}
  BY <1>1 DEF Source
<1>3. PICK i \in T : \A m \in T : i <= m
  BY <1>2, LeastNatural
<1>4. i \in Nat /\ i \in DOMAIN Configured /\ Configured[i] \in S
  BY <1>1, <1>2, <1>3
<1>5. \A k \in 1..(i - 1) : Configured[k] \notin S
  BY <1>1, <1>3, <1>4
<1>6. \E s \in S : \E n \in DOMAIN Configured :
         Configured[n] = s /\ \A k \in 1..(n - 1) : Configured[k] \notin S
  BY <1>4, <1>5
<1> QED BY <1>6 DEF First

(***************************************************************************)
(* The progress of a job                                                   *)
(***************************************************************************)
Fits(j, still) == PassInv(j) /\ TallyInv(j) /\ MainRowInv(j) /\ RetryInv(j, still)

\* A source gets its row, and of the state files at most its own is new.
LEMMA RowFits ==
  ASSUME NEW j \in Progress, NEW waiting, NEW still, Fits(j, waiting),
         NEW s \in j.left, NEW status \in Statuses,
         j.pass \in Passes, still \subseteq waiting \union {s}
  PROVE  LET k == Row(j, s, IF j.pass = "MAIN" THEN "MAIN" ELSE "RETRY", status)
         IN  k \in Progress /\ k.pass = j.pass /\ Fits(k, still)
<1> DEFINE stage == IF j.pass = "MAIN" THEN "MAIN" ELSE "RETRY"
           k == Row(j, s, stage, status)
           r == [source |-> s, stage |-> stage, status |-> status]
           n == Len(j.rows)
<1>1. stage \in Stages /\ (stage = "MAIN" <=> j.pass = "MAIN")
  BY DEF Stages
<1>2. s \in Source /\ j.left \subseteq Source /\ j.sources \subseteq Source /\ j.rows \in Seq(RowRec)
      /\ j.tally \in [Stages \X Statuses -> Nat]
  BY DEF Progress, RowRec
<1>3. /\ k \in Progress /\ r \in RowRec
      /\ k.pass = j.pass /\ k.mode = j.mode /\ k.sources = j.sources
      /\ k.left = j.left \ {s} /\ k.attempt = 0 /\ k.rows = Append(j.rows, r)
      /\ k.tally \in [Stages \X Statuses -> Nat]
      /\ \A a \in Stages, b \in Statuses :
           k.tally[<<a, b>>] = IF a = stage /\ b = status THEN j.tally[<<a, b>>] + 1
                               ELSE j.tally[<<a, b>>]
  <2> HIDE DEF stage
  <2> QED BY <1>1, <1>2, RowIs
<1>4. r.source = s /\ r.stage = stage /\ r.status = status
  OBVIOUS
<1> HIDE DEF k, r, stage
<1>r. ASSUME NEW a, NEW b
      PROVE  /\ RowsWith(k.rows, a, b) = IF stage = a /\ status = b
                                         THEN RowsWith(j.rows, a, b) \union {n + 1}
                                         ELSE RowsWith(j.rows, a, b)
             /\ RowsOf(k.rows, a, b) = IF s = a /\ stage = b THEN RowsOf(j.rows, a, b) \union {n + 1}
                                       ELSE RowsOf(j.rows, a, b)
             /\ n \in Nat /\ \A i \in RowsOf(j.rows, a, b) : i \in 1..n
             /\ IsFiniteSet(RowsWith(j.rows, a, b)) /\ n + 1 \notin RowsWith(j.rows, a, b)
  <2>1. j.rows \in Seq(RowRec) /\ r \in RowRec /\ k.rows = Append(j.rows, r)
    BY <1>2, <1>3
  <2>2. PICK q : q = j.rows
    OBVIOUS
  <2>3. /\ r.stage = a /\ r.status = b =>
             RowsWith(Append(q, r), a, b) = RowsWith(q, a, b) \union {Len(q) + 1}
        /\ ~(r.stage = a /\ r.status = b) => RowsWith(Append(q, r), a, b) = RowsWith(q, a, b)
        /\ r.source = a /\ r.stage = b =>
             RowsOf(Append(q, r), a, b) = RowsOf(q, a, b) \union {Len(q) + 1}
        /\ ~(r.source = a /\ r.stage = b) => RowsOf(Append(q, r), a, b) = RowsOf(q, a, b)
        /\ Len(q) \in Nat /\ \A i \in RowsOf(q, a, b) : i \in 1..Len(q)
        /\ IsFiniteSet(RowsWith(q, a, b)) /\ Len(q) + 1 \notin RowsWith(q, a, b)
    <3>1. q \in Seq(RowRec) /\ r \in RowRec
      BY <2>1, <2>2
    <3> QED BY <3>1, RowSets
  <2> QED BY <2>1, <2>2, <2>3, <1>4
<1>5. PassInv(k)
  BY <1>2, <1>3 DEF Fits, PassInv, Asked
<1>6. TallyInv(k)
  <2> SUFFICES ASSUME NEW a \in Stages, NEW b \in Statuses
               PROVE  k.tally[<<a, b>>] = Cardinality(RowsWith(k.rows, a, b))
    BY DEF TallyInv
  <2> DEFINE R == RowsWith(j.rows, a, b)
  <2>1. /\ RowsWith(k.rows, a, b) = IF stage = a /\ status = b THEN R \union {n + 1} ELSE R
        /\ IsFiniteSet(R) /\ n + 1 \notin R
    BY <1>r
  <2>2. j.tally[<<a, b>>] = Cardinality(R)
    BY DEF Fits, TallyInv
  <2> HIDE DEF R
  <2>3. Cardinality(R \union {n + 1}) = Cardinality(R) + 1
    BY <2>1, FS_AddElement
  <2> QED BY <1>3, <2>1, <2>2, <2>3
<1>7. MainRowInv(k)
  <2>1. ASSUME NEW t \in Source
        PROVE  /\ RowsOf(k.rows, t, "MAIN") = IF s = t /\ stage = "MAIN"
                                              THEN RowsOf(j.rows, t, "MAIN") \union {n + 1}
                                              ELSE RowsOf(j.rows, t, "MAIN")
    BY <1>r
  <2>2. CASE j.pass = "MAIN"
    <3>1. Attempted(k) = Attempted(j) \union {s} /\ s \notin Attempted(j)
      BY <1>2, <1>3, <2>2 DEF Fits, PassInv, Attempted, Asked
    <3>2. RowsOf(k.rows, s, "MAIN") = {n + 1}
      BY <1>1, <1>2, <2>1, <2>2, <3>1 DEF Fits, MainRowInv
    <3>3. Cardinality({n + 1}) = 1
      BY FS_Singleton
    <3>4. ASSUME NEW t \in Source, t # s
          PROVE  RowsOf(k.rows, t, "MAIN") = RowsOf(j.rows, t, "MAIN")
      BY <2>1, <3>4
    <3> QED BY <3>1, <3>2, <3>3, <3>4 DEF Fits, MainRowInv
  <2>3. CASE j.pass # "MAIN"
    <3>1. Attempted(k) = Attempted(j)
      BY <1>3, <2>3 DEF Attempted, Asked
    <3> QED BY <1>1, <2>1, <2>3, <3>1 DEF Fits, MainRowInv
  <2> QED BY <2>2, <2>3
<1>8. RetryInv(k, still)
  <2> SUFFICES ASSUME j.pass = "AFTER", NEW t \in j.sources \intersect still
               PROVE  t \in k.left \/ Retried(k.rows, t)
    BY <1>3 DEF RetryInv, Passes
  <2>1. /\ \A b \in Stages : RowsOf(k.rows, t, b) = IF s = t /\ stage = b
                                                 THEN RowsOf(j.rows, t, b) \union {n + 1}
                                                 ELSE RowsOf(j.rows, t, b)
        /\ n \in Nat /\ \A i \in RowsOf(j.rows, t, "MAIN") : i \in 1..n
    BY <1>r
  <2>2. stage = "RETRY"
    BY <1>1 DEF Stages
  <2>3. CASE t = s
    <3>1. n + 1 \in RowsOf(k.rows, t, "RETRY") /\ RowsOf(k.rows, t, "MAIN") = RowsOf(j.rows, t, "MAIN")
      BY <2>1, <2>2, <2>3 DEF Stages
    <3>2. \A i \in RowsOf(k.rows, t, "MAIN") : i < n + 1
      BY <2>1, <3>1
    <3> QED BY <3>1, <3>2 DEF Retried
  <2>4. CASE t # s
    <3>1. RowsOf(k.rows, t, "RETRY") = RowsOf(j.rows, t, "RETRY")
          /\ RowsOf(k.rows, t, "MAIN") = RowsOf(j.rows, t, "MAIN")
      BY <2>1, <2>4 DEF Stages
    <3>2. t \in j.left \/ Retried(j.rows, t)
      BY <2>4 DEF Fits, RetryInv
    <3> QED BY <1>3, <2>4, <3>1, <3>2 DEF Retried
  <2> QED BY <2>3, <2>4
<1>9. k \in Progress /\ k.pass = j.pass /\ Fits(k, still)
  BY <1>3, <1>5, <1>6, <1>7, <1>8 DEF Fits
<1> QED BY <1>9 DEF k, stage

\* A step of the job that has, takes or gives back the lock.
LEMMA Replaced ==
  ASSUME JobIInv, NEW p \in Job, NEW k \in Progress,
         lock \in {p, NoJob}, lock' \in {p, NoJob}, k.pass # "NONE" <=> lock' = p,
         job' = [job EXCEPT ![p] = k], Fits(k, pending' \ stray'),
         adapter' = adapter, due' \subseteq Source, pending' \subseteq Source, kills' \in 0..MaxKills,
         orphans' \subseteq (1..MaxKills) \X Source, stray' \subseteq Source
  PROVE  JobIInv'
<1>1. job \in [Job -> Progress] /\ adapter \in {"watchlist", "media"}
  BY DEF JobIInv, JobTypeOK
<1>2. job' \in [Job -> Progress] /\ job'[p] = k /\ \A q \in Job \ {p} : job'[q] = job[q]
  BY <1>1
<1>3. JobTypeOK'
  BY <1>1, <1>2 DEF JobTypeOK
<1>4. ASSUME NEW q \in Job
      PROVE  /\ job'[q].pass # "NONE" <=> lock' = q
             /\ PassInv(job'[q]) /\ TallyInv(job'[q]) /\ MainRowInv(job'[q])
             /\ RetryInv(job'[q], pending' \ stray')
  <2>1. CASE q = p
    BY <1>2, <2>1 DEF Fits
  <2>2. CASE q # p
    <3>1. job'[q] = job[q] /\ lock # q /\ lock' # q
      BY <1>2, <2>2, NoJobAssumption
    <3>2. job[q].pass = "NONE" /\ PassInv(job[q]) /\ TallyInv(job[q]) /\ MainRowInv(job[q])
      BY <3>1 DEF JobIInv
    <3>3. RetryInv(job[q], pending' \ stray')
      BY <3>2 DEF RetryInv
    <3> QED BY <3>1, <3>2, <3>3
  <2> QED BY <2>1, <2>2
<1> QED BY <1>3, <1>4 DEF JobIInv

\* What the invariant says of the job that is at work.
LEMMA AtWork ==
  ASSUME JobIInv, NEW p \in Job
  PROVE  /\ job[p] \in Progress /\ Fits(job[p], pending \ stray)
         /\ job[p].pass # "NONE" <=> lock = p
         /\ orphans \subseteq (1..MaxKills) \X Source /\ stray \subseteq Source
         /\ lock \in Job \union {NoJob} /\ due \subseteq Source /\ pending \subseteq Source
         /\ kills \in 0..MaxKills /\ adapter \in {"watchlist", "media"}
         /\ job[p].left \in SUBSET Source /\ job[p].sources \in SUBSET Source
         /\ job[p].attempt \in 0..MaxAttempts
  BY DEF JobIInv, JobTypeOK, Fits, Progress

LEMMA CountedStep ==
  ASSUME JobIInv, NEW p \in Job, NEW status \in Statuses, Counted(p, status),
         job[p].left # {}, job[p].pass \in Passes,
         UNCHANGED <<adapter, lock, kills, orphans, stray>>,
         due' \subseteq Source, pending' \subseteq pending \union {Current(p)}
  PROVE  JobIInv'
<1> DEFINE k == Row(job[p], Current(p), Stage(p), status)
<1>1. Current(p) \in job[p].left /\ Current(p) \in Source
  BY AtWork, FirstIs DEF Current
<1>2. k \in Progress /\ k.pass = job[p].pass /\ Fits(k, pending' \ stray')
  <2>1. pending' \ stray' \subseteq (pending \ stray) \union {Current(p)}
    OBVIOUS
  <2> QED BY <1>1, <2>1, AtWork, RowFits DEF Stage
<1>3. job' = [job EXCEPT ![p] = k]
  BY DEF Counted
<1>4. lock = p /\ pending' \subseteq Source
  BY <1>1, AtWork DEF Passes
<1> HIDE DEF k
<1>5. k.pass # "NONE" <=> lock' = p
  BY <1>2, <1>4, AtWork
<1> QED BY <1>2, <1>3, <1>4, <1>5, AtWork, Replaced

\* A job that changes its attempt, or goes to its next pass.
LEMMA AttemptFits ==
  ASSUME NEW j \in Progress, NEW waiting, NEW still, Fits(j, waiting), still \subseteq waiting \union {First(j.left)},
         NEW n \in 1..MaxAttempts, n > 1 => j.pass = "MAIN", j.pass \in Passes, j.left # {}
  PROVE  LET k == [j EXCEPT !.attempt = n]
         IN  k \in Progress /\ k.pass = j.pass /\ Fits(k, still)
<1> DEFINE k == [j EXCEPT !.attempt = n]
<1>1. /\ k \in Progress /\ k.pass = j.pass /\ k.mode = j.mode /\ k.sources = j.sources /\ k.left = j.left
      /\ k.attempt = n /\ k.rows = j.rows /\ k.tally = j.tally
  BY AttemptsAssumption DEF Progress
<1> HIDE DEF k
<1>2. PassInv(k)
  BY <1>1 DEF Fits, PassInv, Asked
<1>3. TallyInv(k)
  BY <1>1 DEF Fits, TallyInv
<1>4. MainRowInv(k)
  <2>1. Attempted(k) = Attempted(j)
    BY <1>1 DEF Attempted, Asked
  <2> QED BY <1>1, <2>1 DEF Fits, MainRowInv
<1>5. RetryInv(k, still)
  <2>1. First(j.left) \in j.left
    BY FirstIs DEF Progress
  <2> QED BY <1>1, <2>1 DEF Fits, RetryInv
<1>6. k \in Progress /\ k.pass = j.pass /\ Fits(k, still)
  BY <1>1, <1>2, <1>3, <1>4, <1>5 DEF Fits
<1> QED BY <1>6 DEF k

LEMMA IsDueStep ==
  ASSUME JobIInv, NEW p \in Job, IsDue(p)
  PROVE  JobIInv'
<1> DEFINE k == [job[p] EXCEPT !.attempt = 1]
<1>1. job[p].pass \in Passes /\ job[p].left # {} /\ job' = [job EXCEPT ![p] = k]
      /\ UNCHANGED <<adapter, due, pending, lock, kills, orphans, stray>>
  BY AtWork DEF IsDue, Waits, JobIInv, JobTypeOK
<1>2. 1 \in 1..MaxAttempts
  BY AttemptsAssumption
<1>3. k \in Progress /\ k.pass = job[p].pass /\ Fits(k, pending \ stray)
  <2>1. job[p] \in Progress /\ Fits(job[p], pending \ stray)
    BY AtWork
  <2>2. /\ pending \ stray \subseteq (pending \ stray) \union {First(job[p].left)}
        /\ 1 > 1 => job[p].pass = "MAIN"
    OBVIOUS
  <2> QED BY <1>1, <1>2, <2>1, <2>2, AttemptFits
<1> HIDE DEF k
<1>4. lock = p
  BY <1>1, AtWork DEF Passes
<1> QED BY <1>1, <1>3, <1>4, AtWork, Replaced

LEMMA RaisesStep ==
  ASSUME JobIInv, NEW p \in Job, Raises(p)
  PROVE  JobIInv'
<1>1. /\ job[p].pass \in Passes /\ job[p].left # {} /\ job[p].attempt > 0
      /\ job[p].attempt > 1 => job[p].pass = "MAIN"
  BY AtWork DEF Raises, Fits, PassInv
<1>2. Current(p) \in job[p].left /\ Current(p) \in Source
  BY <1>1, AtWork, FirstIs DEF Current
<1>3. /\ UNCHANGED <<adapter, lock, kills, orphans, stray>> /\ due' \subseteq Source
      /\ pending' \subseteq pending \union {Current(p)}
  BY AtWork DEF Raises, LeavesRaising
<1>4. CASE job[p].attempt = (IF Stage(p) = "RETRY" THEN 1 ELSE MaxAttempts)
  <2>1. Counted(p, "FAILED") /\ "FAILED" \in Statuses
    BY <1>4 DEF Raises, Statuses
  <2> QED BY <1>1, <1>3, <2>1, CountedStep
<1>5. CASE job[p].attempt # (IF Stage(p) = "RETRY" THEN 1 ELSE MaxAttempts)
  <2> DEFINE n == job[p].attempt + 1
             k == [job[p] EXCEPT !.attempt = n]
  <2>1. n \in 1..MaxAttempts /\ (n > 1 => job[p].pass = "MAIN")
    <3>1. job[p].attempt \in 0..MaxAttempts /\ MaxAttempts \in Nat
      BY AtWork, AttemptsAssumption
    <3>2. job[p].pass = "MAIN"
      <4> SUFFICES ASSUME job[p].pass # "MAIN" PROVE FALSE
        OBVIOUS
      <4>1. Stage(p) = "RETRY"
        BY DEF Stage
      <4> QED BY <1>1, <1>5, <3>1, <4>1
    <3>3. job[p].attempt # MaxAttempts
      BY <1>5, <3>2 DEF Stage
    <3> QED BY <3>1, <3>2, <3>3
  <2>2. job' = [job EXCEPT ![p] = k]
    BY <1>5, AtWork DEF Raises, JobIInv, JobTypeOK
  <2>3. job[p] \in Progress /\ Fits(job[p], pending \ stray)
        /\ pending' \ stray' \subseteq (pending \ stray) \union {First(job[p].left)}
    BY <1>3, AtWork DEF Current
  <2> HIDE DEF n
  <2>4. k \in Progress /\ k.pass = job[p].pass /\ Fits(k, pending' \ stray')
    BY <1>1, <2>1, <2>3, AttemptFits
  <2> HIDE DEF k
  <2>5. lock = p
    BY <1>1, AtWork DEF Passes
  <2>6. pending' \subseteq Source
    BY <1>2, <1>3, AtWork
  <2> QED BY <1>3, <2>2, <2>4, <2>5, <2>6, AtWork, Replaced
<1> QED BY <1>4, <1>5

LEMMA FinishesStep ==
  ASSUME JobIInv, NEW p \in Job, NEW status \in Done, Finishes(p, status)
  PROVE  JobIInv'
<1>1. /\ job[p].pass \in Passes /\ job[p].left # {}
  BY AtWork DEF Finishes, Fits, PassInv
<1>2. Current(p) \in Source
  BY <1>1, AtWork, FirstIs DEF Current
<1>3. Counted(p, status) /\ status \in Statuses /\ UNCHANGED <<adapter, lock, kills, orphans, stray>>
  BY DEF Finishes, Statuses
<1>4. due' \subseteq Source /\ pending' \subseteq pending \union {Current(p)}
  <2>1. CASE adapter = "media"
    BY <2>1, AtWork DEF Finishes, Leaves, MediaLeaves
  <2>2. CASE adapter # "media"
    BY <2>2, AtWork DEF Finishes, Leaves, WatchlistLeaves
  <2> QED BY <2>1, <2>2
<1> QED BY <1>1, <1>3, <1>4, CountedStep

LEMMA SkipStep ==
  ASSUME JobIInv, NEW p \in Job, NotDue(p) \/ DecisionFails(p) \/ FindsNoHold(p)
  PROVE  JobIInv'
<1>1. PICK status \in {"NOT_DUE", "FAILED", "UNCHANGED"} : Counted(p, status)
  BY DEF NotDue, DecisionFails, FindsNoHold
<1>2. /\ job[p].pass \in Passes /\ job[p].left # {}
      /\ UNCHANGED <<adapter, due, pending, lock, kills, orphans, stray>>
  BY AtWork DEF NotDue, DecisionFails, Waits, FindsNoHold, Fits, PassInv
<1>3. status \in Statuses /\ due' \subseteq Source /\ pending' \subseteq pending \union {Current(p)}
  BY <1>2, AtWork DEF Statuses, Done
<1> QED BY <1>1, <1>2, <1>3, CountedStep

\* Nothing is left of a pass and the next one begins, with sources of its own.
LEMMA PassFits ==
  ASSUME NEW j \in Progress, NEW still, Fits(j, still), j.left = {}, j.attempt = 0,
         NEW pass, NEW left \in SUBSET j.sources,
         \/ j.pass = "BEFORE" /\ pass = "MAIN" /\ left = Asked(j)
         \/ j.pass = "MAIN" /\ pass = "AFTER" /\ left = j.sources \intersect still
         \/ j.pass = "AFTER" /\ pass = "CLOSING" /\ left = {}
  PROVE  LET k == [j EXCEPT !.pass = pass, !.left = left]
         IN  k \in Progress /\ Fits(k, still)
<1> DEFINE k == [j EXCEPT !.pass = pass, !.left = left]
<1>1. /\ k \in Progress /\ k.pass = pass /\ k.mode = j.mode /\ k.sources = j.sources /\ k.left = left
      /\ k.attempt = 0 /\ k.rows = j.rows /\ k.tally = j.tally
  <2>1. left \in SUBSET Source /\ pass \in Passes \union {"CLOSING", "NONE"}
    BY DEF Progress, Passes
  <2> QED BY <2>1 DEF Progress
<1> HIDE DEF k
<1>2. PassInv(k)
  BY <1>1 DEF PassInv, Asked
<1>3. TallyInv(k)
  BY <1>1 DEF Fits, TallyInv
<1>4. MainRowInv(k)
  <2>1. Attempted(k) = Attempted(j)
    <3>1. Asked(k) = Asked(j)
      BY <1>1 DEF Asked
    <3> QED BY <1>1, <3>1 DEF Attempted
  <2> QED BY <1>1, <2>1 DEF Fits, MainRowInv
<1>5. RetryInv(k, still)
  BY <1>1 DEF Fits, RetryInv
<1>6. k \in Progress /\ Fits(k, still)
  BY <1>1, <1>2, <1>3, <1>4, <1>5 DEF Fits
<1> QED BY <1>6 DEF k

LEMMA PassStep ==
  ASSUME JobIInv, NEW p \in Job, MainPass(p) \/ RetryPass(p) \/ Summarise(p)
  PROVE  JobIInv'
<1>1. /\ UNCHANGED <<adapter, due, pending, lock, kills, orphans>> /\ job[p].left = {}
      /\ job[p].pass \in Passes /\ stray' \in {stray, {}}
      /\ ~RetryPass(p) => stray' = stray
      /\ job[p].pass = "MAIN" => stray' = {}
  BY DEF MainPass, RetryPass, Summarise, PassDone, Passes
<1>2. /\ job[p].attempt = 0 /\ lock = p /\ job[p] \in Progress
      /\ Fits(job[p], pending' \ stray')
  <2>1. job[p] \in Progress /\ Fits(job[p], pending \ stray)
    BY AtWork
  <2>2. job[p].attempt = 0 /\ lock = p
    BY <1>1, <2>1, AtWork DEF Fits, PassInv, Passes, Progress
  <2>3. CASE job[p].pass = "MAIN"
    BY <2>1, <2>2, <2>3 DEF Fits, RetryInv
  <2>4. CASE job[p].pass # "MAIN"
    <3>1. ~RetryPass(p)
      BY <2>4 DEF RetryPass
    <3> QED BY <1>1, <2>1, <2>2, <3>1
  <2> QED BY <2>3, <2>4
<1>3. \E pass, left :
        /\ job' = [job EXCEPT ![p] = [job[p] EXCEPT !.pass = pass, !.left = left]]
        /\ left \in SUBSET job[p].sources
        /\ \/ job[p].pass = "BEFORE" /\ pass = "MAIN" /\ left = Asked(job[p])
           \/ /\ job[p].pass = "MAIN" /\ pass = "AFTER"
              /\ left = job[p].sources \intersect (pending' \ stray')
           \/ job[p].pass = "AFTER" /\ pass = "CLOSING" /\ left = {}
  <2>1. CASE MainPass(p)
    <3>1. Asked(job[p]) \in SUBSET job[p].sources
      BY DEF Asked
    <3> QED BY <2>1, <3>1, AtWork DEF MainPass, JobIInv, JobTypeOK
  <2>2. CASE RetryPass(p)
    <3>1. WithState(job[p].sources) = job[p].sources \intersect (pending' \ stray')
      BY <2>2 DEF RetryPass, WithState
    <3>2. /\ job' = [job EXCEPT ![p] = [job[p] EXCEPT !.pass = "AFTER",
                                                      !.left = WithState(job[p].sources)]]
          /\ job[p].pass = "MAIN" /\ WithState(job[p].sources) \in SUBSET job[p].sources
      BY <2>2, AtWork DEF RetryPass, WithState, JobIInv, JobTypeOK
    <3> QED BY <3>1, <3>2
  <2>3. CASE Summarise(p)
    <3>1. [job[p] EXCEPT !.pass = "CLOSING"] = [job[p] EXCEPT !.pass = "CLOSING", !.left = {}]
      BY <1>1, AtWork DEF Progress
    <3> QED BY <2>3, <3>1, AtWork DEF Summarise, JobIInv, JobTypeOK
  <2> QED BY <2>1, <2>2, <2>3
<1>4. PICK pass, left :
        /\ job' = [job EXCEPT ![p] = [job[p] EXCEPT !.pass = pass, !.left = left]]
        /\ left \in SUBSET job[p].sources
        /\ \/ job[p].pass = "BEFORE" /\ pass = "MAIN" /\ left = Asked(job[p])
           \/ /\ job[p].pass = "MAIN" /\ pass = "AFTER"
              /\ left = job[p].sources \intersect (pending' \ stray')
           \/ job[p].pass = "AFTER" /\ pass = "CLOSING" /\ left = {}
  BY <1>3
<1> DEFINE k == [job[p] EXCEPT !.pass = pass, !.left = left]
<1>5. k \in Progress /\ Fits(k, pending' \ stray')
  BY <1>1, <1>2, <1>4, PassFits
<1>6. k.pass # "NONE"
  BY <1>2, <1>4 DEF Progress
<1>7. job' = [job EXCEPT ![p] = k]
  BY <1>4
<1> HIDE DEF k
<1> QED BY <1>1, <1>2, <1>5, <1>6, <1>7, AtWork, Replaced

LEMMA NobodyFits ==
  ASSUME NEW still
  PROVE  NotRunning \in Progress /\ Fits(NotRunning, still) /\ NotRunning.pass = "NONE"
<1> DEFINE k == NotRunning
<1>1. /\ k.pass = "NONE" /\ k.mode = "none" /\ k.sources = {} /\ k.left = {} /\ k.attempt = 0
      /\ k.rows = <<>> /\ k.tally = NoTally
  BY DEF NotRunning
<1>2. NoTally \in [Stages \X Statuses -> Nat]
  BY DEF NoTally
<1>3. k \in Progress
  <2>1. <<>> \in Seq([source : Source, stage : Stages, status : Statuses]) /\ 0 \in 0..MaxAttempts
        /\ {} \in SUBSET Source
    BY AttemptsAssumption
  <2> QED BY <1>2, <2>1 DEF NotRunning, Progress
<1>4. \A a, b : RowsWith(<<>>, a, b) = {} /\ RowsOf(<<>>, a, b) = {}
  BY DEF RowsWith, RowsOf
<1>5. TallyInv(k)
  <2>1. \A a \in Stages, b \in Statuses : NoTally[<<a, b>>] = 0
    BY DEF NoTally
  <2> QED BY <1>1, <1>4, <2>1, FS_EmptySet DEF TallyInv
<1>6. MainRowInv(k) /\ PassInv(k) /\ RetryInv(k, still)
  BY <1>1, <1>4 DEF MainRowInv, Attempted, PassInv, RetryInv, Passes
<1> QED BY <1>1, <1>3, <1>5, <1>6 DEF Fits

LEMMA StartStep ==
  ASSUME JobIInv, NEW p \in Job, NEW sources \in SUBSET Source,
         NEW mode \in {"scheduled", "by_hand", "retry_only"}, Start(p, sources, mode)
  PROVE  JobIInv'
<1> DEFINE pass == IF adapter = "media" /\ mode # "retry_only" THEN "BEFORE" ELSE "MAIN"
           left == IF mode = "retry_only" THEN {}
                   ELSE IF adapter = "media" THEN WithState(sources) ELSE sources
           k == [NotRunning EXCEPT !.sources = sources, !.mode = mode, !.pass = pass, !.left = left]
<1>1. /\ lock = NoJob /\ lock' = p /\ job' = [job EXCEPT ![p] = k]
      /\ UNCHANGED <<adapter, due, pending, kills, orphans, stray>>
  BY DEF Start
<1>2. /\ pass \in {"BEFORE", "MAIN"} /\ left \in SUBSET sources
      /\ pass = "MAIN" => left = IF mode = "retry_only" THEN {} ELSE sources
  BY AtWork DEF WithState
<1>3. NotRunning \in Progress /\ Fits(NotRunning, pending) /\ NotRunning.pass = "NONE"
      /\ NotRunning.attempt = 0
  BY NobodyFits DEF NotRunning
<1> HIDE DEF pass, left
<1>4. /\ k \in Progress /\ k.pass = pass /\ k.mode = mode /\ k.sources = sources /\ k.left = left
      /\ k.attempt = 0 /\ k.rows = NotRunning.rows /\ k.tally = NotRunning.tally
  <2>1. pass \in Passes \union {"CLOSING", "NONE"} /\ left \in SUBSET Source
    BY <1>2 DEF Passes
  <2> QED BY <1>3, <2>1 DEF Progress
<1> HIDE DEF k
<1>5. PassInv(k)
  BY <1>2, <1>4 DEF PassInv, Asked, Passes
<1>6. TallyInv(k)
  BY <1>3, <1>4 DEF Fits, TallyInv
<1>7. MainRowInv(k)
  <2>1. Attempted(k) = {} /\ Attempted(NotRunning) = {}
    BY <1>2, <1>3, <1>4 DEF Attempted, Asked
  <2> QED BY <1>3, <1>4, <2>1 DEF Fits, MainRowInv
<1>8. RetryInv(k, pending' \ stray')
  BY <1>2, <1>4 DEF RetryInv
<1>9. Fits(k, pending' \ stray') /\ k.pass # "NONE"
  BY <1>2, <1>4, <1>5, <1>6, <1>7, <1>8 DEF Fits
<1> QED BY <1>1, <1>4, <1>9, AtWork, Replaced

LEMMA EndStep ==
  ASSUME JobIInv, NEW p \in Job, Unlock(p) \/ Dies(p)
  PROVE  JobIInv'
<1>1. /\ lock = p /\ lock' = NoJob /\ job' = [job EXCEPT ![p] = NotRunning]
      /\ UNCHANGED <<adapter, due, pending, stray>> /\ kills' \in 0..MaxKills
      /\ orphans' \subseteq (1..MaxKills) \X Source
  <2>1. CASE Unlock(p)
    BY <2>1, AtWork DEF Unlock
  <2>2. CASE Dies(p)
    <3>1. kills \in 0..MaxKills /\ kills < MaxKills /\ kills' = kills + 1
      BY <2>2, AtWork DEF Dies
    <3>2. kills' \in 1..MaxKills /\ kills' \in 0..MaxKills
      BY <3>1, KillsAssumption
    <3>3. job[p].attempt > 0 => Current(p) \in Source
      BY AtWork, FirstIs DEF Current, Fits, PassInv
    <3>4. orphans' \subseteq (1..MaxKills) \X Source
      BY <2>2, <3>2, <3>3, AtWork DEF Dies
    <3> QED BY <2>2, <3>2, <3>4 DEF Dies
  <2> QED BY <2>1, <2>2
<1>2. NoJob # p
  BY NoJobAssumption
<1> QED BY <1>1, <1>2, AtWork, NobodyFits, Replaced

\* A step of nobody that holds the lock: it leaves no state file that is not stray.
LEMMA KeepsProgress ==
  ASSUME JobIInv, UNCHANGED <<adapter, lock, job, kills>>, due' \subseteq Source,
         pending' \subseteq Source, orphans' \subseteq orphans, stray' \subseteq Source,
         pending' \ stray' \subseteq pending \ stray
  PROVE  JobIInv'
<1>1. JobTypeOK'
  BY DEF JobIInv, JobTypeOK
<1>2. ASSUME NEW q \in Job PROVE RetryInv(job[q], pending' \ stray')
  <2>1. RetryInv(job[q], pending \ stray)
    BY DEF JobIInv
  <2> QED BY <2>1 DEF RetryInv
<1> QED BY <1>1, <1>2 DEF JobIInv

LEMMA OrphanStep ==
  ASSUME JobIInv, NEW o \in orphans, OrphanEnds(o)
  PROVE  JobIInv'
<1> DEFINE s == o[2]
<1>1. s \in Source
  BY AtWork DEF JobIInv, JobTypeOK
<1> HIDE DEF s
<1>2. /\ UNCHANGED <<adapter, lock, job, kills>> /\ orphans' \subseteq orphans
      /\ stray' = stray \union (pending' \ pending)
      /\ LeavesRaising(s) \/ \E status \in Done : Leaves(s, status)
  BY DEF OrphanEnds, s
<1>3. due \subseteq Source /\ pending \subseteq Source /\ stray \subseteq Source
  BY DEF JobIInv, JobTypeOK
<1>4. due' \subseteq Source /\ pending' \subseteq Source
  BY <1>1, <1>2, <1>3 DEF LeavesRaising, Leaves, MediaLeaves, WatchlistLeaves
<1> QED BY <1>2, <1>3, <1>4, KeepsProgress

LEMMA JobInitial ==
  ASSUME JobInit
  PROVE  JobIInv
<1>1. JobTypeOK
  BY NobodyFits, KillsAssumption DEF JobInit, JobTypeOK
<1>2. \A p \in Job : job[p] = NotRunning /\ lock # p
  BY NoJobAssumption DEF JobInit
<1> QED BY <1>1, <1>2, NobodyFits DEF JobIInv, Fits

LEMMA JobStep ==
  ASSUME JobIInv, [JobNext]_jobVars
  PROVE  JobIInv'
<1>1. CASE UNCHANGED jobVars
  BY <1>1, KeepsProgress DEF jobVars, JobIInv, JobTypeOK
<1>2. ASSUME NEW p \in Job, Start(p, Source, "scheduled") \/ ByHand(p)
      PROVE  JobIInv'
  BY <1>2, StartStep DEF ByHand
<1>3. ASSUME NEW p \in Job, Works(p)
      PROVE  JobIInv'
  BY <1>3, IsDueStep, SkipStep, FinishesStep, RaisesStep, PassStep, EndStep DEF Works
<1>4. ASSUME NEW s \in Source, BecomesDue(s)
      PROVE  JobIInv'
  BY <1>4, KeepsProgress DEF BecomesDue, JobIInv, JobTypeOK
<1> QED BY <1>1, <1>2, <1>3, <1>4, EndStep, OrphanStep DEF JobNext

\* One job at a time is at work, and its rows, its counters and what is left of its
\* pass fit each other and the state files.
THEOREM JobInductive == JobSpec => []JobIInv
<1>1. JobInit => JobIInv
  BY JobInitial
<1>2. JobIInv /\ [JobNext]_jobVars => JobIInv'
  BY JobStep
<1> QED BY <1>1, <1>2, PTL DEF JobSpec

\* The counters are those of the rows whenever no attempt runs, and a job that ends
\* has one row of the main pass for each source it was asked for.
THEOREM SummaryIsTrue == JobSpec => []CountsAddUp
<1>1. JobIInv => CountsAddUp
  <2> SUFFICES ASSUME JobIInv, NEW p \in Job
               PROVE  /\ \A t \in DOMAIN job[p].tally :
                           job[p].tally[t] = Cardinality(RowsWith(job[p].rows, t[1], t[2]))
                      /\ job[p].pass = "CLOSING" =>
                           \A s \in Asked(job[p]) : Cardinality(RowsOf(job[p].rows, s, "MAIN")) = 1
    BY DEF CountsAddUp
  <2>1. Fits(job[p], pending \ stray) /\ DOMAIN job[p].tally = Stages \X Statuses /\ Asked(job[p]) \subseteq Source
    BY AtWork DEF Progress, Asked
  <2>2. ASSUME NEW t \in Stages \X Statuses
        PROVE  job[p].tally[t] = Cardinality(RowsWith(job[p].rows, t[1], t[2]))
    <3>1. PICK a \in Stages, b \in Statuses : t = <<a, b>>
      OBVIOUS
    <3>2. t[1] = a /\ t[2] = b
      BY <3>1
    <3> QED BY <2>1, <3>1, <3>2 DEF Fits, TallyInv
  <2>3. job[p].pass = "CLOSING" =>
          \A s \in Asked(job[p]) : Cardinality(RowsOf(job[p].rows, s, "MAIN")) = 1
    BY <2>1 DEF Fits, MainRowInv, Attempted
  <2> QED BY <2>1, <2>2, <2>3
<1> QED BY <1>1, JobInductive, PTL

\* What a job leaves pending when it ends it has tried again, after the main pass,
\* or an attempt of a dead job left it behind after that pass had read the files.
THEOREM PendingWasRetried == JobSpec => []LeftoversAreRetried
<1>1. JobIInv => LeftoversAreRetried
  BY AtWork DEF LeftoversAreRetried, Fits, PassInv, RetryInv
<1> QED BY <1>1, JobInductive, PTL

(***************************************************************************)
(* The calendar                                                            *)
(***************************************************************************)
LEMMA DivIs ==
  ASSUME NEW a \in Nat, NEW b \in Nat \ {0}
  PROVE  /\ a \div b \in Nat /\ a % b \in 0..(b - 1)
         /\ a = b * (a \div b) + (a % b)
<1>1. a % b \in 0..(b - 1)
  OBVIOUS
<1>2. a = b * (a \div b) + (a % b)
  OBVIOUS
<1>3. a \div b \in Int
  OBVIOUS
<1>4. a \div b \in Nat
  <2>1. SUFFICES ASSUME a \div b <= -1 PROVE FALSE
    BY <1>3
  <2> QED BY <1>1, <1>2, <1>3, <2>1
<1> QED BY <1>1, <1>2, <1>4

LEMMA DivGrows ==
  ASSUME NEW a \in Nat, NEW c \in Nat, a <= c, NEW b \in Nat \ {0}
  PROVE  a \div b <= c \div b
<1> DEFINE p == a \div b
           q == c \div b
<1>1. /\ p \in Nat /\ q \in Nat
      /\ b * p <= a /\ c < b * q + b
  BY DivIs
<1> HIDE DEF p, q
<1>2. SUFFICES ASSUME q + 1 <= p PROVE FALSE
  BY <1>1 DEF p, q
<1>3. b * (q + 1) <= b * p
  BY <1>1, <1>2
<1>4. b * (q + 1) = b * q + b
  BY <1>1
<1> QED BY <1>1, <1>3, <1>4

LEMMA LengthIs ==
  ASSUME NEW m \in Nat
  PROVE  LengthOf(m) \in Nat \ {0}
<1> DEFINE n == Len(MonthLengths)
<1>1. n \in Nat \ {0} /\ \A i \in 1..n : MonthLengths[i] \in Nat \ {0}
  BY CalendarAssumption
<1> HIDE DEF n
<1>2. m % n \in 0..(n - 1)
  BY <1>1, DivIs
<1>3. 1 + (m % n) \in 1..n
  BY <1>1, <1>2
<1> QED BY <1>1, <1>3 DEF LengthOf, n

\* The first days of the months from 0 to n.
FirstDays(n) ==
  {g \in [0..n -> Nat] : g[0] = 0 /\ \A k \in 0..(n - 1) : g[k + 1] = g[k] + LengthOf(k)}

LEMMA FirstDaysExist == \A n \in Nat : FirstDays(n) # {}
<1> DEFINE P == {n \in Nat : FirstDays(n) # {}}
<1>1. 0 \in P
  <2> DEFINE g == [k \in 0..0 |-> 0]
  <2>1. g \in FirstDays(0)
    BY DEF FirstDays
  <2> QED BY <2>1
<1>2. ASSUME NEW n \in P PROVE n + 1 \in P
  <2>1. PICK g \in FirstDays(n) : TRUE
    OBVIOUS
  <2> DEFINE h == [k \in 0..(n + 1) |-> IF k <= n THEN g[k] ELSE g[n] + LengthOf(n)]
  <2>2. n \in Nat /\ g \in [0..n -> Nat] /\ g[0] = 0 /\ \A k \in 0..(n - 1) : g[k + 1] = g[k] + LengthOf(k)
    BY <2>1 DEF FirstDays
  <2>3. h \in [0..(n + 1) -> Nat]
    BY <2>2, LengthIs
  <2>4. h[0] = 0 /\ h[n + 1] = g[n] + LengthOf(n) /\ \A k \in 0..n : h[k] = g[k]
    BY <2>2
  <2> HIDE DEF h
  <2>5. \A k \in 0..n : h[k + 1] = h[k] + LengthOf(k)
    <3> TAKE k \in 0..n
    <3>1. CASE k = n
      BY <2>2, <2>4, <3>1
    <3>2. CASE k # n
      <4>1. k \in 0..(n - 1) /\ k + 1 \in 0..n
        BY <2>2, <3>2
      <4> QED BY <2>2, <2>4, <4>1
    <3> QED BY <3>1, <3>2
  <2>6. (n + 1) - 1 = n
    BY <2>2
  <2>7. h \in FirstDays(n + 1)
    BY <2>3, <2>4, <2>5, <2>6 DEF FirstDays
  <2> QED BY <2>2, <2>7
<1> HIDE DEF P
<1>3. P = Nat
  <2>1. P \in SUBSET Nat
    BY DEF P
  <2> QED BY <1>1, <1>2, <2>1, NatSetInduction
<1> QED BY <1>3 DEF P

LEMMA FirstDaysAgree ==
  ASSUME NEW a \in Nat, NEW b \in Nat, NEW g \in FirstDays(a), NEW h \in FirstDays(b)
  PROVE  \A k \in Nat : k <= a /\ k <= b => g[k] = h[k]
<1> DEFINE Q == {k \in Nat : k <= a /\ k <= b => g[k] = h[k]}
<1>g. /\ g[0] = 0 /\ \A k \in 0..(a - 1) : g[k + 1] = g[k] + LengthOf(k)
      /\ h[0] = 0 /\ \A k \in 0..(b - 1) : h[k + 1] = h[k] + LengthOf(k)
  BY DEF FirstDays
<1>1. 0 \in Q
  BY <1>g
<1>2. ASSUME NEW n \in Q PROVE n + 1 \in Q
  <2> SUFFICES ASSUME n + 1 <= a /\ n + 1 <= b PROVE g[n + 1] = h[n + 1]
    OBVIOUS
  <2>1. n \in Nat /\ n \in 0..(a - 1) /\ n \in 0..(b - 1) /\ g[n] = h[n]
    OBVIOUS
  <2> QED BY <1>g, <2>1
<1> HIDE DEF Q
<1>3. Q = Nat
  <2>1. Q \in SUBSET Nat
    BY DEF Q
  <2> QED BY <1>1, <1>2, <2>1, NatSetInduction
<1> QED BY <1>3 DEF Q

LEMMA FirstDayIs ==
  /\ FirstDay \in [Nat -> Nat] /\ FirstDay[0] = 0
  /\ \A m \in Nat : FirstDay[m + 1] = FirstDay[m] + LengthOf(m)
<1> DEFINE F == [m \in Nat |-> (CHOOSE g \in FirstDays(m) : TRUE)[m]]
<1>1. \A m \in Nat : (CHOOSE g \in FirstDays(m) : TRUE) \in FirstDays(m)
  BY FirstDaysExist
<1>2. F \in [Nat -> Nat] /\ F[0] = 0
  <2>1. ASSUME NEW m \in Nat, NEW g \in FirstDays(m) PROVE g[m] \in Nat /\ g[0] = 0
    BY DEF FirstDays
  <2>2. \A m \in Nat : (CHOOSE g \in FirstDays(m) : TRUE)[m] \in Nat
    BY <1>1, <2>1
  <2>3. (CHOOSE g \in FirstDays(0) : TRUE)[0] = 0
    BY <1>1, <2>1
  <2> QED BY <2>2, <2>3
<1>3. ASSUME NEW m \in Nat PROVE F[m + 1] = F[m] + LengthOf(m)
  <2> DEFINE g == CHOOSE f \in FirstDays(m + 1) : TRUE
             h == CHOOSE f \in FirstDays(m) : TRUE
  <2>1. g \in FirstDays(m + 1) /\ h \in FirstDays(m) /\ m + 1 \in Nat
    BY <1>1
  <2>2. F[m + 1] = g[m + 1] /\ F[m] = h[m]
    BY <2>1
  <2> HIDE DEF g, h, F
  <2>3. g[m] = h[m]
    BY <2>1, FirstDaysAgree
  <2>4. g[m + 1] = g[m] + LengthOf(m)
    BY <2>1 DEF FirstDays
  <2> QED BY <2>2, <2>3, <2>4
<1> HIDE DEF F
<1>4. F = [m \in Nat |-> IF m = 0 THEN 0 ELSE F[m - 1] + LengthOf(m - 1)]
  <2>1. \A m \in Nat : m # 0 => F[m] = F[m - 1] + LengthOf(m - 1)
    <3> SUFFICES ASSUME NEW m \in Nat, m # 0 PROVE F[m] = F[m - 1] + LengthOf(m - 1)
      OBVIOUS
    <3>1. m - 1 \in Nat /\ (m - 1) + 1 = m
      OBVIOUS
    <3> QED BY <1>3, <3>1
  <2> QED BY <1>2, <2>1
<1>5. FirstDay = [m \in Nat |-> IF m = 0 THEN 0 ELSE FirstDay[m - 1] + LengthOf(m - 1)]
  BY <1>4 DEF FirstDay
<1>6. FirstDay[0] = 0 /\ \A m \in Nat : FirstDay[m + 1] = FirstDay[m] + LengthOf(m)
  <2>1. \A m \in Nat : m # 0 => FirstDay[m] = FirstDay[m - 1] + LengthOf(m - 1)
    BY <1>5
  <2>2. FirstDay[0] = 0
    BY <1>5
  <2>3. \A m \in Nat : m + 1 \in Nat /\ m + 1 # 0 /\ (m + 1) - 1 = m
    OBVIOUS
  <2> QED BY <2>1, <2>2, <2>3
<1> DEFINE P == {m \in Nat : FirstDay[m] \in Nat}
<1>7. P = Nat
  <2>1. 0 \in P /\ P \in SUBSET Nat
    BY <1>6
  <2>2. \A m \in P : m + 1 \in P
    BY <1>6, LengthIs
  <2> HIDE DEF P
  <2> QED BY <2>1, <2>2, NatSetInduction
<1>8. \A m \in Nat : FirstDay[m] \in Nat
  BY <1>7
<1> QED BY <1>5, <1>6, <1>8

LEMMA FirstDayGrows ==
  ASSUME NEW m \in Nat, NEW n \in Nat, m <= n
  PROVE  FirstDay[m] + (n - m) <= FirstDay[n]
<1> DEFINE P == {k \in Nat : FirstDay[m] + k <= FirstDay[m + k]}
<1>1. 0 \in P
  BY FirstDayIs
<1>2. ASSUME NEW k \in P PROVE k + 1 \in P
  <2>1. FirstDay[(m + k) + 1] = FirstDay[m + k] + LengthOf(m + k) /\ (m + k) + 1 = m + (k + 1)
    BY FirstDayIs
  <2>2. LengthOf(m + k) \in Nat \ {0}
    BY LengthIs
  <2> QED BY <2>1, <2>2, FirstDayIs
<1> HIDE DEF P
<1>3. P = Nat
  <2>1. P \in SUBSET Nat
    BY DEF P
  <2> QED BY <1>1, <1>2, <2>1, NatSetInduction
<1>4. n - m \in P /\ m + (n - m) = n
  BY <1>3
<1> QED BY <1>4 DEF P

LEMMA FirstDayOrder ==
  ASSUME NEW m \in Nat, NEW n \in Nat, m <= n
  PROVE  FirstDay[m] <= FirstDay[n]
<1>1. FirstDay[m] \in Nat /\ FirstDay[n] \in Nat /\ n - m \in Nat
  BY FirstDayIs
<1>2. FirstDay[m] + (n - m) <= FirstDay[n]
  BY FirstDayGrows
<1> QED BY <1>1, <1>2

LEMMA MonthIs ==
  ASSUME NEW d \in Nat
  PROVE  Month(d) \in Nat /\ FirstDay[Month(d)] <= d /\ d < FirstDay[Month(d) + 1]
<1> DEFINE T == {m \in Nat : FirstDay[m] <= d}
<1>1. ASSUME NEW m \in Nat PROVE m <= FirstDay[m] /\ FirstDay[m] \in Nat
  <2>1. FirstDay[0] + (m - 0) <= FirstDay[m]
    BY FirstDayGrows
  <2> QED BY <2>1, FirstDayIs
<1>2. \A m \in T : m <= d
  BY <1>1
<1>3. 0 \in T
  BY FirstDayIs
<1>4. T \in SUBSET Nat
  OBVIOUS
<1> HIDE DEF T
<1>5. PICK n \in T : \A m \in T : m <= n
  BY <1>2, <1>3, <1>4, GreatestNatural
<1>6. n \in 0..d /\ FirstDay[n] <= d /\ ~(n + 1 \in T)
  BY <1>2, <1>4, <1>5 DEF T
<1>7. d < FirstDay[n + 1]
  BY <1>1, <1>6 DEF T
<1> QED BY <1>6, <1>7 DEF Month

LEMMA MonthGrows ==
  ASSUME NEW c \in Nat, NEW d \in Nat, c <= d
  PROVE  Month(c) <= Month(d)
<1> DEFINE m == Month(c)
           n == Month(d)
<1>1. m \in Nat /\ n \in Nat /\ FirstDay[m] <= c /\ d < FirstDay[n + 1]
  BY MonthIs
<1> HIDE DEF m, n
<1>2. SUFFICES ASSUME n + 1 <= m PROVE FALSE
  BY <1>1 DEF m, n
<1>3. FirstDay[n + 1] + (m - (n + 1)) <= FirstDay[m]
  BY <1>1, <1>2, FirstDayGrows
<1> QED BY <1>1, <1>2, <1>3, FirstDayIs

\* The same day some months later is a day of that month.
LEMMA AddMonthsIs ==
  ASSUME NEW d \in Nat, NEW n \in Nat
  PROVE  LET m == Month(d) + n
         IN  AddMonths(d, n) \in Nat /\ FirstDay[m] <= AddMonths(d, n) /\ AddMonths(d, n) < FirstDay[m + 1]
<1> DEFINE m == Month(d) + n
           last == LengthOf(m) - 1
           day == DayOfMonth(d)
<1>1. Month(d) \in Nat /\ m \in Nat /\ FirstDay[Month(d)] <= d
  BY MonthIs
<1>2. last \in Nat
  BY <1>1, LengthIs
<1>3. day \in Nat
  BY <1>1, FirstDayIs DEF DayOfMonth
<1>4. FirstDay[m] \in Nat /\ FirstDay[m + 1] = FirstDay[m] + (last + 1)
  <2>1. LengthOf(m) = last + 1
    BY <1>1, LengthIs
  <2> QED BY <1>1, <2>1, FirstDayIs
<1>5. AddMonths(d, n) = FirstDay[m] + (IF day < last THEN day ELSE last)
  BY DEF AddMonths
<1> HIDE DEF last, day
<1> QED BY <1>1, <1>2, <1>3, <1>4, <1>5

LEMMA DayIs ==
  ASSUME NEW t \in Nat
  PROVE  Hour(t) \in Nat /\ Day(t) \in Nat
  BY CalendarAssumption, DivIs DEF Hour, Day

LEMMA DayGrows ==
  ASSUME NEW t \in Nat, NEW u \in Nat, t <= u
  PROVE  Hour(t) <= Hour(u) /\ Day(t) <= Day(u)
<1>1. {TicksPerHour, HoursPerDay} \subseteq Nat \ {0}
  BY CalendarAssumption
<1>2. Hour(t) <= Hour(u)
  BY <1>1, DivGrows DEF Hour
<1> QED BY <1>1, <1>2, DayIs, DivGrows DEF Day

\* Two days are of one week of one year if and only if they are of one week.
LEMMA WeekIs ==
  ASSUME NEW c \in Nat, NEW d \in Nat
  PROVE  Week(c) = Week(d) <=> c \div WeekDays = d \div WeekDays
<1> DEFINE p == c \div WeekDays
           q == d \div WeekDays
<1>1. WeekDays \in Nat \ {0} /\ WeeksPerYear \in Nat \ {0}
  BY CalendarAssumption
<1>2. p \in Nat /\ q \in Nat
  BY <1>1, DivIs
<1> HIDE DEF p, q
<1>3. /\ p = WeeksPerYear * (p \div WeeksPerYear) + (p % WeeksPerYear)
      /\ q = WeeksPerYear * (q \div WeeksPerYear) + (q % WeeksPerYear)
  BY <1>1, <1>2, DivIs
<1>4. (p \div WeeksPerYear = q \div WeeksPerYear /\ p % WeeksPerYear = q % WeeksPerYear) <=> p = q
  BY <1>3
<1> QED BY <1>4 DEF Week, p, q

(***************************************************************************)
(* The schedule                                                            *)
(***************************************************************************)
LogRow == [file : WatchlistFile, step : {"NORMALIZATION", "DOWNLOAD"}, at : 0..MaxTime]

LEMMA LogIs ==
  ASSUME ScheduleInv
  PROVE  /\ now \in Nat /\ fileLog \in Seq(LogRow)
         /\ \A i \in DOMAIN fileLog :
              fileLog[i].file \in WatchlistFile /\ fileLog[i].at \in Nat /\ fileLog[i].at <= now
<1>1. now \in 0..MaxTime /\ fileLog \in Seq(LogRow) /\ \A i \in DOMAIN fileLog : fileLog[i].at <= now
  BY DEF ScheduleInv, ScheduleTypeOK, LogRow
<1>2. \A i \in DOMAIN fileLog : fileLog[i] \in LogRow
  BY <1>1
<1>3. \A r \in LogRow : r.file \in WatchlistFile /\ r.at \in Nat
  BY BoundsAssumption DEF LogRow
<1> QED BY <1>1, <1>2, <1>3, BoundsAssumption

LEMMA ScheduleStep ==
  ASSUME ScheduleInv, [ScheduleNext]_scheduleVars
  PROVE  ScheduleInv'
<1>1. /\ rule \in Rules /\ now \in 0..MaxTime /\ checking \in BOOLEAN /\ fileLog \in Seq(LogRow)
      /\ \A i \in DOMAIN fileLog : fileLog[i].at <= now
  BY DEF ScheduleInv, ScheduleTypeOK, LogRow
<1>2. ASSUME UNCHANGED <<rule, fileLog>>, now' \in 0..MaxTime, now <= now', checking' \in BOOLEAN
      PROVE  ScheduleInv'
  <2>1. \A i \in DOMAIN fileLog : fileLog[i].at <= now'
    <3> TAKE i \in DOMAIN fileLog
    <3>1. fileLog[i].at \in Nat /\ fileLog[i].at <= now /\ now \in Nat /\ now' \in Nat
      BY <1>2, LogIs, BoundsAssumption
    <3> QED BY <1>2, <3>1
  <2> QED BY <1>1, <1>2, <2>1 DEF ScheduleInv, ScheduleTypeOK, LogRow
<1>3. CASE Tick
  BY <1>1, <1>2, <1>3, BoundsAssumption DEF Tick
<1>4. CASE Decide \/ GivesUp \/ UNCHANGED scheduleVars
  <2>1. UNCHANGED <<rule, now, fileLog>> /\ checking' \in BOOLEAN
    BY <1>1, <1>4 DEF Decide, GivesUp, scheduleVars
  <2>2. now' \in 0..MaxTime /\ now <= now'
    BY <1>1, <2>1, BoundsAssumption
  <2> QED BY <1>2, <2>1, <2>2
<1>5. ASSUME NEW f \in WatchlistFile, NEW step \in {"NORMALIZATION", "DOWNLOAD"}, Logged(f, step),
             checking' = FALSE, UNCHANGED <<rule, now>>
      PROVE  ScheduleInv'
  <2> DEFINE r == [file |-> f, step |-> step, at |-> now]
  <2>1. r \in LogRow /\ r.at = now /\ fileLog' = Append(fileLog, r)
    <3>1. r.at = now /\ fileLog' = Append(fileLog, r)
      BY <1>5 DEF Logged
    <3>2. r \in LogRow
      BY <1>1 DEF LogRow
    <3> QED BY <3>1, <3>2
  <2> HIDE DEF r
  <2>2. /\ fileLog' \in Seq(LogRow) /\ Len(fileLog') = Len(fileLog) + 1 /\ Len(fileLog) \in Nat
        /\ fileLog'[Len(fileLog) + 1] = r
        /\ \A k \in 1..Len(fileLog) : fileLog'[k] = fileLog[k]
    BY <1>1, <2>1, AppendIs
  <2>3. \A i \in DOMAIN fileLog' : fileLog'[i].at <= now'
    <3> TAKE i \in DOMAIN fileLog'
    <3>1. i \in 1..Len(fileLog) \/ i = Len(fileLog) + 1
      BY <2>2
    <3>2. CASE i \in 1..Len(fileLog)
      BY <1>1, <1>5, <2>2, <3>2
    <3>3. CASE i = Len(fileLog) + 1
      BY <1>1, <1>5, <2>1, <2>2, <3>3
    <3> QED BY <3>1, <3>2, <3>3
  <2> QED BY <1>1, <1>5, <2>2, <2>3 DEF ScheduleInv, ScheduleTypeOK, LogRow
<1> QED BY <1>3, <1>4, <1>5 DEF ScheduleNext, Normalized, Unchanged

LEMMA ScheduleStart ==
  ASSUME ScheduleInit
  PROVE  ScheduleInv
<1>1. now \in 0..MaxTime /\ DOMAIN fileLog = {}
  BY BoundsAssumption DEF ScheduleInit
<1>2. fileLog \in Seq([file : WatchlistFile, step : {"NORMALIZATION", "DOWNLOAD"}, at : 0..MaxTime])
  BY DEF ScheduleInit
<1> QED BY <1>1, <1>2 DEF ScheduleInit, ScheduleInv, ScheduleTypeOK

\* The log is of the past.
THEOREM ScheduleInductive == ScheduleSpec => []ScheduleInv
<1>1. ScheduleInit => ScheduleInv
  BY ScheduleStart
<1>2. ScheduleInv /\ [ScheduleNext]_scheduleVars => ScheduleInv'
  BY ScheduleStep
<1> QED BY <1>1, <1>2, PTL DEF ScheduleSpec

LEMMA LastCheckIs ==
  ASSUME ScheduleInv
  PROVE  /\ Checks = {} => LastCheck = Never
         /\ LastCheck # Never => LastCheck \in Nat /\ now \in Nat /\ LastCheck <= now
<1>1. CASE Checks = {}
  BY <1>1 DEF LastCheck
<1>2. CASE Checks # {}
  <2> DEFINE T == {fileLog[i].at : i \in Checks}
  <2>1. \A i \in Checks : fileLog[i].at \in Nat /\ fileLog[i].at <= now /\ now \in Nat
    BY LogIs DEF Checks
  <2>2. T \in SUBSET Nat /\ T # {} /\ now \in Nat /\ \A t \in T : t <= now
    BY <1>2, <2>1
  <2>3. (\A i \in Checks : fileLog[i].at \in T) /\ \A t \in T : \E i \in Checks : t = fileLog[i].at
    OBVIOUS
  <2> HIDE DEF T
  <2>4. PICK t \in T : \A u \in T : u <= t
    BY <2>2, GreatestNatural
  <2>5. \A i \in Checks : fileLog[i].at <= t
    BY <2>3, <2>4
  <2>6. LastCheck = CHOOSE u \in T : \A i \in Checks : fileLog[i].at <= u
    BY <1>2 DEF LastCheck, T
  <2>7. LastCheck \in T
    BY <2>4, <2>5, <2>6
  <2> QED BY <1>2, <2>2, <2>7
<1> QED BY <1>1, <1>2

\* The decision follows the calendar and the log, for any calendar, any schedule and
\* any history of checks.
THEOREM ListsAreDueInTime == ScheduleSpec => []DueInTime
<1>1. ASSUME ScheduleInv
      PROVE  DueInTime
  <2>1. ASSUME \A f \in WatchlistFile : ~ReachedCore(f)
        PROVE  Due
    <3>1. \A i \in DOMAIN fileLog : fileLog[i].file \in WatchlistFile
      BY <1>1, LogIs
    <3>2. Checks = {}
      BY <2>1, <3>1 DEF Checks, ReachedCore
    <3> QED BY <1>1, <3>2, LastCheckIs DEF Due
  <2>2. ASSUME rule.unit \in {"monthly", "months"}, LastCheck # Never
        PROVE  LET gone == Month(Day(now)) - Month(Day(LastCheck))
               IN  /\ gone < Months(rule) => ~Due
                   /\ gone > Months(rule) => Due
    <3> DEFINE m == Month(Day(LastCheck))
               n == Month(Day(now))
    <3>1. LastCheck \in Nat /\ now \in Nat /\ Day(LastCheck) \in Nat /\ Day(now) \in Nat
          /\ Day(LastCheck) <= Day(now)
      BY <1>1, <2>2, LastCheckIs, DayIs, DayGrows
    <3>2. m \in Nat /\ n \in Nat /\ m <= n
      BY <3>1, MonthIs, MonthGrows
    <3>3. Due <=> DueAt(rule, LastCheck, now)
      BY <2>2 DEF Due
    <3>4. CASE rule.unit = "monthly"
      <4>1. Due <=> n # m
        BY <3>3, <3>4 DEF DueAt
      <4> QED BY <3>2, <3>4, <4>1 DEF Months
    <3>5. CASE rule.unit = "months"
      <4>1. rule.every \in Nat \ {0}
        BY <1>1, <3>5, CalendarAssumption DEF ScheduleInv, ScheduleTypeOK, Calendar
      <4> DEFINE e == rule.every
                 w == AddMonths(Day(LastCheck), e)
                 d == Day(now)
      <4>2. Due <=> d >= w
        BY <3>3, <3>5 DEF DueAt
      <4>3. /\ w \in Nat /\ FirstDay[m + e] <= w /\ w < FirstDay[(m + e) + 1]
            /\ FirstDay[n] <= d /\ d < FirstDay[n + 1] /\ d \in Nat
        BY <3>1, <4>1, AddMonthsIs, MonthIs
      <4> HIDE DEF m, n, w, d, e
      <4>4. e \in Nat \ {0}
        BY <4>1 DEF e
      <4>5. ASSUME n - m < e PROVE d < w
        <5>1. n + 1 \in Nat /\ m + e \in Nat /\ n + 1 <= m + e
          BY <3>2, <4>4, <4>5
        <5>2. FirstDay[n + 1] <= FirstDay[m + e]
          BY <5>1, FirstDayOrder
        <5> QED BY <4>3, <5>1, <5>2, FirstDayIs
      <4>6. ASSUME n - m > e PROVE w < d
        <5>1. n \in Nat /\ (m + e) + 1 \in Nat /\ (m + e) + 1 <= n
          BY <3>2, <4>4, <4>6
        <5>2. FirstDay[(m + e) + 1] <= FirstDay[n]
          BY <5>1, FirstDayOrder
        <5> QED BY <4>3, <5>1, <5>2, FirstDayIs
      <4>7. Months(rule) = e
        BY <3>5 DEF Months, e
      <4>8. (n - m < Months(rule) => ~Due) /\ (n - m > Months(rule) => Due)
        BY <4>2, <4>3, <4>5, <4>6, <4>7
      <4> QED BY <4>8 DEF m, n
    <3> QED BY <2>2, <3>4, <3>5
  <2> QED BY <2>1, <2>2 DEF DueInTime
<1> QED BY <1>1, ScheduleInductive, PTL

LEMMA DueLater ==
  ASSUME NEW r \in Rules, NEW last \in Nat, NEW t \in Nat, last <= t, DueAt(r, last, t)
  PROVE  DueAt(r, last, t + 1)
<1>1. /\ Hour(last) \in Nat /\ Hour(t) \in Nat /\ Hour(t + 1) \in Nat
      /\ Day(last) \in Nat /\ Day(t) \in Nat /\ Day(t + 1) \in Nat
      /\ Hour(last) <= Hour(t) /\ Hour(t) <= Hour(t + 1)
      /\ Day(last) <= Day(t) /\ Day(t) <= Day(t + 1)
  BY DayIs, DayGrows
<1>2. /\ WeekDays \in Nat \ {0} /\ TicksPerHour \in Nat \ {0}
      /\ r.unit \in Calendar \/ (r.unit \in {"days", "weeks", "months", "hours"} /\ r.every \in Nat \ {0})
  BY CalendarAssumption
<1>3. CASE r.unit = "daily"
  BY <1>1, <1>3 DEF DueAt
<1>4. CASE r.unit = "weekly"
  <2> DEFINE W(d) == d \div WeekDays
  <2>1. /\ W(Day(last)) \in Nat /\ W(Day(t)) \in Nat /\ W(Day(t + 1)) \in Nat
        /\ W(Day(last)) <= W(Day(t)) /\ W(Day(t)) <= W(Day(t + 1))
    BY <1>1, <1>2, DivIs, DivGrows
  <2>2. W(Day(last)) # W(Day(t))
    BY <1>1, <1>4, WeekIs DEF DueAt
  <2>3. W(Day(last)) # W(Day(t + 1))
    BY <2>1, <2>2
  <2>4. Week(Day(t + 1)) # Week(Day(last))
    BY <1>1, <2>3, WeekIs
  <2> QED BY <1>4, <2>4 DEF DueAt
<1>5. CASE r.unit = "monthly"
  <2>1. /\ Month(Day(last)) \in Nat /\ Month(Day(t)) \in Nat /\ Month(Day(t + 1)) \in Nat
        /\ Month(Day(last)) <= Month(Day(t)) /\ Month(Day(t)) <= Month(Day(t + 1))
    BY <1>1, MonthIs, MonthGrows
  <2>2. Month(Day(t)) # Month(Day(last))
    BY <1>5 DEF DueAt
  <2>3. Month(Day(t + 1)) # Month(Day(last))
    BY <2>1, <2>2
  <2> QED BY <1>5, <2>3 DEF DueAt
<1>6. CASE r.unit = "hourly"
  BY <1>1, <1>6 DEF DueAt
<1>7. CASE r.unit = "days"
  BY <1>1, <1>2, <1>7 DEF DueAt, Calendar
<1>8. CASE r.unit = "weeks"
  <2>1. r.every * WeekDays \in Nat
    BY <1>2, <1>8 DEF Calendar
  <2> QED BY <1>1, <1>8, <2>1 DEF DueAt
<1>9. CASE r.unit = "months"
  <2>1. AddMonths(Day(last), r.every) \in Nat
    BY <1>1, <1>2, <1>9, AddMonthsIs DEF Calendar
  <2> QED BY <1>1, <1>9, <2>1 DEF DueAt
<1>10. CASE r.unit = "hours"
  <2>1. r.every * TicksPerHour \in Nat
    BY <1>2, <1>10 DEF Calendar
  <2> QED BY <1>10, <2>1 DEF DueAt
<1> QED BY <1>2, <1>3, <1>4, <1>5, <1>6, <1>7, <1>8, <1>9, <1>10 DEF Calendar

\* A list that is due stays due until a check succeeds: no rule takes an old check
\* for a recent one, wherever the job stopped asking.
THEOREM DueUntilChecked == ScheduleSpec => DueStaysDue
<1>1. ASSUME ScheduleInv, [ScheduleNext]_scheduleVars
      PROVE  [Due /\ LastCheck' = LastCheck => Due']_scheduleVars
  <2> SUFFICES ASSUME ScheduleNext, Due, LastCheck' = LastCheck PROVE Due'
    BY <1>1
  <2>1. CASE LastCheck = Never
    BY <2>1 DEF Due
  <2>2. CASE LastCheck # Never
    <3>1. LastCheck \in Nat /\ now \in Nat /\ LastCheck <= now /\ DueAt(rule, LastCheck, now) /\ rule \in Rules
      BY <1>1, <2>2, LastCheckIs DEF Due, ScheduleInv, ScheduleTypeOK
    <3>2. rule' = rule /\ (now' = now \/ now' = now + 1)
      BY DEF ScheduleNext, Tick, Decide, GivesUp, Normalized, Unchanged
    <3>3. DueAt(rule, LastCheck, now')
      BY <3>1, <3>2, DueLater
    <3>4. Due' <=> DueAt(rule', LastCheck', now')
      BY <2>2 DEF Due
    <3> QED BY <3>2, <3>3, <3>4
  <2> QED BY <2>1, <2>2
<1> QED BY <1>1, ScheduleInductive, PTL DEF ScheduleSpec, DueStaysDue
================================================================================
