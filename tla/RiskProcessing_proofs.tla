------------------------ MODULE RiskProcessing_proofs ------------------------
(***************************************************************************)
(* Proofs about RiskProcessing, for any subjects, versions, releases and   *)
(* days.                                                                   *)
(*                                                                         *)
(* RiskIInv is inductive.  A work item is processed again and again, by a  *)
(* retry, a second scan of its date or a job after a crash; what keeps one *)
(* assessment of a version by a release is that the current one of the     *)
(* newest version is by the last release that saw it.  That nothing is     *)
(* lost rests on where the frontier stands with respect to the open date.  *)
(***************************************************************************)
EXTENDS RiskProcessing, Induction_proofs, SequenceTheorems, FiniteSetTheorems

(***************************************************************************)
(* Largest and least numbers                                               *)
(***************************************************************************)
LEMMA LargestIs ==
  ASSUME NEW S \in SUBSET Nat, S # {}, NEW b \in Nat, \A i \in S : i <= b
  PROVE  Largest(S) \in S /\ \A k \in S : k <= Largest(S)
<1>1. PICK n \in S : \A m \in S : m <= n
  BY GreatestNatural
<1> QED BY <1>1 DEF Largest

LEMMA LeastIs ==
  ASSUME NEW S \in SUBSET Nat, S # {}
  PROVE  Least(S) \in S /\ \A k \in S : Least(S) <= k
<1>1. PICK n \in S : \A m \in S : n <= m
  BY LeastNatural
<1> QED BY <1>1 DEF Least

(***************************************************************************)
(* The tables                                                              *)
(***************************************************************************)
Version == [subject : Subject, type : {"LIVE", "DELETED"}, payload : Payload]
RiskRow(n) == [subject : Subject, row : 1..n, hash : Result,
               current : BOOLEAN, day : Day]
DeltaRow(n) == [subject : Subject, row : 1..n, date : Day,
                action : {"UPDATE", "DELETE"}, late : BOOLEAN]

\* The same reads of any table.
SourceIn(R, s) ==
  LET S == {i \in 1..Len(R) : R[i].subject = s} IN
  IF S = {} THEN None ELSE Largest(S)

CurrentIn(K, s) == {k \in 1..Len(K) : K[k].subject = s /\ K[k].current}

LEMMA ReadsAre ==
  /\ \A s : CurrentSource(s) = SourceIn(rows, s) /\ CurrentRisk(s) = CurrentIn(risk, s)
  /\ \A s : CurrentSource(s)' = SourceIn(rows', s) /\ CurrentRisk(s)' = CurrentIn(risk', s)
BY DEF CurrentSource, SourceIn, CurrentRisk, CurrentIn, Largest

LEMMA SourceIs ==
  ASSUME NEW R \in Seq(Version), NEW s
  PROVE  /\ SourceIn(R, s) \in 0..Len(R)
         /\ SourceIn(R, s) # None => R[SourceIn(R, s)].subject = s
         /\ \A i \in 1..Len(R) : R[i].subject = s => i <= SourceIn(R, s) /\ SourceIn(R, s) # None
<1> DEFINE S == {i \in 1..Len(R) : R[i].subject = s}
<1>1. Len(R) \in Nat /\ S \in SUBSET Nat /\ \A i \in S : i <= Len(R)
  OBVIOUS
<1>2. CASE S = {}
  BY <1>1, <1>2 DEF SourceIn, None
<1>3. CASE S # {}
  <2>1. Largest(S) \in S /\ \A k \in S : k <= Largest(S)
    <3> HIDE DEF S
    <3> QED BY <1>1, <1>3, LargestIs
  <2>2. SourceIn(R, s) = Largest(S)
    BY <1>3 DEF SourceIn
  <2> QED BY <1>1, <2>1, <2>2 DEF None
<1> QED BY <1>2, <1>3

LEMMA TableTypes ==
  ASSUME TypeOK
  PROVE  /\ rows \in Seq(Version) /\ Len(rows) \in Nat
         /\ risk \in Seq(RiskRow(Len(rows))) /\ Len(risk) \in Nat
         /\ delta \in Seq(DeltaRow(Len(rows))) /\ Len(delta) \in Nat
         /\ \A i \in 1..Len(rows) : rows[i] \in Version
         /\ \A k \in 1..Len(risk) : risk[k] \in RiskRow(Len(rows))
         /\ \A k \in 1..Len(delta) : delta[k] \in DeltaRow(Len(rows))
<1>1. /\ rows \in Seq(Version) /\ risk \in Seq(RiskRow(Len(rows)))
      /\ delta \in Seq(DeltaRow(Len(rows)))
  BY DEF TypeOK, Version, RiskRow, DeltaRow
<1> QED BY <1>1, ElementOfSeq

LEMMA WiderSeq ==
  ASSUME NEW A, NEW B, A \subseteq B, NEW q \in Seq(A)
  PROVE  q \in Seq(B)
OBVIOUS

\* A current assessment of a subject is of one of its versions.
LEMMA CurrentRiskOf ==
  ASSUME TypeOK, RiskInv, NEW s, NEW k \in CurrentRisk(s)
  PROVE  /\ k \in 1..Len(risk) /\ risk[k].subject = s /\ risk[k].current
         /\ risk[k].row \in 1..Len(rows) /\ risk[k].row <= CurrentSource(s)
         /\ CurrentRisk(s) = {k}
<1>1. k \in 1..Len(risk) /\ risk[k].subject = s /\ risk[k].current
  BY DEF CurrentRisk
<1>2. risk[k].row \in 1..Len(rows) /\ rows[risk[k].row].subject = s
  BY <1>1, TableTypes DEF RiskRow, RiskInv
<1> QED BY <1>1, <1>2, TableTypes, SourceIs, ReadsAre DEF RiskInv

(***************************************************************************)
(* Work items                                                              *)
(***************************************************************************)
LEMMA DeltaWorkIs ==
  ASSUME NEW k
  PROVE  /\ DeltaWork(k).key[1] = "incremental" /\ DeltaWork(k).key[2] = k
         /\ DeltaWork(k).date = delta[k].date
         /\ DeltaWork(k).item.subject = delta[k].subject
         /\ DeltaWork(k).item.row = delta[k].row
         /\ DeltaWork(k).item.action = delta[k].action
BY DEF DeltaWork

LEMMA CurrentWorkIs ==
  ASSUME NEW i
  PROVE  /\ CurrentWork(i).key[1] = "initial" /\ CurrentWork(i).key[2] = i
         /\ CurrentWork(i).date = NoDay
         /\ CurrentWork(i).item.subject = rows[i].subject
         /\ CurrentWork(i).item.row = i
         /\ CurrentWork(i).item.action = "UPDATE"
BY DEF CurrentWork

LEMMA KnownWork ==
  ASSUME TypeOK, NEW w \in Known
  PROVE  /\ w \in Work
         /\ w.key[2] \in Nat /\ w.date \in 0..LastDay
         /\ w.item.row \in 1..Len(rows)
<1>1. ASSUME NEW k \in 1..Len(delta), w = DeltaWork(k)
      PROVE  w \in Work /\ w.key[2] \in Nat /\ w.date \in 0..LastDay /\ w.item.row \in 1..Len(rows)
  <2>1. delta[k] \in DeltaRow(Len(rows)) /\ k \in Nat
    BY TableTypes
  <2>2. /\ delta[k].subject \in Subject /\ delta[k].row \in 1..Len(rows) /\ delta[k].row \in Nat \ {0}
        /\ delta[k].date \in Day /\ delta[k].action \in {"UPDATE", "DELETE"}
    BY <2>1 DEF DeltaRow
  <2>3. w \in Work
    BY <1>1, <2>1, <2>2 DEF DeltaWork, Work
  <2> QED BY <1>1, <2>1, <2>2, <2>3, DeltaWorkIs DEF Day
<1>2. ASSUME NEW i \in 1..Len(rows), w = CurrentWork(i)
      PROVE  w \in Work /\ w.key[2] \in Nat /\ w.date \in 0..LastDay /\ w.item.row \in 1..Len(rows)
  <2>1. rows[i].subject \in Subject /\ i \in Nat \ {0}
    BY TableTypes DEF Version
  <2>2. w \in Work
    BY <1>2, <2>1 DEF CurrentWork, Work
  <2> QED BY <1>2, <2>1, <2>2, CurrentWorkIs, RiskAssumption DEF NoDay
<1> QED BY <1>1, <1>2 DEF Known

\* The first work item of a set is in the set.
LEMMA FirstIs ==
  ASSUME TypeOK, NEW W \in SUBSET Known, W # {}
  PROVE  First(W) \in W
<1>1. \A w \in W : w.date \in Nat /\ w.key[2] \in Nat
  BY KnownWork, RiskAssumption
<1> DEFINE D == {w.date : w \in W}
<1>2. PICK d \in D : \A e \in D : d <= e
  <2>1. D \in SUBSET Nat /\ D # {}
    BY <1>1
  <2> HIDE DEF D
  <2> QED BY <2>1, LeastNatural
<1> DEFINE N == {w.key[2] : w \in {v \in W : v.date = d}}
<1>3. PICK n \in N : \A m \in N : n <= m
  <2>1. N \in SUBSET Nat /\ N # {}
    BY <1>1, <1>2
  <2> HIDE DEF N
  <2> QED BY <2>1, LeastNatural
<1>4. PICK w \in W : w.date = d /\ w.key[2] = n
  BY <1>3
<1>5. \A v \in W : Earlier(w, v)
  <2> TAKE v \in W
  <2>1. d <= v.date
    BY <1>2
  <2>2. v.date = d => n <= v.key[2]
    BY <1>3
  <2> QED BY <2>1, <2>2, <1>1, <1>4 DEF Earlier
<1> QED BY <1>4, <1>5 DEF First

(***************************************************************************)
(* Processing                                                              *)
(***************************************************************************)
Source(w) == IF w.key[1] = "incremental" THEN w.item.row ELSE CurrentSource(w.item.subject)

LEMMA SourceType ==
  ASSUME TypeOK, DeltaInv, NEW w \in Known
  PROVE  /\ Source(w) \in 1..Len(rows) /\ rows[Source(w)].subject = w.item.subject
         /\ Source(w) <= CurrentSource(w.item.subject)
         /\ CurrentSource(w.item.subject) \in 1..Len(rows)
         /\ CurrentSource(w.item.subject) # None
         /\ rows[CurrentSource(w.item.subject)].subject = w.item.subject
         /\ w.item.action = "DELETE" => rows[Source(w)].type = "DELETED"
<1>1. w.item.row \in 1..Len(rows) /\ rows[w.item.row].subject = w.item.subject
  BY KnownWork, DeltaWorkIs, CurrentWorkIs DEF Known, DeltaInv
<1>2. /\ CurrentSource(w.item.subject) \in 1..Len(rows)
      /\ CurrentSource(w.item.subject) # None
      /\ rows[CurrentSource(w.item.subject)].subject = w.item.subject
      /\ w.item.row <= CurrentSource(w.item.subject)
  BY <1>1, TableTypes, SourceIs, ReadsAre DEF None
<1>3. w.item.action = "DELETE" => /\ w.key[1] = "incremental"
                                  /\ rows[w.item.row].type = "DELETED"
  BY DeltaWorkIs, CurrentWorkIs DEF Known, DeltaInv
<1> QED BY <1>1, <1>2, <1>3 DEF Source

Assessed(i) == \E k \in 1..Len(risk) : risk[k].row = i /\ risk[k].hash = Hash(i)
NowAssessed(i) ==
  \E k \in CurrentRisk(rows[i].subject) : risk[k].row = i /\ risk[k].hash = Hash(i)

\* What the transaction of a work item of version i can leave behind.
Outcome(i, K) ==
  LET s == rows[i].subject IN
  \/ /\ K = risk
     /\ \/ i # CurrentSource(s) /\ (rows[i].type = "DELETED" \/ Assessed(i))
        \/ i = CurrentSource(s) /\ rows[i].type = "DELETED" /\ CurrentRisk(s) = {}
        \/ i = CurrentSource(s) /\ rows[i].type # "DELETED" /\ NowAssessed(i)
  \/ /\ K = Expired(s)
     /\ i = CurrentSource(s) /\ rows[i].type = "DELETED"
  \/ /\ K = Append(risk, Assessment(i, FALSE))
     /\ i # CurrentSource(s) /\ rows[i].type # "DELETED" /\ ~Assessed(i)
  \/ /\ K = Append(Expired(s), Assessment(i, TRUE))
     /\ i = CurrentSource(s) /\ rows[i].type # "DELETED" /\ ~NowAssessed(i)

LEMMA Outcomes ==
  ASSUME TypeOK, DeltaInv, RiskInv, NEW w \in Known
  PROVE  Outcome(Source(w), Process(w.item, w.key[1]))
<1> DEFINE s == w.item.subject
           i == Source(w)
           K == Process(w.item, w.key[1])
<1>1. /\ rows[i].subject = s
      /\ w.item.action = "DELETE" => rows[i].type = "DELETED"
  BY SourceType
<1>2. K = IF w.item.action = "DELETE" \/ rows[i].type = "DELETED"
          THEN IF ~(CurrentSource(s) # i) /\ \E k \in CurrentRisk(s) : risk[k].row <= i
               THEN Expired(s) ELSE risk
          ELSE IF CurrentSource(s) # i
          THEN IF \E k \in 1..Len(risk) : risk[k].row = i /\ risk[k].hash = Hash(i)
               THEN risk ELSE Append(risk, Assessment(i, FALSE))
          ELSE IF \E k \in CurrentRisk(s) : risk[k].row = i /\ risk[k].hash = Hash(i)
               THEN risk ELSE Append(Expired(s), Assessment(i, TRUE))
  BY DEF Process, Source
<1>3. CASE rows[i].type = "DELETED"
  <2>1. i = CurrentSource(s) /\ CurrentRisk(s) # {} => \E k \in CurrentRisk(s) : risk[k].row <= i
    BY CurrentRiskOf
  <2> HIDE DEF K, i, s
  <2> QED BY <1>1, <1>2, <1>3, <2>1 DEF Outcome, K, i
<1>4. CASE rows[i].type # "DELETED"
  <2>1. w.item.action # "DELETE"
    BY <1>1, <1>4
  <2> HIDE DEF K, i, s
  <2>2. CASE CurrentSource(s) # i
    BY <1>1, <1>2, <1>4, <2>1, <2>2 DEF Outcome, Assessed, K, i
  <2>3. CASE CurrentSource(s) = i
    BY <1>1, <1>2, <1>4, <2>1, <2>3 DEF Outcome, NowAssessed, K, i
  <2> QED BY <2>2, <2>3
<1> QED BY <1>3, <1>4

LEMMA ExpiredIs ==
  ASSUME TypeOK, NEW s
  PROVE  /\ Expired(s) \in Seq(RiskRow(Len(rows))) /\ Len(Expired(s)) = Len(risk)
         /\ \A k \in 1..Len(risk) :
              /\ Expired(s)[k].subject = risk[k].subject /\ Expired(s)[k].row = risk[k].row
              /\ Expired(s)[k].hash = risk[k].hash
              /\ Expired(s)[k].current <=> risk[k].current /\ risk[k].subject # s
<1> DEFINE e(k) == IF risk[k].subject = s THEN [risk[k] EXCEPT !.current = FALSE] ELSE risk[k]
           n == Len(rows)
<1>1. ASSUME NEW k \in 1..Len(risk)
      PROVE  /\ e(k) \in RiskRow(n)
             /\ e(k).subject = risk[k].subject /\ e(k).row = risk[k].row
             /\ e(k).hash = risk[k].hash
             /\ e(k).current <=> risk[k].current /\ risk[k].subject # s
  <2>1. risk[k] \in RiskRow(n)
    BY TableTypes
  <2> HIDE DEF n
  <2> QED BY <2>1 DEF RiskRow
<1>2. Expired(s) = [k \in 1..Len(risk) |-> e(k)]
  BY DEF Expired
<1>3. Len(risk) \in Nat
  BY TableTypes
<1>4. Expired(s) \in Seq(RiskRow(n)) /\ Len(Expired(s)) = Len(risk)
  <2> HIDE DEF e, n
  <2> QED BY <1>1, <1>2, <1>3
<1>5. \A k \in 1..Len(risk) : Expired(s)[k] = e(k)
  <2> HIDE DEF e
  <2> QED BY <1>2
<1> QED BY <1>1, <1>4, <1>5

LEMMA AppendIs ==
  ASSUME NEW S, NEW q \in Seq(S), NEW e \in S
  PROVE  /\ Append(q, e) \in Seq(S) /\ Len(Append(q, e)) = Len(q) + 1 /\ Len(q) \in Nat
         /\ Append(q, e)[Len(q) + 1] = e
         /\ \A k \in 1..Len(q) : Append(q, e)[k] = q[k]
OBVIOUS

LEMMA AssessmentIs ==
  ASSUME TypeOK, NEW i \in 1..Len(rows), NEW c \in BOOLEAN
  PROVE  /\ Assessment(i, c) \in RiskRow(Len(rows))
         /\ Assessment(i, c).subject = rows[i].subject /\ Assessment(i, c).row = i
         /\ Assessment(i, c).hash = Hash(i) /\ Assessment(i, c).current = c
<1>1. rows[i] \in Version
  BY TableTypes
<1>2. rows[i].payload \in Payload /\ rows[i].subject \in Subject /\ model \in Model /\ day \in Day
  BY <1>1 DEF Version, TypeOK
<1>3. Hash(i) \in Result
  BY <1>2, RiskAssumption DEF Hash
<1> QED BY <1>2, <1>3 DEF Assessment, RiskRow

LEMMA RowType ==
  ASSUME TypeOK, NEW k \in 1..Len(risk)
  PROVE  risk[k].row \in 1..Len(rows)
BY TableTypes DEF RiskRow

\* When the newest version of a subject was assessed with this result, and the
\* current assessment says something else, that one was inserted later.
LEMMA AssessedSince ==
  ASSUME TypeOK, RiskInv, NEW i \in 1..Len(rows), i = CurrentSource(rows[i].subject),
         ~NowAssessed(i), NEW k \in 1..Len(risk), risk[k].row = i, risk[k].hash = Hash(i)
  PROVE  \E j \in k+1..Len(risk) : risk[j].row = i /\ risk[j].hash # Hash(i)
<1>1. risk[k].subject = rows[i].subject
  BY DEF RiskInv
<1>2. PICK j \in CurrentRisk(rows[i].subject) : risk[j].row = i /\ k <= j
  BY <1>1 DEF RiskInv
<1>3. risk[j].hash # Hash(i)
  BY <1>2 DEF NowAssessed
<1>4. j \in 1..Len(risk) /\ j # k
  BY <1>2, <1>3, CurrentRiskOf
<1>5. Len(risk) \in Nat
  BY TableTypes
<1>6. j \in k+1..Len(risk)
  BY <1>2, <1>4, <1>5
<1> QED BY <1>2, <1>3, <1>6

(***************************************************************************)
(* The table of assessments after a work item                              *)
(***************************************************************************)
NoDuplicatesIn(K) ==
  \A k \in 1..Len(K) : \A j \in 1..k-1 :
    K[j].row = K[k].row /\ K[j].hash = K[k].hash =>
      \E i \in j+1..k-1 : K[i].row = K[k].row /\ K[i].hash # K[k].hash

RiskInvIn(K) ==
  \A k \in 1..Len(K) :
    LET r == K[k] IN
    /\ r.subject = rows[r.row].subject /\ rows[r.row].type # "DELETED"
    /\ r.row = CurrentSource(r.subject) =>
         \E j \in CurrentIn(K, r.subject) : K[j].row = r.row /\ k <= j
    /\ r.current => CurrentIn(K, r.subject) = {k}

DoneIn(K, a) ==
  LET newest == CurrentSource(a.subject) = a.row IN
  IF a.action = "DELETE" THEN newest => CurrentIn(K, a.subject) = {}
  ELSE /\ \E k \in 1..Len(K) : K[k].row = a.row
       /\ newest => \E k \in CurrentIn(K, a.subject) : K[k].row = a.row

LEMMA SameTable ==
  /\ NoDuplicates <=> NoDuplicatesIn(risk)
  /\ RiskInv <=> RiskInvIn(risk)
  /\ \A a : Done(a) <=> DoneIn(risk, a)
BY DEF NoDuplicates, NoDuplicatesIn, RiskInv, RiskInvIn, Done, DoneIn, CurrentRisk, CurrentIn

\* The current assessments after each outcome.
LEMMA CurrentAfter ==
  ASSUME TypeOK, NEW i \in 1..Len(rows), NEW x
  PROVE  /\ CurrentIn(Expired(rows[i].subject), x) =
              IF x = rows[i].subject THEN {} ELSE CurrentRisk(x)
         /\ CurrentIn(Append(risk, Assessment(i, FALSE)), x) = CurrentRisk(x)
         /\ CurrentIn(Append(Expired(rows[i].subject), Assessment(i, TRUE)), x) =
              IF x = rows[i].subject THEN {Len(risk) + 1} ELSE CurrentRisk(x)
<1> DEFINE s == rows[i].subject
           old == Assessment(i, FALSE)
           new == Assessment(i, TRUE)
           E == Expired(s)
           H == Append(risk, old)
           C == Append(E, new)
           n == Len(risk)
           T == RiskRow(Len(rows))
<1>0. n \in Nat /\ risk \in Seq(T)
  BY TableTypes
<1>1. /\ Len(E) = n /\ E \in Seq(T)
      /\ \A k \in 1..n : /\ E[k].subject = risk[k].subject
                         /\ E[k].current <=> risk[k].current /\ risk[k].subject # s
  BY ExpiredIs
<1>2. /\ old \in T /\ new \in T
      /\ ~old.current /\ new.current /\ new.subject = s
  BY AssessmentIs
<1> HIDE DEF old, new, E, s, T
<1>3. /\ Len(H) = n + 1 /\ H[n + 1] = old /\ \A k \in 1..n : H[k] = risk[k]
  BY <1>0, <1>2, AppendIs
<1>4. /\ Len(C) = n + 1 /\ C[n + 1] = new /\ \A k \in 1..n : C[k] = E[k]
  BY <1>1, <1>2, AppendIs
<1>5. /\ H[n + 1].current = FALSE
      /\ C[n + 1].current = TRUE /\ C[n + 1].subject = s
  BY <1>2, <1>3, <1>4
<1>6. 1..(n + 1) = 1..n \union {n + 1}
  BY <1>0
<1> HIDE DEF H, C, n
<1>7. CurrentIn(E, x) = IF x = s THEN {} ELSE CurrentRisk(x)
  BY <1>1 DEF CurrentIn, CurrentRisk, n
<1>8. CurrentIn(H, x) = CurrentRisk(x)
  <2>1. CurrentIn(H, x) = {k \in 1..n : H[k].subject = x /\ H[k].current}
    BY <1>3, <1>5, <1>6 DEF CurrentIn
  <2> QED BY <2>1, <1>3 DEF CurrentRisk, n
<1>9. CurrentIn(C, x) = IF x = s THEN {n + 1} ELSE CurrentRisk(x)
  <2>1. CurrentIn(C, x) = {k \in 1..n : C[k].subject = x /\ C[k].current}
                            \union (IF x = s THEN {n + 1} ELSE {})
    BY <1>4, <1>5, <1>6 DEF CurrentIn
  <2>2. {k \in 1..n : C[k].subject = x /\ C[k].current} = IF x = s THEN {} ELSE CurrentRisk(x)
    BY <1>1, <1>4 DEF CurrentRisk, n
  <2> QED BY <2>1, <2>2
<1> QED BY <1>7, <1>8, <1>9 DEF E, H, C, n, s, old, new

\* The rows after each outcome.
LEMMA RowsAfter ==
  ASSUME TypeOK, RiskInv, NEW i \in 1..Len(rows), NEW K, Outcome(i, K)
  PROVE  /\ K \in Seq(RiskRow(Len(rows)))
         /\ Len(K) \in {Len(risk), Len(risk) + 1}
         /\ \A k \in 1..Len(risk) :
              /\ K[k].subject = risk[k].subject /\ K[k].row = risk[k].row
              /\ K[k].hash = risk[k].hash /\ (K[k].current => risk[k].current)
         /\ Len(K) = Len(risk) + 1 =>
              /\ rows[i].type # "DELETED"
              /\ ~Assessed(i) \/ (i = CurrentSource(rows[i].subject) /\ ~NowAssessed(i))
              /\ K[Len(K)].subject = rows[i].subject /\ K[Len(K)].row = i
              /\ K[Len(K)].hash = Hash(i)
         /\ Len(K) # Len(risk) + 1 /\ rows[i].type # "DELETED" =>
              K = risk /\ (Assessed(i) \/ NowAssessed(i))
<1> DEFINE s == rows[i].subject
           n == Len(risk)
           old == Assessment(i, FALSE)
           new == Assessment(i, TRUE)
           E == Expired(s)
           T == RiskRow(Len(rows))
<1>0. n \in Nat /\ risk \in Seq(T)
  BY TableTypes
<1>1. /\ Len(E) = n /\ E \in Seq(T)
      /\ \A k \in 1..n : /\ E[k].subject = risk[k].subject /\ E[k].row = risk[k].row
                         /\ E[k].hash = risk[k].hash
                         /\ E[k].current => risk[k].current
  BY ExpiredIs
<1>2. /\ old \in T /\ old.subject = s /\ old.row = i /\ old.hash = Hash(i)
      /\ new \in T /\ new.subject = s /\ new.row = i /\ new.hash = Hash(i)
  BY AssessmentIs
<1>o. \/ K = risk /\ (rows[i].type # "DELETED" => Assessed(i) \/ NowAssessed(i))
      \/ K = E /\ rows[i].type = "DELETED"
      \/ K = Append(risk, old) /\ rows[i].type # "DELETED" /\ ~Assessed(i)
      \/ /\ K = Append(E, new) /\ rows[i].type # "DELETED"
         /\ i = CurrentSource(s) /\ ~NowAssessed(i)
  BY DEF Outcome
<1> HIDE DEF s, n, T, old, new, E
<1>4. CASE K = risk /\ (rows[i].type # "DELETED" => Assessed(i) \/ NowAssessed(i))
  BY <1>0, <1>4 DEF n, T
<1>5. CASE K = E /\ rows[i].type = "DELETED"
  BY <1>0, <1>1, <1>5 DEF n, T
<1>6. CASE K = Append(risk, old) /\ rows[i].type # "DELETED" /\ ~Assessed(i)
  <2>1. /\ K \in Seq(T) /\ Len(K) = n + 1 /\ K[n + 1] = old
        /\ \A k \in 1..n : K[k] = risk[k]
    BY <1>0, <1>2, <1>6, AppendIs DEF n
  <2> QED BY <2>1, <1>0, <1>2, <1>6 DEF s, n, T
<1>7. CASE /\ K = Append(E, new) /\ rows[i].type # "DELETED"
           /\ i = CurrentSource(s) /\ ~NowAssessed(i)
  <2>1. /\ K \in Seq(T) /\ Len(K) = n + 1 /\ K[n + 1] = new
        /\ \A k \in 1..n : K[k] = E[k]
    BY <1>1, <1>2, <1>7, AppendIs
  <2> QED BY <2>1, <1>0, <1>1, <1>2, <1>7 DEF s, n, T
<1> QED BY <1>o, <1>4, <1>5, <1>6, <1>7


LEMMA DuplicatesAfter ==
  ASSUME TypeOK, RiskInv, NoDuplicates, NEW i \in 1..Len(rows), NEW K, Outcome(i, K)
  PROVE  NoDuplicatesIn(K)
<1> DEFINE n == Len(risk)
<1>0. n \in Nat
  BY TableTypes
<1>1. /\ Len(K) \in {n, n + 1}
      /\ \A k \in 1..n : K[k].row = risk[k].row /\ K[k].hash = risk[k].hash
      /\ Len(K) = n + 1 => /\ ~Assessed(i) \/ (i = CurrentSource(rows[i].subject) /\ ~NowAssessed(i))
                           /\ K[n + 1].row = i /\ K[n + 1].hash = Hash(i)
  BY RowsAfter
<1> HIDE DEF n
<1> SUFFICES ASSUME NEW k \in 1..Len(K), NEW j \in 1..k-1, K[j].row = K[k].row, K[j].hash = K[k].hash
             PROVE  \E l \in j+1..k-1 : K[l].row = K[k].row /\ K[l].hash # K[k].hash
  BY DEF NoDuplicatesIn
<1>2. j \in 1..n /\ (k \in 1..n \/ (k = n + 1 /\ Len(K) = n + 1))
  BY <1>0, <1>1
<1>3. CASE k \in 1..n
  <2>1. PICK l \in j+1..k-1 : risk[l].row = risk[k].row /\ risk[l].hash # risk[k].hash
    BY <1>1, <1>2, <1>3 DEF NoDuplicates, n
  <2>2. l \in 1..n
    BY <1>0, <1>3
  <2> QED BY <1>1, <1>3, <2>1, <2>2
<1>4. CASE k = n + 1 /\ Len(K) = n + 1
  <2>1. risk[j].row = i /\ risk[j].hash = Hash(i)
    BY <1>1, <1>2, <1>4
  <2>2. i = CurrentSource(rows[i].subject) /\ ~NowAssessed(i)
    BY <1>1, <1>2, <1>4, <2>1 DEF Assessed, n
  <2>3. PICK l \in j+1..n : risk[l].row = i /\ risk[l].hash # Hash(i)
    BY <1>2, <2>1, <2>2, AssessedSince DEF n
  <2>4. l \in j+1..k-1 /\ l \in 1..n
    BY <1>0, <1>2, <1>4
  <2> QED BY <1>1, <1>4, <2>3, <2>4
<1> QED BY <1>2, <1>3, <1>4

\* Who is current for whom, in all four outcomes.
LEMMA CurrentOutcome ==
  ASSUME TypeOK, RiskInv, NEW i \in 1..Len(rows), NEW K, Outcome(i, K), NEW x
  PROVE  \/ CurrentIn(K, x) = CurrentRisk(x)
         \/ /\ x = rows[i].subject /\ i = CurrentSource(x) /\ rows[i].type = "DELETED"
            /\ CurrentIn(K, x) = {}
         \/ /\ x = rows[i].subject /\ i = CurrentSource(x) /\ rows[i].type # "DELETED"
            /\ CurrentIn(K, x) = {Len(risk) + 1} /\ Len(K) = Len(risk) + 1
<1> DEFINE s == rows[i].subject
<1>1. CASE K = risk
  BY <1>1, ReadsAre DEF CurrentIn, CurrentRisk
<1>2. CASE K = Expired(s) /\ i = CurrentSource(s) /\ rows[i].type = "DELETED"
  BY <1>2, CurrentAfter
<1>3. CASE K = Append(risk, Assessment(i, FALSE))
  BY <1>3, CurrentAfter
<1>4. CASE /\ K = Append(Expired(s), Assessment(i, TRUE))
           /\ i = CurrentSource(s) /\ rows[i].type # "DELETED"
  <2>1. Len(K) = Len(risk) + 1
    <3> DEFINE new == Assessment(i, TRUE)
               E == Expired(s)
               T == RiskRow(Len(rows))
    <3>1. Len(E) = Len(risk) /\ E \in Seq(T) /\ new \in T
      BY ExpiredIs, AssessmentIs
    <3>2. K = Append(E, new)
      BY <1>4
    <3> HIDE DEF new, E, T
    <3> QED BY <3>1, <3>2, AppendIs
  <2> QED BY <1>4, <2>1, CurrentAfter
<1> QED BY <1>1, <1>2, <1>3, <1>4 DEF Outcome

LEMMA RiskInvAfter ==
  ASSUME TypeOK, RiskInv, NEW i \in 1..Len(rows), NEW K, Outcome(i, K)
  PROVE  RiskInvIn(K)
<1> DEFINE n == Len(risk)
           s == rows[i].subject
<1>0. n \in Nat /\ 1..(n + 1) = 1..n \union {n + 1}
  BY TableTypes
<1>1. /\ Len(K) \in {n, n + 1}
      /\ \A k \in 1..n : /\ K[k].subject = risk[k].subject /\ K[k].row = risk[k].row
                         /\ K[k].hash = risk[k].hash /\ (K[k].current => risk[k].current)
      /\ Len(K) = n + 1 =>
           /\ rows[i].type # "DELETED"
           /\ K[n + 1].subject = s /\ K[n + 1].row = i /\ K[n + 1].hash = Hash(i)
  BY RowsAfter
<1>c. \A x : \A k \in CurrentRisk(x) : k \in 1..n /\ K[k].row = risk[k].row /\ K[k].hash = risk[k].hash
  BY <1>1, CurrentRiskOf
<1>2. ASSUME NEW k \in 1..n
      PROVE  /\ K[k].subject = rows[K[k].row].subject /\ rows[K[k].row].type # "DELETED"
             /\ K[k].row = CurrentSource(K[k].subject) =>
                  \E j \in CurrentIn(K, K[k].subject) : K[j].row = K[k].row /\ k <= j
             /\ K[k].current => CurrentIn(K, K[k].subject) = {k}
  <2> DEFINE x == risk[k].subject
  <2>1. /\ risk[k].subject = rows[risk[k].row].subject /\ rows[risk[k].row].type # "DELETED"
        /\ risk[k].row = CurrentSource(x) =>
             \E j \in CurrentRisk(x) : risk[j].row = risk[k].row /\ k <= j
        /\ risk[k].current => CurrentRisk(x) = {k}
    BY DEF RiskInv
  <2>2. CASE CurrentIn(K, x) = CurrentRisk(x)
    <3>1. risk[k].row = CurrentSource(x) =>
            \E j \in CurrentIn(K, x) : K[j].row = risk[k].row /\ k <= j
      BY <2>1, <2>2, <1>c
    <3> QED BY <2>1, <2>2, <3>1, <1>1
  <2>3. CASE /\ x = s /\ i = CurrentSource(x) /\ rows[i].type = "DELETED"
             /\ CurrentIn(K, x) = {}
    <3>1. ~K[k].current
      <4>1. K[k].current => k \in CurrentIn(K, x)
        BY <1>0, <1>1 DEF CurrentIn
      <4> QED BY <4>1, <2>3
    <3>2. risk[k].row # CurrentSource(x)
      BY <2>1, <2>3
    <3> QED BY <2>1, <3>1, <3>2, <1>1
  <2>4. CASE /\ x = s /\ i = CurrentSource(x) /\ rows[i].type # "DELETED"
             /\ CurrentIn(K, x) = {n + 1} /\ Len(K) = n + 1
    <3>1. ~K[k].current
      <4>1. K[k].current => k \in CurrentIn(K, x)
        BY <1>0, <1>1, <2>4 DEF CurrentIn
      <4> QED BY <4>1, <2>4, <1>0
    <3>2. K[n + 1].row = CurrentSource(x) /\ k <= n + 1
      BY <2>4, <1>0, <1>1
    <3>3. risk[k].row = CurrentSource(x) =>
            \E j \in CurrentIn(K, x) : K[j].row = risk[k].row /\ k <= j
      BY <2>1, <2>4, <3>2
    <3>4. K[k].subject = x /\ K[k].row = risk[k].row /\ K[k].hash = risk[k].hash
      BY <1>1
    <3>5. K[k].subject = rows[K[k].row].subject /\ rows[K[k].row].type # "DELETED"
      BY <2>1, <3>4
    <3>6. K[k].row = CurrentSource(K[k].subject) =>
            \E j \in CurrentIn(K, K[k].subject) : K[j].row = K[k].row /\ k <= j
      BY <3>3, <3>4
    <3> QED BY <3>1, <3>5, <3>6
  <2> QED BY <2>2, <2>3, <2>4, CurrentOutcome
<1>3. ASSUME Len(K) = n + 1
      PROVE  /\ K[n + 1].subject = rows[i].subject /\ rows[i].type # "DELETED"
             /\ K[n + 1].row = i
             /\ i = CurrentSource(s) =>
                  \E j \in CurrentIn(K, s) : K[j].row = i /\ n + 1 <= j
             /\ K[n + 1].current => CurrentIn(K, s) = {n + 1}
  <2>1. CASE CurrentIn(K, s) = {n + 1}
    BY <2>1, <1>0, <1>1, <1>3
  <2>2. CASE CurrentIn(K, s) # {n + 1}
    <3>1. CurrentIn(K, s) = CurrentRisk(s)
      BY <2>2, <1>1, <1>3, CurrentOutcome
    <3>2. ~K[n + 1].current
      <4>1. K[n + 1].current => n + 1 \in CurrentIn(K, s)
        BY <1>0, <1>1, <1>3 DEF CurrentIn
      <4>2. n + 1 \notin CurrentRisk(s)
        BY <1>0 DEF CurrentRisk
      <4> QED BY <4>1, <4>2, <3>1
    <3>3. i # CurrentSource(s)
      <4>1. K = Append(Expired(s), Assessment(i, TRUE)) => CurrentIn(K, s) = {n + 1}
        BY CurrentAfter
      <4>2. Len(risk) # n + 1 /\ Len(Expired(s)) # n + 1
        BY <1>0, ExpiredIs
      <4> QED BY <4>1, <4>2, <2>2, <1>3 DEF Outcome
    <3> QED BY <3>2, <3>3, <1>1, <1>3
  <2> QED BY <2>1, <2>2
<1> HIDE DEF n, s
<1>4. ASSUME NEW k \in 1..Len(K) PROVE k \in 1..n \/ (k = n + 1 /\ Len(K) = n + 1)
  BY <1>0, <1>1
<1> QED BY <1>2, <1>3, <1>4 DEF RiskInvIn, s

LEMMA DisplacedAfter ==
  ASSUME TypeOK, RiskInv, NEW i \in 1..Len(rows), NEW K, Outcome(i, K),
         NEW x, NEW j \in CurrentRisk(x), NEW k \in CurrentIn(K, x)
  PROVE  K[k].row >= risk[j].row
<1>1. /\ \A l \in 1..Len(risk) : K[l].row = risk[l].row
      /\ Len(K) = Len(risk) + 1 => K[Len(risk) + 1].row = i
  BY RowsAfter
<1>2. /\ CurrentRisk(x) = {j} /\ j \in 1..Len(risk) /\ risk[j].row \in 1..Len(rows)
      /\ risk[j].row <= CurrentSource(x)
  BY CurrentRiskOf
<1>3. CASE CurrentIn(K, x) = CurrentRisk(x)
  BY <1>1, <1>2, <1>3
<1>4. CASE CurrentIn(K, x) = {Len(risk) + 1} /\ Len(K) = Len(risk) + 1 /\ i = CurrentSource(x)
  BY <1>1, <1>2, <1>4
<1> QED BY <1>3, <1>4, CurrentOutcome

\* A subject without a current assessment gets one of a version behind all its
\* deletions only.
LEMMA RevivedAfter ==
  ASSUME TypeOK, RiskInv, NEW i \in 1..Len(rows), NEW K, Outcome(i, K),
         NEW x, CurrentRisk(x) = {}, NEW k \in CurrentIn(K, x),
         NEW d \in 1..Len(rows), rows[d].subject = x, rows[d].type = "DELETED"
  PROVE  d < K[k].row
<1>1. /\ i = CurrentSource(x) /\ rows[i].type # "DELETED"
      /\ k = Len(risk) + 1 /\ Len(K) = Len(risk) + 1
  BY CurrentOutcome
<1>2. K[k].row = i
  BY <1>1, RowsAfter
<1>3. d <= CurrentSource(x)
  BY TableTypes, SourceIs, ReadsAre
<1> QED BY <1>1, <1>2, <1>3, TableTypes

\* What no step may do to the current assessments.
Stays ==
  \A s \in Subject : \A k \in CurrentRisk(s)' :
    /\ \A j \in CurrentRisk(s) : risk'[k].row >= risk[j].row
    /\ CurrentRisk(s) = {} =>
         \A i \in 1..Len(rows) :
           rows[i].subject = s /\ rows[i].type = "DELETED" => i < risk'[k].row

LEMMA SameStays ==
  ASSUME TypeOK, RiskInv, risk' = risk
  PROVE  Stays
<1>1. \A s : CurrentRisk(s)' = CurrentRisk(s)
  BY DEF CurrentRisk
<1>2. ASSUME NEW s, NEW k \in CurrentRisk(s), NEW j \in CurrentRisk(s) PROVE risk[k].row >= risk[j].row
  <2>1. k = j /\ risk[j].row \in 1..Len(rows)
    BY CurrentRiskOf
  <2> QED BY <2>1
<1> QED BY <1>1, <1>2 DEF Stays

\* What is done stays done.
LEMMA DoneAfter ==
  ASSUME TypeOK, RiskInv, DeltaInv, NEW i \in 1..Len(rows), NEW K, Outcome(i, K),
         NEW d \in 1..Len(delta), Done(delta[d])
  PROVE  DoneIn(K, delta[d])
<1> DEFINE x == delta[d].subject
           r == delta[d].row
<1>n. Len(risk) \in Nat
  BY TableTypes
<1>0. /\ Len(K) \in {Len(risk), Len(risk) + 1}
      /\ \A l \in 1..Len(risk) : K[l].row = risk[l].row
      /\ Len(K) = Len(risk) + 1 => K[Len(risk) + 1].row = i
  BY RowsAfter
<1>d. rows[r].subject = x /\ (delta[d].action = "DELETE" <=> rows[r].type = "DELETED")
  BY DEF DeltaInv
<1>1. CASE delta[d].action = "DELETE"
  <2>1. CurrentSource(x) = r => CurrentRisk(x) = {} /\ rows[r].type = "DELETED"
    BY <1>1, <1>d DEF Done
  <2>2. CurrentSource(x) = r => CurrentIn(K, x) = {}
    BY <2>1, CurrentOutcome
  <2> QED BY <1>1, <2>2 DEF DoneIn
<1>2. CASE delta[d].action # "DELETE"
  <2>1. /\ \E k \in 1..Len(risk) : risk[k].row = r
        /\ CurrentSource(x) = r => \E k \in CurrentRisk(x) : risk[k].row = r
        /\ rows[r].type # "DELETED"
    BY <1>2, <1>d DEF Done
  <2>2. \E k \in 1..Len(K) : K[k].row = r
    BY <2>1, <1>0, <1>n
  <2>3. ASSUME CurrentSource(x) = r PROVE \E k \in CurrentIn(K, x) : K[k].row = r
    <3>1. CASE CurrentIn(K, x) = CurrentRisk(x)
      BY <2>1, <2>3, <3>1, <1>0, CurrentRiskOf
    <3>2. CASE CurrentIn(K, x) = {Len(risk) + 1} /\ Len(K) = Len(risk) + 1 /\ i = CurrentSource(x)
      BY <2>3, <3>2, <1>0
    <3> QED BY <2>1, <2>3, <3>1, <3>2, CurrentOutcome
  <2> QED BY <1>2, <2>2, <2>3 DEF DoneIn
<1> QED BY <1>1, <1>2

\* And the work that succeeded is done.
LEMMA WorkDone ==
  ASSUME TypeOK, RiskInv, DeltaInv, NEW d \in 1..Len(delta), NEW K, Outcome(delta[d].row, K)
  PROVE  DoneIn(K, delta[d])
<1> DEFINE x == delta[d].subject
           r == delta[d].row
<1>0. /\ Len(risk) \in Nat /\ r \in 1..Len(rows)
  BY TableTypes DEF DeltaRow
<1>r. /\ Len(K) \in {Len(risk), Len(risk) + 1}
      /\ \A l \in 1..Len(risk) : K[l].row = risk[l].row
      /\ Len(K) = Len(risk) + 1 => K[Len(risk) + 1].row = r
  BY <1>0, RowsAfter
<1>d. rows[r].subject = x /\ (delta[d].action = "DELETE" <=> rows[r].type = "DELETED")
  BY DEF DeltaInv
<1>1. CASE rows[r].type = "DELETED"
  <2>1. r = CurrentSource(x) => CurrentIn(K, x) = {}
    <3>1. K = risk => CurrentIn(K, x) = CurrentRisk(x)
      BY DEF CurrentIn, CurrentRisk
    <3>2. CurrentIn(Expired(x), x) = {}
      BY <1>0, <1>d, CurrentAfter
    <3> QED BY <1>1, <1>d, <3>1, <3>2 DEF Outcome
  <2> QED BY <1>1, <1>d, <2>1 DEF DoneIn
<1>2. CASE rows[r].type # "DELETED"
  <2>1. \E k \in 1..Len(K) : K[k].row = r
    <3>1. CASE Len(K) = Len(risk) + 1
      BY <3>1, <1>0, <1>r
    <3>2. CASE Len(K) # Len(risk) + 1
      <4>1. \E k \in 1..Len(risk) : risk[k].row = r
        <5>1. K = risk
          BY <1>0, <1>2, <3>2, RowsAfter
        <5>2. Assessed(r) \/ NowAssessed(r) \/ K # risk
          BY <1>0, <1>2, <3>2, RowsAfter
        <5> QED BY <5>1, <5>2, <1>d, CurrentRiskOf DEF Assessed, NowAssessed
      <4> QED BY <3>2, <4>1, <1>0, <1>r
    <3> QED BY <3>1, <3>2
  <2>2. ASSUME r = CurrentSource(x) PROVE \E k \in CurrentIn(K, x) : K[k].row = r
    <3>1. CASE K = risk /\ NowAssessed(r)
      BY <1>d, <3>1 DEF NowAssessed, CurrentIn, CurrentRisk
    <3>2. CASE K = Append(Expired(x), Assessment(r, TRUE))
      <4>1. CurrentIn(K, x) = {Len(risk) + 1}
        BY <1>0, <1>d, <3>2, CurrentAfter
      <4>2. Len(risk) + 1 \in 1..Len(K)
        BY <4>1 DEF CurrentIn
      <4>3. Len(K) = Len(risk) + 1
        BY <1>0, <1>r, <4>2
      <4> QED BY <4>1, <4>3, <1>r
    <3> QED BY <1>2, <1>d, <2>2, <3>1, <3>2 DEF Outcome
  <2> QED BY <1>2, <1>d, <2>1, <2>2 DEF DoneIn
<1> QED BY <1>1, <1>2

(***************************************************************************)
(* The steps of the job                                                    *)
(***************************************************************************)
StateRec == [items : SUBSET Work, next : 0..LastDay + 1, inflight : 0..LastDay + 1,
             replay : 0..LastDay + 1]
JobRec == [pc : {"idle", "queue", "record", "date", "scan_end", "scan"},
           mode : {"none", "initial", "incremental"}, target : 0..LastDay,
           date : 0..LastDay + 1, queue : SUBSET Work, batch : SUBSET Work,
           work : SUBSET Work, failed : BOOLEAN, back : {"idle", "queue", "scan"}]

Tables == <<rows, delta, risk>>

LEMMA TypeParts ==
  ASSUME day' \in Day, model' \in Model, switches' \in 0..MaxSwitch, since' \in Day \union {NoDay},
         rows' \in Seq(Version), delta' \in Seq(DeltaRow(Len(rows'))),
         risk' \in Seq(RiskRow(Len(rows'))),
         job' \in JobRec, Cardinality(job'.work) <= 1, state' \in StateRec
  PROVE  TypeOK'
BY DEF TypeOK, Version, DeltaRow, RiskRow, JobRec, StateRec, Work, Day

LEMMA TypeNext ==
  ASSUME TypeOK, UNCHANGED <<Tables, model, switches>>, day' \in Day, job' \in JobRec, Cardinality(job'.work) <= 1,
         state' \in StateRec, since' \in Day \union {NoDay}
  PROVE  TypeOK'
BY DEF TypeOK, Tables, JobRec, StateRec, Work, Day

LEMMA RecTypes ==
  ASSUME TypeOK
  PROVE  /\ job \in JobRec /\ state \in StateRec /\ day \in Nat /\ day <= LastDay /\ LastDay \in Nat
         /\ since \in Nat /\ since <= LastDay
         /\ state.next \in Nat /\ state.inflight \in Nat /\ state.replay \in Nat
         /\ job.date \in Nat /\ job.target \in Nat /\ job.target <= LastDay
         /\ \A k \in 1..Len(delta) : delta[k].date \in Nat /\ delta[k].date # NoDay
<1>1. job \in JobRec /\ state \in StateRec
  BY DEF TypeOK, JobRec, StateRec
<1>2. LastDay \in Nat \ {0} /\ day \in 1..LastDay /\ since \in 1..LastDay \union {0}
  BY RiskAssumption DEF TypeOK, Day, NoDay
<1>3. /\ state.next \in 0..LastDay + 1 /\ state.inflight \in 0..LastDay + 1
      /\ state.replay \in 0..LastDay + 1 /\ job.date \in 0..LastDay + 1 /\ job.target \in 0..LastDay
  BY <1>1 DEF JobRec, StateRec
<1>4. \A k \in 1..Len(delta) : delta[k].date \in 1..LastDay
  BY TableTypes DEF DeltaRow, Day
<1> QED BY <1>1, <1>2, <1>3, <1>4 DEF NoDay

\* What does not depend on the job.
LEMMA TablesKeep ==
  ASSUME RiskIInv, UNCHANGED Tables
  PROVE  /\ DeltaInv' /\ RiskInv' /\ NoDuplicates' /\ Known' = Known
         /\ \A k : DeltaWork(k)' = DeltaWork(k)
         /\ \A a : Done(a)' <=> Done(a)
<1>1. DeltaInv' /\ NoDuplicates'
  BY DEF RiskIInv, DeltaInv, NoDuplicates, Tables
<1>2. RiskInv'
  <2>1. \A s : CurrentSource(s)' = CurrentSource(s) /\ CurrentRisk(s)' = CurrentRisk(s)
    BY DEF CurrentSource, CurrentRisk, Tables
  <2>2. RiskInv
    BY DEF RiskIInv
  <2> QED BY <2>1, <2>2 DEF RiskInv, Tables
<1>3. Known' = Known /\ \A k : DeltaWork(k)' = DeltaWork(k)
  BY DEF Known, DeltaWork, CurrentWork, Tables
<1>4. \A a : Done(a)' <=> Done(a)
  BY DEF Done, CurrentSource, CurrentRisk, Tables
<1> QED BY <1>1, <1>2, <1>3, <1>4

LEMMA NothingLostKeeps ==
  ASSUME RiskIInv, UNCHANGED Tables, UNCHANGED <<since, state>>
  PROVE  NothingLost'
<1>1. NothingLost
  BY DEF RiskIInv
<1>2. \A k \in 1..Len(delta) : (Owed(k)' <=> Owed(k)) /\ DeltaWork(k)' = DeltaWork(k)
                               /\ (Done(delta[k])' <=> Done(delta[k]))
  BY TablesKeep DEF Owed, Tables, Done, CurrentSource, CurrentRisk
<1> QED BY <1>1, <1>2 DEF NothingLost, Tables

\* The parts of the invariant that a step of the job has to show.
LEMMA JobParts ==
  ASSUME RiskIInv, UNCHANGED Tables, TypeOK', WorkInv', FrontInv', DoneInv', NothingLost'
  PROVE  RiskIInv'
BY TablesKeep DEF RiskIInv

LEMMA IdleJob ==
  ASSUME RiskIInv, job' = Idle, UNCHANGED <<day, model, switches, rows, delta, risk, state, since>>
  PROVE  RiskIInv'
<1>t. TypeOK /\ WorkInv /\ FrontInv
  BY DEF RiskIInv
<1>u. UNCHANGED <<Tables, model, switches>>
  BY DEF Tables
<1>1. /\ job'.pc = "idle" /\ job'.queue = {} /\ job'.batch = {} /\ job'.work = {}
      /\ job'.target = 0 /\ job' \in JobRec
  BY RecTypes, <1>t DEF Idle, JobRec, NoDay
<1>2. TypeOK'
  <2>1. Cardinality(job'.work) <= 1
    BY <1>1, FS_EmptySet
  <2>2. state \in StateRec /\ since \in Day \union {NoDay} /\ day \in Day
    BY <1>t DEF TypeOK, StateRec
  <2> QED BY <1>1, <1>t, <1>u, <2>1, <2>2, TypeNext
<1>3. WorkInv'
  BY <1>1, <1>t, <1>u, TablesKeep DEF WorkInv
<1>4. FrontInv'
  BY <1>1, <1>t, RecTypes DEF FrontInv, Opened, Reading, AtScan
<1>5. DoneInv'
  BY <1>1 DEF DoneInv, Reading, AtScan
<1> QED BY <1>u, <1>2, <1>3, <1>4, <1>5, JobParts, NothingLostKeeps

LEMMA StartStep ==
  ASSUME RiskIInv, NEW mode \in {"initial", "incremental"}, NEW target \in Day, NEW m \in Model,
         Start(mode, target, m)
  PROVE  RiskIInv'
<1>t. TypeOK /\ WorkInv /\ FrontInv
  BY DEF RiskIInv
<1>u. UNCHANGED Tables /\ UNCHANGED <<day, state, since>>
  BY DEF Tables, Start
<1>1. /\ job'.pc = "queue" /\ job'.queue = {w \in state.items : w.date <= target}
      /\ job'.batch = {} /\ job'.work = {} /\ job'.target = target /\ job'.mode = mode
      /\ job'.date = NoDay /\ job'.failed = FALSE /\ job'.back = "idle"
      /\ DOMAIN job' = DOMAIN Idle
  BY DEF Idle, Start
<1>2. job' \in JobRec
  <2>1. state.items \in SUBSET Work
    BY RecTypes, <1>t DEF StateRec
  <2>2. {w \in state.items : w.date <= target} \in SUBSET Work
    BY <2>1
  <2>3. job' = [pc |-> "queue", mode |-> mode, target |-> target, date |-> NoDay,
                queue |-> {w \in state.items : w.date <= target}, batch |-> {}, work |-> {},
                failed |-> FALSE, back |-> "idle"]
    BY DEF Idle, Start
  <2>4. NoDay \in 0..LastDay + 1 /\ target \in 0..LastDay
    BY RiskAssumption DEF NoDay, Day
  <2> QED BY <2>2, <2>3, <2>4 DEF JobRec
<1>3. TypeOK'
  <2>1. Cardinality(job'.work) <= 1
    BY <1>1, FS_EmptySet
  <2>2. model' \in Model /\ switches' \in 0..MaxSwitch
    BY <1>t, RiskAssumption DEF Start, TypeOK
  <2>3. /\ day \in Day /\ since \in Day \union {NoDay} /\ state \in StateRec
        /\ rows \in Seq(Version) /\ delta \in Seq(DeltaRow(Len(rows)))
        /\ risk \in Seq(RiskRow(Len(rows)))
    BY <1>t, RecTypes, TableTypes DEF TypeOK
  <2>4. /\ day' \in Day /\ since' \in Day \union {NoDay} /\ state' \in StateRec
        /\ rows' \in Seq(Version) /\ delta' \in Seq(DeltaRow(Len(rows')))
        /\ risk' \in Seq(RiskRow(Len(rows')))
    BY <1>u, <2>3 DEF Tables
  <2> QED BY <1>2, <2>1, <2>2, <2>4, TypeParts
<1>4. WorkInv'
  BY <1>1, <1>t, <1>u, TablesKeep DEF WorkInv
<1>5. FrontInv'
  BY <1>1, <1>t, <1>u DEF FrontInv, Opened, Reading, AtScan, Start
<1>6. DoneInv'
  BY <1>1 DEF DoneInv, Reading, AtScan
<1> QED BY <1>u, <1>3, <1>4, <1>5, <1>6, JobParts, NothingLostKeeps

\* A transaction that succeeds or leaves the table as it was.
LEMMA AttemptTable ==
  ASSUME RiskIInv, NEW w \in Known, NEW failed \in BOOLEAN, Attempt(w, failed)
  PROVE  /\ risk' \in Seq(RiskRow(Len(rows))) /\ RiskInv' /\ NoDuplicates'
         /\ \A k \in 1..Len(delta) : Done(delta[k]) => Done(delta[k])'
         /\ ~failed => \A k \in 1..Len(delta) : w = DeltaWork(k) => Done(delta[k])'
         /\ Stays
<1>t. TypeOK /\ DeltaInv /\ RiskInv /\ NoDuplicates
  BY DEF RiskIInv
<1>u. UNCHANGED <<rows, model, switches, delta>>
  BY DEF Attempt
<1>d. \A a : Done(a)' <=> DoneIn(risk', a)
  BY <1>u DEF Done, DoneIn, CurrentSource, CurrentRisk, CurrentIn
<1>D. \A k : Done(delta[k])' <=> DoneIn(risk', delta[k])
  BY <1>u DEF Done, DoneIn, CurrentSource, CurrentRisk, CurrentIn
<1>r. (RiskInv' <=> RiskInvIn(risk')) /\ (NoDuplicates' <=> NoDuplicatesIn(risk'))
  <2>1. \A s : CurrentSource(s)' = CurrentSource(s) /\ CurrentRisk(s)' = CurrentIn(risk', s)
    BY <1>u DEF CurrentSource, CurrentRisk, CurrentIn
  <2> QED BY <1>u, <2>1 DEF RiskInv, RiskInvIn, NoDuplicates, NoDuplicatesIn
<1>1. CASE failed
  <2>1. risk' = risk
    BY <1>1 DEF Attempt
  <2>3. Stays
    BY <1>t, <2>1, SameStays
  <2> QED BY <1>1, <1>t, <1>r, <1>D, <2>1, <2>3, SameTable, TableTypes
<1>2. CASE ~failed
  <2>1. risk' = Process(w.item, w.key[1])
    BY <1>2 DEF Attempt
  <2>2. Source(w) \in 1..Len(rows) /\ Outcome(Source(w), risk')
    BY <1>t, <2>1, SourceType, Outcomes
  <2>3. risk' \in Seq(RiskRow(Len(rows)))
    BY <1>t, <2>2, RowsAfter
  <2>4. RiskInv' /\ NoDuplicates'
    BY <1>t, <1>r, <2>2, RiskInvAfter, DuplicatesAfter
  <2>5. \A k \in 1..Len(delta) : Done(delta[k]) => Done(delta[k])'
    BY <1>t, <1>D, <2>2, DoneAfter
  <2>6. \A k \in 1..Len(delta) : w = DeltaWork(k) => Done(delta[k])'
    <3> TAKE k \in 1..Len(delta)
    <3> HAVE w = DeltaWork(k)
    <3>1. Source(w) = delta[k].row
      BY DeltaWorkIs DEF Source
    <3> QED BY <3>1, <2>2, <1>t, <1>D, WorkDone
  <2>7. Stays
    BY <1>t, <2>2, DisplacedAfter, RevivedAfter, ReadsAre DEF Stays
  <2> QED BY <2>3, <2>4, <2>5, <2>6, <2>7
<1> QED BY <1>1, <1>2

LEMMA AttemptStep ==
  ASSUME RiskIInv, NEW w \in job.queue \union job.batch, NEW failed \in BOOLEAN,
         Attempt(w, failed), job.pc \in {"queue", "scan"}
  PROVE  RiskIInv'
<1>t. TypeOK /\ WorkInv /\ FrontInv /\ DoneInv /\ NothingLost /\ DeltaInv
  BY DEF RiskIInv
<1>u. UNCHANGED <<rows, model, switches, delta, day, state, since>>
  BY DEF Attempt
<1>w. w \in Known /\ w \in Work
  BY <1>t, KnownWork DEF WorkInv
<1>1. /\ job'.pc = "record" /\ job'.back = job.pc /\ job'.work = {w} /\ job'.failed = failed
      /\ job'.mode = job.mode /\ job'.target = job.target /\ job'.date = job.date
      /\ job'.queue = job.queue /\ job'.batch = job.batch
      /\ job' \in JobRec
  BY <1>t, <1>w, RecTypes DEF JobRec, Attempt
<1>2. /\ risk' \in Seq(RiskRow(Len(rows))) /\ RiskInv' /\ NoDuplicates'
      /\ \A k \in 1..Len(delta) : Done(delta[k]) => Done(delta[k])'
      /\ ~failed => \A k \in 1..Len(delta) : w = DeltaWork(k) => Done(delta[k])'
  BY <1>w, AttemptTable
<1>3. TypeOK'
  <2>1. Cardinality(job'.work) <= 1
    <3>1. Cardinality({w}) = 1
      BY FS_Singleton
    <3>2. job'.work = {w}
      BY <1>1
    <3> QED BY <3>1, <3>2
  <2>2. /\ day \in Day /\ model \in Model /\ switches \in 0..MaxSwitch /\ since \in Day \union {NoDay}
        /\ rows \in Seq(Version) /\ delta \in Seq(DeltaRow(Len(rows))) /\ state \in StateRec
    BY <1>t, TableTypes, RecTypes DEF TypeOK
  <2>3. /\ day' \in Day /\ model' \in Model /\ switches' \in 0..MaxSwitch /\ since' \in Day \union {NoDay}
        /\ rows' \in Seq(Version) /\ delta' \in Seq(DeltaRow(Len(rows')))
        /\ risk' \in Seq(RiskRow(Len(rows'))) /\ state' \in StateRec
    BY <1>2, <1>u, <2>2
  <2> QED BY <1>1, <2>1, <2>3, TypeParts
<1>4. DeltaInv'
  BY <1>t, <1>u DEF DeltaInv
<1>5. Known' = Known /\ \A k : DeltaWork(k)' = DeltaWork(k)
  BY <1>u DEF Known, DeltaWork, CurrentWork
<1>6. WorkInv'
  BY <1>1, <1>5, <1>w, <1>t, <1>u DEF WorkInv
<1>7. (AtScan' <=> AtScan) /\ (Opened' <=> Opened) /\ (Reading' <=> Reading)
  BY <1>1 DEF AtScan, Opened, Reading
<1>8. FrontInv'
  BY <1>1, <1>7, <1>t, <1>u DEF FrontInv
<1>o. \A k : Owed(k)' <=> Owed(k)
  BY <1>u DEF Owed
<1>9. DoneInv'
  BY <1>1, <1>2, <1>5, <1>7, <1>o, <1>t, <1>u DEF DoneInv
<1>10. NothingLost'
  BY <1>2, <1>5, <1>o, <1>t, <1>u DEF NothingLost
<1> QED BY <1>2, <1>3, <1>4, <1>6, <1>8, <1>9, <1>10 DEF RiskIInv

LEMMA RecordStep ==
  ASSUME RiskIInv, Record
  PROVE  RiskIInv'
<1>t. TypeOK /\ WorkInv /\ FrontInv /\ DoneInv /\ NothingLost
  BY DEF RiskIInv
<1>u. UNCHANGED Tables /\ UNCHANGED <<day, model, switches, since>>
  BY DEF Record, Tables
<1>1. /\ job.pc = "record" /\ job.back \in {"queue", "scan"}
      /\ job'.pc = job.back /\ job'.back = job.back /\ job'.work = {} /\ job'.failed = job.failed
      /\ job'.mode = job.mode /\ job'.target = job.target /\ job'.date = job.date
      /\ job'.queue = job.queue \ job.work /\ job'.batch = job.batch \ job.work
      /\ job' \in JobRec
  <2>1. job.pc = "record" /\ job.back \in {"queue", "scan"}
    BY <1>t DEF Record, FrontInv
  <2> QED BY <2>1, <1>t, RecTypes DEF JobRec, Record
<1>2. /\ state'.items = IF job.failed THEN state.items \union job.work ELSE state.items \ job.work
      /\ state'.next = state.next /\ state'.inflight = state.inflight
      /\ state'.replay = state.replay
      /\ state' \in StateRec
  BY <1>t, RecTypes DEF StateRec, JobRec, Record
<1>3. TypeOK'
  <2>1. Cardinality(job'.work) <= 1
    BY <1>1, FS_EmptySet
  <2>2. since \in Day \union {NoDay} /\ day \in Day
    BY <1>t DEF TypeOK
  <2> QED BY <1>1, <1>2, <1>t, <1>u, <2>1, <2>2, TypeNext
<1>4. WorkInv'
  BY <1>1, <1>2, <1>t, <1>u, TablesKeep DEF WorkInv
<1>5. (AtScan' <=> AtScan) /\ (Opened' <=> Opened) /\ (Reading' <=> Reading)
  BY <1>1 DEF AtScan, Opened, Reading
<1>6. FrontInv'
  BY <1>1, <1>2, <1>5, <1>t, <1>u DEF FrontInv
<1>7. \A k \in 1..Len(delta) :
        /\ DeltaWork(k)' = DeltaWork(k) /\ (Owed(k)' <=> Owed(k))
        /\ Done(delta[k])' <=> Done(delta[k])
  BY <1>u, TablesKeep DEF Owed, Tables, Done, CurrentSource, CurrentRisk
<1>8. \A k \in 1..Len(delta) : DeltaWork(k) \in job.work =>
        Done(delta[k]) \/ DeltaWork(k) \in state'.items
  BY <1>1, <1>2, <1>t DEF DoneInv
<1>9. DoneInv'
  <2>1. ASSUME Reading, NEW k \in 1..Len(delta), Owed(k), delta[k].date = job.date
        PROVE  Done(delta[k]) \/ DeltaWork(k) \in state'.items \union job'.batch
    <3>1. Done(delta[k]) \/ DeltaWork(k) \in state.items \union job.batch
      BY <2>1, <1>t DEF DoneInv
    <3> QED BY <3>1, <1>1, <1>2, <1>8
  <2>2. delta' = delta /\ job'.pc # "record"
    BY <1>1, <1>u DEF Tables
  <2> QED BY <2>1, <2>2, <1>1, <1>5, <1>7 DEF DoneInv
<1>10. NothingLost'
  <2>1. ASSUME NEW k \in 1..Len(delta), Owed(k), delta[k].date < state.next
        PROVE  Done(delta[k]) \/ DeltaWork(k) \in state'.items
    <3>1. Done(delta[k]) \/ DeltaWork(k) \in state.items
      BY <2>1, <1>t DEF NothingLost
    <3> QED BY <3>1, <1>2, <1>8
  <2>2. delta' = delta
    BY <1>u DEF Tables
  <2> QED BY <2>1, <2>2, <1>2, <1>7 DEF NothingLost
<1> QED BY <1>u, <1>3, <1>4, <1>6, <1>9, <1>10, JobParts

\* A step of the job that leaves the state file alone and is at no scan.
LEMMA QuietJob ==
  ASSUME RiskIInv, UNCHANGED <<day, model, switches, rows, delta, risk, state, since>>,
         job' \in JobRec, job'.work = job.work, job'.queue = job.queue,
         job'.batch \subseteq Known, FrontInv', DoneInv'
  PROVE  RiskIInv'
<1>t. TypeOK /\ WorkInv
  BY DEF RiskIInv
<1>u. UNCHANGED <<Tables, model, switches>>
  BY DEF Tables
<1>1. TypeOK'
  <2>1. /\ state \in StateRec /\ since \in Day \union {NoDay} /\ day \in Day
        /\ Cardinality(job.work) <= 1
    BY <1>t DEF TypeOK, StateRec
  <2> QED BY <1>t, <1>u, <2>1, TypeNext
<1>2. WorkInv'
  BY <1>t, <1>u, TablesKeep DEF WorkInv
<1> QED BY <1>u, <1>1, <1>2, JobParts, NothingLostKeeps

LEMMA StartsAre ==
  ASSUME TypeOK, Starts # {}
  PROVE  /\ Least(Starts) \in Starts /\ \A d \in Starts : Least(Starts) <= d
         /\ Starts \subseteq 0..LastDay + 1 /\ NoDay \notin Starts
<1>1. LatestRiskDate \in 0..LastDay
  <2>1. CASE risk = <<>>
    BY <2>1, RiskAssumption DEF LatestRiskDate, NoDay
  <2>2. CASE risk # <<>>
    <3> DEFINE S == {risk[k].day : k \in 1..Len(risk)}
    <3>1. \A k \in 1..Len(risk) : risk[k].day \in 1..LastDay
      BY TableTypes DEF RiskRow, Day
    <3>2. Len(risk) # 0 /\ Len(risk) \in Nat
      BY <2>2, TableTypes
    <3>3. S \in SUBSET Nat /\ S # {} /\ (\A i \in S : i <= LastDay) /\ LastDay \in Nat
      BY <3>1, <3>2, RiskAssumption
    <3>4. Largest(S) \in S
      <4> HIDE DEF S
      <4> QED BY <3>3, LargestIs
    <3> QED BY <2>2, <3>1, <3>4, RiskAssumption DEF LatestRiskDate
  <2> QED BY <2>1, <2>2
<1>2. /\ state.next \in 0..LastDay + 1 /\ state.inflight \in 0..LastDay + 1
      /\ state.replay \in 0..LastDay + 1
  BY RecTypes DEF StateRec
<1>3. Starts \subseteq 0..LastDay + 1 /\ NoDay \notin Starts
  BY <1>1, <1>2, RiskAssumption DEF Starts
<1>4. Starts \in SUBSET Nat
  BY <1>3, RiskAssumption
<1> QED BY <1>3, <1>4, LeastIs

LEMMA FrontierStep ==
  ASSUME RiskIInv, Frontier
  PROVE  RiskIInv'
<1>t. TypeOK /\ WorkInv /\ FrontInv
  BY DEF RiskIInv
<1>u. UNCHANGED <<day, model, switches, rows, delta, risk, state, since>>
  BY DEF Frontier
<1>1. CASE Starts = {}
  BY <1>1, <1>u, IdleJob DEF Frontier
<1>2. CASE Starts # {}
  <2> DEFINE d == Least(Starts)
  <2>1. /\ d \in Starts /\ (\A e \in Starts : d <= e) /\ d \in 0..LastDay + 1
        /\ d # NoDay
    BY <1>2, <1>t, StartsAre
  <2> HIDE DEF d
  <2>2. job' = [job EXCEPT !.pc = "date", !.date = d]
    BY <1>2 DEF Frontier, d
  <2>3. /\ job'.pc = "date" /\ job'.date = d /\ job'.mode = job.mode /\ job'.target = job.target
        /\ job'.queue = job.queue /\ job'.work = job.work /\ job'.batch = job.batch
        /\ job.mode = "incremental" /\ job' \in JobRec
    BY <2>1, <2>2, <1>t, RecTypes DEF JobRec, Frontier
  <2>4. /\ state.next # NoDay => d <= state.next
        /\ state.next = NoDay /\ since # NoDay => d <= since
    BY <2>1, <1>t DEF Starts, FrontInv
  <2>5. state.next # NoDay /\ d < since => state.replay # NoDay
    <3> SUFFICES ASSUME state.next # NoDay, d < since, state.replay = NoDay PROVE FALSE
      OBVIOUS
    <3>1. d = state.next \/ d = state.inflight
      BY <2>1 DEF Starts
    <3>2. d >= since
      BY <3>1, <2>1, <1>t, RecTypes DEF FrontInv
    <3> QED BY <3>2, <1>t, <2>1, RecTypes
  <2>6. FrontInv'
    BY <1>t, <1>u, <2>1, <2>3, <2>4, <2>5 DEF FrontInv, Opened, Reading, AtScan
  <2>7. DoneInv'
    BY <2>3 DEF DoneInv, Reading, AtScan
  <2>8. job.batch \subseteq Known
    BY <1>t DEF WorkInv
  <2> QED BY <1>u, <2>3, <2>6, <2>7, <2>8, QuietJob
<1> QED BY <1>1, <1>2

LEMMA ReadDateStep ==
  ASSUME RiskIInv, ReadDate
  PROVE  RiskIInv'
<1>t. TypeOK /\ WorkInv /\ FrontInv
  BY DEF RiskIInv
<1>u. UNCHANGED <<day, model, switches, rows, delta, risk, state, since>>
  BY DEF ReadDate
<1> DEFINE B == {DeltaWork(k) : k \in {j \in 1..Len(delta) : delta[j].date = job.date}}
<1>1. B \subseteq Known /\ B \subseteq Work
  <2>1. B \subseteq Known
    BY DEF Known
  <2> HIDE DEF B
  <2> QED BY <2>1, <1>t, KnownWork
<1>2. \A k \in 1..Len(delta) : delta[k].date = job.date => DeltaWork(k) \in B
  OBVIOUS
<1>3. job' = [job EXCEPT !.pc = "scan", !.batch = B]
  BY DEF ReadDate
<1> HIDE DEF B
<1>4. /\ job.pc = "scan_end" /\ job'.pc = "scan" /\ job'.date = job.date /\ job'.mode = job.mode
      /\ job'.target = job.target /\ job'.queue = job.queue /\ job'.work = job.work
      /\ job'.batch = B /\ job' \in JobRec
  BY <1>1, <1>3, <1>t, RecTypes DEF JobRec, ReadDate
<1>5. FrontInv'
  BY <1>4, <1>t, <1>u DEF FrontInv, Opened, Reading, AtScan
<1>6. DoneInv'
  <2>1. \A k : DeltaWork(k)' = DeltaWork(k)
    BY <1>u DEF DeltaWork
  <2> QED BY <1>2, <1>4, <1>u, <2>1 DEF DoneInv
<1> QED BY <1>1, <1>4, <1>5, <1>6, <1>u, QuietJob

LEMMA ReadCurrentStep ==
  ASSUME RiskIInv, ReadCurrent
  PROVE  RiskIInv'
<1>t. TypeOK /\ WorkInv /\ FrontInv
  BY DEF RiskIInv
<1>u. UNCHANGED <<day, model, switches, rows, delta, risk, state, since>>
  BY DEF ReadCurrent
<1> DEFINE B == {CurrentWork(i) : i \in {j \in 1..Len(rows) : j = CurrentSource(rows[j].subject)}}
<1>1. B \subseteq Known /\ B \subseteq Work
  <2>1. B \subseteq Known
    BY DEF Known
  <2> HIDE DEF B
  <2> QED BY <2>1, <1>t, KnownWork
<1>3. job' = [job EXCEPT !.pc = "scan", !.batch = B]
  BY DEF ReadCurrent
<1> HIDE DEF B
<1>4. /\ job.mode = "initial" /\ job'.pc = "scan" /\ job'.mode = job.mode
      /\ job'.target = job.target /\ job'.queue = job.queue /\ job'.work = job.work
      /\ job'.batch = B /\ job' \in JobRec
  BY <1>1, <1>3, <1>t, RecTypes DEF JobRec, ReadCurrent
<1>5. FrontInv'
  BY <1>4, <1>t, <1>u DEF FrontInv, Opened, Reading, AtScan
<1>6. DoneInv'
  BY <1>4 DEF DoneInv, Reading
<1> QED BY <1>1, <1>4, <1>5, <1>6, <1>u, QuietJob

LEMMA OpenDateStep ==
  ASSUME RiskIInv, OpenDate
  PROVE  RiskIInv'
<1>t. TypeOK /\ WorkInv /\ FrontInv /\ NothingLost
  BY DEF RiskIInv
<1>u. UNCHANGED Tables /\ UNCHANGED <<day, model, switches>>
  BY DEF OpenDate, Tables
<1> DEFINE d == job.date
<1>n. /\ d \in Nat /\ since \in Nat /\ state.next \in Nat /\ state.replay \in Nat
      /\ state.inflight \in Nat /\ job.target \in Nat /\ day \in Nat /\ LastDay \in Nat
      /\ day <= LastDay
  BY <1>t, RecTypes
<1>1. /\ job.pc = "date" /\ d <= job.target /\ d # NoDay /\ job.target <= LastDay
      /\ job.mode = "incremental"
      /\ state.next # NoDay => d <= state.next
      /\ state.next = NoDay /\ since # NoDay => d <= since
      /\ state.next # NoDay /\ d < since => state.replay # NoDay
  BY <1>t, RecTypes DEF OpenDate, FrontInv
<1>2. d \in Day
  BY <1>1, <1>n DEF Day, NoDay
<1>3. /\ state'.inflight = d /\ state'.replay = NoDay /\ state'.items = state.items
      /\ state'.next = IF state.replay # NoDay THEN d ELSE state.next
      /\ state' \in StateRec
  <2>1. d \in 0..LastDay + 1 /\ NoDay \in 0..LastDay + 1
    BY <1>1, <1>n DEF NoDay
  <2> HIDE DEF d
  <2> QED BY <2>1, <1>t, RecTypes DEF StateRec, OpenDate, d
<1>4. /\ job'.pc = "scan_end" /\ job'.date = d /\ job'.mode = job.mode /\ job'.target = job.target
      /\ job'.queue = job.queue /\ job'.work = job.work /\ job'.batch = job.batch
      /\ job' \in JobRec
  BY <1>t, RecTypes DEF JobRec, OpenDate
<1>5. since' = IF since = NoDay \/ d < since THEN d ELSE since
  BY DEF OpenDate
<1>6. TypeOK'
  <2>1. Cardinality(job.work) <= 1 /\ day \in Day /\ since \in Day \union {NoDay}
    BY <1>t DEF TypeOK
  <2>2. since' \in Day \union {NoDay}
    BY <1>2, <1>5, <2>1
  <2> QED BY <1>3, <1>4, <1>t, <1>u, <2>1, <2>2, TypeNext
<1>7. WorkInv'
  BY <1>3, <1>4, <1>t, <1>u, TablesKeep DEF WorkInv
<1>8. /\ state'.next # NoDay => since' # NoDay /\ since' <= state'.next
      /\ state'.next = NoDay => state'.inflight = since'
      /\ since' # NoDay /\ since' <= d
      /\ state'.next # NoDay => d <= state'.next
  <2>1. state.next # NoDay => since # NoDay /\ since <= state.next
    BY <1>t DEF FrontInv
  <2> HIDE DEF d
  <2> QED BY <2>1, <1>1, <1>3, <1>5, <1>n DEF NoDay
<1>9. FrontInv'
  <2> HIDE DEF d
  <2> QED BY <1>1, <1>3, <1>4, <1>8, <1>u DEF FrontInv, Opened, Reading, AtScan
<1>10. DoneInv'
  BY <1>4 DEF DoneInv, Reading, AtScan
<1>11. NothingLost'
  <2>1. ASSUME NEW k \in 1..Len(delta), Owed(k)', delta[k].date < state'.next
        PROVE  Owed(k) /\ delta[k].date < state.next
    <3> DEFINE e == delta[k].date
    <3>1. e \in Nat /\ ~delta[k].late /\ since' # NoDay /\ since' <= e /\ e < state'.next
      BY <2>1, <1>t, <1>u, RecTypes DEF Owed, Tables
    <3>2. state.next # NoDay => since # NoDay /\ since <= state.next
      BY <1>t DEF FrontInv
    <3> HIDE DEF e, d
    <3>3. since # NoDay /\ since <= e /\ e < state.next
      BY <3>1, <3>2, <1>1, <1>3, <1>5, <1>n DEF NoDay
    <3> QED BY <3>1, <3>3 DEF Owed, e
  <2>2. delta' = delta /\ \A k \in 1..Len(delta) :
          DeltaWork(k)' = DeltaWork(k) /\ (Done(delta[k])' <=> Done(delta[k]))
    BY <1>u, TablesKeep DEF Tables, Done, CurrentSource, CurrentRisk
  <2> QED BY <2>1, <2>2, <1>3, <1>t DEF NothingLost
<1> QED BY <1>u, <1>6, <1>7, <1>9, <1>10, <1>11, JobParts

LEMMA CloseDateStep ==
  ASSUME RiskIInv, CloseDate
  PROVE  RiskIInv'
<1>t. TypeOK /\ WorkInv /\ FrontInv /\ NothingLost /\ DoneInv
  BY DEF RiskIInv
<1>u. UNCHANGED Tables /\ UNCHANGED <<day, model, switches, since>>
  BY DEF CloseDate, Tables
<1> DEFINE d == job.date
<1>n. /\ d \in Nat /\ since \in Nat /\ state.next \in Nat
      /\ state.inflight \in Nat /\ job.target \in Nat /\ day \in Nat /\ LastDay \in Nat
      /\ day <= LastDay
  BY <1>t, RecTypes
<1>1. /\ job.pc = "scan" /\ job.batch = {} /\ job.mode = "incremental"
      /\ d <= job.target /\ d # NoDay /\ job.target <= LastDay /\ state.inflight = d
      /\ state.next # NoDay => d <= state.next
      /\ state.next = NoDay => since = d
      /\ since # NoDay /\ since <= d
  BY <1>t, RecTypes DEF CloseDate, FrontInv, Opened, Reading, AtScan
<1>2. d + 1 \in 0..LastDay + 1 /\ NoDay \in 0..LastDay + 1
  BY <1>1, <1>n DEF NoDay
<1>3. /\ state'.next = IF state.next > d + 1 THEN state.next ELSE d + 1
      /\ state'.inflight = NoDay /\ state'.replay = state.replay /\ state'.items = state.items
      /\ state' \in StateRec
  <2> HIDE DEF d
  <2> QED BY <1>2, <1>t, RecTypes DEF StateRec, CloseDate, d
<1>4. /\ job'.pc = "date" /\ job'.date = d + 1 /\ job'.mode = job.mode /\ job'.target = job.target
      /\ job'.queue = job.queue /\ job'.work = job.work /\ job'.batch = job.batch
      /\ job' \in JobRec
  BY <1>2, <1>t, RecTypes DEF JobRec, CloseDate
<1>6. TypeOK'
  <2>1. Cardinality(job.work) <= 1 /\ day \in Day /\ since \in Day \union {NoDay}
    BY <1>t DEF TypeOK
  <2> QED BY <1>3, <1>4, <1>t, <1>u, <2>1, TypeNext
<1>7. WorkInv'
  BY <1>3, <1>4, <1>t, <1>u, TablesKeep DEF WorkInv
<1>8. /\ state'.next # NoDay /\ since <= state'.next /\ d + 1 <= state'.next
      /\ d + 1 # NoDay /\ ~(d + 1 < since)
  <2> HIDE DEF d
  <2> QED BY <1>1, <1>3, <1>n DEF NoDay
<1>9. FrontInv'
  <2> HIDE DEF d
  <2> QED BY <1>1, <1>3, <1>4, <1>8, <1>u DEF FrontInv, Opened, Reading, AtScan
<1>10. DoneInv'
  BY <1>4 DEF DoneInv, Reading, AtScan
<1>11. NothingLost'
  <2>1. ASSUME NEW k \in 1..Len(delta), Owed(k), delta[k].date < state'.next
        PROVE  Done(delta[k]) \/ DeltaWork(k) \in state.items
    <3> DEFINE e == delta[k].date
    <3>1. e \in Nat /\ since <= e /\ e < state'.next
      BY <2>1, <1>t, RecTypes DEF Owed
    <3> HIDE DEF e, d
    <3>2. e < state.next \/ e = d
      BY <3>1, <1>1, <1>3, <1>n DEF NoDay
    <3>3. CASE e < state.next
      BY <3>3, <2>1, <1>t DEF NothingLost, e
    <3>4. CASE e = d
      <4>1. Reading
        BY <1>1 DEF Reading, AtScan
      <4> QED BY <4>1, <3>4, <2>1, <1>1, <1>t DEF DoneInv, e, d
    <3> QED BY <3>2, <3>3, <3>4
  <2>2. delta' = delta /\ \A k \in 1..Len(delta) :
          /\ DeltaWork(k)' = DeltaWork(k) /\ (Done(delta[k])' <=> Done(delta[k]))
          /\ Owed(k)' <=> Owed(k)
    BY <1>u, TablesKeep DEF Tables, Done, CurrentSource, CurrentRisk, Owed
  <2> QED BY <2>1, <2>2, <1>3 DEF NothingLost
<1> QED BY <1>u, <1>6, <1>7, <1>9, <1>10, <1>11, JobParts

(***************************************************************************)
(* The steps around the job                                                *)
(***************************************************************************)
LEMMA CommitVersionStep ==
  ASSUME RiskIInv, NEW s \in Subject, NEW type \in {"LIVE", "DELETED"}, NEW p \in Payload,
         CommitVersion(s, type, p)
  PROVE  RiskIInv'
<1> DEFINE v == [subject |-> s, type |-> type, payload |-> p]
           n == Len(rows)
<1>t. TypeOK /\ DeltaInv /\ WorkInv /\ RiskInv /\ FrontInv /\ DoneInv /\ NoDuplicates /\ NothingLost
  BY DEF RiskIInv
<1>u. UNCHANGED <<day, model, switches, delta, risk, state, job, since>> /\ rows' = Append(rows, v)
  BY DEF CommitVersion
<1>v. v \in Version
  BY DEF Version
<1> HIDE DEF v
<1>1. /\ n \in Nat /\ rows \in Seq(Version) /\ rows' \in Seq(Version) /\ Len(rows') = n + 1
      /\ \A i \in 1..n : rows'[i] = rows[i]
  BY <1>t, <1>u, <1>v, TableTypes, AppendIs
<1>2. ASSUME NEW r \in 1..n, CurrentSource(rows[r].subject)' = r
      PROVE  CurrentSource(rows[r].subject) = r
  <2> DEFINE x == rows[r].subject
             c == SourceIn(rows, x)
  <2>0. SourceIn(rows', x) = r
    <3>1. rows'[r] = rows[r]
      BY <1>1
    <3>2. CurrentSource(rows[r].subject)' = SourceIn(rows', rows'[r].subject)
      BY ReadsAre
    <3> QED BY <3>1, <3>2, <1>2
  <2>1. c \in 1..n /\ r <= c /\ rows[c].subject = x
    BY <1>1, SourceIs DEF None
  <2>2. \A i \in 1..Len(rows') : rows'[i].subject = x => i <= r
    BY <1>1, <2>0, SourceIs
  <2>3. c <= r
    BY <2>1, <2>2, <1>1
  <2>4. c = r
    BY <2>1, <2>3, <1>1
  <2> QED BY <2>4, ReadsAre
<1>r. \A k \in 1..Len(risk) : risk[k].row \in 1..n /\ risk[k].subject = rows[risk[k].row].subject
  BY <1>t, RowType DEF RiskInv
<1>d. \A k \in 1..Len(delta) : delta[k].row \in 1..n /\ delta[k].subject = rows[delta[k].row].subject
  BY <1>t, TableTypes DEF DeltaInv, DeltaRow
<1>c. \A x : CurrentRisk(x)' = CurrentRisk(x)
  BY <1>u DEF CurrentRisk
<1>3. TypeOK'
  <2>1. RiskRow(n) \subseteq RiskRow(n + 1) /\ DeltaRow(n) \subseteq DeltaRow(n + 1)
    BY <1>1 DEF RiskRow, DeltaRow
  <2>2. risk \in Seq(RiskRow(n + 1)) /\ delta \in Seq(DeltaRow(n + 1))
    BY <2>1, <1>t, TableTypes, WiderSeq
  <2>3. /\ day \in Day /\ model \in Model /\ switches \in 0..MaxSwitch /\ since \in Day \union {NoDay}
        /\ state \in StateRec /\ job \in JobRec /\ Cardinality(job.work) <= 1
    BY <1>t, RecTypes DEF TypeOK
  <2>4. /\ day' \in Day /\ model' \in Model /\ switches' \in 0..MaxSwitch /\ since' \in Day \union {NoDay}
        /\ state' \in StateRec /\ job' \in JobRec /\ Cardinality(job'.work) <= 1
        /\ risk' \in Seq(RiskRow(Len(rows'))) /\ delta' \in Seq(DeltaRow(Len(rows')))
    BY <2>2, <2>3, <1>u, <1>1
  <2> QED BY <2>4, <1>1, TypeParts
<1>4. DeltaInv'
  BY <1>t, <1>u, <1>1, <1>d DEF DeltaInv
<1>5. (\A k : DeltaWork(k)' = DeltaWork(k)) /\ \A i \in 1..n : CurrentWork(i)' = CurrentWork(i)
  BY <1>u, <1>1 DEF DeltaWork, CurrentWork
<1>6. WorkInv'
  <2>1. Known \subseteq Known'
    BY <1>1, <1>5, <1>u DEF Known
  <2> QED BY <2>1, <1>t, <1>u DEF WorkInv
<1>7. RiskInv'
  <2>1. ASSUME NEW k \in 1..Len(risk)
        PROVE  /\ risk[k].subject = rows'[risk[k].row].subject
               /\ rows'[risk[k].row].type # "DELETED"
               /\ risk[k].row = CurrentSource(risk[k].subject)' =>
                    \E j \in CurrentRisk(risk[k].subject) : risk[j].row = risk[k].row /\ k <= j
               /\ risk[k].current => CurrentRisk(risk[k].subject) = {k}
    <3>1. rows'[risk[k].row] = rows[risk[k].row]
      BY <1>1, <1>r
    <3>2. risk[k].row = CurrentSource(risk[k].subject)' => risk[k].row = CurrentSource(risk[k].subject)
      <4>1. /\ CurrentSource(risk[k].subject)' = SourceIn(rows', risk'[k].subject)
            /\ CurrentSource(rows[risk[k].row].subject)' = SourceIn(rows', rows'[risk'[k].row].subject)
        BY ReadsAre
      <4>2. CurrentSource(risk[k].subject)' = CurrentSource(rows[risk[k].row].subject)'
        BY <4>1, <3>1, <1>r, <1>u
      <4>3. ASSUME NEW r \in 1..n, SourceIn(rows', rows[r].subject) = r
            PROVE  CurrentSource(rows[r].subject) = r
        <5>1. CurrentSource(rows[r].subject)' = SourceIn(rows', rows'[r].subject)
          BY ReadsAre
        <5> QED BY <4>3, <5>1, <1>1, <1>2
      <4> QED BY <4>1, <4>3, <1>r, <1>u
    <3> QED BY <3>1, <3>2, <1>t DEF RiskInv
  <2> QED BY <2>1, <1>c, <1>u DEF RiskInv
<1>8. NoDuplicates' /\ FrontInv'
  BY <1>t, <1>u DEF NoDuplicates, FrontInv, Opened, Reading, AtScan
<1>9. \A k \in 1..Len(delta) : Done(delta[k]) => Done(delta[k])'
  <2> TAKE k \in 1..Len(delta)
  <2> HAVE Done(delta[k])
  <2>1. SourceIn(rows', delta[k].subject) = delta[k].row => CurrentSource(delta[k].subject) = delta[k].row
    <3> DEFINE r == delta[k].row
    <3>1. CurrentSource(rows[r].subject)' = SourceIn(rows', rows'[delta'[k].row].subject)
      BY ReadsAre
    <3>2. rows'[delta'[k].row].subject = delta[k].subject
      BY <1>1, <1>d, <1>u
    <3>3. r \in 1..n /\ delta[k].subject = rows[r].subject
      BY <1>d
    <3>4. ASSUME NEW q \in 1..n, SourceIn(rows', rows[q].subject) = q
          PROVE  CurrentSource(rows[q].subject) = q
      <4>1. CurrentSource(rows[q].subject)' = SourceIn(rows', rows'[q].subject)
        BY ReadsAre
      <4> QED BY <3>4, <4>1, <1>1, <1>2
    <3> QED BY <3>3, <3>4
  <2>2. CurrentSource(delta[k].subject)' = SourceIn(rows', delta[k].subject)
    BY <1>u DEF CurrentSource, SourceIn, Largest
  <2> QED BY <2>1, <2>2, <1>c, <1>u DEF Done, CurrentRisk
<1>10. DoneInv'
  BY <1>9, <1>5, <1>t, <1>u DEF DoneInv, Reading, AtScan, Owed
<1>11. NothingLost'
  BY <1>9, <1>5, <1>t, <1>u DEF NothingLost, Owed
<1> QED BY <1>3, <1>4, <1>6, <1>7, <1>8, <1>10, <1>11 DEF RiskIInv

LEMMA GenerateDeltaStep ==
  ASSUME RiskIInv, NEW i \in 1..Len(rows), NEW d \in Day, GenerateDelta(i, d)
  PROVE  RiskIInv'
<1> DEFINE a == [subject |-> rows[i].subject, row |-> i, date |-> d,
                 action |-> IF rows[i].type = "DELETED" THEN "DELETE" ELSE "UPDATE",
                 late |-> d < state.next \/ Scanning(d)]
<1>t. TypeOK /\ DeltaInv /\ WorkInv /\ RiskInv /\ FrontInv /\ DoneInv /\ NoDuplicates /\ NothingLost
  BY DEF RiskIInv
<1>u. UNCHANGED <<day, model, switches, rows, risk, state, job, since>> /\ delta' = Append(delta, a)
  BY DEF GenerateDelta
<1>a. /\ a \in DeltaRow(Len(rows)) /\ a.row = i /\ a.date = d /\ a.subject = rows[i].subject
      /\ a.action = "DELETE" <=> rows[i].type = "DELETED"
      /\ a.late <=> d < state.next \/ Scanning(d)
  <2>1. rows[i].subject \in Subject
    BY <1>t, TableTypes DEF Version
  <2>2. (d < state.next \/ Scanning(d)) \in BOOLEAN
    BY DEF Scanning
  <2> QED BY <2>1, <2>2 DEF DeltaRow
<1> HIDE DEF a
<1>n. PICK n \in Nat : n = Len(delta)
  BY <1>t, TableTypes
<1>1. /\ n \in Nat /\ n = Len(delta) /\ delta' \in Seq(DeltaRow(Len(rows))) /\ Len(delta') = n + 1
      /\ \A k \in 1..n : delta'[k] = delta[k]
      /\ delta'[n + 1] = a
  <2> DEFINE T == DeltaRow(Len(rows))
  <2>1. a \in T /\ delta \in Seq(T)
    BY <1>a, <1>t, TableTypes
  <2> HIDE DEF T
  <2>2. delta' \in Seq(T) /\ Len(delta') = n + 1 /\ n \in Nat
        /\ (\A k \in 1..n : delta'[k] = delta[k]) /\ delta'[n + 1] = a
    BY <2>1, <1>u, <1>n, AppendIs
  <2> QED BY <2>2, <1>n DEF T
<1>2. 1..(n + 1) = 1..n \union {n + 1}
  BY <1>1
<1>3. TypeOK'
  <2>1. /\ day \in Day /\ model \in Model /\ switches \in 0..MaxSwitch /\ since \in Day \union {NoDay}
        /\ state \in StateRec /\ job \in JobRec /\ Cardinality(job.work) <= 1
        /\ rows \in Seq(Version) /\ risk \in Seq(RiskRow(Len(rows)))
    BY <1>t, RecTypes, TableTypes DEF TypeOK
  <2>2. /\ day' \in Day /\ model' \in Model /\ switches' \in 0..MaxSwitch /\ since' \in Day \union {NoDay}
        /\ state' \in StateRec /\ job' \in JobRec /\ Cardinality(job'.work) <= 1
        /\ rows' \in Seq(Version) /\ risk' \in Seq(RiskRow(Len(rows')))
        /\ delta' \in Seq(DeltaRow(Len(rows')))
    BY <2>1, <1>u, <1>1
  <2> QED BY <2>2, TypeParts
<1>4. DeltaInv'
  <2>1. \A k \in 1..(n + 1) :
          /\ delta'[k].subject = rows[delta'[k].row].subject
          /\ delta'[k].action = "DELETE" <=> rows[delta'[k].row].type = "DELETED"
    BY <1>t, <1>1, <1>2, <1>a DEF DeltaInv
  <2> QED BY <2>1, <1>1, <1>u DEF DeltaInv
<1>5. (\A k \in 1..n : DeltaWork(k)' = DeltaWork(k)) /\ \A j : CurrentWork(j)' = CurrentWork(j)
  BY <1>u, <1>1 DEF DeltaWork, CurrentWork
<1>6. WorkInv'
  <2>1. Known \subseteq Known'
    BY <1>1, <1>2, <1>5, <1>u DEF Known
  <2> QED BY <2>1, <1>t, <1>u DEF WorkInv
<1>7. RiskInv'
  <2>1. \A s : CurrentSource(s)' = CurrentSource(s) /\ CurrentRisk(s)' = CurrentRisk(s)
    BY <1>u DEF CurrentSource, CurrentRisk
  <2> QED BY <2>1, <1>t, <1>u DEF RiskInv
<1>8. NoDuplicates' /\ FrontInv'
  BY <1>t, <1>u DEF NoDuplicates, FrontInv, Opened, Reading, AtScan
<1>9. \A k \in 1..n : /\ (Done(delta[k])' <=> Done(delta[k]))
                      /\ (Owed(k)' <=> Owed(k))
  BY <1>u, <1>1 DEF Done, CurrentSource, CurrentRisk, Owed
<1>10. Owed(n + 1)' => ~(d < state.next) /\ ~Scanning(d)
  BY <1>1, <1>a DEF Owed
<1>11. NothingLost'
  <2>1. ASSUME NEW k \in 1..n, Owed(k)', delta'[k].date < state.next
        PROVE  Done(delta[k])' \/ DeltaWork(k)' \in state.items
    BY <2>1, <1>1, <1>5, <1>9, <1>t DEF NothingLost
  <2>2. ~(Owed(n + 1)' /\ delta'[n + 1].date < state.next)
    BY <1>1, <1>10, <1>a
  <2>3. Len(delta') = n + 1 /\ state' = state
    BY <1>1, <1>u
  <2> QED BY <2>1, <2>2, <2>3, <1>2 DEF NothingLost
<1>12. DoneInv'
  <2>1. ASSUME Reading, NEW k \in 1..n, Owed(k)', delta'[k].date = job.date
        PROVE  Done(delta[k])' \/ DeltaWork(k)' \in state.items \union job.batch
    BY <2>1, <1>1, <1>5, <1>9, <1>t DEF DoneInv
  <2>2. Reading => ~(Owed(n + 1)' /\ delta'[n + 1].date = job.date)
    BY <1>1, <1>10, <1>a DEF Reading, AtScan, Scanning
  <2>3. ASSUME job.pc = "record", ~job.failed, NEW k \in 1..n, DeltaWork(k)' \in job.work
        PROVE  Done(delta[k])'
    BY <2>3, <1>1, <1>5, <1>9, <1>t DEF DoneInv
  <2>4. DeltaWork(n + 1)' \notin job.work
    <3>1. DeltaWork(n + 1)'.key = <<"incremental", n + 1>>
      BY <1>u DEF DeltaWork
    <3>2. ASSUME NEW w \in Known, w.key = <<"incremental", n + 1>>
          PROVE  FALSE
      <4>1. w.key[1] = "incremental" /\ w.key[2] = n + 1
        BY <3>2
      <4>2. CASE w \in {DeltaWork(k) : k \in 1..n}
        BY <4>1, <4>2, <1>1, DeltaWorkIs
      <4>3. CASE w \in {CurrentWork(j) : j \in 1..Len(rows)}
        BY <4>1, <4>3, CurrentWorkIs
      <4> QED BY <3>2, <4>2, <4>3, <1>1 DEF Known
    <3> QED BY <3>1, <3>2, <1>t DEF WorkInv
  <2>5. (Reading' <=> Reading) /\ job' = job /\ state' = state /\ Len(delta') = n + 1
    BY <1>u, <1>1 DEF Reading, AtScan
  <2>6. ASSUME Reading', NEW k \in 1..(n + 1), Owed(k)', delta'[k].date = job.date
        PROVE  Done(delta[k])' \/ DeltaWork(k)' \in state.items \union job.batch
    BY <2>1, <2>2, <2>5, <2>6, <1>2
  <2>7. ASSUME job.pc = "record", ~job.failed, NEW k \in 1..(n + 1), DeltaWork(k)' \in job.work
        PROVE  Done(delta[k])'
    BY <2>3, <2>4, <2>7, <1>2
  <2> QED BY <2>5, <2>6, <2>7 DEF DoneInv
<1> QED BY <1>3, <1>4, <1>6, <1>7, <1>8, <1>11, <1>12 DEF RiskIInv

LEMMA MidnightStep ==
  ASSUME RiskIInv, Midnight
  PROVE  RiskIInv'
<1>t. TypeOK /\ WorkInv /\ FrontInv /\ DoneInv
  BY DEF RiskIInv
<1>u. UNCHANGED Tables /\ UNCHANGED <<model, switches, state, job, since>> /\ day' = day + 1 /\ day < LastDay
  BY DEF Midnight, Tables
<1>1. TypeOK'
  <2>1. /\ since \in Day \union {NoDay} /\ state \in StateRec /\ job \in JobRec
        /\ Cardinality(job.work) <= 1
    BY <1>t, RecTypes DEF TypeOK
  <2>2. day' \in Day
    BY <1>t, <1>u, RecTypes DEF Day
  <2> QED BY <1>t, <1>u, <2>1, <2>2, TypeNext
<1>2. WorkInv'
  BY <1>t, <1>u, TablesKeep DEF WorkInv
<1>3. FrontInv'
  BY <1>t, <1>u DEF FrontInv, Opened, Reading, AtScan
<1>4. DoneInv'
  <2>1. \A k : /\ (Done(delta[k])' <=> Done(delta[k])) /\ (Owed(k)' <=> Owed(k))
               /\ DeltaWork(k)' = DeltaWork(k)
    BY <1>u DEF Done, CurrentSource, CurrentRisk, Owed, DeltaWork, Tables
  <2> QED BY <2>1, <1>t, <1>u DEF DoneInv, Reading, AtScan, Tables
<1> QED BY <1>u, <1>1, <1>2, <1>3, <1>4, JobParts, NothingLostKeeps

(***************************************************************************)
(* The theorems                                                            *)
(***************************************************************************)
LEMMA RiskInit ==
  ASSUME Init
  PROVE  RiskIInv
<1>1. /\ rows = <<>> /\ delta = <<>> /\ risk = <<>> /\ day = 1 /\ model \in Model /\ switches = 0 /\ since = NoDay
      /\ job = Idle
      /\ state.items = {} /\ state.next = NoDay /\ state.inflight = NoDay /\ state \in StateRec
  <2>1. NoDay \in 0..LastDay + 1 /\ 1 \in 0..LastDay + 1
    BY RiskAssumption DEF NoDay
  <2> QED BY <2>1 DEF Init, StateRec
<1>2. /\ job.pc = "idle" /\ job.queue = {} /\ job.batch = {} /\ job.work = {} /\ job.target = 0
      /\ job \in JobRec
  <2>1. 0 \in 0..LastDay + 1 /\ 0 \in 0..LastDay
    BY RiskAssumption
  <2> QED BY <1>1, <2>1 DEF Idle, JobRec, NoDay
<1>3. TypeOK
  <2>1. Cardinality(job.work) <= 1
    BY <1>2, FS_EmptySet
  <2>2. day \in Day /\ model \in Model /\ switches \in 0..MaxSwitch /\ since \in Day \union {NoDay}
    BY <1>1, RiskAssumption DEF Day
  <2> QED BY <1>1, <1>2, <2>1, <2>2 DEF TypeOK, JobRec, StateRec
<1>4. Len(risk) = 0 /\ Len(delta) = 0
  BY <1>1
<1>5. DeltaInv /\ RiskInv /\ NoDuplicates /\ NothingLost /\ DoneInv
  BY <1>4 DEF DeltaInv, RiskInv, NoDuplicates, NothingLost, DoneInv
<1>6. WorkInv
  BY <1>1, <1>2 DEF WorkInv
<1>7. FrontInv
  BY <1>1, <1>2 DEF FrontInv, Opened, Reading, AtScan, NoDay
<1> QED BY <1>3, <1>5, <1>6, <1>7 DEF RiskIInv

LEMMA AttemptIs ==
  ASSUME RiskIInv, NEW failed \in BOOLEAN, Retry(failed) \/ Scan(failed)
  PROVE  \E w \in job.queue \union job.batch : Attempt(w, failed) /\ job.pc \in {"queue", "scan"}
<1>1. TypeOK /\ job.queue \in SUBSET Known /\ job.batch \in SUBSET Known
  BY DEF RiskIInv, WorkInv
<1> QED BY <1>1, FirstIs DEF Retry, Scan

LEMMA RiskStep ==
  ASSUME RiskIInv, [Next]_vars
  PROVE  RiskIInv'
<1>1. CASE UNCHANGED vars
  <2>1. UNCHANGED Tables /\ UNCHANGED <<day, state, job, since>>
    BY <1>1 DEF vars, Tables
  <2>2. TypeOK' /\ WorkInv' /\ FrontInv' /\ DoneInv'
    <3>t. TypeOK /\ WorkInv /\ FrontInv /\ DoneInv
      BY DEF RiskIInv
    <3>1. TypeOK' /\ FrontInv'
      BY <1>1, <3>t DEF vars, TypeOK, FrontInv, Opened, Reading, AtScan
    <3>2. WorkInv'
      BY <2>1, <3>t, TablesKeep DEF WorkInv
    <3>3. \A k : /\ (Done(delta[k])' <=> Done(delta[k])) /\ (Owed(k)' <=> Owed(k))
                 /\ DeltaWork(k)' = DeltaWork(k)
      BY <2>1 DEF Done, CurrentSource, CurrentRisk, Owed, DeltaWork, Tables
    <3>4. DoneInv'
      BY <2>1, <3>3, <3>t DEF DoneInv, Reading, AtScan, Tables
    <3> QED BY <3>1, <3>2, <3>4
  <2> QED BY <2>1, <2>2, JobParts, NothingLostKeeps
<1>2. CASE Environment
  BY <1>2, CommitVersionStep, GenerateDeltaStep, MidnightStep DEF Environment
<1>3. CASE Begin
  BY <1>3, StartStep DEF Begin
<1>4. CASE Step
  <2>1. ASSUME NEW failed \in BOOLEAN, Retry(failed) \/ Scan(failed) PROVE RiskIInv'
    BY <2>1, AttemptIs, AttemptStep
  <2>2. CASE Finish
    BY <2>2, IdleJob DEF Finish
  <2> QED BY <1>4, <2>1, <2>2, RecordStep, FrontierStep, OpenDateStep, ReadDateStep,
             CloseDateStep, ReadCurrentStep DEF Step
<1>5. CASE Stop
  BY <1>5, IdleJob DEF Stop
<1> QED BY <1>1, <1>2, <1>3, <1>4, <1>5 DEF Next

\* The tables, the state file and the running job fit together: the invariant on
\* which the three theorems rest.
THEOREM RiskInductive == Spec => []RiskIInv
<1>1. Init => RiskIInv
  BY RiskInit
<1>2. RiskIInv /\ [Next]_vars => RiskIInv'
  BY RiskStep
<1> QED BY <1>1, <1>2, PTL DEF Spec

\* The same result for the same version is inserted again only after another
\* result for it, however often its date is scanned again or its entry retried,
\* whichever classifier each run is started with and whatever results they share.
THEOREM AssessedOnce == Spec => []NoDuplicates
<1>1. RiskIInv => NoDuplicates
  BY DEF RiskIInv
<1> QED BY <1>1, RiskInductive, PTL

\* Behind the frontier every owed action is done or queued, whatever failed and
\* wherever the process died.
THEOREM NoActionLost == Spec => []NothingLost
<1>1. RiskIInv => NothingLost
  BY DEF RiskIInv
<1> QED BY <1>1, RiskInductive, PTL

\* Older work that comes late never takes the place of a newer assessment, nor the
\* empty place that a deletion left.
THEOREM NewestAssessmentStays == Spec => NeverDisplaced
<1>1. ASSUME RiskIInv, [Next]_vars
      PROVE  [Stays]_vars
  <2>1. CASE risk' = risk
    BY <1>1, <2>1, SameStays DEF RiskIInv
  <2>2. CASE risk' # risk
    <3>1. PICK failed \in BOOLEAN : Retry(failed) \/ Scan(failed)
      BY <1>1, <2>2 DEF Next, vars, Environment, CommitVersion, GenerateDelta, Midnight,
         Begin, Start, Step, Record, Frontier, OpenDate, ReadDate, CloseDate, ReadCurrent, Finish, Stop
    <3>2. PICK w \in job.queue \union job.batch : Attempt(w, failed)
      BY <1>1, <3>1, AttemptIs
    <3>3. w \in Known
      BY <1>1 DEF RiskIInv, WorkInv
    <3> QED BY <1>1, <3>2, <3>3, AttemptTable
  <2> QED BY <2>1, <2>2
<1> QED BY <1>1, RiskInductive, PTL DEF Spec, NeverDisplaced, Stays
==============================================================================
