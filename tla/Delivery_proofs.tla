---------------------------- MODULE Delivery_proofs ----------------------------
(***************************************************************************)
(* Proofs about Delivery, for any members, spoke tables, days and runs.    *)
(*                                                                         *)
(* DeliveryIInv is inductive whatever overlaps: runs of the job, the tools *)
(* of an operator, and ingestion. JobIInv is inductive for a job that is   *)
(* alone: the days whose actions it has yet to generate have none.         *)
(***************************************************************************)
EXTENDS Delivery, Induction_proofs

(***************************************************************************)
(* Reading Core                                                            *)
(***************************************************************************)
LEMMA NewestIs ==
  ASSUME NEW b \in Nat, NEW S \in SUBSET (1..b), S # {}
  PROVE  Newest(S) \in S /\ \A k \in S : k <= Newest(S)
<1>1. \E i \in S : \A k \in S : k <= i
  <2>1. S \in SUBSET Nat /\ \A n \in S : n <= b
    OBVIOUS
  <2> QED BY <2>1, GreatestNatural
<1> QED BY <1>1 DEF Newest

LEMMA OldestIs ==
  ASSUME NEW b \in Nat, NEW S \in SUBSET (1..b), S # {}
  PROVE  Oldest(S) \in S /\ \A k \in S : Oldest(S) <= k
<1>1. \E i \in S : \A k \in S : i <= k
  <2>1. S \in SUBSET Nat
    OBVIOUS
  <2> QED BY <2>1, LeastNatural
<1> QED BY <1>1 DEF Oldest

LEMMA NewestOnly ==
  ASSUME NEW b \in Nat, NEW S \in SUBSET (1..b), NEW i \in S, \A k \in S : k <= i
  PROVE  Newest(S) = i
<1>1. Newest(S) \in S /\ \A k \in S : k <= Newest(S)
  BY NewestIs
<1>2. S \subseteq Nat
  OBVIOUS
<1>3. Newest(S) <= i /\ i <= Newest(S) /\ Newest(S) \in Nat /\ i \in Nat
  BY <1>1, <1>2
<1> QED BY <1>3

LEMMA RowsAre ==
  ASSUME TypeOK
  PROVE  /\ Len(rows) \in Nat /\ Ids = 1..Len(rows) /\ LastDay \in Nat /\ Day = 1..LastDay
         /\ \A i \in Ids : /\ rows[i].member \in Member /\ rows[i].day \in Day
                           /\ rows[i].type \in {"NEW", "UPDATED", "DELETED"}
         /\ \A m : VersionsOf(m) \in SUBSET (1..Len(rows))
         /\ \A m, d : VersionsOn(m, d) \in SUBSET (1..Len(rows))
<1>1. rows \in Seq(Version)
  BY DEF TypeOK
<1>2. Len(rows) \in Nat /\ Ids = 1..Len(rows) /\ LastDay \in Nat /\ Day = 1..LastDay
  BY <1>1, DeliveryAssumption DEF Ids, Day
<1>3. ASSUME NEW i \in Ids PROVE rows[i] \in Version
  BY <1>1, <1>2
<1>4. \A m, d : VersionsOf(m) \in SUBSET (1..Len(rows)) /\ VersionsOn(m, d) \in SUBSET (1..Len(rows))
  BY <1>2 DEF VersionsOf, VersionsOn
<1> QED BY <1>2, <1>3, <1>4 DEF Version

LEMMA CurrentIs ==
  ASSUME TypeOK, NEW i \in Ids
  PROVE  IsCurrent(i) <=> \A k \in Ids : rows[k].member = rows[i].member => k <= i
<1> DEFINE S == VersionsOf(rows[i].member)
<1>1. i \in S /\ S \in SUBSET (1..Len(rows)) /\ Len(rows) \in Nat
  BY RowsAre DEF VersionsOf
<1>2. Newest(S) \in S /\ \A k \in S : k <= Newest(S)
  BY <1>1, NewestIs
<1>3. (\A k \in S : k <= i) => Newest(S) = i
  BY <1>1, NewestOnly
<1> QED BY <1>2, <1>3 DEF IsCurrent, VersionsOf

\* What the matrix says of a day, member by member.
LEMMA DeltaOfIs ==
  ASSUME TypeOK, NEW d
  PROVE  /\ DeltaOf(d) \in SUBSET ActionRow
         /\ \A a \in DeltaOf(d) :
              /\ a.row \in Ids /\ rows[a.row].member = a.member /\ rows[a.row].day = d
              /\ a.action = "DELETE" <=> rows[a.row].type = "DELETED"
              /\ \A b \in DeltaOf(d) : a.member = b.member => a = b
<1>1. ASSUME NEW a \in DeltaOf(d)
      PROVE  LET S == VersionsOn(a.member, d) IN
               /\ a \in [action : {"ADD", "UPDATE", "DELETE"}, member : Member, row : Ids]
               /\ a.row = Newest(S) /\ a.row \in S
               /\ a.action = Action(rows[Oldest(S)].type, rows[a.row].type)
               /\ rows[Oldest(S)].type \in {"NEW", "UPDATED", "DELETED"}
               /\ rows[a.row].type \in {"NEW", "UPDATED", "DELETED"}
  <2> DEFINE S == VersionsOn(a.member, d)
  <2>1. /\ a \in [action : {"ADD", "UPDATE", "DELETE"}, member : Member, row : Ids]
        /\ S # {} /\ a.row = Newest(S)
        /\ a.action = Action(rows[Oldest(S)].type, rows[Newest(S)].type)
    BY DEF DeltaOf
  <2>2. S \in SUBSET (1..Len(rows)) /\ Len(rows) \in Nat
    BY RowsAre
  <2> HIDE DEF S
  <2>3. Newest(S) \in S /\ Oldest(S) \in S
    BY <2>1, <2>2, NewestIs, OldestIs
  <2>4. Newest(S) \in Ids /\ Oldest(S) \in Ids
    BY <2>2, <2>3, RowsAre
  <2> QED BY <2>1, <2>3, <2>4, RowsAre DEF S
<1>2. ASSUME NEW a \in DeltaOf(d)
      PROVE  a.row \in Ids /\ rows[a.row].member = a.member /\ rows[a.row].day = d
  BY <1>1 DEF VersionsOn, VersionsOf
<1>3. ASSUME NEW a \in DeltaOf(d)
      PROVE  a.action = "DELETE" <=> rows[a.row].type = "DELETED"
  <2> DEFINE first == rows[Oldest(VersionsOn(a.member, d))].type
             last  == rows[a.row].type
  <2>1. /\ a.action = Action(first, last) /\ a.action \in {"ADD", "UPDATE", "DELETE"}
        /\ first \in {"NEW", "UPDATED", "DELETED"} /\ last \in {"NEW", "UPDATED", "DELETED"}
    BY <1>1
  <2> HIDE DEF first, last
  <2>2. a.action = "DELETE" <=> last = "DELETED"
    BY <2>1 DEF Action
  <2> QED BY <2>2 DEF last
<1>4. ASSUME NEW a \in DeltaOf(d), NEW b \in DeltaOf(d), a.member = b.member
      PROVE  a = b
  <2>1. a.row = b.row /\ a.action = b.action
    BY <1>1, <1>4
  <2> QED BY <1>1, <1>4, <2>1
<1>5. \A a \in DeltaOf(d) : a \in ActionRow
  BY <1>1, RowsAre DEF ActionRow
<1> QED BY <1>2, <1>3, <1>4, <1>5

(***************************************************************************)
(* The invariant whatever overlaps                                         *)
(***************************************************************************)
LEMMA DeliveryIs ==
  ASSUME DeliveryIInv
  PROVE  /\ TypeOK /\ day \in Day /\ runlog \subseteq Day /\ job \in [Runner -> JobState]
         /\ delta \in [Day -> SUBSET ActionRow] /\ search \subseteq Ids
         /\ \A t \in Table, m \in Member : spoke[t][m] \in Ids \cup {NoRow}
         /\ \A d \in Day : \A a \in delta[d] : a.row \in Ids /\ rows[a.row].member = a.member
  BY DEF DeliveryIInv, TypeOK

LEMMA SpokeIs ==
  ASSUME DeliveryIInv, NEW t \in Table, NEW m \in Member
  PROVE  spoke[t][m] \in Nat /\ spoke[t][m] \in Ids \cup {NoRow} /\ Ids \subseteq Nat
<1>1. NoRow \in Nat
  BY DEF NoRow
<1>2. Ids \subseteq Nat
  BY DeliveryIs, RowsAre
<1> QED BY <1>1, <1>2, DeliveryIs

Ready(j) ==
  j \in JobState /\ (j.pc \in {"generate", "sync", "log"} => j.target \in Day /\ j.latest \in Day)

LEMMA JobIs ==
  ASSUME DeliveryIInv, NEW r \in Runner
  PROVE  Ready(job[r]) /\ job[r] \in JobState
  BY DEF DeliveryIInv, TypeOK, DayInv, Ready

LEMMA JobStep ==
  ASSUME DeliveryIInv, NEW r \in Runner, NEW j, Ready(j), job' = [job EXCEPT ![r] = j]
  PROVE  job' \in [Runner -> JobState] /\ DayInv'
<1>1. \A q \in Runner : job'[q] = (IF q = r THEN j ELSE job[q]) /\ Ready(job[q])
  BY JobIs, DeliveryIs
<1>2. job' \in [Runner -> JobState]
  BY DeliveryIs DEF Ready
<1>3. \A q \in Runner : Ready(job'[q])
  BY <1>1
<1> QED BY <1>2, <1>3 DEF DayInv, Ready, Day

\* A step that touches neither the versions nor what was delivered of them.
LEMMA QuietStep ==
  ASSUME DeliveryIInv, UNCHANGED <<rows, delta, spoke, search>>, day' \in Day, runlog' \subseteq Day,
         job' \in [Runner -> JobState], DayInv'
  PROVE  DeliveryIInv'
<1>1. TypeOK'
  BY DEF DeliveryIInv, TypeOK, Ids
<1>2. RowsInv' /\ DeltaInv' /\ SpokeInv'
  BY DEF DeliveryIInv, RowsInv, DeltaInv, SpokeInv, Ids
<1>3. SearchInv'
  BY DEF DeliveryIInv, SearchInv, IsCurrent, VersionsOf, Ids
<1> QED BY <1>1, <1>2, <1>3 DEF DeliveryIInv

LEMMA CommitVersionStep ==
  ASSUME DeliveryIInv, NEW m \in Member, NEW type \in {"NEW", "UPDATED", "DELETED"},
         NEW tables \in SUBSET Table, NEW d \in Day, CommitVersion(m, type, tables, d)
  PROVE  DeliveryIInv'
<1> DEFINE n == Len(rows)
           v == [member |-> m, type |-> type, day |-> d, tables |-> tables]
<1>1. /\ rows' = Append(rows, v) /\ UNCHANGED <<day, delta, spoke, search, runlog, job>>
      /\ VersionsOf(m) # {} => rows[Newest(VersionsOf(m))].day <= d
      /\ type = "NEW" <=> VersionsOf(m) = {}
  BY DEF CommitVersion
<1>2. TypeOK /\ n \in Nat /\ Ids = 1..n /\ v \in Version /\ v.member = m /\ v.type = type /\ v.day = d
  BY DeliveryIs, RowsAre DEF Version
<1> HIDE DEF v
<1>3. /\ rows' \in Seq(Version) /\ Ids' = Ids \cup {n + 1} /\ n + 1 \notin Ids
      /\ rows'[n + 1] = v /\ \A i \in Ids : rows'[i] = rows[i] /\ i < n + 1
  BY <1>1, <1>2 DEF TypeOK, Ids
<1> HIDE DEF n
<1>4. TypeOK'
  <2>1. \A e \in Day : \A a \in delta[e] : a.row \in Ids /\ rows[a.row].member = a.member
    BY DeliveryIs
  <2>2. \A e \in Day : \A a \in delta'[e] : a.row \in Ids' /\ rows'[a.row].member = a.member
    BY <1>1, <1>3, <2>1
  <2>3. search' \subseteq Ids' /\ spoke' \in [Table -> [Member -> Ids' \union {NoRow}]]
    BY <1>1, <1>2, <1>3 DEF TypeOK
  <2> QED BY <1>1, <1>2, <1>3, <2>2, <2>3 DEF TypeOK
<1>5. RowsInv'
  <2> SUFFICES ASSUME NEW i \in Ids', NEW k \in Ids', rows'[i].member = rows'[k].member, i < k
               PROVE  rows'[i].day <= rows'[k].day /\ rows'[k].type # "NEW"
    BY DEF RowsInv
  <2>1. i \in Ids
    BY <1>2, <1>3
  <2>2. CASE k \in Ids
    BY <1>3, <2>1, <2>2 DEF DeliveryIInv, RowsInv
  <2>3. CASE k = n + 1
    <3> DEFINE S == VersionsOf(m)
               last == Newest(S)
    <3>1. i \in S
      BY <1>2, <1>3, <2>1, <2>3 DEF VersionsOf
    <3>2. last \in S /\ i <= last
      <4>1. S \in SUBSET (1..Len(rows)) /\ Len(rows) \in Nat
        BY <1>2, RowsAre
      <4> HIDE DEF S
      <4> QED BY <3>1, <4>1, NewestIs
    <3>3. last \in Ids /\ rows[last].member = rows[i].member
      BY <3>1, <3>2 DEF VersionsOf
    <3>4. rows[last].day <= d /\ rows[i].day \in Nat /\ rows[last].day \in Nat /\ d \in Nat
      BY <1>1, <1>2, <2>1, <3>1, <3>3, RowsAre
    <3>5. rows[i].day <= rows[last].day
      <4>1. i = last \/ i < last
        BY <1>2, <2>1, <3>2, <3>3
      <4>2. CASE i = last
        BY <3>4, <4>2
      <4>3. CASE i < last
        <5> HIDE DEF last
        <5> QED BY <2>1, <3>3, <4>3 DEF DeliveryIInv, RowsInv
      <4> QED BY <4>1, <4>2, <4>3
    <3> HIDE DEF last
    <3>6. rows[i].day <= d
      BY <3>4, <3>5
    <3> QED BY <1>1, <1>2, <1>3, <2>1, <2>3, <3>1, <3>6
  <2> QED BY <1>3, <2>2, <2>3
<1>6. DeltaInv'
  <2> SUFFICES ASSUME NEW e \in Day, NEW a \in delta[e]
               PROVE  /\ rows'[a.row].day = e /\ (a.action = "DELETE" <=> rows'[a.row].type = "DELETED")
                      /\ \A b \in delta[e] : a.member = b.member => a = b
    BY <1>1 DEF DeltaInv, Day
  <2>1. rows'[a.row] = rows[a.row]
    BY <1>3, DeliveryIs
  <2> QED BY <2>1 DEF DeliveryIInv, DeltaInv
<1>7. SpokeInv'
  <2> SUFFICES ASSUME NEW t \in Table, NEW k \in Member, spoke[t][k] # NoRow
               PROVE  LET w == rows'[spoke[t][k]] IN w.member = k /\ w.type # "DELETED" /\ t \in w.tables
    BY <1>1 DEF SpokeInv
  <2>1. spoke[t][k] \in Ids
    BY DeliveryIs
  <2>2. rows'[spoke[t][k]] = rows[spoke[t][k]]
    BY <1>3, <2>1
  <2> QED BY <2>2 DEF DeliveryIInv, SpokeInv
<1>8. SearchInv'
  <2> SUFFICES ASSUME NEW i \in search, IsCurrent(i)'
               PROVE  \E t \in {NameTable, AliasTable} : spoke'[t][rows'[i].member] = i
    BY <1>1 DEF SearchInv
  <2>1. i \in Ids
    BY DeliveryIs
  <2>2. IsCurrent(i)
    <3> DEFINE S == VersionsOf(rows[i].member)
               T == {k \in Ids' : rows'[k].member = rows'[i].member}
    <3>1. Newest(T) = i
      BY DEF IsCurrent, VersionsOf
    <3>2. T \in SUBSET (1..(n + 1)) /\ T # {} /\ n + 1 \in Nat /\ S \subseteq T
      <4>1. T \in SUBSET (1..(n + 1)) /\ n + 1 \in Nat
        BY <1>2, <1>3
      <4>2. S \subseteq T /\ i \in S
        BY <1>3, <2>1 DEF VersionsOf
      <4> QED BY <4>1, <4>2
    <3> HIDE DEF T
    <3>3. \A k \in S : k <= i
      BY <3>1, <3>2, NewestIs
    <3> QED BY <1>2, <2>1, <3>3, CurrentIs DEF VersionsOf
  <2> QED BY <1>1, <1>3, <2>1, <2>2 DEF DeliveryIInv, SearchInv
<1>9. DayInv'
  BY <1>1 DEF DeliveryIInv, DayInv
<1> QED BY <1>4, <1>5, <1>6, <1>7, <1>8, <1>9 DEF DeliveryIInv

\* The actions of a day are replaced.
LEMMA GenerateStep ==
  ASSUME DeliveryIInv, NEW r \in Runner, Generate(r)
  PROVE  DeliveryIInv'
<1> DEFINE d == job[r].target
           j == [job[r] EXCEPT
                  !.pc = IF job[r].mode = "auto" THEN "sync"
                         ELSE IF d < job[r].latest THEN "generate" ELSE "rebuild",
                  !.target = IF job[r].mode = "backfill" /\ d < job[r].latest THEN d + 1 ELSE d]
<1>1. /\ job[r].pc = "generate" /\ delta' = [delta EXCEPT ![d] = DeltaOf(d)] /\ job' = [job EXCEPT ![r] = j]
      /\ UNCHANGED <<day, rows, spoke, search, runlog>>
  BY DeliveryIs DEF Generate, JobState
<1>2. d \in Day /\ job[r].latest \in Day /\ job[r] \in JobState
  BY <1>1, JobIs DEF Ready
<1>3. Ready(j)
  <2>1. d < job[r].latest => d + 1 \in Day
    BY <1>2, DeliveryIs, RowsAre
  <2>2. d \in Day \cup {NoDay}
    BY <1>2
  <2> HIDE DEF d
  <2> QED BY <1>2, <2>1, <2>2 DEF Ready, JobState
<1> HIDE DEF j, d
<1>4. job' \in [Runner -> JobState] /\ DayInv'
  BY <1>1, <1>3, JobStep
<1>5. \A e \in Day : delta'[e] = IF e = d THEN DeltaOf(d) ELSE delta[e]
  BY <1>1, <1>2, DeliveryIs
<1>6. TypeOK /\ Ids' = Ids /\ delta' \in [Day -> SUBSET ActionRow]
  BY <1>1, <1>2, DeliveryIs, DeltaOfIs DEF Ids
<1>7. TypeOK'
  BY <1>1, <1>4, <1>5, <1>6, DeltaOfIs DEF TypeOK
<1>8. DeltaInv'
  BY <1>1, <1>5, <1>6, DeltaOfIs DEF DeltaInv, DeliveryIInv
<1>9. RowsInv' /\ SpokeInv'
  BY <1>1 DEF DeliveryIInv, RowsInv, SpokeInv, Ids
<1>10. SearchInv'
  BY <1>1 DEF DeliveryIInv, SearchInv, IsCurrent, VersionsOf, Ids
<1> QED BY <1>4, <1>7, <1>8, <1>9, <1>10 DEF DeliveryIInv

\* A day's sync does to a spoke table what its action on the member says, or
\* nothing when there is none or a newer version is there.
LEMMA SyncedIs ==
  ASSUME DeliveryIInv, NEW t \in Table, NEW m \in Member, NEW d \in Day
  PROVE  \/ /\ Synced(t, m, d) = spoke[t][m]
            /\ \A a \in delta[d] : a.member = m => spoke[t][m] > a.row
         \/ \E a \in delta[d] :
              /\ a.member = m /\ spoke[t][m] <= a.row
              /\ Synced(t, m, d) = IF a.action # "DELETE" /\ t \in rows[a.row].tables THEN a.row ELSE NoRow
<1> DEFINE A == {a \in delta[d] : a.member = m}
           x == CHOOSE y \in A : TRUE
<1>1. Synced(t, m, d) = IF A = {} \/ spoke[t][m] > x.row THEN spoke[t][m]
                        ELSE IF x.action # "DELETE" /\ t \in rows[x.row].tables THEN x.row
                        ELSE NoRow
  BY DEF Synced
<1>2. CASE A = {}
  BY <1>1, <1>2
<1>3. CASE A # {}
  <2>1. x \in A
    BY <1>3
  <2> HIDE DEF x
  <2>2. x \in delta[d] /\ x.member = m /\ x.row \in Ids /\ \A a \in A : a = x
    BY <2>1, DeliveryIs DEF DeliveryIInv, DeltaInv
  <2>3. spoke[t][m] \in Nat /\ x.row \in Nat
    BY <2>2, DeliveryIs, RowsAre DEF NoRow
  <2>4. spoke[t][m] > x.row \/ spoke[t][m] <= x.row
    BY <2>3
  <2>5. CASE spoke[t][m] > x.row
    BY <1>1, <2>2, <2>5
  <2>6. CASE spoke[t][m] <= x.row
    <3>1. ~(spoke[t][m] > x.row)
      BY <2>3, <2>6
    <3> QED BY <1>1, <1>3, <2>2, <2>6, <3>1
  <2> QED BY <2>4, <2>5, <2>6
<1> QED BY <1>2, <1>3

\* A step that writes spokes or the search view, and nothing they are read from.
LEMMA SpokeStep ==
  ASSUME DeliveryIInv, NEW r \in Runner, NEW pc, UNCHANGED <<day, rows, delta, runlog>>,
         job' = [job EXCEPT ![r].pc = pc], pc \in {"log", "rebuild_log", "done"},
         pc = "log" => job[r].pc = "sync",
         spoke' \in [Table -> [Member -> Ids \cup {NoRow}]], search' \subseteq Ids,
         SpokeInv', SearchInv'
  PROVE  DeliveryIInv'
<1>1. job' = [job EXCEPT ![r] = [job[r] EXCEPT !.pc = pc]]
  BY DeliveryIs DEF JobState
<1>2. Ready([job[r] EXCEPT !.pc = pc])
  BY JobIs DEF Ready, JobState
<1>3. job' \in [Runner -> JobState] /\ DayInv'
  BY <1>1, <1>2, JobStep
<1>4. TypeOK'
  BY <1>3 DEF DeliveryIInv, TypeOK, Ids
<1>5. RowsInv' /\ DeltaInv'
  BY DEF DeliveryIInv, RowsInv, DeltaInv, Ids
<1> QED BY <1>3, <1>4, <1>5 DEF DeliveryIInv

LEMMA SyncStep ==
  ASSUME DeliveryIInv, NEW r \in Runner, Sync(r)
  PROVE  DeliveryIInv' /\ \A t \in Table, m \in Member : spoke'[t][m] # NoRow => spoke'[t][m] >= spoke[t][m]
<1> DEFINE d == job[r].target
<1>1. /\ job[r].pc = "sync" /\ job' = [job EXCEPT ![r].pc = "log"]
      /\ \A t \in Table, m \in Member : spoke'[t][m] = Synced(t, m, d)
      /\ spoke' = [t \in Table |-> [m \in Member |-> Synced(t, m, d)]]
      /\ UNCHANGED <<day, rows, delta, search, runlog>>
  BY DEF Sync, Goto
<1>2. d \in Day
  BY <1>1, JobIs DEF Ready
<1> HIDE DEF d
<1>3. ASSUME NEW t \in Table, NEW m \in Member
      PROVE  /\ Synced(t, m, d) \in Ids \cup {NoRow}
             /\ Synced(t, m, d) # NoRow =>
                  LET v == rows[Synced(t, m, d)] IN v.member = m /\ v.type # "DELETED" /\ t \in v.tables
             /\ Synced(t, m, d) # NoRow => Synced(t, m, d) >= spoke[t][m]
             /\ spoke[t][m] # NoRow /\ IsCurrent(spoke[t][m]) => Synced(t, m, d) = spoke[t][m]
  <2> DEFINE s == Synced(t, m, d)
  <2>1. spoke[t][m] \in Ids \cup {NoRow} /\ spoke[t][m] \in Nat /\ spoke[t][m] >= spoke[t][m]
    <3>1. spoke[t][m] \in Ids \cup {NoRow} /\ Ids \subseteq Nat
      BY DeliveryIs, RowsAre
    <3>2. spoke[t][m] \in Nat
      BY SpokeIs
    <3> QED BY <3>1, <3>2
  <2>2. spoke[t][m] # NoRow =>
          LET v == rows[spoke[t][m]] IN v.member = m /\ v.type # "DELETED" /\ t \in v.tables
    BY DEF DeliveryIInv, SpokeInv
  <2>3. CASE s = spoke[t][m]
    BY <2>1, <2>2, <2>3
  <2>4. CASE \E a \in delta[d] :
               /\ a.member = m /\ spoke[t][m] <= a.row
               /\ s = IF a.action # "DELETE" /\ t \in rows[a.row].tables THEN a.row ELSE NoRow
    <3>1. PICK a \in delta[d] :
            /\ a.member = m /\ spoke[t][m] <= a.row
            /\ s = IF a.action # "DELETE" /\ t \in rows[a.row].tables THEN a.row ELSE NoRow
      BY <2>4
    <3> HIDE DEF s
    <3>2. /\ a.row \in Ids /\ rows[a.row].member = m /\ (a.action = "DELETE" <=> rows[a.row].type = "DELETED")
          /\ a.row \in Nat
      BY <1>2, <3>1, DeliveryIs, RowsAre DEF DeliveryIInv, DeltaInv
    <3>3. ASSUME spoke[t][m] # NoRow, IsCurrent(spoke[t][m]) PROVE s = spoke[t][m]
      <4>1. spoke[t][m] \in Ids /\ rows[spoke[t][m]].member = m
        BY <2>1, <2>2, <3>3
      <4>2. a.row <= spoke[t][m]
        BY <3>2, <3>3, <4>1, CurrentIs, DeliveryIs
      <4>3. a.row = spoke[t][m]
        BY <2>1, <3>1, <3>2, <4>2
      <4> QED BY <2>2, <3>1, <3>2, <3>3, <4>3
    <3>4. s # NoRow => s = a.row /\ a.action # "DELETE" /\ t \in rows[a.row].tables
      BY <3>1
    <3>5. s \in Ids \cup {NoRow}
      BY <3>1, <3>2
    <3>6. s # NoRow => s >= spoke[t][m]
      BY <2>1, <3>1, <3>2, <3>4
    <3>7. s # NoRow => LET v == rows[s] IN v.member = m /\ v.type # "DELETED" /\ t \in v.tables
      BY <3>2, <3>4
    <3> QED BY <3>3, <3>5, <3>6, <3>7 DEF s
  <2> QED BY <1>2, <2>3, <2>4, SyncedIs
<1>4. spoke' \in [Table -> [Member -> Ids \cup {NoRow}]]
  BY <1>1, <1>3
<1>5. SpokeInv'
  BY <1>1, <1>3 DEF SpokeInv
<1>6. SearchInv'
  <2> SUFFICES ASSUME NEW i \in search, IsCurrent(i)
               PROVE  \E t \in {NameTable, AliasTable} : spoke'[t][rows[i].member] = i
    BY <1>1 DEF SearchInv, IsCurrent, VersionsOf, Ids
  <2>1. i \in Ids /\ rows[i].member \in Member /\ i # NoRow
    BY DeliveryIs, RowsAre DEF NoRow
  <2>2. PICK t \in {NameTable, AliasTable} : spoke[t][rows[i].member] = i
    BY DEF DeliveryIInv, SearchInv
  <2>3. t \in Table
    BY DeliveryAssumption
  <2> QED BY <1>1, <1>3, <2>1, <2>2, <2>3
<1>7. search' \subseteq Ids
  BY <1>1, DeliveryIs
<1>8. DeliveryIInv'
  BY <1>1, <1>4, <1>5, <1>6, <1>7, SpokeStep
<1> QED BY <1>1, <1>3, <1>8

LEMMA VisibleIs ==
  ASSUME DeliveryIInv, NEW m \in Member
  PROVE  LET i == Visible(VersionsOf(m)) IN
           i # NoRow =>
             /\ i \in Ids /\ rows[i].member = m /\ rows[i].type # "DELETED"
             /\ \A k \in Ids : rows[k].member = m => k <= i
<1> DEFINE S == VersionsOf(m)
<1>1. S \in SUBSET (1..Len(rows)) /\ Len(rows) \in Nat
  BY DeliveryIs, RowsAre
<1>2. S # {} => Newest(S) \in S /\ \A k \in S : k <= Newest(S)
  <2> HIDE DEF S
  <2> QED BY <1>1, NewestIs
<1> QED BY <1>2 DEF Visible, VersionsOf

\* After the truncation every spoke has the newest version of the member, unless
\* it is deleted or has no such rows.
LEMMA RebuildStep ==
  ASSUME DeliveryIInv, NEW r \in Runner, Rebuild(r)
  PROVE  DeliveryIInv' /\ \A t \in Table, m \in Member : spoke'[t][m] # NoRow => spoke'[t][m] >= spoke[t][m]
<1> DEFINE top(m) == Visible(VersionsOf(m))
           s(t, m) == IF top(m) # NoRow /\ t \in rows[top(m)].tables THEN top(m) ELSE NoRow
<1>1. /\ job[r].pc = "rebuild" /\ job' = [job EXCEPT ![r].pc = "rebuild_log"]
      /\ \A t \in Table, m \in Member : spoke'[t][m] = s(t, m)
      /\ spoke' = [t \in Table |-> [m \in Member |-> s(t, m)]]
      /\ UNCHANGED <<day, rows, delta, search, runlog>>
  BY DEF Rebuild, Goto
<1>2. ASSUME NEW t \in Table, NEW m \in Member
      PROVE  /\ s(t, m) \in Ids \cup {NoRow}
             /\ s(t, m) # NoRow => LET v == rows[s(t, m)] IN v.member = m /\ v.type # "DELETED" /\ t \in v.tables
             /\ s(t, m) # NoRow => s(t, m) >= spoke[t][m]
             /\ spoke[t][m] # NoRow /\ IsCurrent(spoke[t][m]) => s(t, m) = spoke[t][m]
  <2>1. spoke[t][m] \in Ids \cup {NoRow} /\ Ids \subseteq Nat /\ 0 <= 0
    BY DeliveryIs, RowsAre
  <2>2. spoke[t][m] # NoRow =>
          LET v == rows[spoke[t][m]] IN v.member = m /\ v.type # "DELETED" /\ t \in v.tables
    BY DEF DeliveryIInv, SpokeInv
  <2>3. top(m) # NoRow =>
          /\ top(m) \in Ids /\ rows[top(m)].member = m /\ rows[top(m)].type # "DELETED"
          /\ \A k \in Ids : rows[k].member = m => k <= top(m)
    BY VisibleIs
  <2>4. top(m) # NoRow => top(m) >= spoke[t][m]
    <3> HIDE DEF top
    <3>1. spoke[t][m] \in Nat
      BY SpokeIs
    <3>2. ASSUME top(m) # NoRow, spoke[t][m] # NoRow PROVE top(m) >= spoke[t][m]
      <4>1. spoke[t][m] <= top(m) /\ top(m) \in Nat
        BY <2>1, <2>2, <2>3, <3>2
      <4> QED BY <3>1, <4>1
    <3>3. ASSUME top(m) # NoRow, spoke[t][m] = NoRow PROVE top(m) >= spoke[t][m]
      <4>1. top(m) \in Nat
        BY <2>1, <2>3, <3>3
      <4> QED BY <3>3, <4>1 DEF NoRow
    <3> QED BY <3>2, <3>3
  <2>5. ASSUME spoke[t][m] # NoRow, IsCurrent(spoke[t][m]) PROVE top(m) = spoke[t][m]
    <3> DEFINE i == spoke[t][m]
    <3>1. i \in Ids /\ rows[i].member = m /\ rows[i].type # "DELETED"
      BY <2>1, <2>2, <2>5
    <3>2. i = Newest(VersionsOf(m)) /\ i \in VersionsOf(m)
      BY <2>5, <3>1 DEF IsCurrent, VersionsOf
    <3> QED BY <3>1, <3>2 DEF Visible
  <2> HIDE DEF top
  <2> QED BY <2>1, <2>2, <2>3, <2>4, <2>5
<1>3. spoke' \in [Table -> [Member -> Ids \cup {NoRow}]]
  BY <1>1, <1>2
<1> HIDE DEF s
<1>4. SpokeInv'
  BY <1>1, <1>2 DEF SpokeInv
<1>5. SearchInv'
  <2> SUFFICES ASSUME NEW i \in search, IsCurrent(i)
               PROVE  \E t \in {NameTable, AliasTable} : spoke'[t][rows[i].member] = i
    BY <1>1 DEF SearchInv, IsCurrent, VersionsOf, Ids
  <2>1. i \in Ids /\ rows[i].member \in Member /\ i # NoRow
    BY DeliveryIs, RowsAre DEF NoRow
  <2>2. PICK t \in {NameTable, AliasTable} : spoke[t][rows[i].member] = i
    BY DEF DeliveryIInv, SearchInv
  <2>3. t \in Table
    BY DeliveryAssumption
  <2> QED BY <1>1, <1>2, <2>1, <2>2, <2>3
<1>6. search' \subseteq Ids
  BY <1>1, DeliveryIs
<1>7. DeliveryIInv'
  BY <1>1, <1>3, <1>4, <1>5, <1>6, SpokeStep
<1> QED BY <1>1, <1>2, <1>7

LEMMA RefreshSearchStep ==
  ASSUME DeliveryIInv, NEW r \in Runner, RefreshSearch(r)
  PROVE  DeliveryIInv' /\ \A i \in search : IsCurrent(i) => i \in search'
<1>1. /\ job' = [job EXCEPT ![r].pc = "done"] /\ UNCHANGED <<day, rows, delta, spoke, runlog>>
      /\ search' = {i \in Ids : IsCurrent(i) /\ \E t \in {NameTable, AliasTable} : spoke[t][rows[i].member] = i}
  BY DEF RefreshSearch, Goto
<1>2. SearchInv'
  BY <1>1 DEF SearchInv
<1>3. SpokeInv' /\ spoke' \in [Table -> [Member -> Ids \cup {NoRow}]] /\ search' \subseteq Ids
  BY <1>1 DEF DeliveryIInv, SpokeInv, TypeOK
<1>4. DeliveryIInv'
  BY <1>1, <1>2, <1>3, SpokeStep
<1>5. \A i \in search : IsCurrent(i) => i \in search'
  BY <1>1, DeliveryIs DEF DeliveryIInv, SearchInv
<1> QED BY <1>4, <1>5

\* The watermarks and the days of Core are days.
LEMMA WatermarksAre ==
  ASSUME DeliveryIInv
  PROVE  /\ LastProcessed \in Day \cup {NoDay} /\ CoreDays \in SUBSET Day
         /\ \A d \in Day : LastProcessed < d => delta[d] = {}
         /\ CoreDays # {} => Newest(CoreDays) \in CoreDays /\ Oldest(CoreDays) \in CoreDays
<1> DEFINE D == {d \in Day : delta[d] # {}}
<1>1. D \in SUBSET (1..LastDay) /\ LastDay \in Nat /\ Day = 1..LastDay
  BY DeliveryIs, RowsAre
<1>2. D # {} => Newest(D) \in D /\ \A k \in D : k <= Newest(D)
  <2> HIDE DEF D
  <2> QED BY <1>1, NewestIs
<1>3. LastProcessed \in Day \cup {NoDay}
  BY <1>2 DEF LastProcessed
<1>4. ASSUME NEW d \in Day, LastProcessed < d PROVE delta[d] = {}
  <2> SUFFICES ASSUME d \in D PROVE FALSE
    OBVIOUS
  <2>1. LastProcessed = Newest(D)
    BY DEF LastProcessed
  <2> HIDE DEF D
  <2>2. d <= LastProcessed /\ LastProcessed \in 1..LastDay /\ d \in 1..LastDay
    BY <1>1, <1>2, <2>1
  <2> QED BY <1>1, <1>4, <2>2
<1>5. CoreDays \in SUBSET Day
  BY DeliveryIs, RowsAre DEF CoreDays
<1>6. CoreDays # {} => Newest(CoreDays) \in CoreDays /\ Oldest(CoreDays) \in CoreDays
  BY <1>1, <1>5, NewestIs, OldestIs
<1> QED BY <1>3, <1>4, <1>5, <1>6

\* Where a run of the job begins: behind the last day that has actions.
LEMMA StartIs ==
  ASSUME DeliveryIInv, NEW r \in Runner, Start(r)
  PROVE  /\ UNCHANGED <<day, rows, delta, spoke, search, runlog>>
         /\ \/ job' = [job EXCEPT ![r] = [Idle EXCEPT !.pc = "done"]]
            \/ \E from, to \in Day :
                 /\ job' = [job EXCEPT ![r] = [pc |-> "generate", mode |-> "auto", target |-> from,
                                              start |-> from, latest |-> to]]
                 /\ \A d \in Day : d >= from => delta[d] = {}
<1>1. UNCHANGED <<day, rows, delta, spoke, search, runlog>>
  BY DEF Start
<1>2. CASE CoreDays = {} \/ LastProcessed >= Newest(CoreDays)
  BY <1>1, <1>2 DEF Start
<1>3. CASE CoreDays # {} /\ ~(LastProcessed >= Newest(CoreDays))
  <2> DEFINE from == IF LastProcessed # NoDay THEN LastProcessed + 1 ELSE Oldest(CoreDays)
             to == Newest(CoreDays)
  <2>1. job' = [job EXCEPT ![r] = [pc |-> "generate", mode |-> "auto", target |-> from,
                                  start |-> from, latest |-> to]]
    BY <1>3 DEF Start, Begin
  <2>2. /\ to \in Day /\ Oldest(CoreDays) \in Day /\ Day = 1..LastDay /\ LastDay \in Nat
        /\ LastProcessed \in Day \cup {NoDay}
    BY <1>3, WatermarksAre, DeliveryIs, RowsAre
  <2>3. LastProcessed \in Nat /\ LastProcessed < to
    <3>1. LastProcessed \in Nat /\ to \in Nat
      BY <2>2 DEF NoDay
    <3> QED BY <1>3, <3>1
  <2>4. from \in Day /\ LastProcessed < from
    <3> HIDE DEF to
    <3>1. CASE LastProcessed # NoDay
      BY <2>2, <2>3, <3>1
    <3>2. CASE LastProcessed = NoDay
      BY <2>2, <2>3, <3>2 DEF NoDay
    <3> QED BY <3>1, <3>2
  <2> HIDE DEF from, to
  <2>5. ASSUME NEW d \in Day, d >= from PROVE delta[d] = {}
    <3>1. LastProcessed < d
      BY <2>2, <2>3, <2>4, <2>5
    <3> QED BY <3>1, WatermarksAre
  <2> QED BY <1>1, <2>1, <2>2, <2>4, <2>5
<1> QED BY <1>1, <1>2, <1>3

LEMMA IdleIs ==
  Ready(Idle) /\ Ready([Idle EXCEPT !.pc = "done"]) /\ Idle.pc = "idle"
  BY DEF Ready, Idle, JobState

\* A step of an invocation that only moves on.
LEMMA MoveStep ==
  ASSUME DeliveryIInv, NEW r \in Runner, NEW j, Ready(j), job' = [job EXCEPT ![r] = j],
         UNCHANGED <<day, rows, delta, spoke, search>>, runlog' \subseteq Day
  PROVE  DeliveryIInv'
<1>1. job' \in [Runner -> JobState] /\ DayInv' /\ day' \in Day
  BY JobStep, DeliveryIs
<1> QED BY <1>1, QuietStep

LEMMA StartStep ==
  ASSUME DeliveryIInv, NEW r \in Runner, Start(r)
  PROVE  DeliveryIInv'
<1>1. runlog' \subseteq Day /\ UNCHANGED <<day, rows, delta, spoke, search>>
  BY StartIs, DeliveryIs
<1>2. CASE job' = [job EXCEPT ![r] = [Idle EXCEPT !.pc = "done"]]
  BY <1>1, <1>2, IdleIs, MoveStep
<1>3. CASE \E from, to \in Day :
             job' = [job EXCEPT ![r] = [pc |-> "generate", mode |-> "auto", target |-> from,
                                       start |-> from, latest |-> to]]
  <2>1. PICK from \in Day, to \in Day :
          job' = [job EXCEPT ![r] = [pc |-> "generate", mode |-> "auto", target |-> from,
                                    start |-> from, latest |-> to]]
    BY <1>3
  <2>2. Ready([pc |-> "generate", mode |-> "auto", target |-> from, start |-> from, latest |-> to])
    BY DEF Ready, JobState
  <2> QED BY <1>1, <2>1, <2>2, MoveStep
<1> QED BY <1>2, <1>3, StartIs

LEMMA LogDayStep ==
  ASSUME DeliveryIInv, NEW r \in Runner, LogDay(r)
  PROVE  DeliveryIInv'
<1> DEFINE d == job[r].target
           j == IF job[r].mode = "sync" THEN Idle
                ELSE IF d < job[r].latest THEN [job[r] EXCEPT !.pc = "generate", !.target = d + 1]
                ELSE [job[r] EXCEPT !.pc = "check"]
<1>1. /\ job[r].pc = "log" /\ runlog' = runlog \cup {d} /\ job' = [job EXCEPT ![r] = j]
      /\ UNCHANGED <<day, rows, delta, spoke, search>>
  BY DeliveryIs DEF LogDay, JobState
<1>2. d \in Day /\ job[r].latest \in Day /\ job[r] \in JobState
  BY <1>1, JobIs DEF Ready
<1>3. Ready(j)
  <2>1. d < job[r].latest => d + 1 \in Day
    BY <1>2, DeliveryIs, RowsAre
  <2> HIDE DEF d
  <2> QED BY <1>2, <2>1, IdleIs DEF Ready, JobState
<1> HIDE DEF j
<1> QED BY <1>1, <1>2, <1>3, DeliveryIs, MoveStep

\* Check, Fail and the operator's tools, up to the rows they write.
LEMMA OtherStep ==
  ASSUME DeliveryIInv, NEW r \in Runner,
         \/ Check(r) \/ Fail(r) \/ StartRebuild(r) \/ RebuildLog(r)
         \/ \E from, to \in Day : StartBackfill(r, from, to)
         \/ \E d \in Day : StartSync(r, d)
  PROVE  DeliveryIInv'
<1>1. CASE Check(r)
  <2>1. Ready([job[r] EXCEPT !.pc = "refresh"])
    BY JobIs DEF Ready, JobState
  <2>2. job' = [job EXCEPT ![r] = [job[r] EXCEPT !.pc = "refresh"]]
    BY <1>1, DeliveryIs DEF Check, Goto, JobState
  <2> QED BY <1>1, <2>1, <2>2, DeliveryIs, MoveStep DEF Check
<1>2. CASE Fail(r)
  BY <1>2, IdleIs, DeliveryIs, MoveStep DEF Fail
<1>3. CASE StartRebuild(r)
  <2>1. Ready([pc |-> "rebuild", mode |-> "rebuild", target |-> NoDay, start |-> NoDay, latest |-> NoDay])
    BY DEF Ready, JobState
  <2> QED BY <1>3, <2>1, DeliveryIs, MoveStep DEF StartRebuild, Begin
<1>4. CASE RebuildLog(r)
  <2>1. runlog' \subseteq Day /\ UNCHANGED <<day, rows, delta, spoke, search>>
    BY <1>4, DeliveryIs DEF RebuildLog
  <2>2. CASE job[r].mode = "backfill"
    <3>1. Ready([job[r] EXCEPT !.pc = "refresh"])
      BY JobIs DEF Ready, JobState
    <3>2. job' = [job EXCEPT ![r] = [job[r] EXCEPT !.pc = "refresh"]]
      BY <1>4, <2>2, DeliveryIs DEF RebuildLog, Goto, JobState
    <3> QED BY <2>1, <3>1, <3>2, MoveStep
  <2>3. CASE job[r].mode # "backfill"
    BY <1>4, <2>1, <2>3, IdleIs, MoveStep DEF RebuildLog
  <2> QED BY <2>2, <2>3
<1>5. CASE \E from, to \in Day : StartBackfill(r, from, to)
  <2>1. PICK from \in Day, to \in Day : StartBackfill(r, from, to)
    BY <1>5
  <2>2. Ready([pc |-> "generate", mode |-> "backfill", target |-> from, start |-> from, latest |-> to])
    BY DEF Ready, JobState
  <2> QED BY <2>1, <2>2, DeliveryIs, MoveStep DEF StartBackfill, Begin
<1>6. CASE \E d \in Day : StartSync(r, d)
  <2>1. PICK d \in Day : StartSync(r, d)
    BY <1>6
  <2>2. Ready([pc |-> "sync", mode |-> "sync", target |-> d, start |-> d, latest |-> d])
    BY DEF Ready, JobState
  <2> QED BY <2>1, <2>2, DeliveryIs, MoveStep DEF StartSync, Begin
<1> QED BY <1>1, <1>2, <1>3, <1>4, <1>5, <1>6

LEMMA MidnightStep ==
  ASSUME DeliveryIInv, Midnight \/ UNCHANGED vars
  PROVE  DeliveryIInv'
<1>1. day' \in Day /\ UNCHANGED <<rows, delta, spoke, search, runlog, job>>
  BY DeliveryIs, RowsAre DEF Midnight, vars
<1>2. DayInv' /\ job' \in [Runner -> JobState] /\ runlog' \subseteq Day
  BY <1>1, DeliveryIs DEF DeliveryIInv, DayInv
<1> QED BY <1>1, <1>2, QuietStep

Steps == Ingest \/ \E r \in Runner : Deliver(r) \/ Operate(r)

LEMMA IngestStep ==
  ASSUME DeliveryIInv, Ingest
  PROVE  DeliveryIInv'
  BY CommitVersionStep, MidnightStep DEF Ingest

LEMMA DeliveryStep ==
  ASSUME DeliveryIInv, [Steps]_vars
  PROVE  DeliveryIInv'
<1>1. CASE Ingest \/ UNCHANGED vars
  BY <1>1, IngestStep, MidnightStep
<1>2. ASSUME NEW r \in Runner, Deliver(r) PROVE DeliveryIInv'
  BY <1>2, StartStep, GenerateStep, SyncStep, LogDayStep, RefreshSearchStep, OtherStep DEF Deliver, Work
<1>3. ASSUME NEW r \in Runner, Operate(r) PROVE DeliveryIInv'
  BY <1>3, RebuildStep, OtherStep DEF Operate, Tool
<1> QED BY <1>1, <1>2, <1>3 DEF Steps

LEMMA DeliveryStarts ==
  ASSUME Init
  PROVE  DeliveryIInv
<1>1. 1 \in Day /\ Idle \in JobState /\ Idle.pc = "idle" /\ NoRow \in Ids \cup {NoRow}
  BY DeliveryAssumption, IdleIs DEF Day, Ready
<1>2. rows = <<>> /\ rows \in Seq(Version) /\ Ids = {}
  BY DEF Init, Ids
<1>3. TypeOK
  BY <1>1, <1>2 DEF Init, TypeOK
<1>4. RowsInv /\ DeltaInv /\ SpokeInv /\ SearchInv
  BY <1>2 DEF Init, RowsInv, DeltaInv, SpokeInv, SearchInv
<1>5. DayInv
  BY <1>1 DEF Init, DayInv
<1> QED BY <1>3, <1>4, <1>5 DEF DeliveryIInv

\* The invariant of the delivery layer, whatever overlaps: every action names the
\* newest version its member had on the day when it was generated, every spoke row
\* comes from a version of its member that is not a deletion, and what the search
\* view shows of a current version is in the spokes.
THEOREM DeliveryInductive == OperatorSpec => []DeliveryIInv
<1>1. Init => DeliveryIInv
  BY DeliveryStarts
<1>2. DeliveryIInv /\ [Ingest \/ \E r \in Runner : Deliver(r) \/ Operate(r)]_vars => DeliveryIInv'
  BY DeliveryStep DEF Steps
<1> QED BY <1>1, <1>2, PTL DEF OperatorSpec

\* No step of a job or of an operator, in whatever order, puts a spoke table back
\* to an older version of a member.
THEOREM SpokesMoveForward == OperatorSpec => SpokesNeverRegress
<1> DEFINE Forward == \A t \in Table, m \in Member : spoke'[t][m] # NoRow => spoke'[t][m] >= spoke[t][m]
<1>1. DeliveryIInv /\ [Ingest \/ \E r \in Runner : Deliver(r) \/ Operate(r)]_vars => [Forward]_vars
  <2> SUFFICES ASSUME DeliveryIInv, [Steps]_vars PROVE Forward
    BY DEF Steps
  <2>1. ASSUME spoke' = spoke PROVE Forward
    <3> SUFFICES ASSUME NEW t \in Table, NEW m \in Member PROVE spoke[t][m] >= spoke[t][m]
      BY <2>1
    <3>1. spoke[t][m] \in Nat
      BY SpokeIs
    <3> QED BY <3>1
  <2>2. CASE Ingest \/ UNCHANGED vars
    BY <2>1, <2>2 DEF Ingest, Midnight, CommitVersion, vars
  <2>3. ASSUME NEW r \in Runner, Deliver(r) PROVE Forward
    <3>1. CASE Sync(r)
      BY <3>1, SyncStep
    <3>2. CASE ~Sync(r)
      BY <2>1, <2>3, <3>2 DEF Deliver, Work, Start, Generate, LogDay, Check, RefreshSearch, Fail
    <3> QED BY <3>1, <3>2
  <2>4. ASSUME NEW r \in Runner, Operate(r) PROVE Forward
    <3>1. CASE Rebuild(r)
      BY <3>1, RebuildStep
    <3>2. CASE ~Rebuild(r)
      BY <2>1, <2>4, <3>2 DEF Operate, Tool, StartBackfill, StartSync, StartRebuild, RebuildLog
    <3> QED BY <3>1, <3>2
  <2> HIDE DEF Forward
  <2> QED BY <2>2, <2>3, <2>4 DEF Steps
<1>2. OperatorSpec => []DeliveryIInv
  BY DeliveryInductive
<1> QED BY <1>1, <1>2, PTL DEF OperatorSpec, SpokesNeverRegress

\* A refresh of the search view keeps each current version it showed: no sync and
\* no rebuild in between took its names and aliases away.
THEOREM SearchKeepsListed == OperatorSpec => SearchKeepsCurrent
<1> DEFINE Keeps == search' # search => \A i \in search : IsCurrent(i) => i \in search'
<1>1. DeliveryIInv /\ [Ingest \/ \E r \in Runner : Deliver(r) \/ Operate(r)]_vars => [Keeps]_vars
  <2> SUFFICES ASSUME DeliveryIInv, [Steps]_vars, search' # search PROVE Keeps
    BY DEF Steps
  <2>1. ~UNCHANGED vars /\ ~Ingest
    BY DEF Ingest, Midnight, CommitVersion, vars
  <2>2. PICK r \in Runner : RefreshSearch(r)
    <3>1. PICK r \in Runner : Deliver(r) \/ Operate(r)
      BY <2>1 DEF Steps
    <3>2. RefreshSearch(r)
      BY <3>1 DEF Deliver, Work, Operate, Tool, Start, Generate, Sync, LogDay, Check, Fail, StartBackfill,
                  StartSync, StartRebuild, Rebuild, RebuildLog
    <3> QED BY <3>2
  <2> QED BY <2>2, RefreshSearchStep
<1>2. OperatorSpec => []DeliveryIInv
  BY DeliveryInductive
<1> QED BY <1>1, <1>2, PTL DEF OperatorSpec, SearchKeepsCurrent

(***************************************************************************)
(* The decision matrix                                                     *)
(***************************************************************************)
\* The version a reader sees at the end of a day on which the member changed is
\* the day's newest.
LEMMA AfterIs ==
  ASSUME TypeOK, RowsInv, NEW m \in Member, NEW d \in Day, VersionsOn(m, d) # {}
  PROVE  LET S == VersionsOn(m, d)
             n == Newest(S)
             o == Oldest(S)
         IN  /\ n \in S /\ o \in S /\ n \in Ids /\ o \in Ids
             /\ \A k \in S : o <= k /\ k <= n
             /\ Visible({i \in VersionsOf(m) : rows[i].day <= d}) =
                  IF rows[n].type = "DELETED" THEN NoRow ELSE n
<1> DEFINE S == VersionsOn(m, d)
           n == Newest(S)
           o == Oldest(S)
           C == {i \in VersionsOf(m) : rows[i].day <= d}
<1>1. S \in SUBSET (1..Len(rows)) /\ Len(rows) \in Nat /\ C \in SUBSET (1..Len(rows)) /\ d \in Nat /\ Ids = 1..Len(rows)
  BY RowsAre
<1>2. n \in S /\ o \in S /\ \A k \in S : o <= k /\ k <= n
  <2>1. S \in SUBSET (1..Len(rows)) /\ S # {} /\ Len(rows) \in Nat
    BY <1>1
  <2> HIDE DEF S
  <2>2. Newest(S) \in S /\ \A k \in S : k <= Newest(S)
    BY <2>1, NewestIs
  <2>3. Oldest(S) \in S /\ \A k \in S : Oldest(S) <= k
    BY <2>1, OldestIs
  <2> QED BY <2>2, <2>3
<1>3. n \in Ids /\ o \in Ids /\ rows[n].member = m /\ rows[n].day = d /\ n \in C
  BY <1>1, <1>2 DEF VersionsOn, VersionsOf
<1> HIDE DEF n
<1>4. ASSUME NEW k \in C PROVE k <= n
  <2>1. k \in Ids /\ rows[k].member = m /\ rows[k].day <= d /\ rows[k].day \in Nat /\ k \in Nat /\ n \in Nat
    BY <1>1, <1>3, RowsAre DEF VersionsOf
  <2>2. n < k => d <= rows[k].day
    BY <1>3, <2>1 DEF RowsInv
  <2>3. n < k => k \in S
    BY <1>1, <2>1, <2>2 DEF VersionsOn, VersionsOf
  <2> HIDE DEF S
  <2> QED BY <1>2, <2>1, <2>3
<1>5. Newest(C) = n
  <2> HIDE DEF C
  <2> QED BY <1>1, <1>3, <1>4, NewestOnly
<1>6. Visible(C) = IF rows[n].type = "DELETED" THEN NoRow ELSE n
  BY <1>3, <1>5 DEF Visible
<1> QED BY <1>2, <1>3, <1>6 DEF n

LEMMA NetEffectIs ==
  ASSUME TypeOK, RowsInv, NEW m \in Member, NEW d \in Day, ~Relisted(m, d)
  PROVE  NetEffect(m, d)
<1> DEFINE S == VersionsOn(m, d)
           n == Newest(S)
           o == Oldest(S)
           B == {i \in VersionsOf(m) : rows[i].day < d}
           C == {i \in VersionsOf(m) : rows[i].day <= d}
           A == {a \in DeltaOf(d) : a.member = m}
           c == CHOOSE x \in A : TRUE
<1>1. NetEffect(m, d) <=>
        (IF A = {} THEN Visible(B) ELSE IF c.action = "DELETE" THEN NoRow ELSE c.row) = Visible(C)
  BY DEF NetEffect
<1>2. \A a \in A : /\ S # {} /\ a.row = n /\ a.action = Action(rows[o].type, rows[n].type)
                   /\ a.action \in {"ADD", "UPDATE", "DELETE"}
  BY DEF DeltaOf
<1>3. d \in Nat /\ \A i \in Ids : rows[i].day \in Nat
  BY RowsAre
<1>4. CASE S = {}
  <2>1. C = B
    <3> SUFFICES ASSUME NEW i \in VersionsOf(m), rows[i].day <= d PROVE rows[i].day < d
      BY <1>3 DEF VersionsOf
    <3>1. rows[i].day # d /\ i \in Ids
      BY <1>4 DEF VersionsOn, VersionsOf
    <3> QED BY <1>3, <3>1
  <2> QED BY <1>1, <1>2, <1>4, <2>1
<1>5. CASE S # {}
  <2> DEFINE first == rows[o].type
             last == rows[n].type
  <2>1. /\ n \in S /\ o \in S /\ n \in Ids /\ o \in Ids /\ o <= n
        /\ Visible(C) = IF last = "DELETED" THEN NoRow ELSE n
    BY <1>5, AfterIs
  <2>2. /\ rows[n].member = m /\ rows[n].day = d /\ rows[o].member = m /\ rows[o].day = d
        /\ o \in Nat /\ n \in Nat
    BY <2>1, RowsAre DEF VersionsOn, VersionsOf
  <2>3. first \in {"NEW", "UPDATED", "DELETED"} /\ last \in {"NEW", "UPDATED", "DELETED"}
    BY <2>1, RowsAre
  <2>4. ~(first = "DELETED" /\ last = "UPDATED")
    BY <1>5 DEF Relisted
  <2>5. ~(first # "NEW" /\ last = "NEW")
    BY <2>1, <2>2 DEF RowsInv
  <2>6. CASE A # {}
    <3>1. c \in A
      BY <2>6
    <3> HIDE DEF c
    <3>2. c.row = n /\ (c.action = "DELETE" <=> last = "DELETED")
      <4>1. c.row = n
        BY <1>2, <3>1
      <4>2. c.action = "DELETE" <=> rows[c.row].type = "DELETED"
        BY <3>1, DeltaOfIs
      <4> QED BY <4>1, <4>2
    <3> QED BY <1>1, <2>1, <2>6, <3>2
  <2>7. CASE A = {}
    <3>1. Action(first, last) \notin {"ADD", "UPDATE", "DELETE"}
      <4> SUFFICES ASSUME Action(first, last) \in {"ADD", "UPDATE", "DELETE"} PROVE FALSE
        OBVIOUS
      <4> DEFINE x == [action |-> Action(first, last), member |-> m, row |-> n]
      <4>1. x \in [action : {"ADD", "UPDATE", "DELETE"}, member : Member, row : Ids]
        BY <2>1
      <4>2. x \in DeltaOf(d)
        BY <1>5, <4>1 DEF DeltaOf
      <4> QED BY <2>7, <4>2
    <3> HIDE DEF first, last
    <3>2. first = "NEW" /\ last = "DELETED"
      BY <2>3, <2>4, <2>5, <3>1 DEF Action
    <3> USE DEF first, last
    <3>3. B = {}
      <4> SUFFICES ASSUME NEW i \in B PROVE FALSE
        OBVIOUS
      <4>1. i \in Ids /\ rows[i].member = m /\ rows[i].day < d /\ rows[i].day \in Nat /\ i \in Nat
        BY <1>3, RowsAre DEF VersionsOf
      <4>2. ~(i < o)
        BY <2>1, <2>2, <3>2, <4>1 DEF RowsInv
      <4>3. ~(o < i)
        <5>1. o < i => rows[o].day <= rows[i].day
          BY <2>1, <2>2, <4>1 DEF RowsInv
        <5> QED BY <1>3, <2>2, <4>1, <5>1
      <4>4. i # o
        BY <1>3, <2>2, <4>1
      <4> QED BY <2>2, <4>1, <4>2, <4>3, <4>4
    <3>4. Visible(B) = NoRow
      BY <3>3 DEF Visible
    <3> QED BY <1>1, <2>1, <2>7, <3>2, <3>4
  <2> QED BY <2>6, <2>7
<1> QED BY <1>4, <1>5

\* The actions of a day have the day's net effect on each member that was not
\* deleted and listed again within it.
THEOREM MatrixIsNetEffect == OperatorSpec => []DeltaIsNetEffect
<1>1. DeliveryIInv => DeltaIsNetEffect
  BY NetEffectIs DEF DeliveryIInv, DeltaIsNetEffect
<1> QED BY <1>1, DeliveryInductive, PTL

(***************************************************************************)
(* The job alone                                                           *)
(***************************************************************************)
\* The days that a run has behind it.
Through(j) == j.start..(IF j.pc \in {"generate", "sync"} THEN j.target - 1 ELSE j.target)

\* A day whose actions it has yet to generate.
Ahead(j, d) ==
  (j.pc = "generate" /\ d >= j.target) \/ (j.pc \in {"sync", "log"} /\ d > j.target)

\* A step of r by which runs go on without another one beside them.
Alone(r) == alone /\ alone' /\ OthersFree(r)

LEMMA RunIs ==
  ASSUME JobIInv, alone, NEW r \in Runner, ~Free(r)
  PROVE  /\ job[r] \in JobState /\ job[r].mode = "auto"
         /\ job[r].pc \in {"generate", "sync", "log", "check", "refresh"}
         /\ job[r].start \in Day /\ job[r].target \in Day /\ job[r].target \in Nat
         /\ job[r].pc \in {"check", "refresh"} => job[r].latest <= job[r].target
         /\ \A d \in Through(job[r]) : d \in Day /\ Delivered(d)
         /\ \A d \in Day : Ahead(job[r], d) => delta[d] = {}
<1>1. DeliveryIInv /\ job[r] \in JobState /\ Day = 1..LastDay /\ LastDay \in Nat
  BY JobIs, DeliveryIs, RowsAre DEF JobIInv
<1>2. job[r].start \in Day /\ job[r].target \in Day
  BY DEF JobIInv, BehindInv
<1>3. \A d \in Through(job[r]) : d \in Day
  BY <1>1, <1>2 DEF Through
<1>4. \A d \in Through(job[r]) : Delivered(d)
  BY DEF JobIInv, BehindInv, Behind, Through
<1>5. \A d \in Day : Ahead(job[r], d) => delta[d] = {}
  BY DEF JobIInv, AheadInv, Ahead
<1> QED BY <1>1, <1>2, <1>3, <1>4, <1>5 DEF JobIInv, BehindInv

\* A delivered day stays delivered while its actions and the spokes do.
LEMMA DeliveredStays ==
  ASSUME DeliveryIInv, UNCHANGED <<delta, spoke>>, \A i \in Ids : rows'[i] = rows[i],
         NEW d \in Day, Delivered(d)
  PROVE  Delivered(d)'
<1>1. \A a \in delta[d] : rows'[a.row] = rows[a.row]
  BY DeliveryIs
<1> QED BY <1>1 DEF Delivered, Day

\* A step of the only run.
LEMMA RunStep ==
  ASSUME JobIInv, DeliveryIInv', NEW r \in Runner, Alone(r), NEW j, job' = [job EXCEPT ![r] = j],
         SpokesAgree', SourceInv',
         \A d \in Day : Ahead(j, d) => delta'[d] = {},
         \/ j.pc \in {"idle", "done"}
         \/ /\ j.mode = "auto" /\ j.pc \in {"generate", "sync", "log", "check", "refresh"}
            /\ j.start \in Day /\ j.target \in Day
            /\ j.pc \in {"check", "refresh"} => j.latest <= j.target
            /\ \A d \in Through(j) : Delivered(d)'
  PROVE  JobIInv'
<1>1. \A q \in Runner : IF q = r THEN job'[q] = j ELSE job'[q].pc \in {"idle", "done"}
  BY DeliveryIs DEF Alone, OthersFree, Free, JobIInv
<1>2. AheadInv'
  BY <1>1 DEF AheadInv, Ahead, Day
<1>3. BehindInv'
  <2> SUFFICES ASSUME NEW q \in Runner, ~Free(q)'
               PROVE  /\ job'[q].mode = "auto"
                      /\ job'[q].pc \in {"generate", "sync", "log", "check", "refresh"}
                      /\ job'[q].start \in Day /\ job'[q].target \in Day
                      /\ job'[q].pc \in {"check", "refresh"} => job'[q].latest <= job'[q].target
                      /\ \A d \in Behind(q)' : Delivered(d)'
    BY DEF BehindInv, Day
  <2>1. job'[q] = j
    BY <1>1 DEF Free
  <2>2. Behind(q)' = Through(j) /\ j.pc \notin {"idle", "done"}
    BY <2>1 DEF Behind, Through, Free
  <2> QED BY <2>1, <2>2
<1> QED BY <1>2, <1>3 DEF JobIInv, Alone

LEMMA JobIngestStep ==
  ASSUME JobIInv, alone, Ingest \/ UNCHANGED vars
  PROVE  JobIInv'
<1>1. DeliveryIInv /\ UNCHANGED <<delta, spoke, job, alone>>
  BY DEF JobIInv, Ingest, Midnight, CommitVersion, vars
<1>2. DeliveryIInv'
  BY <1>1, IngestStep, MidnightStep
<1>3. \A i \in Ids : rows'[i] = rows[i]
  <2>1. CASE rows' = rows
    BY <2>1
  <2>2. CASE \E v : rows' = Append(rows, v)
    <3>1. rows \in Seq(Version) /\ Ids = 1..Len(rows)
      BY <1>1 DEF DeliveryIInv, TypeOK, Ids
    <3> QED BY <2>2, <3>1
  <2> QED BY <2>1, <2>2 DEF Ingest, Midnight, CommitVersion, vars
<1>4. SpokesAgree' /\ AheadInv'
  BY <1>1 DEF JobIInv, SpokesAgree, AheadInv, Day
<1>5. SourceInv'
  <2> SUFFICES ASSUME NEW t \in Table, NEW m \in Member, spoke[t][m] # NoRow
               PROVE  \E a \in delta[rows'[spoke[t][m]].day] : a.row = spoke[t][m]
    BY <1>1 DEF SourceInv
  <2>1. rows'[spoke[t][m]] = rows[spoke[t][m]]
    BY <1>1, <1>3, DeliveryIs
  <2> QED BY <2>1 DEF JobIInv, SourceInv, Alone
<1>6. BehindInv'
  <2> SUFFICES ASSUME NEW q \in Runner, ~Free(q)
               PROVE  /\ job[q].mode = "auto"
                      /\ job[q].pc \in {"generate", "sync", "log", "check", "refresh"}
                      /\ job[q].start \in Day /\ job[q].target \in Day
                      /\ job[q].pc \in {"check", "refresh"} => job[q].latest <= job[q].target
                      /\ \A d \in Through(job[q]) : Delivered(d)'
    BY <1>1 DEF BehindInv, Behind, Through, Free, Day
  <2>1. \A d \in Through(job[q]) : Delivered(d)'
    BY <1>1, <1>3, RunIs, DeliveredStays
  <2> QED BY <2>1, RunIs
<1> QED BY <1>1, <1>2, <1>4, <1>5, <1>6 DEF JobIInv

\* A step of the run that writes neither actions nor spokes.
LEMMA RunMoves ==
  ASSUME JobIInv, NEW r \in Runner, Alone(r), UNCHANGED <<rows, delta, spoke>>, DeliveryIInv',
         NEW j, job' = [job EXCEPT ![r] = j],
         \A d \in Day : Ahead(j, d) => delta[d] = {},
         \/ j.pc \in {"idle", "done"}
         \/ /\ j.mode = "auto" /\ j.pc \in {"generate", "sync", "log", "check", "refresh"}
            /\ j.start \in Day /\ j.target \in Day
            /\ j.pc \in {"check", "refresh"} => j.latest <= j.target
            /\ \A d \in Through(j) : d \in Day /\ Delivered(d)
  PROVE  JobIInv'
<1>1. SpokesAgree' /\ SourceInv'
  BY DEF JobIInv, SpokesAgree, SourceInv, Alone
<1>2. \A d \in Day : Delivered(d) => Delivered(d)'
  BY DeliveredStays DEF JobIInv
<1> QED BY <1>1, <1>2, RunStep

LEMMA JobStartStep ==
  ASSUME JobIInv, NEW r \in Runner, Alone(r), Start(r)
  PROVE  JobIInv'
<1>1. DeliveryIInv' /\ UNCHANGED <<rows, delta, spoke>> /\ DeliveryIInv
  BY StartStep, StartIs DEF JobIInv
<1>2. CASE job' = [job EXCEPT ![r] = [Idle EXCEPT !.pc = "done"]]
  <2> DEFINE j == [Idle EXCEPT !.pc = "done"]
  <2>1. j.pc = "done"
    BY DEF Idle
  <2>2. \A d \in Day : ~Ahead(j, d)
    BY <2>1 DEF Ahead
  <2> HIDE DEF j
  <2> QED BY <1>1, <1>2, <2>1, <2>2, RunMoves DEF j
<1>3. ASSUME NEW from \in Day, NEW to \in Day,
             job' = [job EXCEPT ![r] = [pc |-> "generate", mode |-> "auto", target |-> from,
                                       start |-> from, latest |-> to]],
             \A d \in Day : d >= from => delta[d] = {}
      PROVE  JobIInv'
  <2> DEFINE j == [pc |-> "generate", mode |-> "auto", target |-> from, start |-> from, latest |-> to]
  <2>1. j.pc = "generate" /\ j.mode = "auto" /\ j.start = from /\ j.target = from
    OBVIOUS
  <2>2. job' = [job EXCEPT ![r] = j]
    BY <1>3
  <2> HIDE DEF j
  <2>3. from \in Nat
    BY <1>1, DeliveryIs, RowsAre
  <2>4. \A d \in Through(j) : FALSE
    BY <2>1, <2>3 DEF Through
  <2>5. \A d \in Day : Ahead(j, d) => delta[d] = {}
    BY <1>3, <2>1 DEF Ahead
  <2> QED BY <1>1, <2>1, <2>2, <2>4, <2>5, RunMoves
<1> QED BY <1>1, <1>2, <1>3, StartIs

\* The next day: all days before it are behind the run.
LEMMA JobLogDayStep ==
  ASSUME JobIInv, NEW r \in Runner, Alone(r), LogDay(r)
  PROVE  JobIInv'
<1> DEFINE d == job[r].target
<1>1. DeliveryIInv' /\ UNCHANGED <<rows, delta, spoke>> /\ job[r].pc = "log" /\ DeliveryIInv
  BY LogDayStep DEF LogDay, JobIInv
<1>2. /\ job[r] \in JobState /\ job[r].mode = "auto" /\ job[r].start \in Day /\ d \in Day
      /\ \A e \in Through(job[r]) : e \in Day /\ Delivered(e)
      /\ \A e \in Day : Ahead(job[r], e) => delta[e] = {}
  BY <1>1, RunIs DEF Free, Alone
<1>3. d \in Nat /\ job[r].latest \in Day /\ Day = 1..LastDay /\ LastDay \in Nat /\ job[r].start \in Nat
  BY <1>1, <1>2, DeliveryIs, RowsAre, JobIs DEF Ready
<1>4. CASE d < job[r].latest
  <2> DEFINE j == [job[r] EXCEPT !.pc = "generate", !.target = d + 1]
  <2>1. job' = [job EXCEPT ![r] = j]
    BY <1>1, <1>2, <1>4, DeliveryIs DEF LogDay, JobState
  <2>2. d + 1 \in Day
    BY <1>3, <1>4
  <2>3. j.pc = "generate" /\ j.mode = "auto" /\ j.start = job[r].start /\ j.target = d + 1
    BY <1>2 DEF JobState
  <2> HIDE DEF j
  <2>4. Through(j) = Through(job[r])
    <3>1. j.start..(j.target - 1) = job[r].start..d
      <4>1. j.start = job[r].start /\ j.target = d + 1 /\ d \in Nat
        BY <1>3, <2>3
      <4> HIDE DEF d
      <4>2. j.target - 1 = d
        BY <4>1
      <4> QED BY <4>1, <4>2
    <3> QED BY <1>1, <2>3, <3>1 DEF Through
  <2>5. \A e \in Day : Ahead(j, e) => Ahead(job[r], e)
    <3> SUFFICES ASSUME NEW e \in Day, e >= d + 1 PROVE e > d
      BY <1>1, <2>3 DEF Ahead
    <3> HIDE DEF d
    <3> QED BY <1>3
  <2> QED BY <1>1, <1>2, <2>1, <2>2, <2>3, <2>4, <2>5, RunMoves
<1>5. CASE ~(d < job[r].latest)
  <2> DEFINE j == [job[r] EXCEPT !.pc = "check"]
  <2>1. job' = [job EXCEPT ![r] = j]
    BY <1>1, <1>2, <1>5, DeliveryIs DEF LogDay, JobState
  <2>2. j.pc = "check" /\ j.mode = "auto" /\ j.start = job[r].start /\ j.target = d /\ j.latest = job[r].latest
    BY <1>2 DEF JobState
  <2> HIDE DEF j
  <2>3. Through(j) = Through(job[r])
    BY <1>1, <2>2 DEF Through
  <2>4. j.latest <= j.target /\ \A e : ~Ahead(j, e)
    BY <1>3, <1>5, <2>2 DEF Ahead
  <2> QED BY <1>1, <1>2, <2>1, <2>2, <2>3, <2>4, RunMoves
<1> QED BY <1>4, <1>5

\* Check, RefreshSearch and Fail end the days of a run.
LEMMA JobEndStep ==
  ASSUME JobIInv, NEW r \in Runner, Alone(r), Check(r) \/ RefreshSearch(r) \/ Fail(r)
  PROVE  JobIInv'
<1>1. DeliveryIInv' /\ UNCHANGED <<rows, delta, spoke>> /\ DeliveryIInv
  BY OtherStep, RefreshSearchStep DEF JobIInv, Check, RefreshSearch, Fail
<1>2. CASE Fail(r)
  <2>1. Idle.pc = "idle" /\ \A d : ~Ahead(Idle, d)
    BY DEF Idle, Ahead
  <2>2. job' = [job EXCEPT ![r] = Idle]
    BY <1>2 DEF Fail
  <2> QED BY <1>1, <2>1, <2>2, RunMoves
<1>3. CASE RefreshSearch(r)
  <2> DEFINE j == [job[r] EXCEPT !.pc = "done"]
  <2>1. job' = [job EXCEPT ![r] = j] /\ j.pc = "done"
    BY <1>1, <1>3, DeliveryIs, JobIs DEF RefreshSearch, Goto, JobState
  <2> HIDE DEF j
  <2>2. \A d : ~Ahead(j, d)
    BY <2>1 DEF Ahead
  <2> QED BY <1>1, <2>1, <2>2, RunMoves
<1>4. CASE Check(r)
  <2> DEFINE j == [job[r] EXCEPT !.pc = "refresh"]
  <2>1. /\ job[r].pc = "check" /\ job[r] \in JobState /\ job[r].mode = "auto" /\ job[r].start \in Day
        /\ job[r].target \in Day /\ job[r].latest <= job[r].target
        /\ \A e \in Through(job[r]) : e \in Day /\ Delivered(e)
    BY <1>4, RunIs DEF Check, Free, Alone
  <2>2. job' = [job EXCEPT ![r] = j]
    BY <1>1, <1>4, DeliveryIs DEF Check, Goto, JobState
  <2>3. /\ j.pc = "refresh" /\ j.mode = "auto" /\ j.start = job[r].start /\ j.target = job[r].target
        /\ j.latest = job[r].latest
    BY <2>1 DEF JobState
  <2> HIDE DEF j
  <2>4. Through(j) = Through(job[r]) /\ \A d : ~Ahead(j, d)
    BY <2>1, <2>3 DEF Through, Ahead
  <2> QED BY <1>1, <2>1, <2>2, <2>3, <2>4, RunMoves
<1> QED BY <1>2, <1>3, <1>4

\* The day had no actions before: what was delivered stays newest or is superseded.
LEMMA JobGenerateStep ==
  ASSUME JobIInv, NEW r \in Runner, Alone(r), Generate(r)
  PROVE  JobIInv'
<1> DEFINE d == job[r].target
           j == [job[r] EXCEPT !.pc = "sync", !.target = d]
<1>1. /\ DeliveryIInv' /\ DeliveryIInv /\ job[r].pc = "generate" /\ delta' = [delta EXCEPT ![d] = DeltaOf(d)]
      /\ UNCHANGED <<rows, spoke>>
  BY GenerateStep DEF Generate, JobIInv
<1>2. /\ job[r] \in JobState /\ job[r].mode = "auto" /\ job[r].start \in Day /\ d \in Day
      /\ \A e \in Through(job[r]) : e \in Day /\ Delivered(e)
      /\ \A e \in Day : Ahead(job[r], e) => delta[e] = {}
  BY <1>1, RunIs DEF Free, Alone
<1>3. job' = [job EXCEPT ![r] = j]
  BY <1>1, <1>2, DeliveryIs DEF Generate, JobState
<1>4. j.pc = "sync" /\ j.mode = "auto" /\ j.start = job[r].start /\ j.target = d
  BY <1>2 DEF JobState
<1> HIDE DEF j
<1>5. d \in Nat /\ Day = 1..LastDay /\ LastDay \in Nat /\ job[r].start \in Nat
  BY <1>1, <1>2, DeliveryIs, RowsAre
<1>6. delta[d] = {}
  <2>1. d >= d
    BY <1>5
  <2> QED BY <1>1, <1>2, <2>1 DEF Ahead
<1>7. \A e \in Day : e # d => delta'[e] = delta[e]
  BY <1>1, <1>2, DeliveryIs
<1>8. \A e \in Day : Ahead(j, e) => delta'[e] = {}
  <2> SUFFICES ASSUME NEW e \in Day, e > d PROVE delta'[e] = {}
    BY <1>4 DEF Ahead
  <2>1. e >= d /\ e # d
    BY <1>5
  <2> QED BY <1>1, <1>2, <1>7, <2>1 DEF Ahead
<1>9. SpokesAgree'
  BY <1>1 DEF JobIInv, SpokesAgree, Alone
<1>10. SourceInv'
  <2> SUFFICES ASSUME NEW t \in Table, NEW m \in Member, spoke[t][m] # NoRow
               PROVE  \E a \in delta'[rows[spoke[t][m]].day] : a.row = spoke[t][m]
    BY <1>1 DEF SourceInv
  <2>1. PICK a \in delta[rows[spoke[t][m]].day] : a.row = spoke[t][m]
    BY DEF JobIInv, SourceInv, Alone
  <2>2. rows[spoke[t][m]].day \in Day
    BY <1>1, DeliveryIs, RowsAre
  <2>3. rows[spoke[t][m]].day # d
    BY <1>6, <2>1
  <2> QED BY <1>7, <2>1, <2>2, <2>3
<1>11. \A e \in Through(j) : Delivered(e)'
  <2> SUFFICES ASSUME NEW e \in Through(j) PROVE Delivered(e)'
    OBVIOUS
  <2>1. e \in Through(job[r]) /\ e # d
    <3> HIDE DEF d
    <3>1. e \in job[r].start..(d - 1)
      BY <1>4 DEF Through
    <3>2. e # d
      BY <1>5, <3>1
    <3> QED BY <1>1, <3>1, <3>2 DEF Through, d
  <2>2. e \in Day /\ Delivered(e) /\ delta'[e] = delta[e]
    BY <1>2, <1>7, <2>1
  <2>3. \A f \in Day : delta[f] \subseteq delta'[f]
    BY <1>6, <1>7
  <2> QED BY <1>1, <2>2, <2>3 DEF Delivered, Day
<1> QED BY <1>1, <1>2, <1>3, <1>4, <1>8, <1>9, <1>10, <1>11, RunStep

\* The sync of the newest day with actions: it finds no row newer than its own.
LEMMA SyncReaches ==
  ASSUME JobIInv, alone, NEW r \in Runner, job[r].pc = "sync", NEW t \in Table, NEW m \in Member,
         NEW a \in delta[job[r].target], a.member = m
  PROVE  Synced(t, m, job[r].target) =
           IF a.action # "DELETE" /\ t \in rows[a.row].tables THEN a.row ELSE NoRow
<1> DEFINE d == job[r].target
           i == spoke[t][m]
<1>1. /\ DeliveryIInv /\ d \in Day /\ d \in Nat /\ Day = 1..LastDay /\ LastDay \in Nat
      /\ \A e \in Day : Ahead(job[r], e) => delta[e] = {}
  BY RunIs, DeliveryIs, RowsAre DEF JobIInv, Free
<1>2. /\ a.row \in Ids /\ a.row \in Nat /\ rows[a.row].day = d /\ rows[a.row].member = m
      /\ \A b \in delta[d] : b.member = m => b = a
  <2>1. a.row \in Ids /\ Ids = 1..Len(rows) /\ Len(rows) \in Nat /\ rows[a.row].member = m
    BY <1>1, DeliveryIs, RowsAre
  <2> QED BY <1>1, <2>1 DEF DeliveryIInv, DeltaInv
<1>3. i \in Nat /\ i \in Ids \cup {NoRow}
  BY <1>1, SpokeIs
<1>4. ~(i > a.row)
  <2> SUFFICES ASSUME i > a.row PROVE FALSE
    OBVIOUS
  <2>1. i # NoRow /\ i \in Ids
    BY <1>2, <1>3 DEF NoRow
  <2> DEFINE e == rows[i].day
  <2>2. e \in Day /\ rows[i].member = m
    BY <1>1, <2>1, DeliveryIs, RowsAre DEF DeliveryIInv, SpokeInv
  <2>3. PICK b \in delta[e] : b.row = i
    BY <2>1 DEF JobIInv, SourceInv, Alone
  <2>4. b.member = m
    BY <1>1, <2>2, <2>3, DeliveryIs
  <2>5. ~(e > d)
    BY <1>1, <2>2, <2>3 DEF Ahead
  <2>6. e # d
    <3> SUFFICES ASSUME e = d PROVE FALSE
      OBVIOUS
    <3>1. b = a
      BY <1>2, <2>3, <2>4
    <3> QED BY <1>2, <2>3, <3>1
  <2>7. d <= e
    BY <1>1, <1>2, <1>3, <2>1, <2>2 DEF DeliveryIInv, RowsInv
  <2> HIDE DEF d, e
  <2> QED BY <1>1, <2>2, <2>5, <2>6, <2>7
<1> HIDE DEF d
<1>5. \E b \in delta[d] :
        /\ b.member = m /\ i <= b.row
        /\ Synced(t, m, d) = IF b.action # "DELETE" /\ t \in rows[b.row].tables THEN b.row ELSE NoRow
  BY <1>1, <1>4, SyncedIs DEF d
<1> QED BY <1>2, <1>5 DEF d

LEMMA SyncLeaves ==
  ASSUME NEW t \in Table, NEW m \in Member, NEW d, ~ \E a \in delta[d] : a.member = m
  PROVE  Synced(t, m, d) = spoke[t][m]
<1>1. {a \in delta[d] : a.member = m} = {}
  OBVIOUS
<1> QED BY <1>1 DEF Synced

LEMMA JobSyncStep ==
  ASSUME JobIInv, NEW r \in Runner, Alone(r), Sync(r)
  PROVE  JobIInv'
<1> DEFINE d == job[r].target
           j == [job[r] EXCEPT !.pc = "log"]
           Acted(m) == \E a \in delta[d] : a.member = m
<1>1. /\ DeliveryIInv' /\ DeliveryIInv /\ job[r].pc = "sync" /\ UNCHANGED <<rows, delta>>
      /\ \A t \in Table, m \in Member : spoke'[t][m] = Synced(t, m, d)
  BY SyncStep DEF Sync, JobIInv
<1>2. /\ job[r] \in JobState /\ job[r].mode = "auto" /\ job[r].start \in Day /\ d \in Day
      /\ \A e \in Through(job[r]) : e \in Day /\ Delivered(e)
      /\ \A e \in Day : Ahead(job[r], e) => delta[e] = {}
  BY <1>1, RunIs DEF Free, Alone
<1>3. job' = [job EXCEPT ![r] = j]
  BY <1>1, <1>2, DeliveryIs DEF Sync, Goto, JobState
<1>4. j.pc = "log" /\ j.mode = "auto" /\ j.start = job[r].start /\ j.target = d
  BY <1>2 DEF JobState
<1> HIDE DEF j
<1>5. d \in Nat /\ Day = 1..LastDay /\ LastDay \in Nat /\ job[r].start \in Nat
  BY <1>1, <1>2, DeliveryIs, RowsAre
<1>6. ASSUME NEW t \in Table, NEW m \in Member, NEW a \in delta[d], a.member = m
      PROVE  spoke'[t][m] = IF a.action # "DELETE" /\ t \in rows[a.row].tables THEN a.row ELSE NoRow
  BY <1>1, <1>6, SyncReaches DEF Alone
<1>7. ASSUME NEW t \in Table, NEW m \in Member, ~Acted(m)
      PROVE  spoke'[t][m] = spoke[t][m]
  <2> HIDE DEF d
  <2> QED BY <1>1, <1>7, SyncLeaves
<1>8. SpokesAgree'
  <2> SUFFICES ASSUME NEW m \in Member, NEW t \in Table, NEW u \in Table,
                      spoke'[t][m] # NoRow, spoke'[u][m] # NoRow
               PROVE  spoke'[t][m] = spoke'[u][m]
    BY DEF SpokesAgree
  <2>1. CASE Acted(m)
    BY <1>6, <2>1
  <2>2. CASE ~Acted(m)
    BY <1>7, <2>2 DEF JobIInv, SpokesAgree, Alone
  <2> QED BY <2>1, <2>2
<1>9. SourceInv'
  <2> SUFFICES ASSUME NEW t \in Table, NEW m \in Member, spoke'[t][m] # NoRow
               PROVE  \E a \in delta[rows[spoke'[t][m]].day] : a.row = spoke'[t][m]
    BY <1>1 DEF SourceInv
  <2>1. CASE Acted(m)
    <3>1. PICK a \in delta[d] : a.member = m
      BY <2>1
    <3>2. spoke'[t][m] = a.row
      BY <1>6, <3>1
    <3>3. rows[a.row].day = d
      BY <1>1, <1>2 DEF DeliveryIInv, DeltaInv
    <3> QED BY <3>2, <3>3
  <2>2. CASE ~Acted(m)
    BY <1>7, <2>2 DEF JobIInv, SourceInv, Alone
  <2> QED BY <2>1, <2>2
<1>10. \A e \in Day : Ahead(j, e) => delta'[e] = {}
  BY <1>1, <1>2, <1>4 DEF Ahead
<1>11. \A e \in Through(j) : Delivered(e)'
  <2> SUFFICES ASSUME NEW e \in Through(j), NEW a \in delta[e],
                      \A f \in Day : \A b \in delta[f] : b.member = a.member => f <= e,
                      NEW t \in Table
               PROVE  spoke'[t][a.member] =
                        IF a.action # "DELETE" /\ t \in rows[a.row].tables THEN a.row ELSE NoRow
    BY <1>1 DEF Delivered, Day
  <2>1. e \in job[r].start..d
    BY <1>4 DEF Through
  <2>2. e \in Day /\ e \in Nat /\ e <= d
    <3> HIDE DEF d
    <3> QED BY <1>2, <1>5, <2>1
  <2>3. a.member \in Member
    BY <1>1, <2>2, DeliveryIs DEF ActionRow
  <2>4. CASE Acted(a.member)
    <3>1. d <= e
      BY <1>2, <2>4
    <3>2. e = d
      <4> HIDE DEF d
      <4> QED BY <1>5, <2>2, <3>1
    <3> QED BY <1>6, <2>3, <3>2
  <2>5. CASE ~Acted(a.member)
    <3>1. e # d
      BY <2>5
    <3>2. e \in job[r].start..(d - 1)
      <4> HIDE DEF d
      <4> QED BY <1>5, <2>1, <2>2, <3>1
    <3>3. Delivered(e)
      BY <1>1, <1>2, <3>2 DEF Through
    <3>4. spoke[t][a.member] = IF a.action # "DELETE" /\ t \in rows[a.row].tables THEN a.row ELSE NoRow
      BY <3>3 DEF Delivered
    <3> QED BY <1>7, <2>3, <2>5, <3>4
  <2> QED BY <2>4, <2>5
<1> QED BY <1>1, <1>2, <1>3, <1>4, <1>8, <1>9, <1>10, <1>11, RunStep

LEMMA JobStepIs ==
  ASSUME JobIInv, [Steps]_vars
  PROVE  JobIInv'
<1>1. DeliveryIInv'
  BY DeliveryStep DEF JobIInv
<1>2. alone' \in BOOLEAN
  BY DEF JobIInv, Steps, Ingest, Midnight, CommitVersion, Deliver, Operate, vars
<1>3. CASE ~alone'
  BY <1>1, <1>2, <1>3 DEF JobIInv, SpokesAgree
<1>4. CASE alone' /\ (Ingest \/ UNCHANGED vars)
  <2>1. alone
    BY <1>4 DEF Ingest, Midnight, CommitVersion, vars
  <2> QED BY <1>4, <2>1, JobIngestStep
<1>5. ASSUME alone', NEW r \in Runner, Deliver(r)
      PROVE  JobIInv'
  <2>1. Alone(r) /\ Work(r)
    BY <1>5 DEF Alone, Deliver
  <2> QED BY <2>1, JobStartStep, JobGenerateStep, JobSyncStep, JobLogDayStep, JobEndStep DEF Work
<1>6. ASSUME NEW r \in Runner, Operate(r)
      PROVE  ~alone'
  BY <1>6 DEF Operate
<1> QED BY <1>3, <1>4, <1>5, <1>6 DEF Steps

LEMMA JobStarts ==
  ASSUME Init
  PROVE  JobIInv
<1>1. DeliveryIInv
  BY DeliveryStarts
<1>2. \A r \in Runner : Free(r) /\ job[r].pc = "idle"
  BY DEF Init, Free, Idle
<1>3. SpokesAgree /\ SourceInv /\ alone \in BOOLEAN
  BY DEF Init, SpokesAgree, SourceInv
<1>4. AheadInv /\ BehindInv
  BY <1>2 DEF AheadInv, BehindInv
<1> QED BY <1>1, <1>3, <1>4 DEF JobIInv

\* The invariant of runs that never overlapped: the days one has yet to generate have
\* no actions, so each sync is the newest there was, and the days behind it are
\* delivered.
THEOREM JobAloneInductive == OperatorSpec => []JobIInv
<1>1. Init => JobIInv
  BY JobStarts
<1>2. JobIInv /\ [Ingest \/ \E r \in Runner : Deliver(r) \/ Operate(r)]_vars => JobIInv'
  BY JobStepIs DEF Steps
<1> QED BY <1>1, <1>2, PTL DEF OperatorSpec

\* Whatever statement failed before, the spoke tables of a member never show two
\* versions of it while runs do not overlap and no tool is used.
THEOREM SpokesShowOneVersion == OperatorSpec => []SpokesAgree
<1>1. JobIInv => SpokesAgree
  BY DEF JobIInv
<1> QED BY <1>1, JobAloneInductive, PTL

\* A run that reaches the refresh of the search view has brought the actions of all
\* its days to every spoke table, while runs do not overlap and no tool is used.
THEOREM RunsDeliver == OperatorSpec => []RunDelivers
<1>1. JobIInv => RunDelivers
  <2> SUFFICES ASSUME JobIInv, alone, NEW r \in Runner, job[r].pc = "refresh",
                      NEW d \in job[r].start..job[r].latest
               PROVE  Delivered(d)
    BY DEF RunDelivers
  <2>1. /\ job[r] \in JobState /\ job[r].latest <= job[r].target /\ job[r].start \in Day
        /\ job[r].target \in Nat /\ \A e \in Through(job[r]) : Delivered(e)
    BY RunIs DEF Free
  <2>2. job[r].latest \in Int /\ job[r].start \in Int
    BY <2>1 DEF JobState, Day, NoDay
  <2>3. d \in job[r].start..job[r].target
    BY <2>1, <2>2
  <2> QED BY <2>1, <2>3 DEF Through
<1> QED BY <1>1, JobAloneInductive, PTL
================================================================================
