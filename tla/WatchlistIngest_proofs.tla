----------------------- MODULE WatchlistIngest_proofs -----------------------
(***************************************************************************)
(* Proofs about WatchlistIngest, for any number of workers, listings,      *)
(* members and payloads and for every acquisition method.                  *)
(*                                                                         *)
(* IInv is inductive under Spec; UnlockedInv, its part that needs no lock, *)
(* under OrphanSpec as well.  Each part of IInv is shown to survive        *)
(* every action by a lemma of its own; the tables, the lock, the holding   *)
(* file and the local states disturb different parts.                      *)
(***************************************************************************)
EXTENDS WatchlistIngest, FiniteSetTheorems, SequenceTheorems, TLAPS

(***************************************************************************)
(* The operators the actions are built from                                *)
(***************************************************************************)
\* A crawl gives a record or nothing for every member.
LEMMA CrawledType ==
  ASSUME NEW l \in Listing, NEW d \in Detail, NEW asked, NEW missing, NEW broken
  PROVE  Crawled(l, d, asked, missing, broken) \in Batch
BY SourceAssumption DEF Crawled, Batch

\* It has a record of exactly the members it asked for and did not miss.
LEMMA CrawledNamed ==
  ASSUME NEW l \in Listing, NEW d \in Detail,
         NEW asked \in SUBSET Member, NEW missing, NEW broken
  PROVE  Named(Crawled(l, d, asked, missing, broken)) = asked \ missing
BY SourceAssumption DEF Crawled, Named

\* A complete crawl names the members it asked for.
LEMMA CrawledAll ==
  ASSUME NEW l \in Listing, NEW d \in Detail,
         NEW asked \in SUBSET Member, NEW broken
  PROVE  Named(Crawled(l, d, asked, {}, broken)) = asked
BY SourceAssumption DEF Crawled, Named

\* Counting records tells an empty batch from another.
LEMMA EmptyCount ==
  ASSUME NEW b, RecordCount(b) > 0
  PROVE  Named(b) # {}
BY FS_EmptySet DEF RecordCount

\* A sequence that is neither empty nor longer than one.
LEMMA OneElement ==
  ASSUME NEW S, NEW s \in Seq(S), s # <<>>, Len(s) <= 1
  PROVE  Len(s) = 1 /\ s[1] \in S
<1>1. Len(s) \in Nat \ {0}
  BY EmptySeq
<1>2. Len(s) = 1
  BY <1>1
<1> QED BY <1>2

\* Replacing one element of a sequence.
LEMMA ExceptOne ==
  ASSUME NEW S, NEW s \in Seq(S), NEW i \in 1..Len(s), NEW e
  PROVE  /\ Len([s EXCEPT ![i] = e]) = Len(s)
         /\ [s EXCEPT ![i] = e][i] = e
         /\ \A j \in 1..Len(s) : j # i => [s EXCEPT ![i] = e][j] = s[j]
OBVIOUS

\* Sequences of one element.
LEMMA Singleton ==
  ASSUME NEW S, NEW x \in S
  PROVE  <<x>> # <<>> /\ Len(<<x>>) = 1 /\ <<x>>[1] = x
OBVIOUS

\* The first element appended to an empty sequence.
LEMMA AppendEmpty ==
  ASSUME NEW S, NEW s, s = <<>>, NEW x \in S
  PROVE  Append(s, x) = <<x>>
OBVIOUS

\* One batch applied to the history of the members.
LEMMA UpsertType ==
  ASSUME NEW c \in [Member -> Seq(MemberRow)], NEW b \in Batch, NEW f \in Nat
  PROVE  Upsert(c, b, f) \in [Member -> Seq(MemberRow)]
<1> SUFFICES ASSUME NEW m \in Member PROVE Upsert(c, b, f)[m] \in Seq(MemberRow)
  BY DEF Upsert
<1>1. CASE b[m] = NoRecord
  BY <1>1 DEF Upsert
<1>2. CASE b[m] # NoRecord
  <2>1. /\ Row(b[m], "NEW", f) \in MemberRow
        /\ Row(b[m], "UPDATED", f) \in MemberRow
    BY <1>2 DEF Row, MemberRow, Batch
  <2> QED BY <1>2, <2>1 DEF Upsert
<1> QED BY <1>1, <1>2

\* The deletes applied to the history of the members.
LEMMA TombstoneType ==
  ASSUME NEW c \in [Member -> Seq(MemberRow)], NEW raw \in Seq(Batch), NEW f \in Nat
  PROVE  Tombstone(c, raw, f) \in [Member -> Seq(MemberRow)]
<1> SUFFICES ASSUME NEW m \in Member PROVE Tombstone(c, raw, f)[m] \in Seq(MemberRow)
  BY DEF Tombstone
<1>1. CASE c[m] = <<>>
  BY <1>1 DEF Tombstone
<1>2. CASE c[m] # <<>>
  <2>1. c[m][Len(c[m])] \in MemberRow
    BY <1>2
  <2>2. Row(c[m][Len(c[m])].payload, "DELETED", f) \in MemberRow
    BY <2>1 DEF Row, MemberRow
  <2> QED BY <1>2, <2>2 DEF Tombstone
<1> QED BY <1>1, <1>2

\* The whole transaction, for the one batch a file has.
LEMMA MergeOne ==
  ASSUME NEW c, NEW raw, NEW f, Len(raw) = 1
  PROVE  Merge(c, raw, f) = Tombstone(Upsert(c, raw[1], f), raw, f)
BY DEF Merge

\* The transaction of a file that an orphan and its successor gave payloads.
LEMMA MergeType ==
  ASSUME NEW c \in [Member -> Seq(MemberRow)], NEW raw \in Seq(Batch),
         Len(raw) \in {1, 2}, NEW f \in Nat
  PROVE  Merge(c, raw, f) \in [Member -> Seq(MemberRow)]
<1>1. Upsert(c, raw[1], f) \in [Member -> Seq(MemberRow)]
  BY UpsertType
<1>2. CASE Len(raw) = 1
  BY <1>1, <1>2, TombstoneType DEF Merge
<1>3. CASE Len(raw) = 2
  <2>0. 2 \in 1..Len(raw) /\ Len(raw) # 1
    BY <1>3
  <2>1. raw[2] \in Batch /\ Len(raw) # 1
    BY <2>0, ElementOfSeq
  <2>2. PICK once \in [Member -> Seq(MemberRow)] : once = Upsert(c, raw[1], f)
    BY <1>1
  <2>3. Upsert(once, raw[2], f) \in [Member -> Seq(MemberRow)]
    BY <2>1, UpsertType
  <2>4. Merge(c, raw, f) = Tombstone(Upsert(once, raw[2], f), raw, f)
    BY <2>1, <2>2 DEF Merge
  <2> QED BY <2>3, <2>4, TombstoneType
<1> QED BY <1>2, <1>3

\* InsertRaw writes the one batch of the newest file and nothing else.
LEMMA InsertRawEffect ==
  ASSUME TypeOK, AttemptInv, NEW w \in Worker, InsertRaw(w)
  PROVE  \E n \in 1..Len(files) :
           /\ n = Len(files) /\ n = Len(files') /\ n = worker[w].file
           /\ ~Normalized(n) /\ files[n].raw = <<>>
           /\ files'[n].hash = files[n].hash /\ files'[n].version = files[n].version
           /\ files'[n].log = files[n].log /\ files'[n].raw = <<worker[w].recs>>
           /\ worker[w].listing = files[n].hash /\ worker[w].recs \in Batch
           /\ \A f \in 1..Len(files) : f # n => files'[f] = files[f]
<1>1. /\ worker[w].pc = "raw" /\ worker[w] \in WorkerState /\ AttemptOK(worker[w])
      /\ files \in Seq(FileRow)
  BY DEF TypeOK, InsertRaw, AttemptInv
<1>2. PICK n \in 1..Len(files) : n = Len(files)
  BY <1>1 DEF AttemptOK
<1>3. /\ worker[w].file = n /\ ~Normalized(n) /\ files[n].raw = <<>>
      /\ worker[w].listing = files[n].hash /\ worker[w].recs # Unread
  BY <1>1, <1>2 DEF AttemptOK
<1>4. worker[w].recs \in Batch /\ files[n] \in FileRow
  BY <1>1, <1>3 DEF WorkerState
<1> DEFINE r == [files[n] EXCEPT !.raw = Append(files[n].raw, worker[w].recs), !.status = "PARSED"]
<1>5. files' = [files EXCEPT ![n] = r]
  BY <1>1, <1>3 DEF InsertRaw
<1>6. /\ r.hash = files[n].hash /\ r.log = files[n].log /\ r.version = files[n].version
      /\ r.raw = Append(files[n].raw, worker[w].recs)
  BY <1>4 DEF FileRow
<1>7. r.raw = <<worker[w].recs>>
  BY <1>3, <1>4, <1>6, AppendEmpty
<1> HIDE DEF r
<1>8. files'[n] = r /\ Len(files') = Len(files)
  BY <1>1, <1>5, ExceptOne
<1>9. \A f \in 1..Len(files) : f # n => files'[f] = files[f]
  BY <1>1, <1>5, ExceptOne
<1> QED BY <1>2, <1>3, <1>4, <1>6, <1>7, <1>8, <1>9

(***************************************************************************)
(* Type correctness                                                        *)
(***************************************************************************)
\* Ending an attempt keeps the local states well typed.
LEMMA FinishType ==
  ASSUME TypeOK, NEW w \in Worker, Finish(w)
  PROVE  worker' \in [Worker -> WorkerState] /\ lock' \in Worker \union {Nobody}
<1>1. Idle \in WorkerState
  BY DEF Idle, WorkerState, NoFile
<1> QED BY <1>1 DEF TypeOK, Finish

\* Marking a file as failed keeps the table well typed.
LEMMA FailedType ==
  ASSUME TypeOK, NEW f \in 1..Len(files)
  PROVE  Failed(f) \in Seq(FileRow)
<1> DEFINE r == [files[f] EXCEPT !.status = "FAILED"]
<1>1. files \in Seq(FileRow) /\ files[f] \in FileRow
  BY DEF TypeOK
<1>2. r \in FileRow
  BY <1>1 DEF FileRow
<1>3. Failed(f) = [files EXCEPT ![f] = r]
  BY <1>1 DEF Failed
<1> QED BY <1>1, <1>2, <1>3

\* Logging a step of a file keeps the table well typed.
LEMMA LogType ==
  ASSUME TypeOK, NEW f \in 1..Len(files), NEW step, NEW status,
         <<step, status>> \in {<<"NORMALIZATION", "SUCCESS">>, <<"DOWNLOAD", "SKIPPED">>}
  PROVE  AddLog(f, step, status) \in Seq(FileRow)
<1> DEFINE r == [files[f] EXCEPT !.log = @ \union {<<step, status>>}]
<1>1. files \in Seq(FileRow) /\ files[f] \in FileRow
  BY DEF TypeOK
<1>2. r \in FileRow
  BY <1>1 DEF FileRow
<1>3. AddLog(f, step, status) = [files EXCEPT ![f] = r]
  BY <1>1 DEF AddLog
<1> QED BY <1>1, <1>2, <1>3

\* Moving on to another step keeps the local states well typed.
LEMMA GotoType ==
  ASSUME TypeOK, NEW w \in Worker, NEW pc, Goto(w, pc),
         pc \in {"acquire", "fetch_missing", "attach", "core", "release"}
  PROVE  worker' \in [Worker -> WorkerState]
<1> DEFINE s == [worker[w] EXCEPT !.pc = pc]
<1>1. worker \in [Worker -> WorkerState] /\ worker[w] \in WorkerState
  BY DEF TypeOK
<1>2. s \in WorkerState
  BY <1>1 DEF WorkerState
<1>3. worker' = [worker EXCEPT ![w] = s]
  BY <1>1 DEF Goto
<1> QED BY <1>1, <1>2, <1>3

\* Jobs that hold the lock can rely on more than those that lost it.
LEMMA Locked == IInv => UnlockedInv
<1> SUFFICES ASSUME IInv PROVE UnlockedInv
  OBVIOUS
<1>1. TypeOK /\ Len(files) \in Nat
  BY DEF IInv, TypeOK
<1>2. ASSUME NEW w \in Worker PROVE UnlockedOK(worker[w])
  <2>1. AttemptOK(worker[w])
    BY DEF IInv, AttemptInv
  <2> QED BY <1>1, <2>1 DEF AttemptOK, UnlockedOK
<1>3. ASSUME NEW f \in 1..Len(files)
      PROVE  /\ Len(files[f].raw) <= MaxBatches
             /\ \A i \in 1..Len(files[f].raw) : Named(files[f].raw[i]) # {}
  <2>1. files[f] \in FileRow
    BY <1>1 DEF TypeOK
  <2>2. files[f].raw \in Seq(Batch) /\ Len(files[f].raw) <= 1
    BY <2>1 DEF FileRow, IInv, RawIsWholeListing
  <2>3. Len(files[f].raw) <= MaxBatches
    BY <2>2 DEF MaxBatches
  <2> QED BY <2>3 DEF IInv, FileInv
<1> QED BY <1>1, <1>2, <1>3 DEF UnlockedInv

\* Every action leads to well-typed tables and local states, whether or not the
\* parents of the jobs live.
LEMMA TypeStep == UnlockedInv /\ [Next \/ ParentDies]_vars => TypeOK'
<1> SUFFICES ASSUME UnlockedInv, Next PROVE TypeOK'
  BY DEF UnlockedInv, TypeOK, vars, ParentDies
<1>t. TypeOK
  BY DEF UnlockedInv
<1>w. ASSUME NEW w \in Worker PROVE worker[w] \in WorkerState
  BY <1>t DEF TypeOK
<1>s. source \in [listing : Listing, detail : Detail, method : Methods]
  BY <1>t DEF TypeOK
<1>1. ASSUME NEW l \in Listing, NEW d \in Detail, Publish(l, d) PROVE TypeOK'
  BY <1>t, <1>1 DEF TypeOK, Publish
<1>2. ASSUME NEW w \in Worker, Start(w) PROVE TypeOK'
  BY <1>t, <1>2, GotoType DEF TypeOK, Start
<1>4. ASSUME NEW w \in Worker, StartRetry(w) PROVE TypeOK'
  <2> DEFINE s == [worker[w] EXCEPT !.pc = "fetch_missing", !.held = hold]
  <2>1. s \in WorkerState
    BY <1>t, <1>w DEF TypeOK, WorkerState
  <2>2. worker' = [worker EXCEPT ![w] = s]
    BY <1>t, <1>4 DEF TypeOK, StartRetry
  <2> QED BY <1>t, <1>4, <2>1, <2>2 DEF TypeOK, StartRetry
<1>3. ASSUME NEW w \in Worker, AcquireFile(w) PROVE TypeOK'
  <2> DEFINE s == [worker[w] EXCEPT !.pc = "acquired", !.listing = source.listing]
  <2>1. s \in WorkerState
    BY <1>s, <1>w DEF WorkerState
  <2>2. worker' = [worker EXCEPT ![w] = s]
    BY <1>t, <1>3 DEF TypeOK, AcquireFile
  <2> QED BY <1>t, <1>3, <2>1, <2>2 DEF TypeOK, AcquireFile
<1>5. ASSUME NEW w \in Worker, NEW broken \in SUBSET Member, AcquireCrawl(w, broken)
      PROVE  TypeOK'
  <2>1. Crawled(source.listing, source.detail, Roster[source.listing], {}, broken)
          \in Batch
    BY <1>s, CrawledType
  <2> DEFINE b == Crawled(source.listing, source.detail, Roster[source.listing], {}, broken)
             s == [worker[w] EXCEPT !.pc = "acquired", !.listing = source.listing, !.recs = b]
  <2>2. s \in WorkerState
    BY <1>s, <1>w, <2>1 DEF WorkerState
  <2>3. worker' = [worker EXCEPT ![w] = s]
    BY <1>t, <1>5 DEF TypeOK, AcquireCrawl
  <2> QED BY <1>t, <1>5, <2>2, <2>3 DEF TypeOK, AcquireCrawl
<1>6. ASSUME NEW w \in Worker, NEW missing \in SUBSET Member, NEW broken \in SUBSET Member,
             HoldCrawl(w, missing, broken)
      PROVE  TypeOK'
  <2>1. Crawled(source.listing, source.detail, Roster[source.listing], missing, broken)
          \in Batch
    BY <1>s, CrawledType
  <2>2. hold' \in Held
    BY <1>s, <1>6, <2>1 DEF HoldCrawl, Held
  <2> QED BY <1>t, <1>6, <2>2, FinishType DEF TypeOK, HoldCrawl
<1>7. ASSUME NEW w \in Worker, NEW missing \in SUBSET Member, NEW broken \in SUBSET Member,
             FetchMissing(w, missing, broken)
      PROVE  TypeOK'
  <2> DEFINE held == worker[w].held
             fetched == Crawled(held.listing, source.detail, held.missing, missing, broken)
             recs == [m \in Member |->
                        IF fetched[m] # NoRecord THEN fetched[m] ELSE held.recs[m]]
  <2>1. held \in Held
    BY <1>7, <1>w DEF UnlockedInv, UnlockedOK, FetchMissing, WorkerState
  <2>2. fetched \in Batch
    BY <1>s, <2>1, CrawledType DEF Held
  <2>3. recs \in Batch
    BY <2>1, <2>2 DEF Held, Batch
  <2>4. CASE missing # {}
    <3>1. hold' \in Held
      <4>1. hold' = [held EXCEPT !.missing = missing, !.recs = recs]
        BY <1>7, <2>1, <2>4 DEF FetchMissing
      <4> QED BY <2>1, <2>3, <4>1 DEF Held
    <3> QED BY <1>t, <1>7, <2>4, <3>1, FinishType DEF TypeOK, FetchMissing
  <2>5. CASE missing = {}
    <3> DEFINE s == [worker[w] EXCEPT !.pc = "acquired", !.retry = TRUE,
                                       !.held = NoHold,
                                       !.listing = held.listing, !.recs = recs]
    <3>1. s \in WorkerState
      BY <1>w, <2>1, <2>3 DEF WorkerState, Held
    <3>2. worker' = [worker EXCEPT ![w] = s]
      BY <1>t, <1>7, <2>1, <2>5 DEF TypeOK, FetchMissing
    <3> QED BY <1>t, <1>7, <2>5, <3>1, <3>2 DEF TypeOK, FetchMissing
  <2> QED BY <2>4, <2>5
<1>8. ASSUME NEW w \in Worker, Check(w) PROVE TypeOK'
  <2>1. Len(files) \in Nat
    BY <1>t DEF TypeOK
  <2>2. CheckDuplicate(worker[w].listing) \in
          {"FIRST_DOWNLOAD", "NEW_VERSION", "DUPLICATE_COMPLETED",
           "RESUME_NORMALIZATION", "RESUME_PROCESSING"}
    BY DEF CheckDuplicate
  <2> DEFINE dup == CheckDuplicate(worker[w].listing)
             s == [worker[w] EXCEPT
                     !.dup = dup,
                     !.file = IF dup \in {"FIRST_DOWNLOAD", "NEW_VERSION"}
                              THEN NoFile ELSE Len(files),
                     !.pc = CASE dup = "DUPLICATE_COMPLETED" -> "skip"
                              [] dup = "RESUME_NORMALIZATION" -> "attach"
                              [] dup = "RESUME_PROCESSING" -> "extract"
                              [] OTHER -> "version"]
  <2>3. s \in WorkerState
    BY <1>w, <2>1, <2>2 DEF WorkerState, NoFile
  <2>4. worker' = [worker EXCEPT ![w] = s]
    BY <1>t, <1>8 DEF TypeOK, Check
  <2> QED BY <1>t, <1>8, <2>3, <2>4 DEF TypeOK, Check
<1>9. ASSUME NEW w \in Worker, Skip(w) PROVE TypeOK'
  <2>1. worker[w].file \in 1..Len(files)
    BY <1>9, <1>t DEF UnlockedInv, UnlockedOK, Skip, TypeOK
  <2>2. files' \in Seq(FileRow)
    BY <1>t, <1>9, <2>1, LogType DEF Skip
  <2>3. worker' \in [Worker -> WorkerState] /\ lock' \in Worker \union {Nobody}
    <3>1. CASE worker[w].retry
      BY <1>t, <1>9, <3>1, GotoType DEF TypeOK, Skip
    <3>2. CASE ~worker[w].retry
      BY <1>t, <1>9, <3>2, FinishType DEF Skip
    <3> QED BY <3>1, <3>2
  <2> QED BY <1>t, <1>9, <2>2, <2>3 DEF TypeOK, Skip
<1>10. ASSUME NEW w \in Worker, DetermineVersion(w) PROVE TypeOK'
  <2>1. worker[w].dup # "FIRST_DOWNLOAD" => files[Len(files)].version + 1 \in Nat
    <3>1. worker[w].dup # "FIRST_DOWNLOAD" => Len(files) # 0
      BY <1>10 DEF UnlockedInv, UnlockedOK, DetermineVersion
    <3>2. Len(files) # 0 => files[Len(files)] \in FileRow
      BY <1>t DEF TypeOK
    <3> QED BY <3>1, <3>2 DEF FileRow
  <2> DEFINE s == [worker[w] EXCEPT
                     !.pc = "register",
                     !.version = IF worker[w].dup = "FIRST_DOWNLOAD" THEN 1
                                 ELSE files[Len(files)].version + 1]
  <2>2. s \in WorkerState
    BY <1>w, <2>1 DEF WorkerState
  <2>3. worker' = [worker EXCEPT ![w] = s]
    BY <1>t, <1>10 DEF TypeOK, DetermineVersion
  <2> QED BY <1>t, <1>10, <2>2, <2>3 DEF TypeOK, DetermineVersion
<1>11. ASSUME NEW w \in Worker, Register(w) PROVE TypeOK'
  <2>1. worker[w].listing \in Listing /\ worker[w].version \in Nat
    BY <1>11, <1>w DEF UnlockedInv, UnlockedOK, Register, WorkerState
  <2> DEFINE r == [hash |-> worker[w].listing, version |-> worker[w].version,
                   status |-> "DOWNLOADED", raw |-> <<>>, log |-> {}]
             s == [worker[w] EXCEPT !.pc = "extract", !.file = Len(files) + 1]
  <2>2. files' \in Seq(FileRow)
    <3>1. r \in FileRow
      BY <2>1 DEF FileRow
    <3>2. files' = Append(files, r)
      BY <1>11 DEF Register
    <3> QED BY <1>t, <3>1, <3>2 DEF TypeOK
  <2>3. worker' \in [Worker -> WorkerState]
    <3>1. Len(files) + 1 \in Nat
      BY <1>t DEF TypeOK
    <3>2. s \in WorkerState
      BY <1>w, <3>1 DEF WorkerState
    <3>3. worker' = [worker EXCEPT ![w] = s]
      BY <1>t, <1>11 DEF TypeOK, Register
    <3> QED BY <1>t, <3>2, <3>3 DEF TypeOK
  <2> QED BY <1>t, <1>11, <2>2, <2>3 DEF TypeOK, Register
<1>12. ASSUME NEW w \in Worker, RegisterRejected(w) \/ Crash(w) PROVE TypeOK'
  BY <1>t, <1>12, FinishType DEF TypeOK, RegisterRejected, Crash
<1>13. ASSUME NEW w \in Worker, NEW missing \in SUBSET Member, NEW broken \in SUBSET Member,
              HoldSavedHtml(w, missing, broken)
       PROVE  TypeOK'
  <2>1. worker[w].listing \in Listing
    BY <1>13 DEF UnlockedInv, UnlockedOK, HoldSavedHtml
  <2>2. Crawled(worker[w].listing, source.detail, Roster[worker[w].listing], missing, broken)
          \in Batch
    BY <1>s, <2>1, CrawledType
  <2>3. hold' \in Held
    BY <1>13, <2>1, <2>2 DEF HoldSavedHtml, Held
  <2> QED BY <1>t, <1>13, <2>3, FinishType DEF TypeOK, HoldSavedHtml
<1>14. ASSUME NEW w \in Worker, NEW broken \in SUBSET Member, Extract(w, broken)
       PROVE  TypeOK'
  <2>1. Extracted(w, broken) \in Batch
    <3>1. worker[w].listing \in Listing
      BY <1>14 DEF UnlockedInv, UnlockedOK, Extract
    <3> QED BY <1>s, <1>w, <3>1, CrawledType DEF Extracted, WorkerState
  <2> DEFINE s == [worker[w] EXCEPT !.pc = "raw", !.recs = Extracted(w, broken)]
  <2>2. s \in WorkerState
    BY <1>w, <2>1 DEF WorkerState
  <2>3. worker' = [worker EXCEPT ![w] = s]
    BY <1>t, <1>14 DEF TypeOK, Extract
  <2> QED BY <1>t, <1>14, <2>2, <2>3 DEF TypeOK, Extract
<1>15. ASSUME NEW w \in Worker, NEW broken \in SUBSET Member, TooFewRecords(w, broken)
       PROVE  TypeOK'
  BY <1>t, <1>15, FinishType DEF TypeOK, TooFewRecords
<1>16. ASSUME NEW w \in Worker, NEW broken \in SUBSET Member,
              \/ ParseFails(w, broken) \/ RawFails(w) \/ AttachFails(w) \/ CoreFails(w)
       PROVE  TypeOK'
  <2>1. worker[w].file \in 1..Len(files)
    BY <1>16, <1>t DEF UnlockedInv, UnlockedOK, TypeOK,
                       ParseFails, RawFails, AttachFails, CoreFails
  <2>2. Failed(worker[w].file) \in Seq(FileRow)
    BY <1>t, <2>1, FailedType
  <2> QED BY <1>t, <1>16, <2>2, FinishType
          DEF TypeOK, ParseFails, RawFails, AttachFails, CoreFails
<1>17. ASSUME NEW w \in Worker, InsertRaw(w) PROVE TypeOK'
  <2> DEFINE f == worker[w].file
             r == [files[f] EXCEPT !.raw = Append(@, worker[w].recs), !.status = "PARSED"]
  <2>1. f \in 1..Len(files) /\ worker[w].recs \in Batch
    BY <1>17, <1>t, <1>w DEF UnlockedInv, UnlockedOK, TypeOK, InsertRaw, WorkerState
  <2>2. files \in Seq(FileRow) /\ files[f] \in FileRow
    BY <1>t, <2>1 DEF TypeOK
  <2>3. r \in FileRow
    <3>1. files[f].raw \in Seq(Batch)
      BY <2>2 DEF FileRow
    <3>2. Append(files[f].raw, worker[w].recs) \in Seq(Batch)
      BY <2>1, <3>1
    <3> QED BY <2>2, <3>2 DEF FileRow
  <2>4. files' = [files EXCEPT ![f] = r]
    BY <1>17, <2>2 DEF InsertRaw
  <2>5. files' \in Seq(FileRow)
    BY <2>1, <2>2, <2>3, <2>4
  <2> QED BY <1>t, <1>17, <2>5, GotoType DEF TypeOK, InsertRaw
<1>18. ASSUME NEW w \in Worker, Attach(w) PROVE TypeOK'
  BY <1>t, <1>18, GotoType DEF TypeOK, Attach
<1>19. ASSUME NEW w \in Worker, CommitCore(w) PROVE TypeOK'
  <2> DEFINE f == worker[w].file
  <2>1. f \in 1..Len(files)
    BY <1>19, <1>t DEF UnlockedInv, UnlockedOK, TypeOK, CommitCore
  <2>2. files[f] \in FileRow
    BY <1>t, <2>1 DEF TypeOK
  <2>3. files[f].raw \in Seq(Batch) /\ Len(files[f].raw) \in {1, 2}
    <3>1. files[f].raw \in Seq(Batch) /\ Len(files[f].raw) <= 2
      BY <2>1, <2>2 DEF FileRow, UnlockedInv, MaxBatches
    <3>2. Len(files[f].raw) \in Nat /\ Len(files[f].raw) # 0
      BY <1>19, <3>1 DEF CommitCore, HasRaw
    <3>3. ASSUME NEW n \in Nat, n <= 2, n # 0 PROVE n \in {1, 2}
      BY <3>3
    <3> QED BY <3>1, <3>2, <3>3
  <2>6. core' \in [Member -> Seq(MemberRow)]
    BY <1>19, <1>t, <2>1, <2>3, MergeType DEF TypeOK, CommitCore
  <2>7. files' \in Seq(FileRow)
    BY <1>t, <1>19, <2>1, LogType DEF CommitCore
  <2>8. worker' \in [Worker -> WorkerState] /\ lock' \in Worker \union {Nobody}
    <3>1. CASE worker[w].retry
      BY <1>t, <1>19, <3>1, GotoType DEF TypeOK, CommitCore
    <3>2. CASE ~worker[w].retry
      BY <1>t, <1>19, <3>2, FinishType DEF CommitCore
    <3> QED BY <3>1, <3>2
  <2> QED BY <1>t, <1>19, <2>6, <2>7, <2>8 DEF TypeOK, CommitCore
<1>20. ASSUME NEW w \in Worker, ReleaseHold(w) PROVE TypeOK'
  BY <1>t, <1>20, FinishType DEF TypeOK, ReleaseHold
<1> QED
  BY <1>1, <1>2, <1>3, <1>4, <1>5, <1>6, <1>7, <1>8, <1>9, <1>10, <1>11, <1>12,
     <1>13, <1>14, <1>15, <1>16, <1>17, <1>18, <1>19, <1>20
  DEF Next, WorkerStep, Acquisition, Registration, RawStep, CoreStep

\* Under the lock, the state a retry has loaded is still the holding file.
LEMMA HeldIsTheHold ==
  ASSUME IInv, NEW w \in Worker, worker[w].pc = "fetch_missing"
  PROVE  worker[w].held = hold /\ hold # NoHold /\ hold \in Held
BY DEF IInv, TypeOK, AttemptInv, AttemptOK

(***************************************************************************)
(* The lock and the local states                                           *)
(***************************************************************************)
\* An attempt that goes on, or starts under a free lock, concerns nobody else.
LEMMA GoesOn ==
  ASSUME TypeOK, LockInv, NEW w \in Worker,
         \/ worker[w].pc # "idle" /\ lock' = lock
         \/ lock = Nobody /\ lock' = w,
         \A v \in Worker \ {w} : worker'[v] = worker[v],
         worker'[w].pc # "idle",
         AttemptOK(worker[w])'
  PROVE  LockInv' /\ AttemptInv'
<1>1. \A v \in Worker \ {w} : worker[v].pc = "idle" /\ worker[v] = Idle
  BY SentinelAssumption DEF LockInv
<1>2. LockInv'
  BY <1>1, SentinelAssumption DEF LockInv, Idle
<1>3. ASSUME NEW v \in Worker \ {w} PROVE AttemptOK(worker[v])'
  <2>1. worker'[v].pc = "idle" /\ worker'[v].recs = Unread
    BY <1>1, <1>3 DEF Idle
  <2> QED BY <2>1 DEF AttemptOK
<1> QED BY <1>2, <1>3 DEF AttemptInv

\* An attempt that ends frees the lock and leaves nobody running.
LEMMA Stops ==
  ASSUME TypeOK, LockInv, NEW w \in Worker, worker[w].pc # "idle", Finish(w)
  PROVE  LockInv' /\ AttemptInv'
<1>1. lock = w /\ lock' = Nobody /\ worker' = [worker EXCEPT ![w] = Idle]
  BY DEF LockInv, Finish
<1>2. \A v \in Worker : worker'[v] = Idle
  BY <1>1 DEF TypeOK, LockInv
<1>i. Idle.pc = "idle" /\ Idle.recs = Unread
  BY DEF Idle
<1>3. LockInv'
  BY <1>1, <1>2, <1>i, SentinelAssumption DEF LockInv
<1>4. ASSUME NEW v \in Worker PROVE AttemptOK(worker[v])'
  <2>1. worker'[v].pc = "idle" /\ worker'[v].recs = Unread
    BY <1>2 DEF Idle
  <2> QED BY <2>1 DEF AttemptOK
<1> QED BY <1>3, <1>4 DEF AttemptInv

\* Every action leaves one running worker at most, in a state it may rely on.
LEMMA LocalStep == IInv /\ Next => LockInv' /\ AttemptInv'
<1> SUFFICES ASSUME IInv, Next PROVE LockInv' /\ AttemptInv'
  OBVIOUS
<1>i. TypeOK /\ LockInv /\ AttemptInv /\ FileInv
  BY DEF IInv
<1>s. source.listing \in Listing /\ source.detail \in Detail
  BY <1>i DEF TypeOK
<1>w. ASSUME NEW w \in Worker PROVE worker[w] \in WorkerState /\ AttemptOK(worker[w])
  BY <1>i DEF TypeOK, AttemptInv
<1>1. ASSUME NEW l \in Listing, NEW d \in Detail, Publish(l, d)
      PROVE  LockInv' /\ AttemptInv'
  BY <1>i, <1>1 DEF Publish, LockInv, AttemptInv, AttemptOK, Normalized
<1>2. ASSUME NEW w \in Worker, Start(w) \/ StartRetry(w) PROVE LockInv' /\ AttemptInv'
  <2>1. worker[w].recs = Unread
    BY <1>i, <1>2 DEF LockInv, Start, StartRetry, Idle
  <2>2. /\ worker'[w].pc \in {"acquire", "fetch_missing"}
        /\ worker'[w].recs = Unread
        /\ worker'[w].pc = "fetch_missing" => hold # NoHold /\ worker'[w].held = hold
        /\ \A v \in Worker \ {w} : worker'[v] = worker[v]
        /\ hold' = hold
    BY <1>i, <1>2, <1>w, <2>1 DEF TypeOK, Start, StartRetry, Goto, WorkerState
  <2>3. AttemptOK(worker[w])'
    BY <2>2 DEF AttemptOK
  <2> QED BY <1>i, <1>2, <2>2, <2>3, GoesOn DEF Start, StartRetry
<1>3. ASSUME NEW w \in Worker, AcquireFile(w) PROVE LockInv' /\ AttemptInv'
  <2>1. worker[w].recs = Unread
    BY <1>w, <1>3 DEF AttemptOK, AcquireFile
  <2>2. /\ worker'[w].pc = "acquired"
        /\ worker'[w].recs = Unread
        /\ worker'[w].listing \in Listing
        /\ \A v \in Worker \ {w} : worker'[v] = worker[v]
    BY <1>i, <1>3, <1>s, <1>w, <2>1 DEF TypeOK, AcquireFile, WorkerState
  <2>3. AttemptOK(worker[w])'
    BY <2>2 DEF AttemptOK
  <2> QED BY <1>i, <1>3, <2>2, <2>3, GoesOn DEF AcquireFile
<1>4. ASSUME NEW w \in Worker, NEW broken \in SUBSET Member, AcquireCrawl(w, broken)
      PROVE  LockInv' /\ AttemptInv'
  <2> DEFINE b == Crawled(source.listing, source.detail, Roster[source.listing], {}, broken)
  <2>1. Roster[source.listing] \in SUBSET Member
    BY <1>s, SourceAssumption
  <2>2. Named(b) = Roster[source.listing]
    BY <1>s, <2>1, CrawledAll
  <2>3. /\ worker'[w].pc = "acquired"
        /\ worker'[w].recs = b
        /\ worker'[w].listing = source.listing
        /\ \A v \in Worker \ {w} : worker'[v] = worker[v]
    BY <1>i, <1>4, <1>w DEF TypeOK, AcquireCrawl, WorkerState
  <2>4. AttemptOK(worker[w])'
    BY <1>s, <2>2, <2>3 DEF AttemptOK
  <2> QED BY <1>i, <1>4, <2>3, <2>4, GoesOn DEF AcquireCrawl
<1>5. ASSUME NEW w \in Worker, NEW missing \in SUBSET Member, NEW broken \in SUBSET Member,
             FetchMissing(w, missing, broken)
      PROVE  LockInv' /\ AttemptInv'
  <2> DEFINE fetched == Crawled(hold.listing, source.detail, hold.missing, missing, broken)
             recs == [m \in Member |->
                        IF fetched[m] # NoRecord THEN fetched[m] ELSE hold.recs[m]]
  <2>1. /\ hold \in Held /\ hold # NoHold /\ worker[w].held = hold
        /\ Named(hold.recs) = Roster[hold.listing] \ hold.missing
    BY <1>5, HeldIsTheHold DEF FetchMissing, IInv, HoldIsConsistent
  <2>2. CASE missing # {}
    <3>1. worker[w].pc # "idle" /\ Finish(w)
      BY <1>5, <2>2 DEF FetchMissing
    <3> QED BY <1>i, <3>1, Stops
  <2>3. CASE missing = {}
    <3>2. hold.missing \in SUBSET Member /\ hold.listing \in Listing
      BY <2>1 DEF Held
    <3>1. Named(fetched) = hold.missing
      BY <1>s, <2>3, <3>2, CrawledAll
    <3>3. hold.missing \subseteq Roster[hold.listing]
      BY <2>1 DEF IInv, HoldIsConsistent
    <3>4. Named(recs) = Roster[hold.listing]
      BY <2>1, <3>1, <3>2, <3>3, SourceAssumption DEF Named
    <3>5. /\ worker'[w].pc = "acquired"
          /\ worker'[w].recs = recs
          /\ worker'[w].listing = hold.listing
          /\ \A v \in Worker \ {w} : worker'[v] = worker[v]
      <4>1. worker' = [worker EXCEPT ![w].pc = "acquired", ![w].retry = TRUE,
                                     ![w].held = NoHold,
                                     ![w].listing = hold.listing, ![w].recs = recs]
        BY <1>5, <2>1, <2>3 DEF FetchMissing
      <4> QED BY <1>i, <1>w, <4>1 DEF TypeOK, WorkerState
    <3>6. AttemptOK(worker[w])'
      BY <3>2, <3>4, <3>5 DEF AttemptOK
    <3> QED BY <1>i, <1>5, <2>3, <3>5, <3>6, GoesOn DEF FetchMissing
  <2> QED BY <2>2, <2>3
<1>6. ASSUME NEW w \in Worker, Check(w) PROVE LockInv' /\ AttemptInv'
  <2> DEFINE dup == CheckDuplicate(worker[w].listing)
             n == Len(files)
  <2>1. n \in Nat /\ (n = 0 <=> files = <<>>) /\ files \in Seq(FileRow)
    BY <1>i, EmptySeq DEF TypeOK
  <2>2. /\ worker'[w].pc = CASE dup = "DUPLICATE_COMPLETED" -> "skip"
                              [] dup = "RESUME_NORMALIZATION" -> "attach"
                              [] dup = "RESUME_PROCESSING" -> "extract"
                              [] OTHER -> "version"
        /\ worker'[w].dup = dup
        /\ worker'[w].file = IF dup \in {"FIRST_DOWNLOAD", "NEW_VERSION"}
                             THEN NoFile ELSE n
        /\ worker'[w].recs = worker[w].recs
        /\ worker'[w].listing = worker[w].listing
        /\ \A v \in Worker \ {w} : worker'[v] = worker[v]
    BY <1>i, <1>6, <1>w DEF TypeOK, Check, WorkerState
  <2>3. /\ worker[w].listing \in Listing
        /\ worker[w].recs # Unread => Named(worker[w].recs) = Roster[worker[w].listing]
    BY <1>6, <1>w DEF AttemptOK, Check
  <2>4. n > 0 => files[n].raw \in Seq(Batch)
    <3>1. n > 0 => files[n] \in FileRow
      BY <2>1
    <3> QED BY <3>1 DEF FileRow
  <2>5. CASE n = 0
    <3>1. dup = "FIRST_DOWNLOAD"
      BY <2>1, <2>5 DEF CheckDuplicate
    <3>2. worker'[w].pc = "version" /\ worker'[w].dup = "FIRST_DOWNLOAD"
      BY <2>2, <3>1
    <3>3. AttemptOK(worker[w])'
      BY <1>6, <2>2, <2>3, <2>5, <3>2 DEF AttemptOK, Check
    <3> QED BY <1>i, <1>6, <2>2, <3>2, <3>3, GoesOn DEF Check
  <2>6. CASE n > 0
    <3>1. dup = IF files[n].hash # worker[w].listing THEN "NEW_VERSION"
                ELSE IF Normalized(n) THEN "DUPLICATE_COMPLETED"
                ELSE IF HasRaw(n) THEN "RESUME_NORMALIZATION"
                ELSE "RESUME_PROCESSING"
      BY <2>1, <2>6 DEF CheckDuplicate
    <3>2. HasRaw(n) <=> files[n].raw # <<>>
      <4>1. Len(files[n].raw) \in Nat /\ (Len(files[n].raw) = 0 <=> files[n].raw = <<>>)
        BY <2>4, <2>6, EmptySeq
      <4>2. n \in 1..Len(files)
        BY <2>1, <2>6
      <4>3. \A i \in 1..Len(files[n].raw) : Named(files[n].raw[i]) # {}
        BY <1>i, <4>2 DEF FileInv
      <4>4. files[n].raw # <<>> => Named(files[n].raw[1]) # {} /\ 1 \in 1..Len(files[n].raw)
        BY <4>1, <4>3
      <4> QED BY <4>1, <4>4 DEF HasRaw, Named
    <3>3. files' = files
      BY <1>6 DEF Check
    <3>4. worker'[w].pc \in {"skip", "attach", "extract", "version"}
      BY <2>2, <3>1
    <3>5. AttemptOK(worker[w])'
      <4>1. CASE files[n].hash # worker[w].listing
        <5>1. worker'[w].pc = "version" /\ worker'[w].dup = "NEW_VERSION"
          BY <2>2, <3>1, <4>1
        <5> QED BY <2>1, <2>2, <2>3, <2>6, <3>3, <5>1 DEF AttemptOK
      <4>2. CASE files[n].hash = worker[w].listing
        <5>1. /\ worker'[w].file = n
              /\ worker'[w].pc = IF Normalized(n) THEN "skip"
                                  ELSE IF files[n].raw # <<>> THEN "attach"
                                  ELSE "extract"
          BY <2>2, <3>1, <3>2, <4>2
        <5> QED BY <2>1, <2>2, <2>3, <2>6, <3>3, <4>2, <5>1 DEF AttemptOK, Normalized
      <4> QED BY <4>1, <4>2
    <3> QED BY <1>i, <1>6, <2>2, <3>4, <3>5, GoesOn DEF Check
  <2> QED BY <2>1, <2>5, <2>6
<1>7. ASSUME NEW w \in Worker, Skip(w) PROVE LockInv' /\ AttemptInv'
  <2>1. CASE worker[w].retry
    <3>1. /\ worker'[w].pc = "release"
          /\ worker'[w].recs = worker[w].recs
          /\ worker'[w].listing = worker[w].listing
          /\ \A v \in Worker \ {w} : worker'[v] = worker[v]
      BY <1>i, <1>7, <1>w, <2>1 DEF TypeOK, Skip, Goto, WorkerState
    <3>2. AttemptOK(worker[w])'
      BY <1>7, <1>w, <3>1 DEF AttemptOK, Skip
    <3> QED BY <1>i, <1>7, <2>1, <3>1, <3>2, GoesOn DEF Skip
  <2>2. CASE ~worker[w].retry
    BY <1>i, <1>7, <2>2, Stops DEF Skip
  <2> QED BY <2>1, <2>2
<1>8. ASSUME NEW w \in Worker, DetermineVersion(w) PROVE LockInv' /\ AttemptInv'
  <2> DEFINE n == Len(files)
  <2>1. n \in Nat /\ (worker[w].dup = "FIRST_DOWNLOAD" <=> n = 0)
    BY <1>8, <1>i, <1>w DEF TypeOK, AttemptOK, DetermineVersion
  <2>2. n > 0 => files[n].version = n
    BY <2>1 DEF IInv, VersionsInOrder
  <2>3. /\ worker'[w].pc = "register"
        /\ worker'[w].version = IF worker[w].dup = "FIRST_DOWNLOAD" THEN 1
                                ELSE files[n].version + 1
        /\ worker'[w].recs = worker[w].recs
        /\ worker'[w].listing = worker[w].listing
        /\ \A v \in Worker \ {w} : worker'[v] = worker[v]
    BY <1>i, <1>8, <1>w DEF TypeOK, DetermineVersion, WorkerState
  <2>4. worker'[w].version = n + 1 /\ files' = files
    BY <1>8, <2>1, <2>2, <2>3 DEF DetermineVersion
  <2>5. AttemptOK(worker[w])'
    BY <1>8, <1>w, <2>3, <2>4 DEF AttemptOK, DetermineVersion
  <2> QED BY <1>i, <1>8, <2>3, <2>5, GoesOn DEF DetermineVersion
<1>9. ASSUME NEW w \in Worker, Register(w) PROVE LockInv' /\ AttemptInv'
  <2> DEFINE n == Len(files)
             r == [hash |-> worker[w].listing, version |-> worker[w].version,
                   status |-> "DOWNLOADED", raw |-> <<>>, log |-> {}]
  <2>1. files \in Seq(FileRow) /\ n \in Nat
    BY <1>i DEF TypeOK
  <2>2. files' = Append(files, r)
    BY <1>9 DEF Register
  <2>3. Len(files') = n + 1 /\ files'[n + 1] = r
    BY <2>1, <2>2
  <2>4. /\ worker'[w].pc = "extract"
        /\ worker'[w].file = n + 1
        /\ worker'[w].recs = worker[w].recs
        /\ worker'[w].listing = worker[w].listing
        /\ \A v \in Worker \ {w} : worker'[v] = worker[v]
    BY <1>i, <1>9, <1>w DEF TypeOK, Register, WorkerState
  <2>5. /\ worker[w].listing \in Listing
        /\ worker[w].recs # Unread => Named(worker[w].recs) = Roster[worker[w].listing]
    BY <1>9, <1>w DEF AttemptOK, Register
  <2>6. AttemptOK(worker[w])'
    BY <2>1, <2>3, <2>4, <2>5 DEF AttemptOK, Normalized
  <2> QED BY <1>i, <1>9, <2>4, <2>6, GoesOn DEF Register
<1>10. ASSUME NEW w \in Worker, NEW broken \in SUBSET Member, Extract(w, broken)
       PROVE  LockInv' /\ AttemptInv'
  <2> DEFINE recs == Extracted(w, broken)
  <2>1. worker[w].listing \in Listing
    BY <1>10, <1>w DEF AttemptOK, Extract
  <2>2. recs \in Batch
    BY <1>s, <1>w, <2>1, CrawledType DEF Extracted, WorkerState
  <2>3. recs # Unread
    BY <2>2, SentinelAssumption
  <2>4. Roster[worker[w].listing] \in SUBSET Member
    BY <2>1, SourceAssumption
  <2>5. Named(recs) = Roster[worker[w].listing]
    <3>1. CASE worker[w].recs # Unread
      BY <1>w, <3>1 DEF Extracted, AttemptOK
    <3>2. CASE worker[w].recs = Unread
      BY <1>s, <2>1, <2>4, <3>2, CrawledAll DEF Extracted
    <3> QED BY <3>1, <3>2
  <2>6. Named(recs) # {}
    BY <1>10, EmptyCount DEF Extract
  <2>7. /\ worker'[w].pc = "raw"
        /\ worker'[w].recs = recs
        /\ worker'[w].file = worker[w].file
        /\ worker'[w].listing = worker[w].listing
        /\ \A v \in Worker \ {w} : worker'[v] = worker[v]
        /\ files' = files
    <3>1. worker' = [worker EXCEPT ![w].pc = "raw", ![w].recs = recs]
      BY <1>10 DEF Extract
    <3> QED BY <1>i, <1>10, <1>w, <3>1 DEF TypeOK, Extract, WorkerState
  <2>8. worker[w].pc = "extract"
    BY <1>10 DEF Extract
  <2>9. AttemptOK(worker[w])'
    BY <1>w, <2>1, <2>3, <2>5, <2>6, <2>7, <2>8 DEF AttemptOK, Normalized
  <2> QED BY <1>i, <1>10, <2>7, <2>8, <2>9, GoesOn DEF Extract
<1>11. ASSUME NEW w \in Worker, InsertRaw(w) PROVE LockInv' /\ AttemptInv'
  <2>1. PICK n \in 1..Len(files) :
          /\ n = Len(files) /\ n = Len(files') /\ n = worker[w].file
          /\ ~Normalized(n)
          /\ files'[n].hash = files[n].hash
          /\ files'[n].log = files[n].log /\ files'[n].raw = <<worker[w].recs>>
          /\ worker[w].listing = files[n].hash /\ worker[w].recs \in Batch
    BY <1>i, <1>11, InsertRawEffect
  <2>2. /\ worker'[w].pc = "attach"
        /\ worker'[w].recs = worker[w].recs
        /\ worker'[w].file = worker[w].file
        /\ worker'[w].listing = worker[w].listing
        /\ worker[w].pc = "raw"
        /\ \A v \in Worker \ {w} : worker'[v] = worker[v]
    BY <1>i, <1>11, <1>w DEF TypeOK, InsertRaw, Goto, WorkerState
  <2>3. files'[n].raw # <<>>
    BY <2>1, Singleton
  <2>4. ~Normalized(n)'
    BY <2>1 DEF Normalized
  <2>5. AttemptOK(worker[w])'
    BY <1>w, <2>1, <2>2, <2>3, <2>4 DEF AttemptOK
  <2> QED BY <1>i, <1>11, <2>2, <2>5, GoesOn DEF InsertRaw
<1>12. ASSUME NEW w \in Worker, Attach(w) PROVE LockInv' /\ AttemptInv'
  <2>1. /\ worker'[w].pc = "core"
        /\ worker'[w].recs = worker[w].recs
        /\ worker'[w].file = worker[w].file
        /\ worker'[w].listing = worker[w].listing
        /\ \A v \in Worker \ {w} : worker'[v] = worker[v]
        /\ files' = files /\ worker[w].pc = "attach"
    BY <1>i, <1>12, <1>w DEF TypeOK, Attach, Goto, WorkerState
  <2>2. AttemptOK(worker[w])'
    BY <1>w, <2>1 DEF AttemptOK, Normalized
  <2> QED BY <1>i, <1>12, <2>1, <2>2, GoesOn DEF Attach
<1>13. ASSUME NEW w \in Worker, CommitCore(w) PROVE LockInv' /\ AttemptInv'
  <2>1. CASE worker[w].retry
    <3>1. /\ worker'[w].pc = "release"
          /\ worker'[w].recs = worker[w].recs
          /\ worker'[w].listing = worker[w].listing
          /\ \A v \in Worker \ {w} : worker'[v] = worker[v]
      BY <1>i, <1>13, <1>w, <2>1 DEF TypeOK, CommitCore, Goto, WorkerState
    <3>2. AttemptOK(worker[w])'
      BY <1>13, <1>w, <3>1 DEF AttemptOK, CommitCore
    <3> QED BY <1>i, <1>13, <2>1, <3>1, <3>2, GoesOn DEF CommitCore
  <2>2. CASE ~worker[w].retry
    BY <1>i, <1>13, <2>2, Stops DEF CommitCore
  <2> QED BY <2>1, <2>2
<1>14. ASSUME NEW w \in Worker, NEW missing \in SUBSET Member, NEW broken \in SUBSET Member,
              \/ HoldCrawl(w, missing, broken) \/ HoldSavedHtml(w, missing, broken)
       PROVE  LockInv' /\ AttemptInv'
  BY <1>i, <1>14, Stops DEF HoldCrawl, HoldSavedHtml
<1>15. ASSUME NEW w \in Worker, NEW broken \in SUBSET Member,
              TooFewRecords(w, broken) \/ ParseFails(w, broken)
       PROVE  LockInv' /\ AttemptInv'
  BY <1>i, <1>15, Stops DEF TooFewRecords, ParseFails
<1>16. ASSUME NEW w \in Worker,
              \/ RegisterRejected(w) \/ RawFails(w) \/ AttachFails(w)
              \/ CoreFails(w) \/ ReleaseHold(w) \/ Crash(w)
       PROVE  LockInv' /\ AttemptInv'
  BY <1>i, <1>16, Stops
     DEF RegisterRejected, RawFails, AttachFails, CoreFails, ReleaseHold, Crash
<1> QED
  BY <1>1, <1>2, <1>3, <1>4, <1>5, <1>6, <1>7, <1>8, <1>9, <1>10, <1>11, <1>12,
     <1>13, <1>14, <1>15, <1>16
  DEF Next, WorkerStep, Acquisition, Registration, RawStep, CoreStep

(***************************************************************************)
(* The holding file                                                        *)
(***************************************************************************)
\* Every action leaves a holding file that owes what it has no record of.
LEMMA HoldStep == IInv /\ Next => HoldIsConsistent'
<1> SUFFICES ASSUME IInv, Next PROVE HoldIsConsistent'
  OBVIOUS
<1>i. TypeOK /\ AttemptInv /\ HoldIsConsistent
  BY DEF IInv
<1>s. source.listing \in Listing /\ source.detail \in Detail
  BY <1>i DEF TypeOK
<1>1. ASSUME hold' \in {hold, NoHold} PROVE HoldIsConsistent'
  BY <1>i, <1>1 DEF HoldIsConsistent
<1>2. ASSUME NEW l \in Listing, NEW missing \in SUBSET Member, NEW broken,
             missing # {}, missing \subseteq Roster[l],
             hold' = [listing |-> l, missing |-> missing,
                      recs |-> Crawled(l, source.detail, Roster[l], missing, broken)]
      PROVE  HoldIsConsistent'
  <2>1. Roster[l] \in SUBSET Member
    BY SourceAssumption
  <2>2. Named(Crawled(l, source.detail, Roster[l], missing, broken)) = Roster[l] \ missing
    BY <1>s, <2>1, CrawledNamed
  <2>3. /\ hold'.listing = l /\ hold'.missing = missing
        /\ Named(hold'.recs) = Roster[l] \ missing
    BY <1>2, <2>2
  <2> QED BY <1>2, <2>3 DEF HoldIsConsistent, Named
<1>3. ASSUME NEW w \in Worker, NEW missing \in SUBSET Member, NEW broken \in SUBSET Member,
             HoldCrawl(w, missing, broken)
      PROVE  HoldIsConsistent'
  BY <1>s, <1>2, <1>3 DEF HoldCrawl
<1>4. ASSUME NEW w \in Worker, NEW missing \in SUBSET Member, NEW broken \in SUBSET Member,
             HoldSavedHtml(w, missing, broken)
      PROVE  HoldIsConsistent'
  <2>1. worker[w].listing \in Listing
    BY <1>i, <1>4 DEF AttemptInv, AttemptOK, HoldSavedHtml
  <2> QED BY <1>2, <1>4, <2>1 DEF HoldSavedHtml
<1>5. ASSUME NEW w \in Worker, NEW missing \in SUBSET Member, NEW broken \in SUBSET Member,
             FetchMissing(w, missing, broken)
      PROVE  HoldIsConsistent'
  <2> DEFINE fetched == Crawled(hold.listing, source.detail, hold.missing, missing, broken)
             recs == [m \in Member |->
                        IF fetched[m] # NoRecord THEN fetched[m] ELSE hold.recs[m]]
  <2>0. /\ hold \in Held /\ hold # NoHold /\ worker[w].held = hold
    BY <1>5, HeldIsTheHold DEF FetchMissing
  <2>1. /\ hold \in Held /\ hold # NoHold /\ missing \subseteq hold.missing
        /\ hold.missing \subseteq Roster[hold.listing]
        /\ Named(hold.recs) = Roster[hold.listing] \ hold.missing
    BY <1>i, <1>5, <2>0 DEF FetchMissing, HoldIsConsistent
  <2>2. CASE missing = {}
    <3>1. hold' = hold
      BY <1>5, <2>2 DEF FetchMissing
    <3> QED BY <1>1, <3>1
  <2>3. CASE missing # {}
    <3>1. hold.missing \in SUBSET Member /\ hold.listing \in Listing
      BY <2>1 DEF Held
    <3>2. Named(fetched) = hold.missing \ missing
      BY <1>s, <3>1, CrawledNamed
    <3>3. Named(recs) = Roster[hold.listing] \ missing
      BY <2>1, <3>1, <3>2, SourceAssumption DEF Named
    <3>4. hold' = [hold EXCEPT !.missing = missing, !.recs = recs]
      BY <1>5, <2>0, <2>3 DEF FetchMissing
    <3>5. hold'.listing = hold.listing /\ hold'.missing = missing /\ hold'.recs = recs
      <4> HIDE DEF recs
      <4> QED BY <2>1, <3>4 DEF Held
    <3> QED BY <2>1, <2>3, <3>3, <3>5 DEF HoldIsConsistent, Named
  <2> QED BY <2>2, <2>3
<1>6. ASSUME NEW w \in Worker,
             \/ Start(w) \/ StartRetry(w) \/ AcquireFile(w) \/ Check(w)
             \/ Skip(w) \/ DetermineVersion(w) \/ Register(w) \/ RegisterRejected(w)
             \/ InsertRaw(w) \/ RawFails(w) \/ Attach(w) \/ AttachFails(w)
             \/ CommitCore(w) \/ CoreFails(w) \/ ReleaseHold(w) \/ Crash(w)
      PROVE  hold' \in {hold, NoHold}
  BY <1>6
     DEF Start, StartRetry, AcquireFile, Check, Skip, DetermineVersion,
         Register, RegisterRejected, InsertRaw, RawFails, Attach, AttachFails,
         CommitCore, CoreFails, ReleaseHold, Crash
<1>7. ASSUME NEW w \in Worker, NEW broken \in SUBSET Member,
             \/ AcquireCrawl(w, broken) \/ Extract(w, broken)
             \/ TooFewRecords(w, broken) \/ ParseFails(w, broken)
      PROVE  hold' \in {hold, NoHold}
  BY <1>7 DEF AcquireCrawl, Extract, TooFewRecords, ParseFails
<1>8. ASSUME NEW l \in Listing, NEW d \in Detail, Publish(l, d) PROVE hold' = hold
  BY <1>8 DEF Publish
<1> QED
  BY <1>1, <1>3, <1>4, <1>5, <1>6, <1>7, <1>8
  DEF Next, WorkerStep, Acquisition, Registration, RawStep, CoreStep

(***************************************************************************)
(* The tables                                                              *)
(***************************************************************************)
Tables ==
  /\ FileInv /\ CoreInv /\ RawIsWholeListing /\ VersionsInOrder
  /\ TombstoneJustified /\ CoreMirrorsNewestNormalized

\* What the transaction of one batch leaves of a member's history: its old
\* versions, at most one new one, and a current row that says what the batch says.
LEMMA MergeMember ==
  ASSUME NEW c \in [Member -> Seq(MemberRow)], NEW raw \in Seq(Batch), Len(raw) = 1,
         NEW f \in Nat, NEW m \in Member
  PROVE  LET old == c[m]
             new == Merge(c, raw, f)[m]
         IN /\ new \in Seq(MemberRow)
            /\ Len(new) \in {Len(old), Len(old) + 1}
            /\ \A i \in 1..Len(old) : new[i] = old[i]
            /\ Len(new) = Len(old) + 1 =>
                 /\ new[Len(new)].file = f
                 /\ new[Len(new)].type = "DELETED" => raw[1][m] = NoRecord
            /\ IF raw[1][m] = NoRecord
               THEN new = <<>> \/ new[Len(new)].type = "DELETED"
               ELSE /\ new # <<>> /\ new[Len(new)].type # "DELETED"
                    /\ new[Len(new)].payload = raw[1][m]
<1> DEFINE b == raw[1]
           up == Upsert(c, b, f)
           new == Merge(c, raw, f)[m]
<1>1. PICK old \in Seq(MemberRow) : old = c[m]
  OBVIOUS
<1>2. b \in Batch
  <2>1. 1 \in 1..Len(raw)
    OBVIOUS
  <2> QED BY <2>1, ElementOfSeq
<1>3. PICK n \in Nat : n = Len(old)
  OBVIOUS
<1>4. old # <<>> => n > 0 /\ old[n] \in MemberRow
  BY <1>3, EmptySeq
<1>5. old = <<>> => n = 0
  BY <1>3
<1>6. Merge(c, raw, f) = Tombstone(up, raw, f)
  BY MergeOne
<1>7. /\ Row(b[m], "UPDATED", f).file = f /\ Row(b[m], "UPDATED", f).payload = b[m]
      /\ Row(b[m], "UPDATED", f).type = "UPDATED"
      /\ Row(b[m], "NEW", f).file = f /\ Row(b[m], "NEW", f).payload = b[m]
      /\ Row(b[m], "NEW", f).type = "NEW"
      /\ Row(old[n].payload, "DELETED", f).file = f
      /\ Row(old[n].payload, "DELETED", f).type = "DELETED"
  BY DEF Row
<1>8. CASE b[m] = NoRecord
  <2>1. up[m] = old
    BY <1>1, <1>8 DEF Upsert
  <2>2. CASE old = <<>> \/ old[n].type = "DELETED"
    <3>1. new = old
      BY <1>3, <1>6, <2>1, <2>2 DEF Tombstone
    <3> QED BY <1>1, <1>3, <1>8, <2>2, <3>1
  <2>3. CASE old # <<>> /\ old[n].type # "DELETED"
    <3>1. new = Append(old, Row(old[n].payload, "DELETED", f))
      BY <1>3, <1>6, <1>8, <2>1, <2>3 DEF Tombstone
    <3>2. PICK r \in MemberRow : r = Row(old[n].payload, "DELETED", f)
      BY <1>4, <2>3 DEF MemberRow, Row
    <3>3. /\ new \in Seq(MemberRow) /\ Len(new) = n + 1 /\ new[n + 1] = r
          /\ \A i \in 1..n : new[i] = old[i]
      <4> HIDE DEF new
      <4> QED BY <1>3, <3>1, <3>2
    <3> HIDE DEF new
    <3> QED BY <1>1, <1>3, <1>7, <1>8, <3>2, <3>3 DEF new
  <2> QED BY <2>2, <2>3
<1>9. CASE b[m] # NoRecord
  <2>1. new = up[m]
    <3>1. up \in [Member -> Seq(MemberRow)]
      BY <1>2, UpsertType
    <3>2. 1 \in 1..Len(raw) /\ raw[1][m] # NoRecord
      BY <1>9
    <3> HIDE DEF up
    <3> QED BY <1>6, <3>1, <3>2 DEF Tombstone
  <2>2. CASE old # <<>> /\ old[n].type # "DELETED" /\ old[n].payload = b[m]
    <3>1. new = old
      BY <1>1, <1>3, <1>9, <2>1, <2>2 DEF Upsert
    <3> QED BY <1>1, <1>3, <1>9, <2>2, <3>1
  <2>3. CASE ~(old # <<>> /\ old[n].type # "DELETED" /\ old[n].payload = b[m])
    <3>1. PICK r \in MemberRow : r \in {Row(b[m], "NEW", f), Row(b[m], "UPDATED", f)}
                                 /\ new = Append(old, r)
      <4>1. Row(b[m], "NEW", f) \in MemberRow /\ Row(b[m], "UPDATED", f) \in MemberRow
        BY <1>2, <1>9 DEF Row, MemberRow, Batch
      <4>2. CASE old = <<>>
        <5>1. new = <<Row(b[m], "NEW", f)>>
          BY <1>1, <1>9, <2>1, <4>2 DEF Upsert
        <5> QED BY <4>1, <4>2, <5>1, AppendEmpty
      <4>3. CASE old # <<>>
        <5>1. new = Append(old, Row(b[m], "UPDATED", f))
          BY <1>1, <1>3, <1>9, <2>1, <2>3, <4>3 DEF Upsert
        <5> QED BY <4>1, <5>1
      <4> QED BY <4>2, <4>3
    <3>2. /\ new \in Seq(MemberRow) /\ Len(new) = n + 1 /\ new[n + 1] = r
          /\ \A i \in 1..n : new[i] = old[i]
      <4> HIDE DEF new
      <4> QED BY <1>3, <3>1
    <3>3. new # <<>>
      <4> HIDE DEF new
      <4> QED BY <3>2
    <3>4. r.file = f /\ r.payload = b[m] /\ r.type # "DELETED"
      BY <1>7, <3>1
    <3> HIDE DEF new
    <3> QED BY <1>1, <1>3, <1>9, <3>2, <3>3, <3>4 DEF new
  <2> QED BY <2>2, <2>3
<1> QED BY <1>8, <1>9

\* The tables do not notice a status, or a log entry other than
\* NORMALIZATION/SUCCESS.
SameFiles ==
  /\ Len(files') = Len(files)
  /\ \A f \in 1..Len(files) :
       /\ files'[f].hash = files[f].hash /\ files'[f].version = files[f].version
       /\ files'[f].raw = files[f].raw
       /\ Normalized(f)' <=> Normalized(f)

\* A step that changes neither payloads, logs nor members keeps the tables
\* consistent.
LEMMA SameTables ==
  ASSUME Tables, SameFiles, core' = core
  PROVE  Tables'
<1>1. FileInv' /\ RawIsWholeListing' /\ VersionsInOrder'
  BY DEF Tables, SameFiles, FileInv, RawIsWholeListing, VersionsInOrder
<1>2. CoreInv'
  BY DEF Tables, SameFiles, CoreInv
<1>3. TombstoneJustified'
  BY DEF Tables, SameFiles, CoreInv, TombstoneJustified
<1>4. CoreMirrorsNewestNormalized'
  <2>1. View' = View
    BY DEF View, Active
  <2> SUFFICES ASSUME NEW n \in 0..Len(files'),
                      \A k \in n+1..Len(files') : ~Normalized(k)',
                      n = 0 \/ Normalized(n)'
               PROVE  View' = IF n = 0 THEN [m \in Member |-> NoRecord]
                              ELSE files'[n].raw[1]
    BY DEF CoreMirrorsNewestNormalized
  <2>2. n \in 0..Len(files) /\ (n = 0 \/ Normalized(n))
    BY DEF SameFiles
  <2>3. \A k \in n+1..Len(files) : ~Normalized(k)
    BY <2>2 DEF SameFiles
  <2>4. View = IF n = 0 THEN [m \in Member |-> NoRecord] ELSE files[n].raw[1]
    BY <2>2, <2>3 DEF Tables, CoreMirrorsNewestNormalized
  <2>5. n # 0 => files'[n].raw = files[n].raw
    BY <2>2 DEF SameFiles
  <2> QED BY <2>1, <2>4, <2>5
<1> QED BY <1>1, <1>2, <1>3, <1>4 DEF Tables

\* Marking a file as failed changes no payload and no log.
LEMMA FailedSame ==
  ASSUME TypeOK, NEW f \in 1..Len(files), files' = Failed(f)
  PROVE  SameFiles
<1> DEFINE r == [files[f] EXCEPT !.status = "FAILED"]
<1>1. files \in Seq(FileRow) /\ files[f] \in FileRow
  BY DEF TypeOK
<1>2. /\ r.hash = files[f].hash /\ r.version = files[f].version
      /\ r.raw = files[f].raw /\ r.log = files[f].log
  BY <1>1 DEF FileRow
<1>3. files' = [files EXCEPT ![f] = r]
  BY <1>1 DEF Failed
<1> HIDE DEF r
<1> QED BY <1>1, <1>2, <1>3, ExceptOne DEF SameFiles, Normalized

\* Logging a skipped download changes no payload and normalizes nothing.
LEMMA SkippedSame ==
  ASSUME TypeOK, NEW f \in 1..Len(files), files' = AddLog(f, "DOWNLOAD", "SKIPPED")
  PROVE  SameFiles
<1> DEFINE r == [files[f] EXCEPT !.log = @ \union {<<"DOWNLOAD", "SKIPPED">>}]
<1>1. files \in Seq(FileRow) /\ files[f] \in FileRow
  BY DEF TypeOK
<1>2. /\ r.hash = files[f].hash /\ r.version = files[f].version
      /\ r.raw = files[f].raw /\ r.log = files[f].log \union {<<"DOWNLOAD", "SKIPPED">>}
  BY <1>1 DEF FileRow
<1>3. <<"NORMALIZATION", "SUCCESS">> \in r.log
        <=> <<"NORMALIZATION", "SUCCESS">> \in files[f].log
  BY <1>2
<1>4. files' = [files EXCEPT ![f] = r]
  BY <1>1 DEF AddLog
<1> HIDE DEF r
<1> QED BY <1>1, <1>2, <1>3, <1>4, ExceptOne DEF SameFiles, Normalized

\* The transaction of a file marks it normalized and changes no other file.
LEMMA CommitSame ==
  ASSUME TypeOK, NEW f \in 1..Len(files), files' = AddLog(f, "NORMALIZATION", "SUCCESS")
  PROVE  /\ Len(files') = Len(files) /\ Normalized(f)'
         /\ \A g \in 1..Len(files) :
              /\ files'[g].hash = files[g].hash /\ files'[g].version = files[g].version
              /\ files'[g].raw = files[g].raw
              /\ g # f => (Normalized(g)' <=> Normalized(g))
<1> DEFINE r == [files[f] EXCEPT !.log = @ \union {<<"NORMALIZATION", "SUCCESS">>}]
<1>1. files \in Seq(FileRow) /\ files[f] \in FileRow
  BY DEF TypeOK
<1>2. /\ r.hash = files[f].hash /\ r.version = files[f].version
      /\ r.raw = files[f].raw /\ <<"NORMALIZATION", "SUCCESS">> \in r.log
  BY <1>1 DEF FileRow
<1>3. files' = [files EXCEPT ![f] = r]
  BY <1>1 DEF AddLog
<1> HIDE DEF r
<1> QED BY <1>1, <1>2, <1>3, ExceptOne DEF Normalized

\* A registered file has no payloads and no log yet.
LEMMA RegisterTables == ASSUME IInv, NEW w \in Worker, Register(w) PROVE Tables'
<1> DEFINE r == [hash |-> worker[w].listing, version |-> worker[w].version,
                 status |-> "DOWNLOADED", raw |-> <<>>, log |-> {}]
<1>1. TypeOK /\ files \in Seq(FileRow) /\ Tables
  BY DEF IInv, TypeOK, Tables
<1>2. PICK n \in Nat : n = Len(files)
  BY <1>1
<1>3. files' = Append(files, r) /\ core' = core
  BY DEF Register
<1>4. r.raw = <<>> /\ r.log = {} /\ r.version = n + 1
  BY <1>2 DEF IInv, AttemptInv, AttemptOK, Register
<1> HIDE DEF r
<1>5. /\ Len(files') = n + 1 /\ files'[n + 1] = r
      /\ \A f \in 1..n : files'[f] = files[f]
  BY <1>1, <1>2, <1>3
<1>6. /\ ~Normalized(n + 1)'
      /\ \A f \in 1..n : Normalized(f)' <=> Normalized(f)
  BY <1>4, <1>5 DEF Normalized
<1>7. FileInv'
  <2>1. FileInv /\ Len(r.raw) = 0
    BY <1>1, <1>4 DEF Tables
  <2> QED BY <1>2, <1>4, <1>5, <1>6, <2>1 DEF FileInv
<1>8. RawIsWholeListing' /\ VersionsInOrder'
  <2>1. RawIsWholeListing /\ VersionsInOrder /\ Len(r.raw) = 0
    BY <1>1, <1>4 DEF Tables
  <2> QED BY <1>2, <1>4, <1>5, <2>1 DEF RawIsWholeListing, VersionsInOrder
<1>9. CoreInv' /\ TombstoneJustified'
  BY <1>1, <1>2, <1>3, <1>5 DEF Tables, CoreInv, TombstoneJustified
<1>10. CoreMirrorsNewestNormalized'
  <2>1. View' = View
    BY <1>3 DEF View, Active
  <2> SUFFICES ASSUME NEW k \in 0..Len(files'),
                      \A j \in k+1..Len(files') : ~Normalized(j)',
                      k = 0 \/ Normalized(k)'
               PROVE  View' = IF k = 0 THEN [m \in Member |-> NoRecord]
                              ELSE files'[k].raw[1]
    BY DEF CoreMirrorsNewestNormalized
  <2>2. k \in 0..n /\ (k = 0 \/ Normalized(k))
    BY <1>5, <1>6
  <2>3. \A j \in k+1..n : ~Normalized(j)
    BY <1>5, <1>6, <2>2
  <2>4. View = IF k = 0 THEN [m \in Member |-> NoRecord] ELSE files[k].raw[1]
    BY <1>1, <1>2, <2>2, <2>3 DEF Tables, CoreMirrorsNewestNormalized
  <2>5. k # 0 => files'[k] = files[k]
    BY <1>5, <2>2
  <2> QED BY <2>1, <2>4, <2>5
<1> QED BY <1>7, <1>8, <1>9, <1>10 DEF Tables

\* The payloads of the newest file appear; it is not normalized.
LEMMA InsertRawTables == ASSUME IInv, NEW w \in Worker, InsertRaw(w) PROVE Tables'
<1>1. TypeOK /\ AttemptInv /\ Tables /\ core' = core
  BY DEF IInv, Tables, InsertRaw
<1>2. PICK n \in 1..Len(files) :
        /\ n = Len(files) /\ n = Len(files')
        /\ ~Normalized(n)
        /\ files'[n].hash = files[n].hash /\ files'[n].version = files[n].version
        /\ files'[n].log = files[n].log /\ files'[n].raw = <<worker[w].recs>>
        /\ worker[w].listing = files[n].hash /\ worker[w].recs \in Batch
        /\ \A f \in 1..Len(files) : f # n => files'[f] = files[f]
  BY <1>1, InsertRawEffect
<1>3. /\ Named(worker[w].recs) = Roster[files[n].hash]
      /\ Named(worker[w].recs) # {}
  BY <1>1, <1>2 DEF AttemptInv, AttemptOK, InsertRaw
<1>4. PICK b \in Batch : b = worker[w].recs
  BY <1>2
<1>5. Len(files'[n].raw) = 1 /\ files'[n].raw[1] = b /\ files'[n].raw # <<>>
  BY <1>2, <1>4, Singleton
<1>6. \A f \in 1..Len(files) : Normalized(f)' <=> Normalized(f)
  BY <1>2 DEF Normalized
<1>7. FileInv'
  <2> SUFFICES ASSUME NEW f \in 1..Len(files)
               PROVE  /\ \A i \in 1..Len(files'[f].raw) : Named(files'[f].raw[i]) # {}
                      /\ Normalized(f)' => files'[f].raw # <<>>
    BY <1>2 DEF FileInv, Named
  <2>1. CASE f = n
    <3>1. Named(b) # {}
      BY <1>3, <1>4
    <3> QED BY <1>5, <2>1, <3>1
  <2>2. CASE f # n
    BY <1>1, <1>2, <1>6, <2>2 DEF Tables, FileInv
  <2> QED BY <2>1, <2>2
<1>8. RawIsWholeListing'
  <2> SUFFICES ASSUME NEW f \in 1..Len(files)
               PROVE  /\ Len(files'[f].raw) <= 1
                      /\ \A i \in 1..Len(files'[f].raw) :
                           Named(files'[f].raw[i]) = Roster[files'[f].hash]
    BY <1>2 DEF RawIsWholeListing, Named
  <2>1. CASE f = n
    <3>1. Named(b) = Roster[files'[n].hash]
      BY <1>2, <1>3, <1>4
    <3>2. \A i \in 1..Len(files'[n].raw) : i = 1
      BY <1>5
    <3>3. ASSUME NEW i \in 1..Len(files'[n].raw)
          PROVE  Named(files'[n].raw[i]) = Roster[files'[n].hash]
      BY <1>5, <3>1, <3>2, <3>3
    <3>4. Len(files'[n].raw) <= 1
      BY <1>5
    <3> QED BY <2>1, <3>3, <3>4
  <2>2. CASE f # n
    BY <1>1, <1>2, <2>2 DEF Tables, RawIsWholeListing
  <2> QED BY <2>1, <2>2
<1>9. VersionsInOrder' /\ CoreInv' /\ TombstoneJustified'
  BY <1>1, <1>2 DEF Tables, VersionsInOrder, CoreInv, TombstoneJustified
<1>10. CoreMirrorsNewestNormalized'
  <2>1. View' = View
    BY <1>1 DEF View, Active
  <2> SUFFICES ASSUME NEW k \in 0..Len(files'),
                      \A j \in k+1..Len(files') : ~Normalized(j)',
                      k = 0 \/ Normalized(k)'
               PROVE  View' = IF k = 0 THEN [m \in Member |-> NoRecord]
                              ELSE files'[k].raw[1]
    BY DEF CoreMirrorsNewestNormalized
  <2>2. k \in 0..Len(files) /\ (k = 0 \/ Normalized(k)) /\ k # n
    BY <1>2, <1>6
  <2>3. \A j \in k+1..Len(files) : ~Normalized(j)
    BY <1>2, <1>6, <2>2
  <2>4. View = IF k = 0 THEN [m \in Member |-> NoRecord] ELSE files[k].raw[1]
    BY <1>1, <2>2, <2>3 DEF Tables, CoreMirrorsNewestNormalized
  <2>5. k # 0 => files'[k] = files[k]
    BY <1>2, <2>2
  <2> QED BY <2>1, <2>4, <2>5
<1> QED BY <1>7, <1>8, <1>9, <1>10 DEF Tables

\* The members of the newest file become the current ones.
LEMMA CommitTables == ASSUME IInv, NEW w \in Worker, CommitCore(w) PROVE Tables'
<1>1. TypeOK /\ AttemptInv /\ Tables /\ files \in Seq(FileRow)
      /\ core \in [Member -> Seq(MemberRow)]
  BY DEF IInv, Tables, TypeOK
<1>2. PICK n \in 1..Len(files) : n = Len(files)
  BY <1>1 DEF AttemptInv, AttemptOK, CommitCore
<1>3. worker[w].file = n /\ ~Normalized(n) /\ files[n].raw # <<>>
  BY <1>1, <1>2 DEF AttemptInv, AttemptOK, CommitCore
<1>4. PICK raw \in Seq(Batch) : raw = files[n].raw
  <2>1. files[n] \in FileRow
    BY <1>1
  <2> QED BY <2>1 DEF FileRow
<1>5. Len(raw) = 1 /\ raw[1] \in Batch
  BY <1>1, <1>3, <1>4, OneElement DEF Tables, RawIsWholeListing
<1>6. Named(raw[1]) = Roster[files[n].hash]
  BY <1>1, <1>4, <1>5 DEF Tables, RawIsWholeListing
<1>7. core' = Merge(core, raw, n)
  BY <1>3, <1>4 DEF CommitCore
<1>8. files' = AddLog(n, "NORMALIZATION", "SUCCESS")
  BY <1>3 DEF CommitCore
<1>9. /\ Len(files') = Len(files) /\ Normalized(n)'
      /\ \A g \in 1..Len(files) :
           /\ files'[g].hash = files[g].hash /\ files'[g].version = files[g].version
           /\ files'[g].raw = files[g].raw
           /\ g # n => (Normalized(g)' <=> Normalized(g))
  BY <1>1, <1>8, CommitSame
<1>10. FileInv' /\ RawIsWholeListing' /\ VersionsInOrder'
  <2>1. FileInv'
    <3> SUFFICES ASSUME NEW f \in 1..Len(files)
                 PROVE  /\ \A i \in 1..Len(files'[f].raw) : Named(files'[f].raw[i]) # {}
                        /\ Normalized(f)' => files'[f].raw # <<>>
      BY <1>9 DEF FileInv, Named
    <3>1. files'[f].raw = files[f].raw
      BY <1>9
    <3>2. /\ \A i \in 1..Len(files[f].raw) : Named(files[f].raw[i]) # {}
          /\ Normalized(f) => files[f].raw # <<>>
      BY <1>1 DEF Tables, FileInv
    <3>3. f = n \/ (Normalized(f)' <=> Normalized(f))
      BY <1>9
    <3> QED BY <1>3, <3>1, <3>2, <3>3
  <2>2. RawIsWholeListing' /\ VersionsInOrder'
    BY <1>1, <1>9 DEF Tables, RawIsWholeListing, VersionsInOrder
  <2> QED BY <2>1, <2>2
<1>11. ASSUME NEW m \in Member
       PROVE  /\ core'[m] \in Seq(MemberRow)
              /\ Len(core'[m]) \in {Len(core[m]), Len(core[m]) + 1}
              /\ \A i \in 1..Len(core[m]) : core'[m][i] = core[m][i]
              /\ Len(core'[m]) = Len(core[m]) + 1 =>
                   /\ core'[m][Len(core'[m])].file = n
                   /\ core'[m][Len(core'[m])].type = "DELETED" => raw[1][m] = NoRecord
              /\ IF raw[1][m] = NoRecord
                 THEN core'[m] = <<>> \/ core'[m][Len(core'[m])].type = "DELETED"
                 ELSE /\ core'[m] # <<>> /\ core'[m][Len(core'[m])].type # "DELETED"
                      /\ core'[m][Len(core'[m])].payload = raw[1][m]
  BY <1>1, <1>5, <1>7, <1>11, MergeMember
<1>12. ASSUME NEW m \in Member, NEW i \in 1..Len(core'[m])
       PROVE  \/ i \in 1..Len(core[m]) /\ core'[m][i] = core[m][i]
              \/ /\ core'[m][i].file = n
                 /\ core'[m][i].type = "DELETED" => raw[1][m] = NoRecord
  <2>1. PICK k \in Nat : k = Len(core[m])
    BY <1>1
  <2>2. i \in 1..k \/ (i = k + 1 /\ Len(core'[m]) = k + 1)
    BY <1>11, <2>1
  <2> QED BY <1>11, <2>1, <2>2
<1>13. CoreInv' /\ TombstoneJustified'
  <2> SUFFICES ASSUME NEW m \in Member, NEW i \in 1..Len(core'[m])
               PROVE  /\ core'[m][i].file \in 1..Len(files')
                      /\ core'[m][i].type = "DELETED" =>
                           m \notin Roster[files'[core'[m][i].file].hash]
    BY DEF CoreInv, TombstoneJustified
  <2>1. CASE i \in 1..Len(core[m]) /\ core'[m][i] = core[m][i]
    <3>1. /\ core[m][i].file \in 1..Len(files)
          /\ core[m][i].type = "DELETED" => m \notin Roster[files[core[m][i].file].hash]
      BY <1>1, <2>1 DEF Tables, CoreInv, TombstoneJustified
    <3> QED BY <1>9, <2>1, <3>1
  <2>2. CASE /\ core'[m][i].file = n
             /\ core'[m][i].type = "DELETED" => raw[1][m] = NoRecord
    <3>1. raw[1][m] = NoRecord => m \notin Roster[files[n].hash]
      BY <1>6 DEF Named
    <3> QED BY <1>9, <2>2, <3>1
  <2> QED BY <1>12, <2>1, <2>2
<1>14. CoreMirrorsNewestNormalized'
  <2>1. View' = raw[1]
    <3>1. ASSUME NEW m \in Member PROVE View'[m] = raw[1][m]
      BY <1>11 DEF View, Active
    <3>2. View' = [m \in Member |-> View'[m]]
      BY DEF View
    <3>3. raw[1] = [m \in Member |-> raw[1][m]]
      BY <1>5 DEF Batch
    <3> QED BY <3>1, <3>2, <3>3
  <2> SUFFICES ASSUME NEW k \in 0..Len(files'),
                      \A j \in k+1..Len(files') : ~Normalized(j)',
                      k = 0 \/ Normalized(k)'
               PROVE  View' = IF k = 0 THEN [m \in Member |-> NoRecord]
                              ELSE files'[k].raw[1]
    BY DEF CoreMirrorsNewestNormalized
  <2>2. k = n
    BY <1>2, <1>9
  <2> QED BY <1>4, <1>9, <2>1, <2>2
<1> QED BY <1>10, <1>13, <1>14 DEF Tables

\* What a step does to the tables: nothing they notice, or one of the three
\* actions that write them.
LEMMA NextCases ==
  ASSUME UnlockedInv, Next
  PROVE  \/ SameFiles /\ core' = core
         \/ \E w \in Worker : Register(w) \/ InsertRaw(w) \/ CommitCore(w)
<1> DEFINE Goal == \/ SameFiles /\ core' = core
                   \/ \E w \in Worker : Register(w) \/ InsertRaw(w) \/ CommitCore(w)
<1>i. TypeOK
  BY DEF UnlockedInv
<1>1. files' = files => SameFiles
  BY DEF SameFiles, Normalized
<1>2. ASSUME NEW l \in Listing, NEW d \in Detail, Publish(l, d) PROVE Goal
  BY <1>1, <1>2 DEF Publish
<1>3. ASSUME NEW w \in Worker,
             \/ Start(w) \/ StartRetry(w) \/ AcquireFile(w) \/ Check(w)
             \/ DetermineVersion(w) \/ RegisterRejected(w) \/ Attach(w) \/ ReleaseHold(w)
             \/ Crash(w)
      PROVE  Goal
  BY <1>1, <1>3
     DEF Start, StartRetry, AcquireFile, Check, DetermineVersion,
         RegisterRejected, Attach, ReleaseHold, Crash
<1>4. ASSUME NEW w \in Worker, NEW broken \in SUBSET Member,
             AcquireCrawl(w, broken) \/ Extract(w, broken) \/ TooFewRecords(w, broken)
      PROVE  Goal
  BY <1>1, <1>4 DEF AcquireCrawl, Extract, TooFewRecords
<1>5. ASSUME NEW w \in Worker, NEW missing \in SUBSET Member, NEW broken \in SUBSET Member,
             \/ HoldCrawl(w, missing, broken) \/ FetchMissing(w, missing, broken)
             \/ HoldSavedHtml(w, missing, broken)
      PROVE  Goal
  BY <1>1, <1>5 DEF HoldCrawl, FetchMissing, HoldSavedHtml
<1>6. ASSUME NEW w \in Worker, Skip(w) PROVE Goal
  <2>1. worker[w].file \in 1..Len(files) /\ core' = core
    BY <1>6, <1>i DEF UnlockedInv, UnlockedOK, Skip, TypeOK
  <2> QED BY <1>i, <1>6, <2>1, SkippedSame DEF Skip
<1>7. ASSUME NEW w \in Worker, NEW broken \in SUBSET Member,
             \/ ParseFails(w, broken) \/ RawFails(w) \/ AttachFails(w) \/ CoreFails(w)
      PROVE  Goal
  <2>1. /\ worker[w].file \in 1..Len(files) /\ core' = core
        /\ files' = Failed(worker[w].file)
    BY <1>7, <1>i DEF UnlockedInv, UnlockedOK, TypeOK,
                      ParseFails, RawFails, AttachFails, CoreFails
  <2> QED BY <1>i, <2>1, FailedSame
<1>8. ASSUME NEW w \in Worker, Register(w) \/ InsertRaw(w) \/ CommitCore(w) PROVE Goal
  BY <1>8
<1> HIDE DEF Goal
<1>9. Goal
  BY <1>2, <1>3, <1>4, <1>5, <1>6, <1>7, <1>8
  DEF Next, WorkerStep, Acquisition, Registration, RawStep, CoreStep
<1> QED BY <1>9 DEF Goal

\* Every action keeps the tables consistent.
LEMMA TableStep == IInv /\ Next => Tables'
BY Locked, NextCases, SameTables, RegisterTables, InsertRawTables, CommitTables DEF IInv, Tables

(***************************************************************************)
(* The theorems                                                            *)
(***************************************************************************)
\* Nothing is registered, held or running at first.
LEMMA InitInv == Init => IInv
<1> SUFFICES ASSUME Init PROVE IInv
  OBVIOUS
<1>1. TypeOK
  <2>1. Idle \in WorkerState
    BY DEF Idle, WorkerState, NoFile
  <2>2. worker \in [Worker -> WorkerState]
    BY <2>1 DEF Init
  <2>3. files \in Seq(FileRow) /\ core \in [Member -> Seq(MemberRow)]
    BY DEF Init
  <2> QED BY <2>2, <2>3 DEF Init, TypeOK
<1>2. Idle.pc = "idle" /\ Idle.recs = Unread
  BY DEF Idle
<1>3. LockInv
  BY <1>2, SentinelAssumption DEF Init, LockInv
<1>4. AttemptInv
  BY <1>2 DEF Init, AttemptInv, AttemptOK
<1>5. Len(files) = 0 /\ \A m \in Member : Len(core[m]) = 0 /\ ~Active(m)
  BY DEF Init, Active
<1>6. FileInv /\ CoreInv /\ RawIsWholeListing /\ VersionsInOrder /\ TombstoneJustified
  BY <1>5 DEF FileInv, CoreInv, RawIsWholeListing, VersionsInOrder, TombstoneJustified
<1>7. HoldIsConsistent
  BY DEF Init, HoldIsConsistent
<1>8. CoreMirrorsNewestNormalized
  BY <1>5 DEF CoreMirrorsNewestNormalized, View
<1> QED BY <1>1, <1>3, <1>4, <1>6, <1>7, <1>8 DEF IInv

\* Every step, or stutter, keeps the inductive invariant.
LEMMA StepInv == IInv /\ [Next]_vars => IInv'
<1> SUFFICES ASSUME IInv, [Next]_vars PROVE IInv'
  OBVIOUS
<1>1. CASE Next
  BY <1>1, Locked, TypeStep, LocalStep, HoldStep, TableStep DEF IInv, Tables
<1>2. CASE UNCHANGED vars
  <2>1. TypeOK' /\ LockInv' /\ HoldIsConsistent'
    BY <1>2, Locked, TypeStep DEF vars, IInv, LockInv, HoldIsConsistent, Named
  <2>2. AttemptInv'
    BY <1>2 DEF vars, IInv, AttemptInv, AttemptOK, Normalized
  <2>3. Tables'
    BY <1>2, SameTables DEF vars, IInv, Tables, SameFiles, Normalized
  <2> QED BY <2>1, <2>2, <2>3 DEF IInv, Tables
<1> QED BY <1>1, <1>2

\* The inductive invariant holds in every reachable state.
THEOREM Inductive == Spec => []IInv
<1>1. Init => IInv
  BY InitInv
<1>2. IInv /\ [Next]_vars => IInv'
  BY StepInv
<1> QED BY <1>1, <1>2, PTL DEF Spec

\* The tables, the holding file and the children are always well typed.
THEOREM TypeCorrect == Spec => []TypeOK
<1>1. IInv => TypeOK
  BY DEF IInv
<1> QED BY <1>1, Inductive, PTL

\* Crashes and resumes or not, the current members of a list are exactly the
\* records of its newest normalized file.
THEOREM MirrorsNewestNormalized == Spec => []CoreMirrorsNewestNormalized
<1>1. IInv => CoreMirrorsNewestNormalized
  BY DEF IInv
<1> QED BY <1>1, Inductive, PTL

\* No member is tombstoned because its page could not be read.
THEOREM TombstonesJustified == Spec => []TombstoneJustified
<1>1. IInv => TombstoneJustified
  BY DEF IInv
<1> QED BY <1>1, Inductive, PTL

\* However often a file is resumed, its payloads are written once and whole.
THEOREM RawWhole == Spec => []RawIsWholeListing
<1>1. IInv => RawIsWholeListing
  BY DEF IInv
<1> QED BY <1>1, Inductive, PTL

\* A held crawl always owes exactly the pages it has no record of.
THEOREM HoldConsistent == Spec => []HoldIsConsistent
<1>1. IInv => HoldIsConsistent
  BY DEF IInv
<1> QED BY <1>1, Inductive, PTL

\* The versions of a continuous list count its files.
THEOREM VersionsOrdered == Spec => []VersionsInOrder
<1>1. IInv => VersionsInOrder
  BY DEF IInv
<1> QED BY <1>1, Inductive, PTL

(***************************************************************************)
(* What a step may never do                                                *)
(***************************************************************************)
\* Registration appends a file and keeps the others.
LEMMA RegisterEffect ==
  ASSUME IInv, NEW w \in Worker, Register(w)
  PROVE  /\ core' = core
         /\ Len(files') = Len(files) + 1
         /\ \A f \in 1..Len(files) : files'[f] = files[f]
         /\ files'[Len(files) + 1].hash = worker[w].listing
         /\ files'[Len(files) + 1].log = {}
         /\ \A f \in 1..Len(files) : files[f].hash # worker[w].listing
         /\ worker[w].listing \in Listing
<1> DEFINE r == [hash |-> worker[w].listing, version |-> worker[w].version,
                 status |-> "DOWNLOADED", raw |-> <<>>, log |-> {}]
<1>1. files \in Seq(FileRow) /\ worker[w].listing \in Listing
  BY DEF IInv, TypeOK, AttemptInv, AttemptOK, Register
<1>2. files' = Append(files, r) /\ core' = core
  BY DEF Register
<1>3. r.hash = worker[w].listing /\ r.log = {}
  OBVIOUS
<1>4. \A f \in 1..Len(files) : files[f].hash # worker[w].listing
  BY DEF Register, Registrable
<1> HIDE DEF r
<1>5. /\ Len(files') = Len(files) + 1 /\ files'[Len(files) + 1] = r
      /\ \A f \in 1..Len(files) : files'[f] = files[f]
  BY <1>1, <1>2
<1> QED BY <1>1, <1>2, <1>3, <1>4, <1>5

\* Which actions touch the members, and which the payloads of a file.
LEMMA Untouched ==
  ASSUME IInv, Next
  PROVE  /\ core' = core \/ \E w \in Worker : CommitCore(w)
         /\ \A f \in 1..Len(files) :
              f \in 1..Len(files') /\ (Normalized(f) => files'[f].raw = files[f].raw)
<1>i. TypeOK /\ AttemptInv /\ files \in Seq(FileRow)
  BY DEF IInv, TypeOK
<1>1. ASSUME NEW w \in Worker, InsertRaw(w)
      PROVE  /\ core' = core
             /\ \A f \in 1..Len(files) :
                  f \in 1..Len(files') /\ (Normalized(f) => files'[f].raw = files[f].raw)
  <2>1. PICK n \in 1..Len(files) :
          /\ n = Len(files) /\ n = Len(files') /\ ~Normalized(n)
          /\ \A f \in 1..Len(files) : f # n => files'[f] = files[f]
    BY <1>i, <1>1, InsertRawEffect
  <2> QED BY <1>1, <2>1 DEF InsertRaw
<1>2. ASSUME NEW w \in Worker, CommitCore(w)
      PROVE  \A f \in 1..Len(files) :
               f \in 1..Len(files') /\ files'[f].raw = files[f].raw
  <2>1. worker[w].file \in 1..Len(files)
    BY <1>2, <1>i DEF AttemptInv, AttemptOK, CommitCore, TypeOK
  <2>2. files' = AddLog(worker[w].file, "NORMALIZATION", "SUCCESS")
    BY <1>2 DEF CommitCore
  <2> QED BY <1>i, <2>1, <2>2, CommitSame
<1>3. ASSUME NEW w \in Worker, Register(w)
      PROVE  /\ core' = core
             /\ \A f \in 1..Len(files) :
                  f \in 1..Len(files') /\ files'[f].raw = files[f].raw
  <2>1. Len(files) \in Nat
    BY <1>i
  <2> QED BY <1>3, <2>1, RegisterEffect
<1> QED BY <1>1, <1>2, <1>3, Locked, NextCases DEF SameFiles

\* The effect of the Core transaction on the members.
LEMMA CommitEffect ==
  ASSUME IInv, NEW w \in Worker, CommitCore(w)
  PROVE  \E n \in 1..Len(files) :
           /\ n = Len(files) /\ ~Normalized(n)
           /\ files' = AddLog(n, "NORMALIZATION", "SUCCESS")
           /\ Roster[files[n].hash] # {}
           /\ {m \in Member : Active(m)}' = Roster[files[n].hash]
           /\ \A m \in Member : Len(core'[m]) > Len(core[m]) =>
                core'[m][Len(core'[m])].file = n
<1>1. TypeOK /\ AttemptInv /\ Tables /\ files \in Seq(FileRow)
      /\ core \in [Member -> Seq(MemberRow)]
  BY DEF IInv, Tables, TypeOK
<1>2. PICK n \in 1..Len(files) : n = Len(files)
  BY <1>1 DEF AttemptInv, AttemptOK, CommitCore
<1>3. worker[w].file = n /\ ~Normalized(n) /\ files[n].raw # <<>>
  BY <1>1, <1>2 DEF AttemptInv, AttemptOK, CommitCore
<1>4. PICK raw \in Seq(Batch) : raw = files[n].raw
  <2>1. files[n] \in FileRow
    BY <1>1
  <2> QED BY <2>1 DEF FileRow
<1>5. Len(raw) = 1 /\ raw[1] \in Batch
  BY <1>1, <1>3, <1>4, OneElement DEF Tables, RawIsWholeListing
<1>6. Named(raw[1]) = Roster[files[n].hash] /\ Named(raw[1]) # {}
  BY <1>1, <1>4, <1>5 DEF Tables, RawIsWholeListing, FileInv
<1>7. core' = Merge(core, raw, n) /\ files' = AddLog(n, "NORMALIZATION", "SUCCESS")
  BY <1>3, <1>4 DEF CommitCore
<1>8. ASSUME NEW m \in Member
      PROVE  /\ Len(core'[m]) \in {Len(core[m]), Len(core[m]) + 1}
             /\ Len(core'[m]) = Len(core[m]) + 1 => core'[m][Len(core'[m])].file = n
             /\ Active(m)' <=> m \in Named(raw[1])
  <2>1. /\ core'[m] \in Seq(MemberRow)
        /\ Len(core'[m]) \in {Len(core[m]), Len(core[m]) + 1}
        /\ Len(core'[m]) = Len(core[m]) + 1 => core'[m][Len(core'[m])].file = n
        /\ IF raw[1][m] = NoRecord
           THEN core'[m] = <<>> \/ core'[m][Len(core'[m])].type = "DELETED"
           ELSE core'[m] # <<>> /\ core'[m][Len(core'[m])].type # "DELETED"
    BY <1>1, <1>5, <1>7, <1>8, MergeMember
  <2> QED BY <2>1 DEF Active, Named
<1>9. ASSUME NEW m \in Member, Len(core'[m]) > Len(core[m])
      PROVE  core'[m][Len(core'[m])].file = n
  <2>1. Len(core[m]) \in Nat
    BY <1>1
  <2> QED BY <1>8, <1>9, <2>1
<1>10. {m \in Member : Active(m)}' = Roster[files[n].hash]
  BY <1>6, <1>8 DEF Named
<1> QED BY <1>2, <1>3, <1>6, <1>7, <1>9, <1>10

\* A file that reached NORMALIZATION/SUCCESS gets no payloads and writes no
\* member version again.
THEOREM CompletedFinal == Spec => CompletedFilesAreFinal
<1> DEFINE A == \A f \in 1..Len(files) : Normalized(f) =>
                  /\ files'[f].raw = files[f].raw
                  /\ \A m \in Member : Len(core'[m]) > Len(core[m]) =>
                       core'[m][Len(core'[m])].file # f
<1>1. IInv /\ [Next]_vars => [A]_vars
  <2> SUFFICES ASSUME IInv, Next PROVE A
    OBVIOUS
  <2>1. ASSUME core' = core PROVE A
    <3>1. \A m \in Member : Len(core[m]) \in Nat
      BY DEF IInv, TypeOK
    <3> QED BY <2>1, <3>1, Untouched
  <2>2. ASSUME NEW w \in Worker, CommitCore(w) PROVE A
    <3>1. PICK n \in 1..Len(files) :
            /\ ~Normalized(n)
            /\ \A m \in Member : Len(core'[m]) > Len(core[m]) =>
                 core'[m][Len(core'[m])].file = n
      BY <2>2, CommitEffect
    <3> QED BY <3>1, Untouched
  <2> QED BY <2>1, <2>2, Untouched
<1> QED BY <1>1, Inductive, PTL DEF Spec, CompletedFilesAreFinal

\* No commit empties a list that has members, or stores a batch without records.
THEOREM NotEmptied == Spec => NeverEmptied
<1> DEFINE B == (\E m \in Member : Active(m)) => (\E m \in Member : Active(m)')
           A == NoEmptyBatch' /\ B
<1>1. IInv /\ IInv' /\ [Next]_vars => [A]_vars
  <2> SUFFICES ASSUME IInv, IInv', Next PROVE A
    OBVIOUS
  <2>1. ASSUME core' = core PROVE B
    BY <2>1 DEF Active
  <2>2. ASSUME NEW w \in Worker, CommitCore(w) PROVE B
    <3>1. {m \in Member : Active(m)}' # {}
      BY <2>2, CommitEffect
    <3> QED BY <3>1
  <2>3. B
    BY <2>1, <2>2, Untouched
  <2>4. NoEmptyBatch'
    BY DEF IInv, FileInv, NoEmptyBatch
  <2> QED BY <2>3, <2>4
<1> QED BY <1>1, Inductive, PTL DEF Spec, NeverEmptied

(***************************************************************************)
(* Jobs whose parent died: the lock protects nothing any more              *)
(***************************************************************************)
\* Registering and inserting make the tables grow; no file gets an empty batch.
LEMMA UnlockedFiles ==
  ASSUME UnlockedInv, Next
  PROVE  /\ Len(files') >= Len(files)
         /\ \A f \in 1..Len(files') :
              /\ Len(files'[f].raw) <= MaxBatches
              /\ \A i \in 1..Len(files'[f].raw) : Named(files'[f].raw[i]) # {}
<1> DEFINE Fine(r) == /\ Len(r) <= MaxBatches
                      /\ \A i \in 1..Len(r) : Named(r[i]) # {}
           Goal == /\ Len(files') >= Len(files)
                   /\ \A f \in 1..Len(files') : Fine(files'[f].raw)
<1>t. TypeOK /\ files \in Seq(FileRow) /\ Len(files) \in Nat
  BY DEF UnlockedInv, TypeOK
<1>o. \A f \in 1..Len(files) : Fine(files[f].raw)
  BY DEF UnlockedInv
<1>1. ASSUME SameFiles PROVE Goal
  <2> HIDE DEF Fine
  <2> QED BY <1>t, <1>o, <1>1 DEF SameFiles
<1>2. ASSUME NEW w \in Worker, Register(w) PROVE Goal
  <2> DEFINE r == [hash |-> worker[w].listing, version |-> worker[w].version,
                   status |-> "DOWNLOADED", raw |-> <<>>, log |-> {}]
  <2>1. r.raw = <<>> /\ files' = Append(files, r)
    BY <1>2 DEF Register
  <2>2. Fine(r.raw)
    BY <2>1 DEF MaxBatches
  <2> HIDE DEF r, Fine
  <2>3. /\ Len(files') = Len(files) + 1 /\ files'[Len(files) + 1] = r
        /\ \A f \in 1..Len(files) : files'[f] = files[f]
    BY <1>t, <2>1
  <2> QED BY <1>t, <1>o, <2>2, <2>3
<1>3. ASSUME NEW w \in Worker, InsertRaw(w) PROVE Goal
  <2>1. UnlockedOK(worker[w]) /\ worker[w] \in WorkerState /\ worker[w].pc = "raw"
    BY <1>3, <1>t DEF UnlockedInv, TypeOK, InsertRaw
  <2>2. PICK f \in 1..Len(files) : f = worker[w].file
    BY <2>1 DEF UnlockedOK
  <2>3. PICK b \in Batch : b = worker[w].recs /\ Named(b) # {}
    BY <2>1 DEF UnlockedOK, WorkerState
  <2>4. files[f] \in FileRow
    BY <1>t
  <2>5. PICK raw \in Seq(Batch) : raw = files[f].raw
    BY <2>4 DEF FileRow
  <2> DEFINE r == [files[f] EXCEPT !.raw = Append(raw, b), !.status = "PARSED"]
  <2>6. files' = [files EXCEPT ![f] = r] /\ Len(raw) < MaxBatches
    BY <1>3, <2>2, <2>3, <2>5 DEF InsertRaw
  <2>7. r.raw = Append(raw, b)
    BY <2>4 DEF FileRow
  <2>8. Fine(Append(raw, b))
    <3>1. \A i \in 1..Len(raw) : Named(raw[i]) # {}
      BY <1>o, <2>5
    <3>2. PICK n \in Nat : n = Len(raw) /\ n < 2
      BY <2>6 DEF MaxBatches
    <3>s. Append(raw, b) \in Seq(Batch)
      <4> HIDE DEF Fine
      <4> QED OBVIOUS
    <3>3. PICK more \in Seq(Batch) : more = Append(raw, b)
      BY <3>s
    <3>4. Len(more) = n + 1 /\ more[n + 1] = b /\ \A i \in 1..n : more[i] = raw[i]
      BY <3>2, <3>3
    <3>5. Fine(more)
      BY <2>3, <3>1, <3>2, <3>4 DEF MaxBatches
    <3> QED BY <3>3, <3>5
  <2> HIDE DEF r, Fine
  <2>9. /\ Len(files') = Len(files) /\ files'[f] = r
        /\ \A g \in 1..Len(files) : g # f => files'[g] = files[g]
    BY <1>t, <2>6, ExceptOne
  <2>10. ASSUME NEW g \in 1..Len(files') PROVE Fine(files'[g].raw)
    <3>1. CASE g = f
      BY <2>7, <2>8, <2>9, <3>1
    <3>2. CASE g # f
      BY <1>o, <2>9, <3>2
    <3> QED BY <3>1, <3>2
  <2> QED BY <1>t, <2>9, <2>10
<1>4. ASSUME NEW w \in Worker, CommitCore(w) PROVE Goal
  <2>1. worker[w].file \in 1..Len(files) /\ files' = AddLog(worker[w].file, "NORMALIZATION", "SUCCESS")
    BY <1>4 DEF UnlockedInv, UnlockedOK, CommitCore
  <2> HIDE DEF Fine
  <2> QED BY <1>t, <1>o, <2>1, CommitSame
<1> HIDE DEF Goal
<1>5. Goal
  BY <1>1, <1>2, <1>3, <1>4, NextCases
<1> QED BY <1>5 DEF Goal

\* A job loses nothing it relies on when others register files.
LEMMA Overtaken ==
  ASSUME UnlockedInv, Len(files') \in Nat, Len(files') >= Len(files),
         NEW v \in Worker, worker'[v] = worker[v]
  PROVE  UnlockedOK(worker[v])'
<1>1. UnlockedOK(worker[v]) /\ Len(files) \in Nat
  BY DEF UnlockedInv, TypeOK
<1>2. files # <<>> => Len(files) > 0
  BY EmptySeq DEF UnlockedInv, TypeOK
<1>3. files # <<>> => files' # <<>>
  BY <1>1, <1>2
<1> QED BY <1>1, <1>3 DEF UnlockedOK

\* One job moves, the others are where they were.
LEMMA OneMoves ==
  ASSUME UnlockedInv, Len(files') \in Nat, Len(files') >= Len(files), NEW w \in Worker,
         \A v \in Worker \ {w} : worker'[v] = worker[v], UnlockedOK(worker[w])'
  PROVE  \A v \in Worker : UnlockedOK(worker[v])'
BY Overtaken

\* A job that ends leaves nothing to rely on.
LEMMA OneEnds ==
  ASSUME UnlockedInv, Len(files') \in Nat, Len(files') >= Len(files), NEW w \in Worker, Finish(w)
  PROVE  \A v \in Worker : UnlockedOK(worker[v])'
<1>1. \A v \in Worker \ {w} : worker'[v] = worker[v]
  BY DEF Finish, UnlockedInv, TypeOK
<1>2. worker'[w] = Idle
  BY DEF Finish, UnlockedInv, TypeOK
<1>3. UnlockedOK(worker[w])'
  BY <1>2 DEF UnlockedOK, Idle
<1> QED BY <1>1, <1>3, OneMoves

\* Every action leaves each job what it relies on.
LEMMA UnlockedLocal ==
  ASSUME UnlockedInv, Next
  PROVE  \A v \in Worker : UnlockedOK(worker[v])'
<1> DEFINE Goal == \A v \in Worker : UnlockedOK(worker[v])'
<1>t. TypeOK /\ files \in Seq(FileRow) /\ Len(files) \in Nat
  BY DEF UnlockedInv, TypeOK
<1>s. source.listing \in Listing /\ source.detail \in Detail
  BY <1>t DEF TypeOK
<1>w. ASSUME NEW w \in Worker PROVE worker[w] \in WorkerState /\ UnlockedOK(worker[w])
  BY <1>t DEF TypeOK, UnlockedInv
<1>n. Len(files') \in Nat /\ Len(files') >= Len(files)
  <2>1. TypeOK'
    BY TypeStep
  <2>2. Len(files') \in Nat
    BY <2>1 DEF TypeOK
  <2> QED BY <2>2, UnlockedFiles
<1>1. ASSUME NEW l \in Listing, NEW d \in Detail, Publish(l, d) PROVE Goal
  BY <1>n, <1>1, Overtaken DEF Publish
<1>2. ASSUME NEW w \in Worker,
             \/ RegisterRejected(w) \/ RawFails(w) \/ AttachFails(w) \/ CoreFails(w)
             \/ ReleaseHold(w) \/ Crash(w)
      PROVE  Goal
  <2>1. Finish(w)
    BY <1>2 DEF RegisterRejected, RawFails, AttachFails, CoreFails, ReleaseHold, Crash
  <2> QED BY <1>n, <2>1, OneEnds
<1>3. ASSUME NEW w \in Worker, NEW missing \in SUBSET Member, NEW broken \in SUBSET Member,
             \/ HoldCrawl(w, missing, broken) \/ HoldSavedHtml(w, missing, broken)
             \/ TooFewRecords(w, broken) \/ ParseFails(w, broken)
      PROVE  Goal
  <2>1. Finish(w)
    BY <1>3 DEF HoldCrawl, HoldSavedHtml, TooFewRecords, ParseFails
  <2> QED BY <1>n, <2>1, OneEnds
<1>4. ASSUME NEW w \in Worker,
             \/ Start(w) \/ StartRetry(w) \/ AcquireFile(w)
             \/ \E broken \in SUBSET Member : AcquireCrawl(w, broken)
      PROVE  Goal
  <2>1. /\ worker'[w].pc \in {"acquire", "fetch_missing", "acquired"}
        /\ worker'[w].pc = "fetch_missing" => worker'[w].held # NoHold
        /\ worker'[w].pc = "acquired" => worker'[w].listing \in Listing
        /\ \A v \in Worker \ {w} : worker'[v] = worker[v]
    BY <1>4, <1>t, <1>s, <1>w
    DEF TypeOK, Start, StartRetry, AcquireFile, AcquireCrawl, Goto, WorkerState
  <2>2. UnlockedOK(worker[w])'
    BY <2>1 DEF UnlockedOK
  <2> QED BY <1>n, <2>1, <2>2, OneMoves
<1>5. ASSUME NEW w \in Worker, NEW missing \in SUBSET Member, NEW broken \in SUBSET Member,
             FetchMissing(w, missing, broken)
      PROVE  Goal
  <2>1. CASE missing # {}
    BY <1>n, <1>5, <2>1, OneEnds DEF FetchMissing
  <2>2. CASE missing = {}
    <3>1. worker[w].held \in Held
      BY <1>5, <1>w DEF UnlockedOK, FetchMissing, WorkerState
    <3>2. /\ worker'[w].pc = "acquired"
          /\ worker'[w].listing = worker[w].held.listing
          /\ \A v \in Worker \ {w} : worker'[v] = worker[v]
      BY <1>5, <1>t, <1>w, <2>2 DEF TypeOK, FetchMissing, WorkerState
    <3>3. UnlockedOK(worker[w])'
      BY <3>1, <3>2 DEF UnlockedOK, Held
    <3> QED BY <1>n, <3>2, <3>3, OneMoves
  <2> QED BY <2>1, <2>2
<1>6. ASSUME NEW w \in Worker, Check(w) PROVE Goal
  <2> DEFINE dup == CheckDuplicate(worker[w].listing)
             n   == Len(files)
  <2>1. /\ worker'[w].pc = CASE dup = "DUPLICATE_COMPLETED" -> "skip"
                              [] dup = "RESUME_NORMALIZATION" -> "attach"
                              [] dup = "RESUME_PROCESSING" -> "extract"
                              [] OTHER -> "version"
        /\ worker'[w].dup = dup
        /\ worker'[w].file = IF dup \in {"FIRST_DOWNLOAD", "NEW_VERSION"}
                             THEN NoFile ELSE n
        /\ worker'[w].listing = worker[w].listing
        /\ files' = files
        /\ \A v \in Worker \ {w} : worker'[v] = worker[v]
    BY <1>t, <1>6, <1>w DEF TypeOK, Check, WorkerState
  <2>2. worker[w].listing \in Listing
    BY <1>6, <1>w DEF UnlockedOK, Check
  <2>3. \/ dup = "FIRST_DOWNLOAD" /\ files = <<>>
        \/ dup = "NEW_VERSION" /\ files # <<>>
        \/ /\ dup \in {"DUPLICATE_COMPLETED", "RESUME_NORMALIZATION", "RESUME_PROCESSING"}
           /\ files # <<>>
    BY DEF CheckDuplicate
  <2>4. files # <<>> => n \in 1..n
    BY <1>t, EmptySeq
  <2> HIDE DEF dup, n
  <2>5. worker'[w].pc \in {"version", "skip", "attach", "extract"}
    BY <2>1, <2>3
  <2>6. worker'[w].pc = "version" /\ worker'[w].dup # "FIRST_DOWNLOAD" => files' # <<>>
    BY <2>1, <2>3
  <2>7. worker'[w].pc # "version" => worker'[w].file \in 1..Len(files')
    BY <2>1, <2>3, <2>4 DEF n
  <2>8. UnlockedOK(worker[w])'
    BY <2>1, <2>2, <2>5, <2>6, <2>7 DEF UnlockedOK
  <2> QED BY <1>n, <2>1, <2>8, OneMoves
<1>7. ASSUME NEW w \in Worker, Skip(w) \/ CommitCore(w) PROVE Goal
  <2>1. CASE worker[w].retry
    <3>1. /\ worker'[w].pc = "release"
          /\ worker'[w].listing = worker[w].listing
          /\ \A v \in Worker \ {w} : worker'[v] = worker[v]
      BY <1>t, <1>7, <1>w, <2>1 DEF TypeOK, Skip, CommitCore, Goto, WorkerState
    <3>2. UnlockedOK(worker[w])'
      BY <1>7, <1>w, <3>1 DEF UnlockedOK, Skip, CommitCore
    <3> QED BY <1>n, <3>1, <3>2, OneMoves
  <2>2. CASE ~worker[w].retry
    BY <1>n, <1>7, <2>2, OneEnds DEF Skip, CommitCore
  <2> QED BY <2>1, <2>2
<1>8. ASSUME NEW w \in Worker, DetermineVersion(w) PROVE Goal
  <2>1. /\ worker'[w].pc = "register"
        /\ worker'[w].listing = worker[w].listing
        /\ \A v \in Worker \ {w} : worker'[v] = worker[v]
    BY <1>t, <1>8, <1>w DEF TypeOK, DetermineVersion, WorkerState
  <2>2. UnlockedOK(worker[w])'
    BY <1>8, <1>w, <2>1 DEF UnlockedOK, DetermineVersion
  <2> QED BY <1>n, <2>1, <2>2, OneMoves
<1>9. ASSUME NEW w \in Worker, Register(w) PROVE Goal
  <2> DEFINE r == [hash |-> worker[w].listing, version |-> worker[w].version,
                   status |-> "DOWNLOADED", raw |-> <<>>, log |-> {}]
  <2>1. files' = Append(files, r)
    BY <1>9 DEF Register
  <2>2. Len(files') = Len(files) + 1
    <3> HIDE DEF r
    <3> QED BY <1>t, <2>1
  <2>3. /\ worker'[w].pc = "extract"
        /\ worker'[w].file = Len(files) + 1
        /\ worker'[w].listing = worker[w].listing
        /\ \A v \in Worker \ {w} : worker'[v] = worker[v]
    BY <1>t, <1>9, <1>w DEF TypeOK, Register, WorkerState
  <2>4. worker'[w].file \in 1..Len(files')
    BY <1>t, <2>2, <2>3
  <2>5. UnlockedOK(worker[w])'
    BY <1>9, <1>w, <2>3, <2>4 DEF UnlockedOK, Register
  <2> QED BY <1>n, <2>3, <2>5, OneMoves
<1>10. ASSUME NEW w \in Worker, NEW broken \in SUBSET Member, Extract(w, broken) PROVE Goal
  <2>1. PICK recs : recs = Extracted(w, broken)
    OBVIOUS
  <2>2. Named(recs) # {} /\ recs # Unread
    <3>1. Named(recs) # {}
      BY <1>10, <2>1, EmptyCount DEF Extract
    <3>2. worker[w].listing \in Listing
      BY <1>10, <1>w DEF UnlockedOK, Extract
    <3>3. Extracted(w, broken) \in Batch
      BY <1>s, <1>w, <3>2, CrawledType DEF Extracted, WorkerState
    <3> QED BY <2>1, <3>1, <3>3, SentinelAssumption
  <2>3. /\ worker'[w].pc = "raw" /\ worker'[w].recs = recs
        /\ worker'[w].file = worker[w].file
        /\ worker'[w].listing = worker[w].listing
        /\ files' = files
        /\ \A v \in Worker \ {w} : worker'[v] = worker[v]
    BY <1>t, <1>10, <1>w, <2>1 DEF TypeOK, Extract, WorkerState
  <2>4. UnlockedOK(worker[w])'
    BY <1>10, <1>w, <2>2, <2>3 DEF UnlockedOK, Extract
  <2> QED BY <1>n, <2>3, <2>4, OneMoves
<1>11. ASSUME NEW w \in Worker, InsertRaw(w) \/ Attach(w) PROVE Goal
  <2>1. /\ worker'[w].pc \in {"attach", "core"}
        /\ worker'[w].file = worker[w].file
        /\ worker'[w].listing = worker[w].listing
        /\ \A v \in Worker \ {w} : worker'[v] = worker[v]
    BY <1>t, <1>11, <1>w DEF TypeOK, InsertRaw, Attach, Goto, WorkerState
  <2>2. worker[w].file \in 1..Len(files) /\ worker[w].listing \in Listing
    BY <1>11, <1>w DEF UnlockedOK, InsertRaw, Attach
  <2>3. worker[w].file \in 1..Len(files')
    BY <1>t, <1>n, <2>2
  <2>4. UnlockedOK(worker[w])'
    BY <2>1, <2>2, <2>3 DEF UnlockedOK
  <2> QED BY <1>n, <2>1, <2>4, OneMoves
<1> HIDE DEF Goal
<1>12. Goal
  BY <1>1, <1>2, <1>3, <1>4, <1>5, <1>6, <1>7, <1>8, <1>9, <1>10, <1>11
  DEF Next, WorkerStep, Acquisition, Registration, RawStep, CoreStep
<1> QED BY <1>12 DEF Goal

\* The weaker invariant survives every step, the death of a parent included.
LEMMA UnlockedStep == UnlockedInv /\ [Next \/ ParentDies]_vars => UnlockedInv'
<1> SUFFICES ASSUME UnlockedInv, [Next \/ ParentDies]_vars PROVE UnlockedInv'
  OBVIOUS
<1>t. TypeOK'
  BY TypeStep
<1>1. CASE Next
  BY <1>t, <1>1, UnlockedFiles, UnlockedLocal DEF UnlockedInv
<1>2. CASE ParentDies \/ UNCHANGED vars
  BY <1>t, <1>2 DEF UnlockedInv, UnlockedOK, ParentDies, vars
<1> QED BY <1>1, <1>2

\* What the last batch of a file names is current after its transaction, however
\* many attempts gave the file payloads.
LEMMA MergeShows ==
  ASSUME NEW c \in [Member -> Seq(MemberRow)], NEW raw \in Seq(Batch),
         Len(raw) \in {1, 2}, NEW f \in Nat, NEW m \in Named(raw[Len(raw)])
  PROVE  LET new == Merge(c, raw, f)[m]
         IN  new # <<>> /\ new[Len(new)].type # "DELETED"
<1>n. Len(raw) \in 1..Len(raw)
  <2>1. 1 \in 1..1 /\ 2 \in 1..2
    OBVIOUS
  <2> QED BY <2>1
<1>1. m \in Member /\ raw[Len(raw)][m] # NoRecord /\ Len(raw) \in 1..Len(raw)
  BY <1>n DEF Named
<1>2. raw[Len(raw)] \in Batch
  BY <1>1, ElementOfSeq
<1>3. ASSUME NEW c1 \in [Member -> Seq(MemberRow)]
      PROVE  LET up == Upsert(c1, raw[Len(raw)], f)[m]
             IN  up # <<>> /\ up[Len(up)].type # "DELETED"
  <2>1. PICK b \in Batch : b = raw[Len(raw)] /\ b[m] # NoRecord
    BY <1>1, <1>2
  <2>2. PICK old \in Seq(MemberRow) : old = c1[m]
    BY <1>1
  <2>3. /\ Row(b[m], "UPDATED", f).type = "UPDATED" /\ Row(b[m], "NEW", f).type = "NEW"
        /\ Row(b[m], "UPDATED", f) \in MemberRow /\ Row(b[m], "NEW", f) \in MemberRow
    BY <1>1, <2>1 DEF Row, MemberRow, Batch
  <2>4. CASE old = <<>>
    <3>1. Upsert(c1, b, f)[m] = <<Row(b[m], "NEW", f)>>
      BY <1>1, <2>1, <2>2, <2>4 DEF Upsert
    <3> QED BY <2>1, <2>3, <3>1, Singleton
  <2>5. CASE old # <<>> /\ old[Len(old)].type # "DELETED" /\ old[Len(old)].payload = b[m]
    <3>1. Upsert(c1, b, f)[m] = old
      BY <1>1, <2>1, <2>2, <2>5 DEF Upsert
    <3> QED BY <2>1, <2>5, <3>1
  <2>6. CASE old # <<>> /\ ~(old[Len(old)].type # "DELETED" /\ old[Len(old)].payload = b[m])
    <3>1. PICK r \in MemberRow : r = Row(b[m], "UPDATED", f) /\ r.type = "UPDATED"
      BY <2>3
    <3>2. Upsert(c1, b, f)[m] = Append(old, r)
      BY <1>1, <2>1, <2>2, <2>6, <3>1 DEF Upsert
    <3>3. Append(old, r) \in Seq(MemberRow) /\ Append(old, r) # <<>>
      BY AppendProperties
    <3>4. Append(old, r)[Len(Append(old, r))] = r
      BY AppendProperties
    <3> QED BY <2>1, <3>1, <3>2, <3>3, <3>4
  <2> QED BY <2>4, <2>5, <2>6
<1>4. ASSUME NEW c1 \in [Member -> Seq(MemberRow)],
             c1[m] # <<>>, c1[m][Len(c1[m])].type # "DELETED"
      PROVE  Tombstone(c1, raw, f)[m] = c1[m]
  BY <1>1 DEF Tombstone
<1>5. PICK once \in [Member -> Seq(MemberRow)] : once = Upsert(c, raw[1], f)
  <2>1. raw[1] \in Batch
    BY ElementOfSeq
  <2> QED BY <2>1, UpsertType
<1>6. CASE Len(raw) = 1
  <2>1. Merge(c, raw, f) = Tombstone(once, raw, f)
    BY <1>5, <1>6 DEF Merge
  <2>2. once[m] # <<>> /\ once[m][Len(once[m])].type # "DELETED"
    BY <1>3, <1>5, <1>6
  <2> QED BY <1>4, <2>1, <2>2
<1>7. CASE Len(raw) = 2
  <2>1. PICK twice \in [Member -> Seq(MemberRow)] : twice = Upsert(once, raw[2], f)
    BY <1>2, <1>7, UpsertType
  <2>2. Merge(c, raw, f) = Tombstone(twice, raw, f)
    <3>1. Len(raw) # 1
      BY <1>7
    <3> QED BY <1>5, <2>1, <3>1 DEF Merge
  <2>3. twice[m] # <<>> /\ twice[m][Len(twice[m])].type # "DELETED"
    BY <1>3, <1>7, <2>1
  <2> QED BY <1>4, <2>2, <2>3
<1> QED BY <1>6, <1>7

\* No commit empties a list that has members or stores an empty batch, not even when parents die and their
\* children run on beside the next attempt.
THEOREM OrphansNeverEmpty == OrphanSpec => NeverEmptied
<1> DEFINE B == (\E m \in Member : Active(m)) => (\E m \in Member : Active(m)')
           A == NoEmptyBatch' /\ B
<1>1. Init => UnlockedInv
  BY InitInv, Locked
<1>2. UnlockedInv /\ UnlockedInv' /\ [Next \/ ParentDies]_vars => [A]_vars
  <2> SUFFICES ASSUME UnlockedInv, UnlockedInv', Next \/ ParentDies PROVE A
    OBVIOUS
  <2>1. ASSUME core' = core PROVE B
    BY <2>1 DEF Active
  <2>2. ASSUME NEW w \in Worker, Next, CommitCore(w) PROVE B
    <3>1. TypeOK /\ UnlockedOK(worker[w]) /\ core \in [Member -> Seq(MemberRow)]
      BY DEF UnlockedInv, TypeOK
    <3>2. PICK f \in 1..Len(files) : f = worker[w].file
      BY <2>2, <3>1 DEF UnlockedOK, CommitCore
    <3>3. files[f] \in FileRow
      BY <3>1 DEF TypeOK
    <3>4. PICK raw \in Seq(Batch) : raw = files[f].raw
      BY <3>3 DEF FileRow
    <3>5. PICK n \in Nat : n = Len(raw) /\ n <= 2 /\ n # 0
      <4>1. Len(raw) <= 2
        BY <3>4 DEF UnlockedInv, MaxBatches
      <4>2. Len(raw) # 0
        BY <2>2, <3>2, <3>4 DEF CommitCore, HasRaw
      <4> QED BY <4>1, <4>2
    <3>6. n \in {1, 2} /\ n \in 1..n
      BY <3>5
    <3>7. PICK m \in Member : m \in Named(raw[n])
      <4>1. Named(raw[n]) # {}
        BY <3>4, <3>5, <3>6 DEF UnlockedInv
      <4> QED BY <4>1 DEF Named
    <3>8. core' = Merge(core, raw, f)
      BY <2>2, <3>2, <3>4 DEF CommitCore
    <3>9. f \in Nat
      BY <3>1 DEF TypeOK
    <3>10. core'[m] # <<>> /\ core'[m][Len(core'[m])].type # "DELETED"
      BY <3>1, <3>5, <3>6, <3>7, <3>8, <3>9, MergeShows
    <3> QED BY <3>10 DEF Active
  <2>3. ASSUME Next PROVE B
    <3>1. core' = core \/ \E w \in Worker : CommitCore(w)
      BY <2>3, NextCases DEF Register, InsertRaw
    <3> QED BY <2>1, <2>2, <2>3, <3>1
  <2>4. ASSUME ParentDies PROVE B
    BY <2>1, <2>4 DEF ParentDies
  <2>5. NoEmptyBatch'
    BY DEF UnlockedInv, NoEmptyBatch
  <2> QED BY <2>3, <2>4, <2>5
<1> QED BY <1>1, <1>2, UnlockedStep, PTL DEF OrphanSpec, NeverEmptied

(***************************************************************************)
(* The pipeline implements ListMirror                                      *)
(***************************************************************************)
IsNewest(n) ==
  /\ n \in 0..Len(files)
  /\ n = 0 \/ Normalized(n)
  /\ \A k \in n+1..Len(files) : ~Normalized(k)

HasNewest == \E n \in 0..Len(files) : IsNewest(n)

Hashes == [f \in 1..Len(files) |-> files[f].hash]

\* The newest normalized file is the one that IsNewest describes.
LEMMA NewestIs ==
  ASSUME TypeOK, NEW n, IsNewest(n)
  PROVE  NewestNormalized = n
<1>1. Len(files) \in Nat
  BY DEF TypeOK
<1>2. \A k \in 0..Len(files) : IsNewest(k) => k = n
  BY <1>1 DEF IsNewest
<1> QED BY <1>2 DEF IsNewest, NewestNormalized

\* Each step registers a listing, shows the newest one, or changes nothing.
LEMMA MirrorStep ==
  ASSUME IInv, IInv', HasNewest, [Next]_vars
  PROVE  HasNewest' /\ [Mirror!Next]_<<Hashes, NewestNormalized, {m \in Member : Active(m)}>>
<1> DEFINE view == {m \in Member : Active(m)}
<1>i. TypeOK /\ TypeOK' /\ files \in Seq(FileRow) /\ files' \in Seq(FileRow)
  BY DEF IInv, TypeOK
<1>1. PICK n \in 0..Len(files) : IsNewest(n)
  BY DEF HasNewest
<1>2. NewestNormalized = n
  BY <1>i, <1>1, NewestIs
<1>3. PICK N \in Nat : N = Len(files)
  BY <1>i
<1>4. ASSUME NEW k \in 0..Len(files'), IsNewest(k)' PROVE HasNewest' /\ NewestNormalized' = k
  <2>1. HasNewest'
    BY <1>4 DEF HasNewest
  <2>2. \A j \in 0..Len(files') : IsNewest(j)' => j = k
    BY <1>i, <1>4 DEF IsNewest
  <2> QED BY <1>4, <2>1, <2>2 DEF IsNewest, NewestNormalized
<1>5. CASE core' = core /\ (SameFiles \/ \E w \in Worker : InsertRaw(w))
  <2>1. /\ Len(files') = N
        /\ \A f \in 1..N : files'[f].hash = files[f].hash /\ (Normalized(f)' <=> Normalized(f))
    <3>1. CASE SameFiles
      BY <1>3, <3>1 DEF SameFiles
    <3>2. ASSUME NEW w \in Worker, InsertRaw(w)
          PROVE  /\ Len(files') = N
                 /\ \A f \in 1..N : /\ files'[f].hash = files[f].hash
                                    /\ (Normalized(f)' <=> Normalized(f))
      <4>1. PICK p \in 1..Len(files) :
              /\ p = Len(files) /\ p = Len(files')
              /\ files'[p].hash = files[p].hash /\ files'[p].log = files[p].log
              /\ \A f \in 1..Len(files) : f # p => files'[f] = files[f]
        BY <3>2, InsertRawEffect DEF IInv
      <4> QED BY <1>3, <4>1 DEF Normalized
    <3> QED BY <1>5, <3>1, <3>2
  <2>2. IsNewest(n)' /\ n \in 0..Len(files')
    BY <1>1, <1>3, <2>1 DEF IsNewest
  <2>3. HasNewest' /\ NewestNormalized' = NewestNormalized
    BY <1>2, <1>4, <2>2
  <2>4. Hashes' = Hashes
    BY <1>3, <2>1 DEF Hashes
  <2>5. view' = view
    BY <1>5 DEF Active
  <2> QED BY <2>3, <2>4, <2>5
<1>6. ASSUME NEW w \in Worker, Register(w)
      PROVE  HasNewest' /\ \E l \in Listing : Mirror!Register(l)
  <2> PICK l \in Listing : l = worker[w].listing
    BY <1>6, RegisterEffect
  <2>1. /\ core' = core /\ Len(files') = N + 1
        /\ \A f \in 1..N : files'[f] = files[f] /\ files[f].hash # l
        /\ files'[N + 1].hash = l
        /\ ~Normalized(N + 1)'
    BY <1>3, <1>6, RegisterEffect DEF Normalized
  <2>2. \A f \in 1..N : Normalized(f)' <=> Normalized(f)
    BY <2>1 DEF Normalized
  <2>3. IsNewest(n)' /\ n \in 0..Len(files')
    BY <1>1, <1>3, <2>1, <2>2 DEF IsNewest
  <2>4. HasNewest' /\ NewestNormalized' = NewestNormalized
    BY <1>2, <1>4, <2>3
  <2>5. Hashes' = Append(Hashes, l)
    <3>1. Hashes \in Seq(Listing) /\ Len(Hashes) = N
      <4>1. \A f \in 1..N : files[f].hash \in Listing
        <5>1. \A f \in 1..N : files[f] \in FileRow
          BY <1>i, <1>3
        <5> QED BY <5>1 DEF FileRow
      <4>2. Hashes \in [1..N -> Listing]
        BY <1>3, <4>1 DEF Hashes
      <4> QED BY <4>2
    <3>2. Hashes' \in Seq(Listing) /\ Len(Hashes') = N + 1
      <4>1. \A f \in 1..N+1 : files'[f].hash \in Listing
        <5>1. \A f \in 1..N+1 : files'[f] \in FileRow
          BY <1>i, <2>1
        <5> QED BY <5>1 DEF FileRow
      <4>2. Hashes' \in [1..N+1 -> Listing]
        BY <2>1, <4>1 DEF Hashes
      <4> QED BY <4>2
    <3>3. ASSUME NEW f \in 1..N+1
          PROVE  Hashes'[f] = Append(Hashes, l)[f]
      BY <1>3, <2>1, <3>1 DEF Hashes
    <3>4. Append(Hashes, l) \in Seq(Listing)
          /\ Len(Append(Hashes, l)) = N + 1
      BY <2>1, <3>1
    <3> QED BY <3>2, <3>3, <3>4, SeqEqual
  <2>6. \A i \in 1..Len(Hashes) : Hashes[i] # l
    BY <1>3, <2>1 DEF Hashes
  <2>7. view' = view
    BY <2>1 DEF Active
  <2> QED BY <2>1, <2>4, <2>5, <2>6, <2>7 DEF Mirror!Register, Hashes
<1>7. ASSUME NEW w \in Worker, CommitCore(w) PROVE HasNewest' /\ Mirror!Show
  <2>1. PICK p \in 1..Len(files) :
          /\ p = Len(files) /\ ~Normalized(p)
          /\ files' = AddLog(p, "NORMALIZATION", "SUCCESS")
          /\ view' = Roster[files[p].hash]
    BY <1>7, CommitEffect
  <2>2. /\ Len(files') = N /\ Normalized(p)'
        /\ \A g \in 1..N : files'[g].hash = files[g].hash
    BY <1>i, <1>3, <2>1, CommitSame
  <2>3. IsNewest(p)' /\ p \in 0..Len(files')
    BY <1>3, <2>1, <2>2 DEF IsNewest
  <2>4. HasNewest' /\ NewestNormalized' = p
    BY <1>4, <2>3
  <2>5. n < p
    BY <1>1, <1>3, <2>1 DEF IsNewest
  <2>6. Hashes' = Hashes /\ Len(Hashes) = p /\ Hashes[p] = files[p].hash
    BY <1>3, <2>1, <2>2 DEF Hashes
  <2> QED BY <1>2, <2>1, <2>4, <2>5, <2>6 DEF Mirror!Show, Hashes
<1>8. CASE UNCHANGED vars
  <2>1. SameFiles /\ core' = core
    BY <1>8 DEF vars, SameFiles, Normalized
  <2> QED BY <1>5, <2>1
<1>9. ASSUME NEW w \in Worker, InsertRaw(w) PROVE core' = core
  BY <1>9 DEF InsertRaw
<1>10. CASE Next
  <2>1. CASE SameFiles /\ core' = core
    BY <1>5, <2>1
  <2>2. ASSUME NEW w \in Worker, Register(w)
        PROVE  HasNewest' /\ Mirror!Next
    BY <1>6, <2>2 DEF Mirror!Next
  <2>3. ASSUME NEW w \in Worker, InsertRaw(w)
        PROVE  HasNewest' /\ [Mirror!Next]_<<Hashes, NewestNormalized, view>>
    BY <1>5, <1>9, <2>3
  <2>4. ASSUME NEW w \in Worker, CommitCore(w)
        PROVE  HasNewest' /\ Mirror!Next
    BY <1>7, <2>4 DEF Mirror!Next
  <2> QED BY <1>10, <2>1, <2>2, <2>3, <2>4, Locked, NextCases
<1> QED BY <1>8, <1>10

\* The current members are always the roster of a registered listing, and
\* change in one step to that of the newest: crashes, holds and resumes are
\* invisible to whoever reads the list.
THEOREM Implements == Spec => ImplementsListMirror
<1>1. Init => HasNewest /\ Mirror!Init
  <2> SUFFICES ASSUME Init PROVE HasNewest /\ Mirror!Init
    OBVIOUS
  <2>1. Len(files) = 0
    BY DEF Init
  <2>2. IsNewest(0)
    BY <2>1 DEF IsNewest
  <2>3. TypeOK
    BY InitInv DEF IInv
  <2>4. NewestNormalized = 0
    BY <2>2, <2>3, NewestIs
  <2>5. Hashes = <<>>
    BY <2>1 DEF Hashes
  <2>6. {m \in Member : Active(m)} = {}
    BY DEF Init, Active
  <2> QED BY <2>1, <2>2, <2>4, <2>5, <2>6 DEF HasNewest, Mirror!Init, Hashes
<1>2. IInv /\ IInv' /\ HasNewest /\ [Next]_vars
        => HasNewest' /\ [Mirror!Next]_<<Hashes, NewestNormalized, {m \in Member : Active(m)}>>
  BY MirrorStep
<1> QED BY <1>1, <1>2, Inductive, PTL DEF Spec, ImplementsListMirror, Mirror!Spec, Hashes

=============================================================================
