--------------------------- MODULE WatchlistIngest ---------------------------
(***************************************************************************)
(* The watchlist ingestion pipeline of one list, from the publisher's page *)
(* to the versioned members of the Core layer:                             *)
(*                                                                         *)
(*   acquire -> check_duplicate -> register the file -> Raw -> attachments *)
(*           -> Core                                                       *)
(*                                                                         *)
(* (pipelines/watchlistPipeline.py and services/watchlistPipeline).  Every *)
(* step commits a database transaction of its own, so an attempt may die   *)
(* between any two of them; the next attempt starts again from the source  *)
(* and resumes from what the database says.  A crawl that missed detail    *)
(* pages is parked in a holding file instead of being ingested.            *)
(*                                                                         *)
(* A worker is the child process of one attempt.  The parent job holds the *)
(* advisory lock while its children run, one at a time; when the parent    *)
(* dies the lock is freed although its child still runs (OrphanSpec).      *)
(*                                                                         *)
(* A definition marked as a mutant is a plausible bug in the definition    *)
(* that follows it; no specification uses one.  It shows what the property *)
(* that notices the bug is worth.                                          *)
(***************************************************************************)
EXTENDS Integers, Sequences, FiniteSets

CONSTANTS
  Worker,      \* child processes
  Listing,     \* the different bytes the listing can have (its SHA-256)
  Detail,      \* the different states of the detail pages behind it
  Member,      \* external ids
  Payload,     \* record hashes of canonical records
  NoRecord,    \* "this batch has no record of the member"
  Unread,      \* acquisition.records is None: the file is not extracted yet
  Roster,      \* [Listing -> SUBSET Member]: the members a listing names
  Data,        \* [Listing -> [Detail -> [Member -> Payload]]]
  ListOnly,    \* the record kept for a page that is broken on the source
  Methods,     \* the download methods to consider: "FILE", "CRAWLER", "SAVED_HTML"
  MinRecords,  \* minimum_record_count of the list
  Nobody       \* the lock is free

Batch == [Member -> Payload \union {NoRecord}]
NoFile == 0
NoHold == [listing |-> Unread]

ASSUME SourceAssumption ==
  /\ Roster \in [Listing -> SUBSET Member]
  /\ Data \in [Listing -> [Detail -> [Member -> Payload]]]
  /\ ListOnly \in Payload
  /\ NoRecord \notin Payload
ASSUME SentinelAssumption ==
  /\ Unread \notin Listing \union Batch
  /\ Nobody \notin Worker
ASSUME MethodAssumption ==
  /\ Methods \subseteq {"FILE", "CRAWLER", "SAVED_HTML"}
  /\ MinRecords \in Nat
  /\ "FILE" \in Methods => \A l \in Listing : \A d, e \in Detail : Data[l][d] = Data[l][e]

VARIABLES
  source,   \* what the publisher shows now, and how the list is configured to get it
  files,    \* raw.watchlist_file in id order, with its payloads and its log
  core,     \* core.watchlist_member: the versions of each member, in order
  hold,     \* the holding file of the list, or NoHold
  worker,   \* the local state of each child process
  lock      \* the worker whose parent holds the advisory lock, or Nobody

vars == <<source, files, core, hold, worker, lock>>

(***************************************************************************)
(* Reading the tables                                                      *)
(***************************************************************************)
Normalized(f) == <<"NORMALIZATION", "SUCCESS">> \in files[f].log

\* The member's current row is neither absent nor a DELETED tombstone.
Active(m) == core[m] # <<>> /\ core[m][Len(core[m])].type # "DELETED"

\* What a reader of the current rows sees.
View == [m \in Member |->
           IF Active(m) THEN core[m][Len(core[m])].payload ELSE NoRecord]

\* EXISTS (SELECT 1 FROM raw.unparsed_watchlist_payload ...)
HasRaw(f) == \E i \in 1..Len(files[f].raw) :
               \E m \in Member : files[f].raw[i][m] # NoRecord

\* Mutants: a file with the same bytes is always processed again; one that
\* failed is taken for completed.
CheckDuplicateReprocesses(h) ==
  IF files = <<>> THEN "FIRST_DOWNLOAD"
  ELSE IF files[Len(files)].hash # h THEN "NEW_VERSION" ELSE "RESUME_PROCESSING"

CheckDuplicateIgnoresLog(h) ==
  IF files = <<>> THEN "FIRST_DOWNLOAD"
  ELSE IF files[Len(files)].hash # h THEN "NEW_VERSION" ELSE "DUPLICATE_COMPLETED"

\* find_latest_file and check_duplicate: the newest row of the list decides.
CheckDuplicate(h) ==
  IF files = <<>> THEN "FIRST_DOWNLOAD"
  ELSE LET f == Len(files) IN
       IF files[f].hash # h THEN "NEW_VERSION"
       ELSE IF Normalized(f) THEN "DUPLICATE_COMPLETED"
       ELSE IF HasRaw(f) THEN "RESUME_NORMALIZATION"
       ELSE "RESUME_PROCESSING"

(***************************************************************************)
(* Writing them                                                            *)
(***************************************************************************)
\* Of the processing log, only the entries some query reads are kept.
AddLog(f, step, status) == [files EXCEPT ![f].log = @ \union {<<step, status>>}]

\* mark_watchlist_file_as_failed.
Failed(f) == [files EXCEPT ![f].status = "FAILED"]

Row(p, t, f) == [payload |-> p, type |-> t, file |-> f]

\* One batch of raw records against the versions c: skip, NEW or UPDATED.
Upsert(c, batch, f) ==
  [m \in Member |->
     LET last == c[m][Len(c[m])] IN
     IF batch[m] = NoRecord THEN c[m]
     ELSE IF c[m] = <<>> THEN <<Row(batch[m], "NEW", f)>>
     ELSE IF last.type # "DELETED" /\ last.payload = batch[m] THEN c[m]
     ELSE Append(c[m], Row(batch[m], "UPDATED", f))]

\* find_deleted_current_members + insert_deleted_member.
Tombstone(c, raw, f) ==
  [m \in Member |->
     LET last == c[m][Len(c[m])] IN
     IF /\ c[m] # <<>>
        /\ last.type # "DELETED"
        /\ \A i \in 1..Len(raw) : raw[i][m] = NoRecord
     THEN Append(c[m], Row(last.payload, "DELETED", f))
     ELSE c[m]]

\* Mutant: the deletes are left out.
MergeWithoutDeletes(c, raw, f) == Upsert(c, raw[1], f)

\* The transaction of process_watchlist_file: raw rows in id order (they were
\* inserted by one attempt, or by an orphan and its successor), then deletes.
Merge(c, raw, f) ==
  LET once == Upsert(c, raw[1], f) IN
  Tombstone(IF Len(raw) = 1 THEN once ELSE Upsert(once, raw[2], f), raw, f)

(***************************************************************************)
(* Extraction of the pages "asked" for: a crawl may miss pages for a       *)
(* temporary reason, and keeps the list data only of pages broken on the   *)
(* source; a parsed file misses and breaks none.                           *)
(***************************************************************************)
Crawled(l, d, asked, missing, broken) ==
  [m \in Member |->
     IF m \notin asked \ missing THEN NoRecord
     ELSE IF m \in broken THEN ListOnly
     ELSE Data[l][d][m]]

\* The members a batch has a record of.
Named(batch) == {m \in Member : batch[m] # NoRecord}

RecordCount(batch) == Cardinality(Named(batch))

(***************************************************************************)
(* Worker plumbing                                                         *)
(***************************************************************************)
\* Bound: two attempts at most insert the payloads of one file.
MaxBatches == 2

Idle == [pc |-> "idle", held |-> NoHold, retry |-> FALSE, listing |-> Unread,
         recs |-> Unread, dup |-> "none", file |-> NoFile, version |-> 0]

Goto(w, pc) == worker' = [worker EXCEPT ![w].pc = pc]

\* The attempt is over: the child exits, and its parent may start another.
Finish(w) ==
  /\ worker' = [worker EXCEPT ![w] = Idle]
  /\ lock' = IF lock = w THEN Nobody ELSE lock

(***************************************************************************)
(* The publisher                                                           *)
(***************************************************************************)
Publish(l, d) ==
  /\ <<source.listing, source.detail>> # <<l, d>>
  /\ source' = [source EXCEPT !.listing = l, !.detail = d]
  /\ UNCHANGED <<files, core, hold, worker, lock>>

(***************************************************************************)
(* Acquisition: acquire_source                                             *)
(***************************************************************************)
Start(w) ==
  /\ lock = Nobody
  /\ worker[w].pc = "idle"
  /\ lock' = w
  /\ Goto(w, "acquire")
  /\ UNCHANGED <<source, files, core, hold>>

\* A retry of the held list loads the holding file; with nothing held it
\* returns None and does nothing.
StartRetry(w) ==
  /\ lock = Nobody
  /\ worker[w].pc = "idle"
  /\ hold # NoHold
  /\ lock' = w
  /\ worker' = [worker EXCEPT ![w].pc = "fetch_missing", ![w].held = hold]
  /\ UNCHANGED <<source, files, core, hold>>

\* The source file is downloaded (or rendered) and not extracted yet.
AcquireFile(w) ==
  /\ worker[w].pc = "acquire"
  /\ source.method # "CRAWLER"
  /\ worker' = [worker EXCEPT ![w].pc = "acquired",
                              ![w].listing = source.listing]
  /\ UNCHANGED <<source, files, core, hold, lock>>

\* crawl(): a complete crawl deletes an older hold and goes on with its records.
AcquireCrawl(w, broken) ==
  /\ worker[w].pc = "acquire"
  /\ source.method = "CRAWLER"
  /\ broken \subseteq Roster[source.listing]
  /\ worker' = [worker EXCEPT
       ![w].pc = "acquired",
       ![w].listing = source.listing,
       ![w].recs = Crawled(source.listing, source.detail,
                           Roster[source.listing], {}, broken)]
  /\ hold' = NoHold
  /\ UNCHANGED <<source, files, core, lock>>

\* hold_incomplete_crawl on missing pages: save the state, raise CrawlOnHold.
HoldCrawl(w, missing, broken) ==
  LET l == source.listing IN
  /\ worker[w].pc = "acquire"
  /\ source.method = "CRAWLER"
  /\ missing # {} /\ missing \subseteq Roster[l]
  /\ broken \subseteq Roster[l] \ missing
  /\ hold' = [listing |-> l, missing |-> missing,
              recs |-> Crawled(l, source.detail, Roster[l], missing, broken)]
  /\ Finish(w)
  /\ UNCHANGED <<source, files, core>>

\* Mutants: the pages fetched are not written back; the records are released
\* although pages are still missing.
FetchMissingDropsFetched(w, missing, broken) ==
  LET held == worker[w].held IN
  /\ worker[w].pc = "fetch_missing"
  /\ missing \subseteq held.missing /\ missing # {}
  /\ broken \subseteq held.missing \ missing
  /\ hold' = [held EXCEPT !.missing = missing]
  /\ Finish(w)
  /\ UNCHANGED <<source, files, core>>

FetchMissingReleases(w, missing, broken) ==
  LET held == worker[w].held IN
  /\ worker[w].pc = "fetch_missing"
  /\ missing \subseteq held.missing /\ broken = {}
  /\ worker' = [worker EXCEPT ![w].pc = "acquired", ![w].retry = TRUE,
                              ![w].held = NoHold,
                              ![w].listing = held.listing, ![w].recs = held.recs]
  /\ UNCHANGED <<source, files, core, hold, lock>>

\* retry_held_crawl: only the missing pages are asked for, and the state that
\* was loaded is written back.
FetchMissing(w, missing, broken) ==
  LET held == worker[w].held
      fetched == Crawled(held.listing, source.detail, held.missing, missing, broken)
      recs == [m \in Member |->
                 IF fetched[m] # NoRecord THEN fetched[m] ELSE held.recs[m]]
  IN
  /\ worker[w].pc = "fetch_missing"
  /\ missing \subseteq held.missing
  /\ broken \subseteq held.missing \ missing
  /\ IF missing # {}
     THEN /\ hold' = [held EXCEPT !.missing = missing, !.recs = recs]
          /\ Finish(w)
     ELSE /\ worker' = [worker EXCEPT ![w].pc = "acquired", ![w].retry = TRUE,
                                      ![w].held = NoHold,
                                      ![w].listing = held.listing,
                                      ![w].recs = recs]
          /\ UNCHANGED <<hold, lock>>
  /\ UNCHANGED <<source, files, core>>

(***************************************************************************)
(* Registration: check_duplicate, determine_file_version, store, insert    *)
(***************************************************************************)
Check(w) ==
  LET dup == CheckDuplicate(worker[w].listing) IN
  /\ worker[w].pc = "acquired"
  /\ worker' = [worker EXCEPT
       ![w].dup = dup,
       ![w].file = IF dup \in {"FIRST_DOWNLOAD", "NEW_VERSION"}
                   THEN NoFile ELSE Len(files),
       ![w].pc = CASE dup = "DUPLICATE_COMPLETED" -> "skip"
                   [] dup = "RESUME_NORMALIZATION" -> "attach"
                   [] dup = "RESUME_PROCESSING" -> "extract"
                   [] OTHER -> "version"]
  /\ UNCHANGED <<source, files, core, hold, lock>>

\* DUPLICATE_COMPLETED: one DOWNLOAD/SKIPPED log row and the run is over.
Skip(w) ==
  /\ worker[w].pc = "skip"
  /\ files' = AddLog(worker[w].file, "DOWNLOAD", "SKIPPED")
  /\ IF worker[w].retry
     THEN Goto(w, "release") /\ UNCHANGED lock
     ELSE Finish(w)
  /\ UNCHANGED <<source, core, hold>>

\* A continuous list counts its files; the number is read before the insert.
DetermineVersion(w) ==
  /\ worker[w].pc = "version"
  /\ worker' = [worker EXCEPT
       ![w].pc = "register",
       ![w].version = IF worker[w].dup = "FIRST_DOWNLOAD" THEN 1
                      ELSE files[Len(files)].version + 1]
  /\ UNCHANGED <<source, files, core, hold, lock>>

\* insert_watchlist_file; file_hash is UNIQUE in raw.watchlist_file.
Registrable(w) == \A f \in 1..Len(files) : files[f].hash # worker[w].listing

Register(w) ==
  /\ worker[w].pc = "register"
  /\ Registrable(w)
  /\ files' = Append(files, [hash |-> worker[w].listing,
                             version |-> worker[w].version,
                             status |-> "DOWNLOADED", raw |-> <<>>,
                             log |-> {}])
  /\ worker' = [worker EXCEPT ![w].pc = "extract", ![w].file = Len(files) + 1]
  /\ UNCHANGED <<source, core, hold, lock>>

\* The unique constraint rejects the row: the attempt fails, nothing is logged.
RegisterRejected(w) ==
  /\ worker[w].pc = "register"
  /\ ~Registrable(w)
  /\ Finish(w)
  /\ UNCHANGED <<source, files, core, hold>>

(***************************************************************************)
(* Raw: process_watchlist_source                                           *)
(***************************************************************************)

\* The records the raw step works on: those of the acquisition, or those of
\* the SAVED_HTML crawl or of the parser that run here.
Extracted(w, broken) ==
  IF worker[w].recs # Unread THEN worker[w].recs
  ELSE Crawled(worker[w].listing, source.detail,
               Roster[worker[w].listing], {}, broken)

CrawlsHere(w) == source.method = "SAVED_HTML" /\ worker[w].recs = Unread

\* SAVED_HTML lists crawl after the file row exists, and may be held here.
HoldSavedHtml(w, missing, broken) ==
  LET l == worker[w].listing IN
  /\ worker[w].pc = "extract"
  /\ CrawlsHere(w)
  /\ missing # {} /\ missing \subseteq Roster[l]
  /\ broken \subseteq Roster[l] \ missing
  /\ hold' = [listing |-> l, missing |-> missing,
              recs |-> Crawled(l, source.detail, Roster[l], missing, broken)]
  /\ Finish(w)
  /\ UNCHANGED <<source, files, core>>

\* Mutants: the records are not handed on; an extraction without any record
\* passes.
ExtractForgets(w, broken) ==
  /\ worker[w].pc = "extract"
  /\ broken = {}
  /\ hold' = IF CrawlsHere(w) THEN NoHold ELSE hold
  /\ Goto(w, "raw")
  /\ UNCHANGED <<source, files, core, lock>>

ExtractEmpty(w, broken) ==
  /\ worker[w].pc = "extract"
  /\ broken \subseteq (IF CrawlsHere(w) THEN Roster[worker[w].listing] ELSE {})
  /\ hold' = IF CrawlsHere(w) THEN NoHold ELSE hold
  /\ RecordCount(Extracted(w, broken)) >= MinRecords
  /\ worker' = [worker EXCEPT ![w].pc = "raw", ![w].recs = Extracted(w, broken)]
  /\ UNCHANGED <<source, files, core, lock>>

\* Enough records: process_records goes on to the insert.
Extract(w, broken) ==
  LET recs == Extracted(w, broken) IN
  /\ worker[w].pc = "extract"
  /\ broken \subseteq (IF CrawlsHere(w) THEN Roster[worker[w].listing] ELSE {})
  /\ hold' = IF CrawlsHere(w) THEN NoHold ELSE hold
  /\ RecordCount(recs) >= MinRecords
  /\ RecordCount(recs) > 0
  /\ worker' = [worker EXCEPT ![w].pc = "raw", ![w].recs = recs]
  /\ UNCHANGED <<source, files, core, lock>>

\* Fewer than minimum_record_count: raised outside the try, nothing is marked.
TooFewRecords(w, broken) ==
  /\ worker[w].pc = "extract"
  /\ broken \subseteq (IF CrawlsHere(w) THEN Roster[worker[w].listing] ELSE {})
  /\ hold' = IF CrawlsHere(w) THEN NoHold ELSE hold
  /\ RecordCount(Extracted(w, broken)) < MinRecords
  /\ Finish(w)
  /\ UNCHANGED <<source, files, core>>

\* process_records fails while parsing: no record at all, or a bad rule.
ParseFails(w, broken) ==
  /\ worker[w].pc = "extract"
  /\ broken \subseteq (IF CrawlsHere(w) THEN Roster[worker[w].listing] ELSE {})
  /\ RecordCount(Extracted(w, broken)) >= MinRecords
  /\ hold' = IF CrawlsHere(w) THEN NoHold ELSE hold
  /\ files' = Failed(worker[w].file)
  /\ Finish(w)
  /\ UNCHANGED <<source, core>>

\* Mutant: the file counts as normalized once its payloads are stored.
InsertRawCompletes(w) ==
  LET f == worker[w].file IN
  /\ worker[w].pc = "raw"
  /\ Len(files[f].raw) < MaxBatches
  /\ files' = [files EXCEPT ![f].raw = Append(@, worker[w].recs),
                            ![f].status = "PARSED",
                            ![f].log = @ \union {<<"NORMALIZATION", "SUCCESS">>}]
  /\ Goto(w, "attach")
  /\ UNCHANGED <<source, core, hold, lock>>

\* insert_raw_payloads: the rows, status PARSED and the log in one transaction.
InsertRaw(w) ==
  LET f == worker[w].file IN
  /\ worker[w].pc = "raw"
  /\ Len(files[f].raw) < MaxBatches
  /\ files' = [files EXCEPT ![f].raw = Append(@, worker[w].recs),
                            ![f].status = "PARSED"]
  /\ Goto(w, "attach")
  /\ UNCHANGED <<source, core, hold, lock>>

RawFails(w) ==
  /\ worker[w].pc = "raw"
  /\ files' = Failed(worker[w].file)
  /\ Finish(w)
  /\ UNCHANGED <<source, core, hold>>

(***************************************************************************)
(* Attachments: one transaction between Raw and Core                       *)
(***************************************************************************)
Attach(w) ==
  /\ worker[w].pc = "attach"
  /\ Goto(w, "core")
  /\ UNCHANGED <<source, files, core, hold, lock>>

AttachFails(w) ==
  /\ worker[w].pc = "attach"
  /\ files' = Failed(worker[w].file)
  /\ Finish(w)
  /\ UNCHANGED <<source, core, hold>>

(***************************************************************************)
(* Core: process_watchlist_file                                            *)
(***************************************************************************)

\* All members and the NORMALIZATION/SUCCESS log commit together.
CommitCore(w) ==
  LET f == worker[w].file IN
  /\ worker[w].pc = "core"
  /\ HasRaw(f)
  /\ core' = Merge(core, files[f].raw, f)
  /\ files' = AddLog(f, "NORMALIZATION", "SUCCESS")
  /\ IF worker[w].retry
     THEN Goto(w, "release") /\ UNCHANGED lock
     ELSE Finish(w)
  /\ UNCHANGED <<source, hold>>

CoreFails(w) ==
  /\ worker[w].pc = "core"
  /\ files' = Failed(worker[w].file)
  /\ Finish(w)
  /\ UNCHANGED <<source, core, hold>>

\* release_held_crawl, after the pipeline of a retry returned.
ReleaseHold(w) ==
  /\ worker[w].pc = "release"
  /\ hold' = NoHold
  /\ Finish(w)
  /\ UNCHANGED <<source, files, core>>

(***************************************************************************)
(* Failure: the child dies, or the error path itself cannot reach the      *)
(* database; whatever was committed stays.                                 *)
(***************************************************************************)
Crash(w) ==
  /\ worker[w].pc # "idle"
  /\ Finish(w)
  /\ UNCHANGED <<source, files, core, hold>>

\* The parent dies: its session and the lock are gone, the child runs on.
ParentDies ==
  /\ lock # Nobody
  /\ lock' = Nobody
  /\ UNCHANGED <<source, files, core, hold, worker>>

(***************************************************************************)
(* Specification                                                           *)
(***************************************************************************)
Init ==
  /\ source \in [listing : Listing, detail : Detail, method : Methods]
  /\ files = <<>>
  /\ core = [m \in Member |-> <<>>]
  /\ hold = NoHold
  /\ worker = [w \in Worker |-> Idle]
  /\ lock = Nobody

Acquisition(w) ==
  \/ AcquireFile(w)
  \/ \E broken \in SUBSET Member : AcquireCrawl(w, broken)
  \/ \E missing, broken \in SUBSET Member :
       HoldCrawl(w, missing, broken) \/ FetchMissing(w, missing, broken)

Registration(w) ==
  Check(w) \/ Skip(w) \/ DetermineVersion(w) \/ Register(w) \/ RegisterRejected(w)

RawStep(w) ==
  \/ \E missing, broken \in SUBSET Member : HoldSavedHtml(w, missing, broken)
  \/ \E broken \in SUBSET Member :
       Extract(w, broken) \/ TooFewRecords(w, broken) \/ ParseFails(w, broken)
  \/ InsertRaw(w) \/ RawFails(w)

CoreStep(w) ==
  \/ Attach(w) \/ AttachFails(w)
  \/ CommitCore(w) \/ CoreFails(w)
  \/ ReleaseHold(w)

WorkerStep(w) ==
  Start(w) \/ StartRetry(w) \/ Acquisition(w) \/ Registration(w)
    \/ RawStep(w) \/ CoreStep(w) \/ Crash(w)

Next ==
  \/ \E l \in Listing, d \in Detail : Publish(l, d)
  \/ \E w \in Worker : WorkerStep(w)

Spec == Init /\ [][Next]_vars

OrphanSpec == Init /\ [][Next \/ ParentDies]_vars

\* The job runs again and again, a running child goes on, and in the pass that
\* reads the source no step fails every time it is tried. Nothing is assumed of
\* the retries of a holding file.
InMainPass(w) == ~worker[w].retry

Fairness ==
  \A w \in Worker :
    /\ WF_vars(WorkerStep(w))
    /\ SF_vars(Start(w))
    /\ SF_vars(AcquireFile(w) \/ \E broken \in SUBSET Member : AcquireCrawl(w, broken))
    /\ SF_vars(InMainPass(w) /\ Check(w))
    /\ SF_vars(InMainPass(w) /\ DetermineVersion(w))
    /\ SF_vars(InMainPass(w) /\ Register(w))
    /\ SF_vars(InMainPass(w) /\ \E broken \in SUBSET Member : Extract(w, broken))
    /\ SF_vars(InMainPass(w) /\ InsertRaw(w)) /\ SF_vars(InMainPass(w) /\ Attach(w))
    /\ SF_vars(InMainPass(w) /\ CommitCore(w))

FairSpec == Spec /\ Fairness

(***************************************************************************)
(* Properties                                                              *)
(***************************************************************************)
Held == [listing : Listing, missing : SUBSET Member, recs : Batch]
WorkerState ==
  [held : Held \union {NoHold},
   pc : {"idle", "acquire", "fetch_missing", "acquired", "skip", "version",
         "register", "extract", "raw", "attach", "core", "release"},
   retry : BOOLEAN, listing : Listing \union {Unread},
   recs : Batch \union {Unread},
   dup : {"none", "FIRST_DOWNLOAD", "NEW_VERSION", "DUPLICATE_COMPLETED",
          "RESUME_NORMALIZATION", "RESUME_PROCESSING"},
   file : Nat, version : Nat]

FileRow ==
  [hash : Listing, version : Nat, status : {"DOWNLOADED", "PARSED", "FAILED"},
   raw : Seq(Batch),
   log : SUBSET {<<"NORMALIZATION", "SUCCESS">>, <<"DOWNLOAD", "SKIPPED">>}]
MemberRow == [payload : Payload, type : {"NEW", "UPDATED", "DELETED"}, file : Nat]

\* Type correctness of the tables, the holding file and the child processes.
TypeOK ==
  /\ source \in [listing : Listing, detail : Detail, method : Methods]
  /\ files \in Seq(FileRow)
  /\ core \in [Member -> Seq(MemberRow)]
  /\ hold \in Held \union {NoHold}
  /\ worker \in [Worker -> WorkerState]
  /\ lock \in Worker \union {Nobody}

\* Whatever attempts died on the way, the current members of the list are
\* exactly the raw records of the newest file whose NORMALIZATION/SUCCESS log
\* was written, and no members exist before the first one.
CoreMirrorsNewestNormalized ==
  \A n \in 0..Len(files) :
    (\A k \in n+1..Len(files) : ~Normalized(k)) /\ (n = 0 \/ Normalized(n))
      => View = IF n = 0 THEN [m \in Member |-> NoRecord] ELSE files[n].raw[1]

\* A member becomes a DELETED tombstone only because a listing that was really
\* published did not name it, never because a page could not be read.
TombstoneJustified ==
  \A m \in Member : \A i \in 1..Len(core[m]) :
    core[m][i].type = "DELETED" => m \notin Roster[files[core[m][i].file].hash]

\* The payloads of a file are written once and are one record per entity of
\* its listing, however often the file was resumed.
RawIsWholeListing ==
  \A f \in 1..Len(files) :
    /\ Len(files[f].raw) <= 1
    /\ \A i \in 1..Len(files[f].raw) : Named(files[f].raw[i]) = Roster[files[f].hash]

\* File versions of a continuous list are 1, 2, 3, ... in registration order.
VersionsInOrder == \A f \in 1..Len(files) : files[f].version = f

\* The holding file always owes exactly the pages of its listing that it has
\* no record for, so a release gives the whole list.
HoldIsConsistent ==
  hold # NoHold =>
    /\ hold.missing # {} /\ hold.missing \subseteq Roster[hold.listing]
    /\ Named(hold.recs) = Roster[hold.listing] \ hold.missing

\* A file that reached NORMALIZATION/SUCCESS never re-enters the pipeline: it
\* gets no raw rows, and no member version is written on its behalf.
CompletedFilesAreFinal ==
  [][\A f \in 1..Len(files) : Normalized(f) =>
       /\ files'[f].raw = files[f].raw
       /\ \A m \in Member : Len(core'[m]) > Len(core[m]) =>
            core'[m][Len(core'[m])].file # f]_vars

\* Every insert of payloads has some.
NoEmptyBatch ==
  \A f \in 1..Len(files) : \A i \in 1..Len(files[f].raw) : Named(files[f].raw[i]) # {}

\* An extraction without records fails instead of tombstoning every member:
\* no file is marked PARSED over an insert of no payloads, and no single commit
\* empties a list. (Core refuses a file without payloads once more; it is in
\* the first part that the guard of the extraction shows.)
NeverEmptied ==
  [][/\ NoEmptyBatch'
     /\ (\E m \in Member : Active(m)) => (\E m \in Member : Active(m)')]_vars

\* The listing cannot be registered again: some older file has its hash, so a
\* publisher that goes back to earlier bytes is rejected by the unique index.
WentBack(l) ==
  /\ \E f \in 1..Len(files) : files[f].hash = l
  /\ files[Len(files)].hash # l

\* When the publisher settles on a listing that can be ingested, the current
\* members become its members, whatever failed before and however often.
Converges ==
  \A l \in Listing :
    Cardinality(Roster[l]) >= MinRecords /\ Roster[l] # {} =>
      (<>[](source.listing = l) =>
         <>[](WentBack(l) \/ {m \in Member : Active(m)} = Roster[l]))

\* Documented: a different hash is a NEW_VERSION of the list, so the run that
\* found one can register it.
NewVersionIsRegistrable ==
  \A w \in Worker :
    worker[w].pc = "register" /\ worker[w].dup = "NEW_VERSION" => Registrable(w)

(***************************************************************************)
(* What it promises: the pipeline implements ListMirror                    *)
(***************************************************************************)
\* The newest file whose NORMALIZATION/SUCCESS log was written, or 0.
NewestNormalized ==
  CHOOSE n \in 0..Len(files) :
    /\ n = 0 \/ Normalized(n)
    /\ \A k \in n+1..Len(files) : ~Normalized(k)

Mirror == INSTANCE ListMirror WITH
  registered <- [f \in 1..Len(files) |-> files[f].hash],
  shown <- NewestNormalized,
  view <- {m \in Member : Active(m)}

\* The current members are always the roster of one registered listing; they
\* change in one step, forward, to the newest one, crashes and resumes or not.
ImplementsListMirror == Mirror!Spec

(***************************************************************************)
(* The inductive invariant behind them, for the jobs that hold the lock    *)
(***************************************************************************)
\* Only the worker whose parent holds the lock is running.
LockInv ==
  \A w \in Worker :
    /\ lock = w <=> worker[w].pc # "idle"
    /\ worker[w].pc = "idle" => worker[w] = Idle

\* What an attempt may rely on in each of its steps: it works on the newest
\* file, whose bytes are those it acquired, and knows what is done of it.
AttemptOK(s) ==
  LET n == Len(files) IN
  /\ s.pc \in {"acquire", "fetch_missing"} => s.recs = Unread
  /\ s.pc = "fetch_missing" => hold # NoHold /\ s.held = hold
  /\ s.pc \notin {"idle", "acquire", "fetch_missing"} => s.listing \in Listing
  /\ s.recs # Unread => s.listing \in Listing /\ Named(s.recs) = Roster[s.listing]
  /\ s.pc = "version" => (s.dup = "FIRST_DOWNLOAD" <=> n = 0)
  /\ s.pc = "register" => s.version = n + 1
  /\ s.pc \in {"skip", "extract", "raw", "attach", "core"} =>
       n > 0 /\ s.file = n /\ files[n].hash = s.listing
  /\ s.pc \in {"extract", "raw"} => files[n].raw = <<>> /\ ~Normalized(n)
  /\ s.pc = "raw" => s.recs # Unread /\ Named(s.recs) # {}
  /\ s.pc \in {"attach", "core"} => files[n].raw # <<>> /\ ~Normalized(n)

AttemptInv == \A w \in Worker : AttemptOK(worker[w])

\* Payloads are never empty, and a normalized file has them.
FileInv ==
  \A f \in 1..Len(files) :
    /\ \A i \in 1..Len(files[f].raw) : Named(files[f].raw[i]) # {}
    /\ Normalized(f) => files[f].raw # <<>>

\* Every member version names the registered file it was made from.
CoreInv == \A m \in Member : \A i \in 1..Len(core[m]) : core[m][i].file \in 1..Len(files)

\* The inductive invariant.
IInv ==
  /\ TypeOK /\ LockInv /\ AttemptInv /\ FileInv /\ CoreInv
  /\ RawIsWholeListing /\ VersionsInOrder /\ HoldIsConsistent
  /\ TombstoneJustified /\ CoreMirrorsNewestNormalized

(***************************************************************************)
(* The inductive invariant of jobs whose parent, and lock, may be gone     *)
(***************************************************************************)
\* What is left to an attempt that others may overtake: the file it found or
\* registered, the bytes it acquired, and records to insert.
UnlockedOK(s) ==
  /\ s.pc = "fetch_missing" => s.held # NoHold
  /\ s.pc \notin {"idle", "acquire", "fetch_missing"} => s.listing \in Listing
  /\ s.pc = "version" /\ s.dup # "FIRST_DOWNLOAD" => files # <<>>
  /\ s.pc \in {"skip", "extract", "raw", "attach", "core"} => s.file \in 1..Len(files)
  /\ s.pc = "raw" => s.recs # Unread /\ Named(s.recs) # {}

\* An orphan and its successor may both insert payloads, but never empty ones.
UnlockedInv ==
  /\ TypeOK
  /\ \A w \in Worker : UnlockedOK(worker[w])
  /\ \A f \in 1..Len(files) :
       /\ Len(files[f].raw) <= MaxBatches
       /\ \A i \in 1..Len(files[f].raw) : Named(files[f].raw[i]) # {}

=============================================================================
