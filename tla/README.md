# Verification of the screening data pipelines

TLA+ models of this repository's acquisition, ingestion, delivery, search, risk
and adverse media jobs, the TLC runs that check small instances of them, and
TLAPS proofs that what most of these jobs promise holds for every instance. Paths
below are relative to the repository's sources (`src/` in `PROJECT.json`).

## The system

The repository feeds a screening service with watchlists (sanctions, PEP, law
enforcement) and adverse media. Everything is batch: jobs started by a scheduler
or an operator read sources, write PostgreSQL, and leave files under
`data/state` for what the next run has to know.

```
 schedule --> job runner (one advisory lock per kind of job)
                 |  per source
                 v
 publisher --> acquire: crawl | API | browser | download
                 |  (saved pages, holds of incomplete crawls)
                 v
              raw.watchlist_file --> raw payloads --> Core members (versions)
              (duplicate check)                          |
               +------------------------+----------------+-----------+
               |                        |                            |
          delta actions            risk category job          search index sync
               |                   (queue, frontier)          (batches, alias)
          spoke tables --> search view

 media source --> discovery --> detail files --> raw.media_file --> Core articles
                     ^                                                   |
                     +---------------- to-do list <----- failures -------+
```

| Component | State it keeps | Operations | What is hard |
| --- | --- | --- | --- |
| Job runner and schedule (`services/job`, `watchlistScheduleService`, `jobs/*`) | an advisory lock, a summary; the file log tells the last check | decide, attempt, retry leftovers, summarise | what a dead job leaves, counting, calendars |
| Crawler (`ingestion/crawler`) | pages of the day on disk | listing, detail pages, retry of owed pages | temporary against permanent failure; a listing that was cut short |
| API collector (`ingestion/apiCollector`) | overview and profiles on disk | probe, split by facets, page, count, profiles | a cap on every query; a list that moves while it is read |
| Browser collector (`ingestion/bypassCollector`) | artifacts on disk | configured actions, save | pages that change under it; files that appear one by one |
| Downloader (`ingestion/downloader`) | one file | resolve, attempts | attempts that write to the same name |
| Watchlist ingestion (`pipelines/watchlistPipeline.py`, `services/watchlistPipeline`) | `raw.watchlist_file`, payloads, log; holding files | duplicate check, register, raw, attachments, Core, hold, retry, release | a transaction per step and a crash between any two; partial crawls |
| Core members (`watchlistCoreService`, `coreMemberRepository`) | versions of each member, one current | skip, NEW, UPDATED, DELETED | row locks, READ COMMITTED, unique index |
| Delivery (`services/watchlistDelivery`) | delta actions, spoke tables, run log, search view | daily run, backfill, rebuild, sync of a date | watermarks, failures between statements, overlapping runs |
| Search sync (`services/searchSync`, `search`) | an Elasticsearch index and its alias | scan, batches, removals, alias | reads while Core commits |
| Risk job (`services/risk/processing.py`) | assessments; a state file with queue and frontier | INITIAL, INCREMENTAL, retry, replay | two stores that cannot be written together |
| Adverse media (`pipelines/mediaPipeline.py`, `services/adverseMediaPipeline`) | to-do list, detail files, raw and Core articles | INITIAL, INCREMENTAL, RETRY, reprocess | what a run may forget; old work after new |
| Parsers, transforms, configuration tables | none | bytes to records | conversions only |

`PROJECT.json` lists every component with its status and every hazard at its line.

## Modules

| Module | Models | Checked by | Proved in |
| --- | --- | --- | --- |
| `ListMirror` | what the ingestion of a list promises its readers | refined by `WatchlistIngest` | `WatchlistIngest_proofs` |
| `WatchlistIngest` | one list through the pipeline | `MCWatchlistIngest` | `WatchlistIngest_proofs` |
| `AtomicCrawl` | what ingestion relies on when it calls a crawl | refined by `Crawl` | `Acquisition_proofs` |
| `Crawl` | a crawl, page by page | `MCAcquisition` | `Acquisition_proofs` |
| `FanOut` | the planner of capped API queries, pure definitions | through `ApiCollect` | `Acquisition_proofs` |
| `ApiCollect` | a collection from a JSON API, request by request | `MCAcquisition` | `Acquisition_proofs` |
| `Bypass` | a collection with a browser, action by action | `MCAcquisition` | `Acquisition_proofs` |
| `Download` | a download, piece by piece | `MCAcquisition` | `Acquisition_proofs` |
| `Acquisition` | the choice of method by the list's configuration | `MCAcquisition` | `Acquisition_proofs` |
| `Schedule` | when a list is due | `MCJobs` | `Jobs_proofs` |
| `JobRunner` | the job that takes the due sources | `MCJobs` | `Jobs_proofs` |
| `CoreSync` | the Core transaction statement by statement | `MCCoreSearch` | `CoreSearch_proofs` |
| `SearchSync` | the search synchronization request by request | `MCCoreSearch` | `CoreSearch_proofs` |
| `Delivery` | deltas, spokes, run log, search view | `MCDelivery` | `Delivery_proofs` |
| `RiskProcessing` | the risk job and its state file | `MCRiskProcessing` | `RiskProcessing_proofs` |
| `MediaDiscovery` | which articles a run looks at, pure definitions | through `MediaPipeline` | `MediaPipeline_proofs` |
| `MediaPipeline` | the runs over one media dataset | `MCMediaPipeline` | `MediaPipeline_proofs` |
| `Induction_proofs` | lemmas on sets of naturals that the proofs share | | itself |

Definitions marked as mutants in the modules are plausible bugs of the definition
that follows. No specification uses them; each property is shown to notice one.

Where one `MC` module holds several specifications, a variable that never changes
(`part`, `method`) says which of them runs, and the variables of the others stay
as they began. The parts share no state and are explored side by side, not
interleaved.

### WatchlistIngest

One list. `source` is what the publisher shows, with the list's configured
`download_method`, which no step changes; `files` is `raw.watchlist_file` in id
order, each with its payload batches and the log entries that some query reads;
`core` holds the versions of each member; `hold` is the holding file;
`worker[w]` is the local state of a child process, and `pc` is the point between
two transactions where it stands. Each action is one transaction (or one write
of the holding file) with everything the code does in it: `CommitCore` is the
whole of `process_watchlist_file`, its upserts, its deletes and the log entry
that makes the file complete.

Records are abstracted to their hash; a listing is the bytes of the publisher's
page and names a set of members (`Roster`), and the state of the detail pages
behind it (`Detail`) decides their records (`Data`). A crawl may miss any pages
for a temporary reason and find any others broken on the source, which are kept
with the data of the listing only. `Crash` ends an attempt anywhere; `ParentDies`
frees the lock while the child goes on (`OrphanSpec`).

`Attach` is the call of `process_attachments` as a point where the attempt may fail
the file or die, nothing of what it stores.

`MaxBatches` is the only bound: at most two attempts insert the payloads of one
file. Under `Spec` it is never reached: `RawWhole` proves one batch per file. It
only limits `OrphanSpec`.

### Crawl and AtomicCrawl

`setup` is the configuration (spider, next links or a single listing, record
mode, Scrapy or browser), `call` the running call of `crawl_source`: the listing
page to read, the detail requests under way, the records, the missing and the
broken ones. One action per callback: a listing page arrives or fails, a row
raises, a detail page arrives, is taken from disk, fails or raises. `Crawled` is
what `crawl_source` does when the spider has closed: it refuses an incomplete
listing, keeps broken pages as list-only records and works out the owed ones.
`held` is what the caller holds. `SourceChanges` may come between any two steps.

`AtomicCrawl` is the contract: a call takes place at once, answers with a subset
of what was listed at some time during the call, with all of it if the source
stood still, and a later call for owed pages never gives anything up. `lossy` marks
a source whose single page has an unreadable row: the rows behind it are silently
dropped (see Disagreements). `WatchlistIngest!Crawled` assumes the part of this
contract that holds of sources that are not `lossy`; its rosters are the listings of
`AtomicCrawl`. What the ingestion modules show of a whole listing is therefore no
statement about a lossy single listing.

### FanOut, ApiCollect

`FanOut` is the planner: it splits a query along the facets until every slice fits
under the cap, gives up when no facet is left, and asks again without the facet for
records that have no value for it. The recursion of the code is a stack: a plan under
way has a frame per facet being asked, with the queries still to ask (`ask`) and, for
the values of a disjoint one, the records not found yet (`left`). `ApiCollect` runs a
configuration: probe the count; ask for the total of one query of the plan
(`AskTotal`), leave a facet that is through (`LeaveFacet`), until the plan is complete
(`Planned`); page through every slice, drop duplicates, count an endpoint against its
probe; then fetch a profile per record or take today's file. `feed` is the source,
which changes between any two requests, two totals of one plan included; `past`
remembers what it looked like since the start, whether a slice was full, and whether
it changed while a total was still in use (`counting`).

`Promised` is what a configuration says of its facets: no record has two values of a
disjoint one, every record has one of a complete one, a record between two bounds is
in one of the halves. `ApiSetupAssumption` states it of every configuration, with
parameters that differ from facet to facet and a record key where there are several
endpoints, without which `apiCollector/collector.py` raises.

### Bypass, Download, Acquisition

`Bypass` interprets the configured `actions` in order. `disk` maps file names to
contents, with `.part` files apart from published ones, so that a kill at any
point shows what is left; `published` counts the files of a capture that are in
place. A script may fail without the action failing: only an awaited one under
`uc_open` raises (`Reports`, with `await_js` for `execute_js` with `await: true`).
`RecipesAssumption` is what holds of every `actions` list in
`pipelines/watchlistConfigs.py`: it saves exactly once, at its end, and loads
nothing anew after it prepared something in the page. `Download` has the
attempts of one download into one name, and a publisher whose catalogue changes between them. `Acquisition` is
`acquire_source`'s dispatch.

### Schedule, JobRunner

`Schedule` has the calendar (hours, days, weeks, months of different lengths),
`DueAt` for each kind of rule, and the query for the last successful check over
the file log, which also accepts an unchanged download of a file that reached
Core. `JobRunner` is `run_sources`: `job[p]` holds what process `p` still has to
do, its stage (main, retry passes), its rows and counters; `pending` is the set
of state files on disk. The adapter (watchlist or media) decides what outcomes
a pipeline has and what it leaves. `Dies` may come at any point, and the child process
of the attempt it was waiting for may go on: `orphans` are such attempts, which end
(`OrphanEnds`) at any time, beside any later job, and leave what an attempt leaves.
`stray` remembers the sources they left a state file of after the files were read for
the last retry pass. A retry whose hold an orphan took away has nothing to resume
(`FindsNoHold`).

### CoreSync

The Core transaction, for several processes at once, at the grain of SQL
statements. A statement sees the committed rows and its own changes;
`SELECT ... FOR UPDATE` is a snapshot, a wait for the row, and a second look at
the same row: when it was closed meanwhile, PostgreSQL returns neither it nor
its successor. The unique index rejects a key that is committed and waits for
one that is not. `Serial` is the sequential meaning of the transaction: its raw
rows applied one after the other (`Upserted`), then the tombstones.

### SearchSync

`member` is the current row of each member as committed, `writing` rows that have
taken their id and are not visible yet, `index` the documents. A sync scans the
ids, then reads and writes batch after batch, each batch a snapshot of its own,
then removes what no batch named and switches the alias. A bulk request writes its
documents in the order of their ids (`First`), each with an outcome of its own.
Two syncs may overlap, any request may fail, any process may die.

### Delivery

`rows` are Core versions in id order with the date of `created_at`, which is the
start of their transaction and so may be yesterday. `delta` are the actions per
date, `spoke[t][m]` is the version that member `m`'s rows in spoke table `t`
come from. The job commits after each call, so `Fail` may stop it between any
two. `OperatorSpec` has the tools an operator starts by hand (backfill, rebuild,
sync of a date) beside the job, and any number of runs may overlap; `Spec` is the
job only. `alone` is a history variable: it is true as long as no run took a step
beside another one and no tool was used. The reads of the watermarks are one
step. Ids grow with commits here; two
transactions that commit in the other order of their ids are not modelled.

### RiskProcessing

`risk` are the assessments in id order, `state` the state file, `job` the local
state of the one process that holds the lock. Each run is started with a classifier
of the caller's choice (`model`, `switches` counts the changes) and a target date of
any day. What is stored of an assessment, and compared, is what the classifier says
(`Verdict`): two classifiers may say the same of a payload. An attempt at a work item is the
database transaction; `Record` is the save of the state file after it; `Stop`
may come in between. `since` is a history variable: the first date a scan
started from. `late` marks a delta action written behind the frontier, which the
job by design does not find.

### MediaDiscovery, MediaPipeline

`MediaDiscovery` counts what `MediaDiscoveryService` counts and decides whether a
run examines the next article, per strategy and policy. `MediaPipeline` has the
four run modes. `site` is what the publisher shows, `disk` the detail files by
day, `raw` the registered files, `core` the versions of each article, `todo` the
list of failed items by their key, `run` the local state of the run. The to-do
list is read at the start and written at the end (`UpdateTodo`), and `Crash` may
come before it. `Settle` is the rule by which a record removes or replaces items.
Parsed fields are abstracted to the state of the page and the release of the
mapping rules they were made with. A `list_only` source takes its rows known or not,
which is what `full_scan` does, so it has that policy in every instance
(`SourceAssumption`). `TodoLeavesByCore` asks that the article is in Core, in any
version: the list knows articles, not versions of them.

## Runs

| Run | Instance | Question |
| --- | --- | --- |
| `ingest_owed` | CRAWLER or SAVED_HTML, 1 worker, 2 listings, 2 states of the detail pages | safety of the pipeline and the refinement of `ListMirror`, with holds and resumes |
| `ingest_orphan` | FILE, 2 workers, 3 listings (one without rows), 2 registered files, no minimum, `OrphanSpec` | what survives when the lock is lost |
| `ingest_live` | FILE, 1 worker, 3 listings (one without rows), minimum 1, `FairSpec` | the list converges |
| `ingest_goback` | FILE, 3 listings | violated: see Findings |
| `acquisition_methods` | 3 rows, 2 listings, 2 days for the crawl; 4 records, cap 2 for the API; 7 recipes for the browser; 3 editions, 3 attempts for the download | what ingestion is handed is whole |
| `jobs_nightly` | every kind of rule over 8 days; 2 sources, 2 processes, 1 kill and what its child does later | lists are due in time; each is taken up, counted once, leftovers tried again |
| `core_search` | 2 transactions, 2 members, 2 payloads, files of up to 2 rows; 2 syncs, batches of 1, 4 row ids | histories stay whole, each commit is serial; the index follows |
| `delivery_days` | the job: 1 runner, 2 members, 3 days, 3 versions; with overlaps and the operator: 2 runners, 1 member, 2 days, 2 versions | what a daily run delivers; nothing goes backwards, whatever overlaps |
| `delivery_relist`, `delivery_caughtup` | 1 member, 2 days | violated: see Findings |
| `risk_queue` | 1 subject, 2 days, 2 versions; with 1 version, 3 classifiers of which two say the same, 2 changes | no work lost, repeated or displaced; the queue drains |
| `media_runs` | 2 articles that never change, or 1 that does over 2 days, 2 releases, 3 versions; every strategy | what a run may forget, and what it may undo |

What each property says stands above it in its module; `PROJECT.json` has, for
each, the bug that it is shown to notice.

### Bounds, and why they are enough

*Ingestion.* Two members, one of which a listing drops, show every case of a
record against a member (skip, new, update, delete, back again) beside a member
that stays. Two listings give every order of two files; the third of
`ingest_live` is the extraction without records, and `ingest_orphan` has any two files
of the three (`TwoFiles`), without a minimum of records, so that only the code's own
guards keep an empty extraction out. There are two: `process_watchlist_source` refuses
it before anything is stored (the first part of `NeverEmptied` shows that one), and
Core refuses a file without payloads once more; either would keep the members. A
third version of a list repeats the second's transitions because `check_duplicate` looks at the newest
file only.

*Acquisition.* Row `r2` links to `r1`'s page, `r3` to none, pages hold one row and
three pages are the limit: a listing exceeds, meets or stays under it. Two days
and two states of a page tell a page of today from one of yesterday. The API's
facets include one whose values overlap and which a record lacks, a range, a
word, and two that are disjoint, one of them with a value per record (`ByKind`), with
a cap below the number of records, and one change during a collection, in the
middle of a plan too; a query of exactly `Cap` records occurs. The recipes
have every saving action and every preparing one; two popups, two versions of
the site and three pages with a limit of three. Three editions let an attempt
meet a newer one than its predecessor while an older is still listed.

*Jobs.* The calendar is scaled down: months of 4, 2 and 3 days, weeks of 2 days, 2
weeks a year, so that clamping at the end of a month, a month's day beyond the
next month's end, and a week number that repeats in the next year all occur.
Two file log rows suffice, since the query looks at the newest accepted one. Two
sources give a list before and behind another. One kill in any place stands for
more, as a killed process leaves only what `pending` and `due` say, and one attempt
that outlives it.

*Core and search.* Two transactions are all that row locks and the unique index
tell apart. Two members with batches of one and four ids let a member be inserted
before, in and behind the batch being read, and move behind the last id.

*Delivery.* Three days put a version before, on and after a watermark; the spoke
gate compares two versions of one member, so two suffice to go backwards.

*Risk.* A subject's risk work depends on no other subject, and on versions only
through "newest or older". Where runs change the classifier, one version is committed
in one day (`SwitchBound`): what one classifier stores beside another's results needs no
second version. The classifiers say `low`, `high`, `low` (`MCVerdict`), so that going
back to the first one and coming to another one that agrees with it both occur.

*Media.* Articles meet only in discovery, where a known one stops the run in front
of another: two suffice with a threshold of one. What happens to the versions of
an article depends on that article alone.

Symmetry is used in the safety runs over members, contents, and processes, which
no definition distinguishes; never with liveness. Deadlock is checked except
where the system stops at its bounds: in `core_search` every transaction ends and
the row ids run out, in `jobs_nightly` the calendar ends, in
`acquisition_methods` downloads and collections are used up.

### Fairness

`WatchlistIngest!FairSpec`: a running child goes on (weak fairness of a worker's
steps), the scheduler runs the job again and again, and a step that is tried
again and again *in the main pass* succeeds in the end (strong fairness per
step). `run_sources` tries a due list up to three times a night, and every step's
failure leads to a new attempt, so nothing weaker would say that ingestion may
ever succeed; the retry pass of holds gets no such promise.

`JobRunner!JobFairness`: a process that holds the lock goes on, since attempts end
by the time limits of browsers, downloads and requests; and a scheduled job is
started again and again (strong fairness, because a job by hand may hold the lock
whenever the scheduler tries).

`RiskProcessing!Fairness`: the job goes on while it runs, is started again and
again, and a work item that is tried again and again succeeds in the end;
`Drains` assumes besides that interruptions cease, since a job that is always
killed drains nothing.

## Proofs

Every theorem holds for all values of the constants under the named assumptions
of its module; `PROJECT.json` lists the theorems and the property each states.
None of the properties is inductive as it stands. Each module states the
invariant it needs beside its properties, as a conjunction of named parts; TLC
checked it on the instances of the runs before it was proved. The proofs have one
lemma per action or per part, and the theorems come last.

The assumptions are typing of the constants and of bounds, marks for "none" that are
no real value, and, where a proof needs more than that, what the code justifies: a
file's records depend on its bytes only (`SourceAssumption`), the table of members
is finite (`MemberAssumption`), the browser recipes are of the configured form
(`RecipesAssumption`, above), and API facets are what their configuration says they
are (`ApiSetupAssumption`, above). Bounds such as `MaxRows` are any natural number,
so nothing proved depends on how large they are. The datasets of `MediaPipeline` are
any with a known strategy and policy, with a page size and a threshold of at least 1
(`DiscoveryAssumption`).

### WatchlistIngest

For every number of workers, listings, members and payloads and each acquisition
method: type correctness, five safety invariants, two action properties and the
refinement `Spec => Mirror!Spec`; and one of the action properties without the lock.
Why the members mirror the newest normalized file rests on what an attempt knows at
each of its steps, and that on the lock. `IInv` adds

- `LockInv`: only the worker whose parent holds the lock is running;
- `AttemptInv`: per `pc`, what the attempt relies on: its file is the newest, has
  the bytes it acquired, has no payloads yet (`extract`, `raw`) or has them and
  is not normalized (`attach`, `core`), the version it read is still the number
  of files, the holding file it loaded is still the one on disk;
- `FileInv`, `CoreInv`: payloads are never empty, a normalized file has them, and
  each version names a registered file.

`NeverEmptied` is proved under `OrphanSpec` too, where `LockInv` fails by design: an
orphan and its successor may both insert payloads of one file. `UnlockedInv` is what
each still knows: the batches it inserts are not empty, and so no version that any
of them commits empties the list.

`TypeStep`, `LocalStep`, `HoldStep` and `TableStep` show that every action keeps
its part; most actions change no payload, log or member at all, and `NextCases`
says so once for the table part. `MergeMember` is the heart of it: what one
transaction leaves of one member's history. For the refinement, a registration
maps to `Register`, `CommitCore` to `Show`, and every other step to a stutter.
`VersionsOrdered` (each member's versions come from later and later files) is
proved and no longer checked by a run of its own, because `ListMirror` and
`CoreMirrorsNewestNormalized` already notice what would break it.

### CoreSync

`ContiguousVersions` for any number of transactions that normalize files of the list
at once, without the job lock. `CoreInv` lifts the property to what each
transaction *sees*, its own changes included (`SeenInv`). That a commit then
publishes a whole history rests on two facts: a row that a transaction closes is
locked by it alone (`LockInv`), and a member is changed by one transaction at a
time, the one that closed its current row or the one whose version 1 the unique
index let in (`ChangeInv`). `StepInv` says what a transaction may still believe of
a row it read before it waited for it. `CommitPublishesFile` adds `ShownInv`:
what was applied so far shows the last record of each member named so far.

`AloneIsSerial` has an invariant of its own, on top of `CoreInv`. `SerialInv`: as
long as no other transaction has committed, what t sees is what the raw records
behind it make of the table, a row it found is still the current one when the lock
is granted, and during the delete scan the rows still owed a tombstone are those
that separate what it sees from the end result. Others may begin, wait for its locks
and roll back: none of it is seen.

### SearchSync

`ListedIsNeverRemoved` and `SyncedIsCurrent`, for any batch size and any number of
overlapping syncs. `UnseenInv` is the argument for the first: a member that was
listed all the time and was named by no batch yet lies *ahead* of the last id
read. A member that changes meanwhile gets a greater id than any before (`IdInv`),
so it can only move further ahead. `FreshInv` is the one for the second: the
document of an unchanged member is right, waits in the batch, or is still ahead.

### Delivery

`DeliveryIInv` holds whatever overlaps, the operator's tools included: actions name
a version of their day, spoke rows come from a version of their member, what the
search view shows of a current version is in the spokes. `SpokesNeverRegress` and
`SearchKeepsCurrent` follow from it alone, since the gate of a sync compares row
ids; `DeltaIsNetEffect` from the order of a member's types (`RowsInv`).

`SpokesAgree` and `RunDelivers` are promises of a job whose runs never overlapped,
each by whichever process, and that no tool was used beside (`alone`); they are
false otherwise, and nothing but the scheduler keeps two runs apart. `JobIInv` adds
for that time that the days yet to be generated have no actions (`AheadInv`), so
that each sync writes the newest versions there are; that the rows of a spoke were
named by an action (`SourceInv`); and that the days behind the run are delivered
(`BehindInv`).

### RiskProcessing

`NoDuplicates`, `NothingLost` and `NeverDisplaced`. A process may die between the
database transaction and the save of the state file, so `RiskIInv` has to say what
the two hold together at every point: where the frontier, the open date and the
date of the running scan lie to each other (`FrontInv`), that what is owed of the
open date is done, queued or still in the batch (`DoneInv`), and that a subject has one
current assessment at most, which is the last of its newest version if that was
assessed at all (`RiskInv`), without which a repeated attempt would insert again. With
it `NoDuplicates` follows for any classifiers: `_process` compares with the current
assessment, so a result returns for a version only after another one. The part of
`NeverDisplaced` about deletions rests on the lock on the newest version: work of a
version behind a deletion is historical, and stored as archived.

### JobRunner and Schedule

`CountsAddUp` and `LeftoversAreRetried`, for any configured list of sources, any
number of processes and kills anywhere. `JobIInv`: the job that holds the lock is
the only one at work; per pass, which sources have their row, that the tallies
are the numbers of the rows, and that a state file left over after the main pass
belongs to a source that the retry pass has taken or will take, unless an attempt of
a dead job left it there since (`stray`). Nothing in the code could make that exception
go away: nobody waits for such an attempt.

`DueInTime` and `DueStaysDue`, for any calendar: months of any lengths, weeks and
hours of any size. The proofs are about the model's arithmetic: `FirstDay` is
strictly increasing, `Month` inverts it, `AddMonths` with its clamping lies in the
month it should, and `DueAt` is monotone in its last argument (lemmas, with
`Induction_proofs` for the induction over days).

### Crawl, Download, Bypass, ApiCollect, Acquisition

`Crawl` implements `AtomicCrawl`, step by step: the callbacks of a call map to
stutters, its start and its end to those of the contract, another listing of the
source to `Relist`, and a change of a detail page to a stutter. `CrawlIInv` says
that what a call has read was listed since it began (`CallInv`), that a listing with
next links that stood still was read from its front without a gap (`ReadInv`), and
that nothing held is also owed (`RecordInv`). `ListOnlyIsJustified` is in it.

`DownloadIsOneAnswer`: an attempt opens its file anew, so the file is the front of
one answer at any time (`DownloadIInv`), whatever the attempts before it left.
`PublishedIsWhole` and `HandedIsWhole`, for any recipes of the configured form: per
action, what the ones before it prepared is in the page (`PreparedInv`), of scripts
only the effect of those whose failure is reported; which
saving action writes or publishes at each point (`SavingInv`); and that a name is
used by one collection only, with the image last of a capture (`FilesInv`).

`StableSourceIsWhole` and `EndpointSnapshotIsOneMoment`, for any facets, caps, page
sizes and records. `ApiIInv` follows a record through the collection: while no
record is taken down and no total is out of date, each record is *sought* by a slice
or a facet of the plan (`PlanInv`, `WholeInv`), and, once pages are read, written or
*ahead*, at a rank not yet passed. A record that is added only moves others
backwards, and a slice that was not full has room for it (`Fits`), so no page loses
one. When a record was taken down instead, the count against the probe decides
(`ProbeInv`, `CompletedInv`): what was written of an endpoint is part of what it
held before or after the change, and the probe is the number of one of the two.
`PastInv` says that the one change concerns one record of one endpoint. The
planner's part is lemmas about `Told` and `AllTold`: a total that is told keeps
every record sought, and the early end of a disjoint facet leaves none out because
the records not found so far number `left` (`CountOK`).

`Acquisition` runs one method and leaves the variables of the others alone:
`EachMethod` says that its initial states and steps are those of the method or change
nothing there, and so every promise of the four holds of the composition
(`EveryMethodKeepsItsPromise`), the refinement of `AtomicCrawl` included, and its types
(`AcquisitionTypes`).

### MediaPipeline

The five properties the run checks, for any articles, listings, pages and shards of any
size, any threshold of known articles, and any number of runs, failures and kills. Four
invariants, each inductive on top of those before it:

- `BaseInv`: types, and what belongs together: the kind, key and file of an item
  (`ItemInv`), the state of a record and its file, keys and place in Core
  (`RecordInv`, `StageInv`), what a run of each mode may have in hand (`RunInv`).
  `TodoLeavesByCore` follows from it and from what `Settle` keeps of a list.
- `LedgerInv`, for `NothingForgotten`. The property speaks of articles behind a row of
  known ones, and no count of known articles is inductive: `OrderInv` says instead, of
  any two articles in the order of the listing: when the newer one is in Core, on the
  to-do list or in the hands of the run, the older one is too, or was reported, or is on
  a page still to be read. `CoverInv`: what discovery has examined is accounted for or in hand.
- `EvidenceInv`, for `EvidenceMatches`: the fields in a record or an item are those of the
  file it names (`ContentInv`, `SavedInv`). A run of the same day overwrites that file,
  so it also has to say that an article is fetched once in a run unless the list has an
  item for its manifest entry (`OnceInv`), whereby the new record takes the place of the
  item, and that a registered file has the bytes on disk until the record is through
  (`FileInv`). The property excepts, article by article, what a run cut short left
  behind (`forgiven`) and those with an item for a manifest entry; the code does break
  the rule there (see Disagreements).
- `OrderedInv`, for `NeverBackwards`: a version is no later than its file and the file no
  later than the page (`VersionInv`); the records of one article come in the order of
  their age, and Core is past one only when it or a later one is done (`AgeInv`); an item
  is no older than the current version, except while the run that will settle it is
  between Core and the list (`ItemAgeInv`). A kill in that window is why the property
  excepts runs that were cut short, and items keyed by file why it excepts API sources.

`AuditInv`, for `SuccessIsComplete`, stands on the first: the status of a run is taken
from counts, and `CountInv` is why as many records as items mean that each item was
answered: a RETRY has never more requests and records than items, and each answers one.

The passes of the code over records and links are recursive functions here
(`Settled`, `Unproduced`, `MediaDiscovery!DiscoverPage`); `PassExists` shows that such a
function has a value at each step, and an induction over the steps carries what one of
them keeps to the end.

### What is only model-checked

Liveness (`Converges`, `Served`, `Drains`): the prover does no fairness. Every other
property that a passing run checks is stated by a theorem.

## Findings

- `ingest_goback`. `check_duplicate` compares with the newest file, the unique
  index on `file_hash` with all. When a publisher returns to earlier bytes
  (A, B, A) each run fails at the insert until the bytes change, and the members
  stay those of B. `Converges` excludes this case explicitly (`WentBack`).
- `delivery_relist`. A member deleted and listed again on one day is written as
  DELETED, UPDATED; the matrix handles DELETED, NEW. The day is ignored.
- `delivery_caughtup`. The watermark is the newest generated date, not the newest
  synced one: a day whose sync failed is not found again.

### Disagreements noted while modelling

These are behaviours the models contain and the properties allow for by name, not
violations of something the repository states:

- A row that raises while a single listing page is read ends the reading; the crawl
  answers as if the rest were not listed (`lossy` in `AtomicCrawl`).
- Of two rows with the same detail page Scrapy's duplicate filter drops the second
  request; its member is owed and the crawl held until the retry.
- An API endpoint whose query is exactly full loses its last record to a new one
  without its count telling (`past.full`).
- The values of a disjoint facet are asked for until they add up to a total that was
  told earlier. When a record came or went in between, the values behind are not asked
  for although they have records, and the count may agree (`past.counting`).
- The paginated save of the browser collector takes a page that does not answer for
  the end of the list, and the body of an error page for a page.
- A script of a browser recipe that fails is logged, and the page is saved without its
  effect, unless it is awaited under `uc_open`
  (`ingestion/bypassCollector/actions/executeJsAction.py:32-35`,
  `engines/stealthBrowserEngine.py:402-406`, `:441-454`). Every script in
  `pipelines/watchlistConfigs.py` is awaited (lines 133, 283, 663), none under
  `uc_open`: there a failure is never reported. `HandedIsWhole` promises the effect of a
  reported one only.
- A child that outlives its job may leave a hold after the next job has read the state
  files; that job ends with a leftover it has not tried (`LeftoversAreRetried` names
  such sources, `stray`). The next job tries it.
- For a subject's newest version the risk job compares a result with the current
  assessment only, and no index is unique (`services/risk/processing.py:49-55`). Runs with classifier A, then B, then A
  again store A's result for the same version twice, the first one archived.
  `docs/risk-pipeline-design.md:489` has the complement: two models may store the same
  hash. `NoDuplicates` says what is left: a result returns only after another one.
- A Core version of an article may name a raw file it was not made from, in two cases
  that `EvidenceMatches` excepts; `repositories/adverseMedia/mediaRepository.py:287`
  calls that file "the Raw file behind each current Core Media record".
  (a) An item keeps the fields of a page with the name of its file
  (`services/adverseMediaPipeline/mediaTodoService.py:102`). A run of the same day
  fetches the page again, overwrites the file (`ingestion/crawler/storage.py:84`) and
  dies before the list is written; a RETRY registers the new bytes and stores the old
  fields. (b) A manifest article has an item for its entry and one for its file; one
  RETRY fetches the page again for the first, and processes the second with the fields
  it kept.
- Nothing locks the delivery job: two runs at once, or an operator's sync of a date
  beside one, may leave the spoke tables of a member at different versions
  (`SpokesAgree` and `RunDelivers` are promised while `alone` only).
- A media to-do item of an API source is keyed by its file path: it stays when a
  later file of the same article reaches Core, and its retry may go back
  (`NeverBackwards` excepts API sources).
- A media run may report PARTIAL for failures that no to-do item can hold; they are
  reported and not remembered (`NothingForgotten` says so).
- A media document that cannot be downloaded is said to be retried on the next run;
  the item left for it names the HTML page, so each retry fails again (`Parses`).
- A check that begins before midnight and ends after it counts for the new day: the
  next night's daily run finds the list not due.

## Not modelled

- Record contents and their conversions: parsers, `transforms`, matching keys, and
  the configuration tables (`pipelines/watchlistConfigs.py`), which are data. Pure
  functions with tests of their own, most of them over formats of one publisher.
- Media delivery: the loop of `Delivery` without spokes, one procedure call per date.
- The risk classifiers and the review of an assessment: a pure function, and one
  guarded update.
- Pipeline versions: a label no decision depends on.
- In the collectors: the `record_files` mode of the API collector, token refresh, the
  start of the browser, numbered listings, attachments of a page; queries that are
  repeated with other parameters (`param_variants`,
  `ingestion/apiCollector/collector.py:377`); a profile cut off by a kill inside its
  write, which the same day's next run takes for one it has (`collector.py:274`); the
  moments between the files of a capture in its own directory
  (`actions/saveImageAction.py:50`).
- The refresh interval of Elasticsearch: a scan of the index sees every document written
  before it (`repositories/watchlistElasticsearchRepository.py:60`).
- Two requests for one media article in one RETRY: where the list has a fetch item and
  an entry item of it, the code has a record for each and settles one item with each
  (`ingestion/crawler/spiders/mediaSpider.py:83-102`); `FetchDetail` has one.
- A media run killed with its job whose child goes on beside the next run of the dataset:
  `JobRunner` has it, `MediaPipeline` has one run at a time.
- The downloads and rows behind the attachment step of a watchlist file.
- Time zones and changes of the UTC offset; network and storage beyond their outcome;
  logging, summaries' wording and messages; the dialogue of the operator's menu.
- Regenerating the actions of an old date gives them new ids; `RiskProcessing` only
  appends.

## Plan

What is left, in this order.

1. The review of a risk assessment beside the job, as one more writer of
   `RiskProcessing!risk`, with `RiskInv` proved again.
2. The attachment step of `WatchlistIngest`.
