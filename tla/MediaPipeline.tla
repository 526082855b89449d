---------------------------- MODULE MediaPipeline ----------------------------
(***************************************************************************)
(* One adverse media dataset through its pipeline: discovery, detail       *)
(* pages, raw files, Core versions, and the to-do list of what failed.     *)
(* Every article is processed on its own; what a run could not finish is   *)
(* on the to-do list when the run ends, and a RETRY run works on that.     *)
(***************************************************************************)
EXTENDS MediaDiscovery, FiniteSets

CONSTANTS
  Sources,     \* the triples <<strategy, policy, scope>> of the datasets to consider
  MaxEdit,     \* bound: states of an article's page
  MaxRelease,  \* bound: releases of the mapping rules
  MaxDay,      \* bound: days
  MaxVersion   \* bound: Core versions of an article

\* The bounds of one dataset, within those above.
Scope ==
  [articles : SUBSET Article, edits : 1..MaxEdit, releases : 1..MaxRelease, days : 1..MaxDay,
   versions : 1..MaxVersion]

ASSUME SourceAssumption ==
  /\ Sources \subseteq Strategies \X Policies \X Scope
  /\ \A s \in Sources : s[1] = "list_only" => s[2] = "full_scan"

ASSUME BoundAssumption == {MaxEdit, MaxRelease, MaxDay, MaxVersion} \subseteq Nat

VARIABLES
  source,    \* the dataset: <<strategy, policy, scope>>
  site,      \* what the publisher shows
  disk,      \* disk[d][a]: the state of a's page saved under day d, 0 if none
  raw,       \* raw.media_file: the registered files; no step reads their status
  core,      \* core.media_record: the versions of each article, the last current
  todo,      \* the state file of the dataset: items by key
  run,       \* local state of the running pipeline
  day,       \* today, which names the download directory
  release,   \* the mapping rules in force
  forgiven   \* history: articles a run failed to see or to remember, until
             \* a run settles them

vars == <<source, site, disk, raw, core, todo, run, day, release, forgiven>>

Strategy == source[1]
Policy   == source[2]
Bound    == source[3]
Mode     == {"INITIAL", "INCREMENTAL", "RETRY", "REPROCESS"}
Edit     == 1..MaxEdit
Day      == 1..MaxDay
None     == 0     \* no state of a page, no day, no page to request

\* A raw file is known by its bytes: the page of an article in some state, or
\* the document that the page links to.
File == [art : Article, content : Edit, document : BOOLEAN]

\* Keys of to-do items: a record_key, a file path, an invalid manifest item.
Key == ({"record", "entry"} \X Article) \cup ({"path"} \X Article \X Day)

Item == [kind : {"process", "fetch", "json_manifest_entry"}, art : Article,
         content : Edit \cup {None},  \* extracted, None where the file is parsed
         path    : Day \cup {None},   \* detail_file_path, by its day
         document: BOOLEAN]           \* the path leads to the document

\* An acquired record and what became of it.
Record ==
  [art      : Article,
   content  : Edit \cup {None},       \* extracted
   path     : Day \cup {None},        \* detail_file_path
   document : BOOLEAN,                \* the file at the path is the document
   keyed    : BOOLEAN,                \* record_key is known
   entry    : BOOLEAN,                \* discovery_retry_key is set
   file     : File \cup {<<>>},       \* media_file_id, <<>> while unregistered
   state    : {"fetched", "entry_failed", "failed", "stored", "duplicate", "done"}]

Idle == [pc |-> "idle"]

Requires(s) == s = "saved_html"       \* datasets whose articles come as documents

TypeOK ==
  /\ source \in Sources
  /\ site.listing \in Seq(Article) /\ site.invalid \subseteq Article
  /\ site.content \in [Article -> Edit]
  /\ disk \in [Day -> [Article -> Edit \cup {None}]]
  /\ raw \subseteq File
  /\ \A a \in Article : \A v \in 1..Len(core[a]) :
       /\ core[a][v].file \in raw
       /\ core[a][v].release \in 1..MaxRelease /\ core[a][v].content \in Edit
  /\ DOMAIN todo \subseteq Key
  /\ \A k \in DOMAIN todo : todo[k] \in Item /\ todo[k].art = k[2]
  /\ run.pc \in {"idle", "discover", "persist", "process", "todo"}
  /\ run.pc # "idle" =>
       /\ run.mode \in Mode /\ run.d \in Discovery
       /\ \A i \in 1..Len(run.records) : run.records[i] \in Record
  /\ day \in Day /\ release \in 1..MaxRelease

Init ==
  /\ source \in Sources
  /\ site = [listing |-> <<>>, invalid |-> {}, content |-> [a \in Article |-> 1]]
  /\ disk = [d \in Day |-> [a \in Article |-> None]]
  /\ raw = {} /\ todo = <<>>
  /\ core = [a \in Article |-> <<>>]
  /\ run = Idle /\ day = 1 /\ release = 1
  /\ forgiven = {}

Listed  == ToSet(site.listing)
InCore  == {a \in Article : core[a] # <<>>}
Current(a) == core[a][Len(core[a])]

(***************************************************************************)
(* The world around the pipeline                                           *)
(***************************************************************************)
\* What the publisher does while a run works off its records is first seen by
\* the next run.
Watched == run.pc \in {"idle", "discover"}

\* The publisher adds an article, newest first.
Publish(a) ==
  /\ Watched /\ a \in Bound.articles \ Listed
  /\ site' = [site EXCEPT !.listing = <<a>> \o @]
  /\ UNCHANGED <<source, disk, raw, core, todo, run, day, release, forgiven>>

\* The publisher edits an article where it stands.
EditPage(a) ==
  /\ Watched /\ a \in Listed /\ site.content[a] < Bound.edits
  /\ site' = [site EXCEPT !.content[a] = @ + 1]
  /\ UNCHANGED <<source, disk, raw, core, todo, run, day, release, forgiven>>

\* An item of the manifest becomes invalid, or valid again; bound: one at a time.
SpoilEntry(a) ==
  /\ run.pc = "idle" /\ Strategy = "json_manifest" /\ a \in Listed
  /\ site.invalid \subseteq {a}
  /\ site' = [site EXCEPT !.invalid = IF a \in @ THEN @ \ {a} ELSE @ \cup {a}]
  /\ UNCHANGED <<source, disk, raw, core, todo, run, day, release, forgiven>>

NextDay ==
  /\ run.pc = "idle" /\ day < Bound.days
  /\ day' = day + 1
  /\ UNCHANGED <<source, site, disk, raw, core, todo, run, release, forgiven>>

NewRelease ==
  /\ run.pc = "idle" /\ release < Bound.releases
  /\ release' = release + 1
  /\ UNCHANGED <<source, site, disk, raw, core, todo, run, day, forgiven>>

(***************************************************************************)
(* Acquisition                                                             *)
(***************************************************************************)
NewRecord(a, content, path, document) ==
  [art |-> a, content |-> content, path |-> path, document |-> document,
   keyed |-> Strategy # "api", entry |-> FALSE, file |-> <<>>, state |-> "fetched"]

FailedRecord(a) == [NewRecord(a, None, None, FALSE) EXCEPT !.state = "failed"]

Begin(mode, pc, d, page, requests, records, items) ==
  run' = [pc |-> pc, mode |-> mode, d |-> d, page |-> page, requests |-> requests,
          entries |-> {}, records |-> records, items |-> items, produced |-> {}, next |-> 1]

\* INITIAL and INCREMENTAL: discovery starts at the newest page.
Start(mode) ==
  /\ run.pc = "idle" /\ mode \in {"INITIAL", "INCREMENTAL"}
  /\ Begin(mode, "discover", NewDiscovery(mode, Policy), 1, {}, <<>>, {})
  /\ UNCHANGED <<source, site, disk, raw, core, todo, day, release, forgiven>>

ItemsOf(kind) == {k \in DOMAIN todo : todo[k].kind = kind}

\* RETRY: saved files become records as they are, failed pages and manifest
\* items are requested again.
StartRetry ==
  /\ run.pc = "idle" /\ todo # <<>>
  /\ LET d == [NewDiscovery("RETRY", Policy) EXCEPT !.end = TRUE]
         Saved(k) == [NewRecord(todo[k].art, todo[k].content, todo[k].path,
                                todo[k].document)
                        EXCEPT !.keyed = k[1] = "record" /\ Strategy # "api"]
         saved == SetToSeq(ItemsOf("process"))
     IN  /\ run' = [pc |-> "discover", mode |-> "RETRY", d |-> d, page |-> None,
                    requests |-> {todo[k].art : k \in ItemsOf("fetch")},
                    entries  |-> {todo[k].art : k \in ItemsOf("json_manifest_entry")},
                    records  |-> [i \in 1..Len(saved) |-> Saved(saved[i])],
                    items    |-> DOMAIN todo, produced |-> {}, next |-> 1]
  /\ UNCHANGED <<source, site, disk, raw, core, todo, day, release, forgiven>>

\* REPROCESS: the raw file behind each current version, as far as the object
\* store returns it and it still parses. The to-do list is left alone.
StartReprocess(unread) ==
  /\ run.pc = "idle" /\ unread \subseteq InCore
  /\ LET Reread(a) == IF a \in unread
                      THEN [FailedRecord(a) EXCEPT !.file = Current(a).file]
                      ELSE [NewRecord(a, Current(a).file.content, None, FALSE)
                              EXCEPT !.file = Current(a).file, !.state = "duplicate"]
         arts == SetToSeq(InCore)
         d == [NewDiscovery("REPROCESS", Policy)
                 EXCEPT !.end = TRUE, !.failed = unread # {}, !.known = InCore # {}]
     IN  Begin("REPROCESS", "process", d, None, {},
               [i \in 1..Len(arts) |-> Reread(arts[i])], {})
  /\ UNCHANGED <<source, site, disk, raw, core, todo, day, release, forgiven>>

\* The next listing page or shard of a crawler source. unnamed are the links
\* that give no identity, unread those whose lookup in Core fails.
ListPage(unnamed, unread) ==
  /\ run.pc = "discover" /\ run.page # None /\ Strategy # "api"
  /\ LET links == Page(Strategy, site.listing, run.page)
         json  == Strategy = "json_manifest"
         bad   == IF json THEN site.invalid ELSE {}
         d1    == CheckShard(run.d, links, bad)
         d2    == DiscoverPage(d1, links, bad, InCore, Policy, unnamed, unread)
         empty == links = <<>> /\ run.page = 1
         last  == IF json THEN LastPage(Strategy, site.listing, run.page)
                  ELSE links = <<>> \/ OnePage(Strategy)
         d3    == IF empty THEN [d2 EXCEPT !.failed = TRUE]
                  ELSE [d2 EXCEPT !.end = last /\ ~d2.stop]
     IN  /\ unnamed \cup unread \subseteq ToSet(links)
         /\ run' = [run EXCEPT
              !.d        = d3,
              !.page     = IF d2.stop \/ last \/ empty THEN None ELSE @ + 1,
              !.requests = @ \cup (d2.selected \ run.d.selected),
              !.entries  = @ \cup (ToSet(links) \cap bad)]
         /\ forgiven' = forgiven \cup ((unnamed \cup unread) \ InCore)
  /\ UNCHANGED <<source, site, disk, raw, core, todo, day, release>>

\* A page or shard that does not arrive: discovery ends without its end.
PageLost ==
  /\ run.pc = "discover" /\ run.page # None /\ Strategy # "api"
  /\ run' = [run EXCEPT !.page = None, !.d.failed = @ \/ Strategy = "json_manifest"]
  /\ forgiven' = forgiven \cup (Listed \ (run.d.seen \cup InCore))
  /\ UNCHANGED <<source, site, disk, raw, core, todo, day, release>>

\* The links that have no record yet, in their order.
Unproduced(links, produced) ==
  LET upto[i \in 0..Len(links)] ==
        IF i = 0 THEN <<>>
        ELSE IF links[i] \in produced THEN upto[i - 1]
        ELSE Append(upto[i - 1], links[i])
  IN  upto[Len(links)]

\* The next page of an API source. Its records are written to files before the
\* callback decides whether a further page is needed.
CollectPage(unchecked) ==
  /\ run.pc = "discover" /\ run.page # None /\ Strategy = "api"
  /\ LET links == Page(Strategy, site.listing, run.page)
         order == Unproduced(links, run.produced)
         fresh == ToSet(order)
         d     == IF run.d.mayStop
                  THEN StopCheck(run.d, links, InCore, "full_scan", unchecked)
                  ELSE [run.d EXCEPT !.seen = @ \cup fresh]
         last  == LastPage(Strategy, site.listing, run.page)
     IN  /\ unchecked \subseteq ToSet(links)
         /\ disk' = [disk EXCEPT ![day] = [a \in Article |->
              IF a \in fresh THEN site.content[a] ELSE @[a]]]
         /\ run' = [run EXCEPT
              !.d        = [d EXCEPT !.end = last /\ ~d.stop, !.selected = {}],
              !.page     = IF d.stop \/ last THEN None ELSE @ + 1,
              !.produced = @ \cup fresh,
              !.records  = @ \o [i \in 1..Len(order) |->
                                   NewRecord(order[i], None, day, FALSE)]]
  /\ UNCHANGED <<source, site, raw, core, todo, day, release, forgiven>>

\* A detail page arrives: its HTML is saved, then its fields are extracted.
\* A document that the page links to may fail; the record keeps the page. Where the
\* list has a fetch item and an entry item of one article, the code requests the
\* page twice and has a record for each; they are one here, which settles both.
FetchDetail(a) ==
  /\ run.pc = "discover" /\ a \in run.requests
  /\ disk' = [disk EXCEPT ![day][a] = site.content[a]]
  /\ \E outcome \in {"fetched", "extraction"} \cup
                    (IF Requires(Strategy) THEN {"no_document"} ELSE {}) :
       LET page == NewRecord(a, site.content[a], day, Requires(Strategy))
           rec  == CASE outcome = "fetched"    -> page
                     [] outcome = "extraction" -> FailedRecord(a)
                     [] OTHER -> [page EXCEPT !.document = FALSE, !.state = "failed"]
       IN run' = [run EXCEPT !.requests = @ \ {a}, !.produced = @ \cup {a},
                    !.records = Append(@, [rec EXCEPT !.entry = <<"entry", a>> \in run.items])]
  /\ UNCHANGED <<source, site, raw, core, todo, day, release, forgiven>>

\* The request fails for good: a failed record, kept for a later fetch.
DetailFailed(a) ==
  /\ run.pc = "discover" /\ a \in run.requests
  /\ run' = [run EXCEPT !.requests = @ \ {a}, !.produced = @ \cup {a},
       !.records = Append(@, [FailedRecord(a) EXCEPT !.entry = <<"entry", a>> \in run.items])]
  /\ UNCHANGED <<source, site, disk, raw, core, todo, day, release, forgiven>>

\* The callback raises before it has a record, as when the page cannot be saved.
DetailMissing(a) ==
  /\ run.pc = "discover" /\ a \in run.requests
  /\ run' = [run EXCEPT !.requests = @ \ {a}]
  /\ forgiven' = forgiven \cup ({a} \ InCore)
  /\ UNCHANGED <<source, site, disk, raw, core, todo, day, release>>

\* RETRY of a manifest item: found by its URL and valid now, its article is
\* requested; otherwise the item fails again.
RetryEntry(a) ==
  /\ run.pc = "discover" /\ run.mode = "RETRY" /\ a \in run.entries
  /\ \/ /\ a \notin site.invalid
        /\ run' = [run EXCEPT !.entries = @ \ {a}, !.requests = @ \cup {a}]
     \/ run' = [run EXCEPT !.entries = @ \ {a}, !.produced = @ \cup {a},
          !.records = Append(@, [FailedRecord(a) EXCEPT !.state = "entry_failed",
                                   !.keyed = FALSE, !.entry = TRUE])]
  /\ UNCHANGED <<source, site, disk, raw, core, todo, day, release, forgiven>>

\* The crawl or collection is over: every request has been answered.
Acquired ==
  /\ run.pc = "discover" /\ run.page = None /\ run.requests = {}
  /\ run.mode = "RETRY" => run.entries = {}
  /\ run' = [run EXCEPT !.pc = "persist"]
  /\ UNCHANGED <<source, site, disk, raw, core, todo, day, release, forgiven>>

(***************************************************************************)
(* Raw files                                                               *)
(***************************************************************************)
Here == run.records[run.next]
Stored(i, rec) == [run EXCEPT !.records[i] = rec, !.next = @ + 1]
ParseAs(rec) == IF rec.content = None THEN disk[rec.path][rec.art] ELSE rec.content

\* Mutant: a registered file is found by its article, not by its bytes.
PersistByName ==
  /\ run.pc = "persist" /\ run.next <= Len(run.records)
  /\ \/ /\ Here.state # "fetched"
        /\ run' = [run EXCEPT !.next = @ + 1] /\ UNCHANGED raw
     \/ /\ Here.state = "fetched"
        /\ LET f == [art |-> Here.art, content |-> disk[Here.path][Here.art],
                     document |-> Here.document]
               registered == {g \in raw : g.art = Here.art}
           IN  /\ raw' = IF registered = {} THEN raw \cup {f} ELSE raw
               /\ \E g \in IF registered = {} THEN {f} ELSE registered :
                    run' = Stored(run.next, [Here EXCEPT !.file = g, !.state = "duplicate"])
  /\ UNCHANGED <<source, site, disk, core, todo, day, release, forgiven>>

\* One record: hash of its file, duplicate check, upload, row. An upload whose
\* row is missing does no harm: the object is named by its hash.
Persist ==
  /\ run.pc = "persist" /\ run.next <= Len(run.records)
  /\ IF Here.state # "fetched"
     THEN run' = [run EXCEPT !.next = @ + 1] /\ UNCHANGED raw
     ELSE LET onDisk == disk[Here.path][Here.art]
              f == [art |-> Here.art, content |-> onDisk, document |-> Here.document]
          IN  \/ /\ f \in raw
                 /\ run' = Stored(run.next, [Here EXCEPT !.file = f, !.state = "duplicate"])
                 /\ UNCHANGED raw
              \/ /\ f \notin raw
                 /\ raw' = raw \cup {f}
                 /\ run' = Stored(run.next, [Here EXCEPT !.file = f, !.state = "stored"])
              \/ /\ run' = Stored(run.next, [Here EXCEPT !.state = "failed"])
                 /\ UNCHANGED raw
  /\ UNCHANGED <<source, site, disk, core, todo, day, release, forgiven>>

Persisted ==
  /\ run.pc = "persist" /\ run.next > Len(run.records)
  /\ run' = [run EXCEPT !.pc = "process", !.next = 1]
  /\ UNCHANGED <<source, site, disk, raw, core, todo, day, release, forgiven>>

(***************************************************************************)
(* Core                                                                    *)
(***************************************************************************)
\* A document source cannot parse the page that stands in for its document.
Parses(rec) == Requires(Strategy) /\ run.mode # "REPROCESS" => rec.document

Skips(rec) ==
  /\ core[rec.art] # <<>>
  /\ Current(rec.art).content = ParseAs(rec) /\ Current(rec.art).release = release

\* One transaction per record: the same content is skipped, other content
\* closes the current version and opens the next.
ProcessRecord ==
  /\ run.pc = "process" /\ run.next <= Len(run.records)
  /\ Here.state \in {"stored", "duplicate"} /\ Parses(Here)
  /\ core' = IF Skips(Here) THEN core
             ELSE [core EXCEPT ![Here.art] = Append(@,
                    [content |-> ParseAs(Here), release |-> release, file |-> Here.file])]
  /\ Len(core'[Here.art]) <= Bound.versions
  /\ run' = Stored(run.next, [Here EXCEPT !.state = "done", !.keyed = TRUE])
  /\ UNCHANGED <<source, site, disk, raw, todo, day, release, forgiven>>

\* Parsing, normalization or the transaction fails. The key of an API record is built after normalization.
ProcessFails ==
  /\ run.pc = "process" /\ run.next <= Len(run.records)
  /\ Here.state \in {"stored", "duplicate"}
  /\ \E keyed \in {TRUE, Here.keyed} :
       run' = Stored(run.next, [Here EXCEPT !.state = "failed", !.keyed = keyed])
  /\ UNCHANGED <<source, site, disk, raw, core, todo, day, release, forgiven>>

\* What acquisition already failed is reported and passed over.
PassOver ==
  /\ run.pc = "process" /\ run.next <= Len(run.records)
  /\ Here.state \in {"failed", "entry_failed"}
  /\ run' = [run EXCEPT !.next = @ + 1]
  /\ UNCHANGED <<source, site, disk, raw, core, todo, day, release, forgiven>>

(***************************************************************************)
(* The to-do list and the result                                           *)
(***************************************************************************)
CandidateKeys(rec) ==
  (IF rec.keyed THEN << <<"record", rec.art>> >> ELSE <<>>)
    \o (IF rec.path # None THEN << <<"path", rec.art, rec.path>> >> ELSE <<>>)
    \o (IF rec.entry THEN << <<"entry", rec.art>> >> ELSE <<>>)

NoItem == <<>>

\* Mutant: a page that was not fetched leaves no item.
RetryItemOfFiles(rec) ==
  IF rec.path = None /\ rec.state # "entry_failed" THEN NoItem
  ELSE [kind |-> IF rec.path = None THEN "json_manifest_entry" ELSE "process",
        art |-> rec.art, content |-> rec.content, path |-> rec.path,
        document |-> rec.document]

\* What a later run needs: the manifest item, else the saved file, else the
\* page's address; a record that has none of them cannot be retried.
RetryItem(rec) ==
  LET kind == CASE rec.state = "entry_failed" -> "json_manifest_entry"
                [] rec.state # "entry_failed" /\ rec.path # None -> "process"
                [] rec.state # "entry_failed" /\ rec.path = None -> "fetch"
  IN  IF kind = "fetch" /\ ~rec.keyed THEN NoItem
      ELSE [kind |-> kind, art |-> rec.art, content |-> rec.content,
            path |-> rec.path, document |-> rec.document]

Without(f, keys) == [k \in DOMAIN f \ keys |-> f[k]]
With(f, key, item) == [k \in DOMAIN f \cup {key} |-> IF k = key THEN item ELSE f[k]]

\* Mutants: an item is settled once its file is registered; an item whose record
\* reached Core stays.
SettleOnceStored(items, rec) ==
  IF rec.file # <<>> THEN Without(items, ToSet(CandidateKeys(rec)))
  ELSE IF RetryItem(rec) = NoItem \/ CandidateKeys(rec) = <<>> THEN items
  ELSE With(items, CandidateKeys(rec)[1], RetryItem(rec))

SettleKeepsDone(items, rec) ==
  IF rec.state = "done" \/ RetryItem(rec) = NoItem \/ CandidateKeys(rec) = <<>> THEN items
  ELSE With(items, CandidateKeys(rec)[1], RetryItem(rec))

\* One record: done removes every item it answers to; a failure replaces the
\* first of them.
Settle(items, rec) ==
  LET keys     == CandidateKeys(rec)
      hits     == {i \in DOMAIN keys : keys[i] \in DOMAIN items}
      known    == {keys[i] : i \in {h \in hits : \A j \in hits : h <= j}}
      rest     == Without(items, known)
      previous == IF known = {} THEN NoItem ELSE items[CHOOSE k \in known : TRUE]
      item     == IF RetryItem(rec) # NoItem THEN RetryItem(rec) ELSE previous
  IN  IF rec.state = "done" THEN Without(items, ToSet(keys))
      ELSE IF item = NoItem \/ keys = <<>> THEN rest
      ELSE With(rest, keys[1], item)

EntryItem(a) == [kind |-> "json_manifest_entry", art |-> a, content |-> None,
                 path |-> None, document |-> FALSE]

\* What discovery reported is noted first, then the records settle one by one.
Noted(items, found) ==
  [k \in DOMAIN items \cup {<<"entry", a>> : a \in found} |->
     IF k[1] = "entry" /\ k[2] \in found THEN EntryItem(k[2]) ELSE items[k]]

Settled(items, records) ==
  LET after[i \in 0..Len(records)] ==
        IF i = 0 THEN items ELSE Settle(after[i - 1], records[i])
  IN  after[Len(records)]

UpdateItems ==
  Settled(Noted(todo, IF run.mode = "RETRY" THEN {} ELSE run.entries), run.records)

Failed(rec) == rec.state \in {"failed", "entry_failed"}

\* determine_media_run_status over the run's counts.
RunStatus ==
  LET records == ToSet(run.records)
      safely  == IF run.mode = "RETRY" THEN Len(run.records) >= Cardinality(run.items)
                 ELSE CompletedSafely(run.d, run.produced)
      worked  == run.d.known \/ \E rec \in records : rec.state = "done" \/ rec.file # <<>>
  IN  CASE safely /\ ~\E rec \in records : Failed(rec) -> "SUCCESS"
        [] ~(safely /\ ~\E rec \in records : Failed(rec)) /\ worked -> "PARTIAL"
        [] OTHER -> "FAILED"

UpdateTodo ==
  /\ run.pc = "process" /\ run.next > Len(run.records) /\ run.mode # "REPROCESS"
  /\ todo' = UpdateItems
  /\ run' = [run EXCEPT !.pc = "todo"]
  /\ forgiven' = forgiven \ {rec.art : rec \in {r \in ToSet(run.records) : r.state = "done"}}
  /\ UNCHANGED <<source, site, disk, raw, core, day, release>>

Report(status) ==
  /\ \/ run.pc = "todo"
     \/ run.pc = "process" /\ run.next > Len(run.records) /\ run.mode = "REPROCESS"
  /\ status = RunStatus
  /\ run' = Idle
  /\ UNCHANGED <<source, site, disk, raw, core, todo, day, release, forgiven>>

\* The process ends: an exception that no record owns (a page of the API, the
\* lookup of the dataset, the saved listing) or a kill. The to-do list stays as
\* the run found it.
Crash ==
  /\ run.pc \notin {"idle", "todo"}
  /\ run' = Idle
  /\ forgiven' = forgiven \cup Listed
  /\ UNCHANGED <<source, site, disk, raw, core, todo, day, release>>

Environment ==
  \/ \E a \in Article : Publish(a) \/ EditPage(a) \/ SpoilEntry(a)
  \/ NextDay \/ NewRelease

Acquire ==
  \/ \E mode \in Mode : Start(mode)
  \/ StartRetry
  \/ \E unread \in SUBSET Article : StartReprocess(unread)
  \/ \E unnamed, unread \in SUBSET Article : ListPage(unnamed, unread)
  \/ PageLost
  \/ \E unchecked \in SUBSET Article : CollectPage(unchecked)
  \/ \E a \in Article : FetchDetail(a) \/ DetailFailed(a) \/ DetailMissing(a) \/ RetryEntry(a)
  \/ Acquired

Process ==
  \/ Persist \/ Persisted \/ ProcessRecord \/ ProcessFails \/ PassOver
  \/ UpdateTodo \/ \E s \in {"SUCCESS", "PARTIAL", "FAILED"} : Report(s)

Next == Environment \/ Acquire \/ Process \/ Crash

Spec == Init /\ [][Next]_vars

(***************************************************************************)
(* Properties                                                              *)
(***************************************************************************)
Pending(a) == \E k \in DOMAIN todo : k[2] = a

\* An INCREMENTAL run stops before it reaches the article.
Behind(a) ==
  /\ Policy = "stop_after_known"
  /\ \E i, j \in 1..Len(site.listing) :
       /\ site.listing[j] = a /\ i + Threshold <= j
       /\ \A k \in i..(i + Threshold - 1) : site.listing[k] \in InCore

\* Between runs, an article that later runs stop in front of is in Core or on
\* the to-do list, unless a run was cut short or has reported that it could
\* not examine the article.
NothingForgotten ==
  run.pc = "idle" =>
    \A a \in Listed : Behind(a) /\ a \notin InCore => Pending(a) \/ a \in forgiven

\* A run that reports SUCCESS leaves every article it examined in Core, and
\* a RETRY none of the items it worked on.
SuccessIsComplete ==
  [][Report("SUCCESS") =>
       /\ run.d.seen \subseteq InCore
       /\ run.items \cap DOMAIN todo = {}]_vars

\* An item leaves the to-do list only when its article reached Core, in this run or
\* an earlier one, or another item of the article takes its place.
TodoLeavesByCore ==
  [][\A k \in DOMAIN todo \ DOMAIN todo' :
       k[2] \in InCore \/ \E j \in DOMAIN todo' : j[2] = k[2]]_vars

\* Core does not go back to an earlier state of an article unless a run was cut
\* short. API sources are excepted: an item named by its file stays on the to-do
\* list when a later file of the same article reaches Core, and is retried.
NeverBackwards ==
  [][\A a \in InCore : a \in forgiven \/ Strategy = "api" \/
       core'[a][Len(core'[a])].content >= Current(a).content]_vars

\* A Core version rests on the raw file it was made from, although files are
\* overwritten by the runs of a day and fields are kept on the to-do list, except
\* in two cases, where the code pairs a file with the fields of an earlier state of
\* its page: a run was cut short between overwriting the file and writing the list;
\* or the article has an item for its manifest entry beside one for its file, so
\* that one RETRY fetches the page again beside the fields it kept.
EvidenceMatches ==
  [][\A a \in Article : Len(core'[a]) > Len(core[a]) =>
       LET v == core'[a][Len(core'[a])]
       IN  a \in forgiven \/ <<"entry", a>> \in DOMAIN todo \/ v.file.content = v.content]_vars

=============================================================================
