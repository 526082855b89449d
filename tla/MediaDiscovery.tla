--------------------------- MODULE MediaDiscovery ---------------------------
(***************************************************************************)
(* How a run over an adverse media source decides which articles to fetch. *)
(* A source lists its articles newest first; a run examines them page by   *)
(* page and may stop once enough of them in a row are known to Core.       *)
(* These are pure definitions; MediaPipeline puts them into a run.         *)
(***************************************************************************)
EXTENDS Naturals, Sequences, SequencesExt

CONSTANTS
  Article,    \* the articles a source may publish
  Threshold,  \* known articles in a row after which a run stops
  PageSize    \* links on a listing page, items in a shard

ASSUME DiscoveryAssumption ==
  /\ Threshold \in Nat \ {0}
  /\ PageSize \in Nat \ {0}

Strategies == {"list_detail", "saved_html", "list_only", "json_manifest", "api"}
Policies   == {"full_scan", "stop_after_known"}

\* What MediaDiscoveryService counts, as far as a decision depends on it.
Discovery ==
  [seen     : SUBSET Article,  \* seen_record_keys of the spider
   streak   : Nat,             \* consecutive_known_records
   mayStop  : BOOLEAN,         \* stop_after_known
   stop     : BOOLEAN,         \* stop_reason is KNOWN_THRESHOLD_REACHED
   end      : BOOLEAN,         \* reached_source_end
   failed   : BOOLEAN,         \* discovery_failure_count > 0
   known    : BOOLEAN,         \* known_count > 0
   selected : SUBSET Article]  \* the detail pages counted as expected

NewDiscovery(mode, policy) ==
  [seen |-> {}, streak |-> 0, stop |-> FALSE, end |-> FALSE, failed |-> FALSE,
   known |-> FALSE, selected |-> {},
   mayStop |-> mode = "INCREMENTAL" /\ policy = "stop_after_known"]

\* Pages of a listing or shards of a manifest; a saved page is the only one.
OnePage(strategy) == strategy \in {"saved_html", "list_only"}

Page(strategy, listing, n) ==
  IF OnePage(strategy)
  THEN IF n = 1 THEN listing ELSE <<>>
  ELSE SubSeq(listing, (n - 1) * PageSize + 1,
              IF n * PageSize < Len(listing) THEN n * PageSize ELSE Len(listing))

LastPage(strategy, listing, n) ==
  OnePage(strategy) \/ n * PageSize >= Len(listing)

\* record_identity_failure: the streak ends, because the link may be new.
Unidentified(d) == [d EXCEPT !.failed = TRUE, !.streak = 0]

\* check_record_key and the selection that follows it. Known articles are
\* fetched again under full_scan only; a list_only source takes its rows known or
\* not, and so has that policy here (SourceAssumption).
Examined(d, a, known, policy) ==
  LET streak == IF known THEN d.streak + 1 ELSE 0
  IN  [d EXCEPT !.seen     = @ \cup {a},
                !.streak   = streak,
                !.known    = @ \/ known,
                !.stop     = @ \/ (d.mayStop /\ streak >= Threshold),
                !.selected = IF known /\ policy # "full_scan" THEN @ ELSE @ \cup {a}]

\* One link. An invalid item was reported with its shard. unnamed are the links
\* without an identity, unread those whose lookup in the database fails; inCore
\* are the articles Core knows.
DiscoverDetail(d, a, invalid, inCore, policy, unnamed, unread) ==
  IF d.stop \/ a \in invalid THEN d
  ELSE IF a \in unnamed THEN Unidentified(d)
  ELSE IF a \in d.seen THEN d
  ELSE IF a \in unread THEN Unidentified([d EXCEPT !.seen = @ \cup {a}])
  ELSE Examined(d, a, a \in inCore, policy)

\* The links of a page in their order, up to the one that ends discovery.
DiscoverPage(d, links, invalid, inCore, policy, unnamed, unread) ==
  LET after[i \in 0..Len(links)] ==
        IF i = 0 THEN d
        ELSE DiscoverDetail(after[i - 1], links[i], invalid, inCore, policy,
                            unnamed, unread)
  IN  after[Len(links)]

\* A shard is checked as a whole before any of its links is examined: an
\* invalid item makes the run scan all remaining shards.
CheckShard(d, links, invalid) ==
  IF \E i \in 1..Len(links) : links[i] \in invalid
  THEN [d EXCEPT !.failed = TRUE, !.streak = 0, !.mayStop = FALSE]
  ELSE d

\* The callback of the API collector. Records without an identity or whose
\* lookup fails are passed over and leave the streak alone; a record that two
\* pages return counts twice.
StopCheck(d, links, inCore, policy, unchecked) ==
  LET after[i \in 0..Len(links)] ==
        IF i = 0 THEN d
        ELSE IF after[i - 1].stop \/ links[i] \in unchecked THEN after[i - 1]
        ELSE Examined(after[i - 1], links[i], links[i] \in inCore, policy)
  IN  after[Len(links)]

\* Mutant: the records that came back are not counted.
CompletedWithoutCount(d, produced) == ~d.failed /\ (d.end \/ d.stop)

\* get_summary and _finalize_media_completion: produced are the selected
\* articles that came back as a record, failed ones included.
CompletedSafely(d, produced) ==
  /\ ~d.failed
  /\ d.end \/ d.stop
  /\ d.selected \subseteq produced
=============================================================================
