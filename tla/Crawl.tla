-------------------------------- MODULE Crawl --------------------------------
(***************************************************************************)
(* A watchlist crawl: the listing page by page, the detail pages it names  *)
(* through Scrapy or through a browser, and the result for the ingestion,  *)
(* which holds an incomplete crawl and later asks for the owed pages only. *)
(***************************************************************************)
EXTENDS Integers, Sequences

CONSTANTS
  Row,         \* the rows a listing may show, named by their record id
  Linkless,    \* rows without a link or an id
  Address(_),  \* the detail page a row links to
  Listings,    \* the listings the source may show
  Setups,      \* the configurations to consider
  PageSize,    \* rows on a page of a listing with next links
  MaxPages,    \* pagination.max_pages
  MaxEdit, MaxDay  \* bounds: states of a detail page, days

ASSUME CrawlAssumption ==
  /\ Linkless \subseteq Row /\ Listings \subseteq Seq(Row)
  /\ {PageSize, MaxPages, MaxEdit, MaxDay} \subseteq Nat \ {0}

VARIABLES
  setup,    \* spider, pagination, record mode and detail fetch of the list
  listing,  \* the rows the source shows now
  content,  \* the state of each detail page
  gone,     \* detail pages that answer 404 or redirect in a loop
  pages,    \* pages[d][r]: state of r's page saved on day d, 0 if none
  call,     \* local state of the running crawl
  held,     \* the records the caller has and the pages it is owed
  today,
  shown     \* history: the rows listed since the call began and whether the
            \* source stayed as it was, <<>> between calls

crawlVars == <<setup, listing, content, gone, pages, call, held, today, shown>>

None == 0
Edit == 1..MaxEdit
CrawlDay == 1..MaxDay

\* A record of the result; page is None when it has list data only.
Result == [id : Row, page : Edit \cup {None}]

Setup ==
  [spider : {"generic"}, paging : {"single", "next_link"}, mode : {"list_detail"},
   fetch : {"direct"}] \cup
  [spider : {"saved_html"}, paging : {"single"}, fetch : {"direct", "browser"},
   mode : {"listing_only", "list_detail", "list_optional_detail"}]

ASSUME SetupAssumption == Setups \subseteq Setup

Optional == setup.mode = "list_optional_detail"
Browser  == setup.fetch = "browser"
NextLink == setup.paging = "next_link"

Linked(r) == r \notin Linkless

\* The detail pages of the source: rows may share one.
Page     == {Address(r) : r \in Row \ Linkless}
Shown(r) == content[Address(r)]
Gone(r)  == Address(r) \in gone

RowsOf(l) == {l[i] : i \in DOMAIN l}

\* The rows of a listing that a crawl of it has to account for.
Accountable(l) == {r \in RowsOf(l) : Linked(r) \/ setup.mode # "list_detail"}

Waiting == [pc |-> "idle", retry |-> FALSE, page |-> None, complete |-> FALSE,
            error |-> FALSE, expected |-> {}, permanent |-> {}, requests |-> {},
            records |-> {}]

Call ==
  [pc : {"idle", "crawl"}, retry : BOOLEAN, page : 0..MaxPages, complete : BOOLEAN, error : BOOLEAN,
   expected : SUBSET (Row \ Linkless), permanent : SUBSET Row, requests : SUBSET Row,
   records : SUBSET Result]

CrawlTypeOK ==
  /\ setup \in Setups /\ listing \in Listings /\ gone \subseteq Page
  /\ content \in [Page -> Edit]
  /\ pages \in [CrawlDay -> [Row -> Edit \cup {None}]]
  /\ call \in Call /\ call.requests \cup call.permanent \subseteq call.expected
  /\ held \in [got : SUBSET Result, owed : SUBSET (Row \ Linkless)]
  /\ today \in CrawlDay

CrawlInit ==
  /\ setup \in Setups /\ listing \in Listings
  /\ content = [p \in Page |-> 1] /\ gone = {}
  /\ pages = [d \in CrawlDay |-> [r \in Row |-> None]]
  /\ call = Waiting /\ held = [got |-> {}, owed |-> {}]
  /\ today = 1 /\ shown = <<>>

(***************************************************************************)
(* The source                                                              *)
(***************************************************************************)
\* Changes that no step of a running crawl can tell from earlier or later ones
\* are left to the time between crawls.
Relist(l) ==
  /\ call = Waiting \/ call.page # None
  /\ l # listing /\ listing' = l
  /\ shown' = IF shown = <<>> THEN shown
              ELSE [items |-> shown.items \cup Accountable(l), steady |-> FALSE]
  /\ UNCHANGED <<setup, content, gone, pages, call, held, today>>

EditDetail(p) ==
  /\ call = Waiting /\ content[p] < MaxEdit
  /\ content' = [content EXCEPT ![p] = @ + 1]
  /\ UNCHANGED <<setup, listing, gone, pages, call, held, today, shown>>

RemoveDetail(p) ==
  /\ call = Waiting /\ p \notin gone
  /\ gone' = gone \cup {p}
  /\ UNCHANGED <<setup, listing, content, pages, call, held, today, shown>>

NextDay ==
  /\ call = Waiting /\ today < MaxDay
  /\ today' = today + 1
  /\ UNCHANGED <<setup, listing, content, gone, pages, call, held, shown>>

(***************************************************************************)
(* The call                                                                *)
(***************************************************************************)
\* crawl_source for a list on which nothing is on hold.
StartCrawl ==
  /\ call = Waiting /\ held.owed = {}
  /\ call' = [Waiting EXCEPT !.pc = "crawl", !.page = 1]
  /\ shown' = [items |-> Accountable(listing), steady |-> TRUE]
  /\ UNCHANGED <<setup, listing, content, gone, pages, held, today>>

\* crawl_source with detail_items: the owed pages are requested, the listing
\* is not read again.
StartOwed ==
  /\ call = Waiting /\ held.owed # {}
  /\ call' = [Waiting EXCEPT !.pc = "crawl", !.retry = TRUE,
                !.expected = held.owed, !.requests = held.owed]
  /\ shown' = [items |-> Accountable(listing), steady |-> TRUE]
  /\ UNCHANGED <<setup, listing, content, gone, pages, held, today>>

\* The rows before the page and the last one on it; the listing may have become
\* shorter. Without a next link more pages do not follow.
Before  == IF NextLink THEN (call.page - 1) * PageSize ELSE 0
PageEnd == IF NextLink /\ call.page * PageSize < Len(listing) THEN call.page * PageSize
           ELSE Len(listing)
MorePages == PageEnd < Len(listing)

\* One page of the listing, whose rows the generic spider requests as it reads
\* them. The rows up to the k-th are read before one raises. A listing with next
\* links is complete only when a page without a next link was read; a bad link, a
\* missing marker or too many pages are errors.
ListingPage ==
  /\ call.page # None /\ setup.spider = "generic"
  /\ \E k \in {Before} \cup (Before..PageEnd), valid \in {TRUE, NextLink => FALSE} :
       LET read == {listing[i] : i \in (Before + 1)..k} \ (Linkless \cup call.expected)
           fine == k >= PageEnd /\ valid
           more == MorePages /\ fine
       IN  call' = [call EXCEPT
             !.expected = @ \cup read, !.requests = @ \cup read,
             !.page     = IF more /\ call.page < MaxPages THEN @ + 1 ELSE None,
             !.complete = fine /\ ~MorePages,
             !.error    = ~fine \/ (more /\ call.page >= MaxPages)]
  /\ UNCHANGED <<setup, listing, content, gone, pages, held, today, shown>>

\* The listing page does not arrive.
ListingFailed ==
  /\ call.page # None /\ setup.spider = "generic"
  /\ call' = [call EXCEPT !.page = None, !.error = TRUE]
  /\ UNCHANGED <<setup, listing, content, gone, pages, held, today, shown>>

ListOnly(rows) == {[id |-> r, page |-> None] : r \in rows}

\* Requests of the first pass are filtered by URL: of rows that share a page
\* only the first one's is sent.
Sent ==
  {listing[i] : i \in {j \in DOMAIN listing : Linked(listing[j]) /\
     (~Browser => \A h \in 1..(j - 1) :
        Linked(listing[h]) => Address(listing[h]) # Address(listing[j]))}}

\* A saved listing is read as a whole before any page is requested. An error
\* in a row leaves the rows read so far, without any detail page.
SavedListing ==
  /\ call.page # None /\ setup.spider = "saved_html"
  /\ \E k \in 0..Len(listing) :
       LET rows   == {listing[i] : i \in 1..k}
           bare   == CASE setup.mode = "listing_only" -> rows
                       [] Optional -> rows \cap Linkless
                       [] OTHER -> {}
           detail == k = Len(listing) /\ setup.mode # "listing_only"
       IN  call' = [call EXCEPT
             !.page     = None,
             !.records  = ListOnly(bare),
             !.expected = IF detail THEN rows \ Linkless ELSE {},
             !.requests = IF detail THEN Sent ELSE {}]
  /\ UNCHANGED <<setup, listing, content, gone, pages, held, today, shown>>

(***************************************************************************)
(* Detail pages                                                            *)
(***************************************************************************)
Answered(r) == [call EXCEPT !.requests = @ \ {r}]

\* parse_detail: the page is saved, the record refers to it.
DetailArrives(r) ==
  /\ r \in call.requests /\ ~Gone(r)
  /\ pages' = [pages EXCEPT ![today][r] = Shown(r)]
  /\ call' = [Answered(r) EXCEPT !.records = @ \cup {[id |-> r, page |-> Shown(r)]}]
  /\ UNCHANGED <<setup, listing, content, gone, held, today, shown>>

\* The browser fetcher takes the page from today's directory where it is.
DetailFromDisk(r) ==
  /\ r \in call.requests /\ Browser /\ pages[today][r] # None
  /\ call' = [Answered(r) EXCEPT !.records = @ \cup {[id |-> r, page |-> pages[today][r]]}]
  /\ UNCHANGED <<setup, listing, content, gone, pages, held, today, shown>>

\* Mutant: every failed page counts as broken on the source.
DetailFailedForGood(r) ==
  /\ r \in call.requests
  /\ call' = [Answered(r) EXCEPT !.permanent = @ \cup {r}]
  /\ UNCHANGED <<setup, listing, content, gone, pages, held, today, shown>>

\* The page does not arrive. Optional details give way to the list data; the
\* others are noted, as broken for good when the source says so. The browser
\* cannot tell. Owed pages are requested with the errback of required ones.
DetailFailed(r) ==
  /\ r \in call.requests
  /\ call' = IF Optional /\ (Browser \/ ~call.retry)
             THEN [Answered(r) EXCEPT !.records = @ \cup ListOnly({r})]
             ELSE [Answered(r) EXCEPT !.permanent =
                     IF Gone(r) /\ ~Browser THEN @ \cup {r} ELSE @]
  /\ UNCHANGED <<setup, listing, content, gone, pages, held, today, shown>>

\* The callback raises, before or after it saved the page. This ends the
\* generator that drives the browser: the pages behind are not fetched.
DetailRaises(r) ==
  /\ r \in call.requests /\ ~Gone(r)
  /\ pages' \in {pages, [pages EXCEPT ![today][r] = Shown(r)]}
  /\ call' = IF Browser THEN [call EXCEPT !.requests = {}] ELSE Answered(r)
  /\ UNCHANGED <<setup, listing, content, gone, held, today, shown>>

(***************************************************************************)
(* The result                                                              *)
(***************************************************************************)
Ids(records) == {rec.id : rec \in records}
Over == call.pc = "crawl" /\ call.page = None /\ call.requests = {}

\* Only a listing with next links answers for its completeness.
Incomplete == NextLink /\ ~call.retry /\ (call.error \/ ~call.complete)

\* Mutant: the owed pages replace the crawl they complete.
CrawledAfresh ==
  LET records == call.records \cup ListOnly(call.permanent \ Ids(call.records))
  IN  [got |-> records, owed |-> call.expected \ Ids(records)]

\* _keep_broken_as_list_only and _find_missing_details.
Crawled ==
  LET records == call.records \cup ListOnly(call.permanent \ Ids(call.records))
  IN  [got  |-> IF call.retry THEN held.got \cup records ELSE records,
       owed |-> call.expected \ Ids(records)]

ReturnCrawl ==
  /\ Over /\ ~Incomplete
  /\ held' = Crawled
  /\ call' = Waiting /\ shown' = <<>>
  /\ UNCHANGED <<setup, listing, content, gone, pages, today>>

\* crawl_source raises, or the process is killed.
RaiseCrawl ==
  /\ call.pc = "crawl"
  /\ call' = Waiting /\ shown' = <<>>
  /\ UNCHANGED <<setup, listing, content, gone, pages, held, today>>

SourceChanges ==
  \/ \E l \in Listings : Relist(l)
  \/ \E p \in Page : EditDetail(p) \/ RemoveDetail(p)
  \/ NextDay

Crawling ==
  \/ StartCrawl \/ StartOwed \/ ListingFailed \/ ReturnCrawl \/ RaiseCrawl
  \/ ListingPage \/ SavedListing
  \/ \E r \in Row : DetailArrives(r) \/ DetailFromDisk(r) \/ DetailFailed(r) \/ DetailRaises(r)

CrawlNext == SourceChanges \/ Crawling

CrawlSpec == CrawlInit /\ [][CrawlNext]_crawlVars

(***************************************************************************)
(* Properties                                                              *)
(***************************************************************************)
\* For its caller a crawl is one step, although pages, failures, killed
\* processes and changes of the source come between its start and its end.
Atomic ==
  INSTANCE AtomicCrawl WITH
    Item <- Row, listed <- Accountable(listing), lossy <- ~NextLink,
    got <- Ids(held.got), owed <- held.owed
ImplementsAtomicCrawl == Atomic!Spec

\* A required detail page is missing from a record only when the source has
\* given the page up; a temporary failure never costs a member its details.
Justified(records) ==
  \A rec \in records : rec.page = None => setup.mode # "list_detail" \/ Gone(rec.id)

ListOnlyIsJustified == Justified(held.got)

\* Between calls nothing runs; what a call has read so far was listed since it
\* began, and a call for owed pages knows no others.
CallInv ==
  /\ call.pc = "idle" <=> call = Waiting
  /\ call.pc = "idle" <=> shown = <<>>
  /\ call.retry => call.page = None /\ call.expected = held.owed /\ Ids(call.records) \subseteq held.owed
  /\ call.pc = "crawl" =>
       /\ shown \in [items : SUBSET Row, steady : BOOLEAN] /\ Accountable(listing) \subseteq shown.items
       /\ ~call.retry => call.expected \cup Ids(call.records) \subseteq shown.items
  /\ setup.spider = "generic" => Ids(call.records) \subseteq call.expected
  /\ setup.spider = "saved_html" /\ call.page # None => call.expected = {}

\* The rows of a listing with next links that were read while it stood still.
ReadInv ==
  NextLink /\ call.pc = "crawl" /\ ~call.retry /\ shown.steady =>
    /\ call.page # None => call.expected = {listing[i] : i \in DOMAIN listing \cap 1..Before} \ Linkless
    /\ call.complete => call.page = None /\ call.expected = Accountable(listing)

RecordInv ==
  /\ Ids(held.got) \cap held.owed = {}
  /\ Justified(held.got) /\ Justified(call.records)
  /\ \A r \in call.permanent : Gone(r)

CrawlIInv == CrawlTypeOK /\ CallInv /\ ReadInv /\ RecordInv

=============================================================================
