-------------------------- MODULE Acquisition_proofs --------------------------
(***************************************************************************)
(* Proofs about Crawl, Download, Bypass and ApiCollect, for any listings,  *)
(* pages, configurations, files and facets.                                *)
(*                                                                         *)
(* CrawlIInv, DownloadIInv, BypassIInv and ApiIInv are inductive, and      *)
(* under the mapping of Atomic each step of a crawl is a step of           *)
(* AtomicCrawl or changes nothing there. Acquisition runs one of them and  *)
(* leaves the others as they are, so it keeps what each of them promises.  *)
(***************************************************************************)
EXTENDS Acquisition, Induction_proofs, SequenceTheorems

(***************************************************************************)
(* Crawl: the invariant                                                    *)
(***************************************************************************)
LEMMA BoundsAre ==
  /\ PageSize \in Nat \ {0} /\ MaxPages \in Nat \ {0} /\ MaxEdit \in Nat \ {0} /\ MaxDay \in Nat \ {0}
  /\ 1 \in Edit /\ 1 \in CrawlDay /\ None \notin Edit /\ None \in 0..MaxPages /\ 1 \in 0..MaxPages
  BY CrawlAssumption DEF Edit, CrawlDay, None

LEMMA WaitingIs ==
  /\ Waiting \in Call /\ Waiting.pc = "idle" /\ Waiting.retry = FALSE /\ Waiting.page = None
  /\ Waiting.complete = FALSE /\ Waiting.expected = {} /\ Waiting.permanent = {}
  /\ Waiting.requests = {} /\ Waiting.records = {}
  BY BoundsAre DEF Waiting, Call

LEMMA ListingIs ==
  ASSUME CrawlIInv
  PROVE  /\ listing \in Seq(Row) /\ Len(listing) \in Nat /\ DOMAIN listing = 1..Len(listing)
         /\ RowsOf(listing) \in SUBSET Row /\ Accountable(listing) \in SUBSET Row
         /\ setup \in Setup
  BY CrawlAssumption, SetupAssumption DEF CrawlIInv, CrawlTypeOK, RowsOf, Accountable

\* A list whose listing has next links is read by the generic spider and needs its
\* detail pages.
LEMMA NextLinkIs ==
  ASSUME CrawlIInv
  PROVE  /\ setup.spider \in {"generic", "saved_html"}
         /\ NextLink => setup.spider = "generic"
         /\ setup.spider = "generic" => setup.mode = "list_detail"
  BY ListingIs DEF Setup, NextLink

LEMMA CallIs ==
  ASSUME CrawlIInv
  PROVE  /\ call \in Call /\ call.pc \in {"idle", "crawl"} /\ call.retry \in BOOLEAN
         /\ call.page \in 0..MaxPages /\ call.complete \in BOOLEAN
         /\ call.expected \in SUBSET (Row \ Linkless) /\ call.permanent \in SUBSET Row
         /\ call.requests \in SUBSET Row /\ call.records \in SUBSET Result
         /\ call.requests \in SUBSET call.expected /\ call.permanent \in SUBSET call.expected
         /\ held \in [got : SUBSET Result, owed : SUBSET (Row \ Linkless)]
  BY DEF CrawlIInv, CrawlTypeOK, Call

\* What a step of a running call has to leave of it.
Runs(c) ==
  /\ c \in Call /\ c.pc = "crawl" /\ c.retry = call.retry
  /\ c.requests \cup c.permanent \subseteq c.expected
  /\ c.retry => c.page = None /\ c.expected = held.owed /\ Ids(c.records) \subseteq held.owed
  /\ ~c.retry => c.expected \cup Ids(c.records) \subseteq shown.items
  /\ setup.spider = "generic" => Ids(c.records) \subseteq c.expected
  /\ setup.spider = "saved_html" /\ c.page # None => c.expected = {}
  /\ Justified(c.records) /\ \A r \in c.permanent : Gone(r)

Read(c) ==
  NextLink /\ ~c.retry /\ shown.steady =>
    /\ c.page # None => c.expected = {listing[i] : i \in DOMAIN listing \cap 1..(c.page - 1) * PageSize}
                                     \ Linkless
    /\ c.complete => c.page = None /\ c.expected = Accountable(listing)

LEMMA RunningStep ==
  ASSUME CrawlIInv, call.pc = "crawl", NEW c, call' = c, Runs(c), Read(c),
         UNCHANGED <<setup, listing, content, gone, held, today, shown>>,
         pages' \in [CrawlDay -> [Row -> Edit \cup {None}]]
  PROVE  CrawlIInv'
<1>1. CrawlTypeOK'
  BY CallIs DEF CrawlIInv, CrawlTypeOK, Runs, Page, Linked
<1>2. CallInv'
  <2>1. c # Waiting /\ shown # <<>>
    BY WaitingIs DEF CrawlIInv, CallInv, Runs
  <2>2. /\ shown \in [items : SUBSET Row, steady : BOOLEAN] /\ Accountable(listing) \subseteq shown.items
    BY DEF CrawlIInv, CallInv
  <2>3. Accountable(listing)' = Accountable(listing) /\ Waiting' = Waiting
    BY DEF Accountable, RowsOf, Waiting
  <2> QED BY <2>1, <2>2, <2>3 DEF CallInv, Runs, Ids
<1>3. ReadInv'
  <2>1. Accountable(listing)' = Accountable(listing)
    BY DEF Accountable, RowsOf
  <2> QED BY <2>1 DEF ReadInv, Read, NextLink, Before
<1>4. RecordInv'
  <2>1. (\A r : Gone(r)' <=> Gone(r)) /\ Justified(held.got)' = Justified(held.got)
    BY DEF Gone, Justified
  <2>2. Justified(call.records)'
    BY <2>1 DEF Runs, Justified
  <2> QED BY <2>1, <2>2 DEF CrawlIInv, RecordInv, Runs, Ids
<1> QED BY <1>1, <1>2, <1>3, <1>4 DEF CrawlIInv

LEMMA ReadNow ==
  ASSUME CrawlIInv, call.pc = "crawl"
  PROVE  Runs(call) /\ Read(call)
<1>1. Runs(call)
  BY CallIs DEF CrawlIInv, CallInv, RecordInv, Runs
<1>2. Read(call)
  BY DEF CrawlIInv, ReadInv, Read, Before
<1> QED BY <1>1, <1>2

\* A detail page is answered: one request fewer, and of its row a record or a note.
LEMMA AnsweredStep ==
  ASSUME CrawlIInv, call.pc = "crawl", NEW r \in call.requests, NEW c \in Call, call' = c,
         c.pc = call.pc, c.retry = call.retry, c.page = call.page, c.complete = call.complete,
         c.expected = call.expected, c.requests \subseteq call.requests,
         NEW page \in Edit \cup {None}, page = None => setup.mode # "list_detail",
         c.records \subseteq call.records \cup {[id |-> r, page |-> page]},
         c.permanent \subseteq call.permanent \cup {r}, r \in c.permanent => Gone(r),
         UNCHANGED <<setup, listing, content, gone, held, today, shown>>,
         pages' \in [CrawlDay -> [Row -> Edit \cup {None}]]
  PROVE  CrawlIInv'
<1>1. Runs(call) /\ Read(call)
  BY ReadNow
<1>2. r \in call.expected
  BY CallIs
<1>3. Ids(c.records) \subseteq Ids(call.records) \cup {r}
  BY DEF Ids
<1>4. Justified(c.records)
  BY <1>1 DEF Runs, Justified
<1>5. \A q \in c.permanent : Gone(q)
  BY <1>1 DEF Runs
<1>6. c.requests \cup c.permanent \subseteq c.expected
  BY <1>2, CallIs
<1>7. Runs(c)
  BY <1>1, <1>2, <1>3, <1>4, <1>5, <1>6 DEF Runs
<1>8. Read(c)
  BY <1>1 DEF Read
<1> QED BY <1>7, <1>8, RunningStep

LEMMA ShownIs ==
  ASSUME CrawlIInv, NEW r \in call.requests
  PROVE  /\ Shown(r) \in Edit /\ r \in Row /\ call.pc = "crawl"
         /\ today \in CrawlDay /\ pages \in [CrawlDay -> [Row -> Edit \cup {None}]]
<1>1. r \in Row \ Linkless
  BY CallIs
<1>2. Address(r) \in Page
  BY <1>1 DEF Page
<1>3. call.pc = "crawl"
  BY CallIs, WaitingIs DEF CrawlIInv, CallInv
<1> QED BY <1>1, <1>2, <1>3 DEF CrawlIInv, CrawlTypeOK, Shown

LEMMA SavedPages ==
  ASSUME CrawlIInv, NEW r \in call.requests
  PROVE  [pages EXCEPT ![today][r] = Shown(r)] \in [CrawlDay -> [Row -> Edit \cup {None}]]
<1>1. [pages[today] EXCEPT ![r] = Shown(r)] \in [Row -> Edit \cup {None}]
  BY ShownIs
<1>2. [pages EXCEPT ![today][r] = Shown(r)] = [pages EXCEPT ![today] = [pages[today] EXCEPT ![r] = Shown(r)]]
  BY ShownIs
<1> QED BY <1>1, <1>2, ShownIs

LEMMA RecordIs ==
  ASSUME NEW r \in Row, NEW page \in Edit \cup {None}
  PROVE  [id |-> r, page |-> page] \in Result
  BY DEF Result

LEMMA DetailArrivesStep ==
  ASSUME CrawlIInv, NEW r \in Row, DetailArrives(r) \/ DetailFromDisk(r)
  PROVE  CrawlIInv'
<1>1. PICK page \in Edit :
        call' = [call EXCEPT !.requests = @ \ {r}, !.records = @ \cup {[id |-> r, page |-> page]}]
  <2>1. r \in call.requests
    BY DEF DetailArrives, DetailFromDisk
  <2>2. CASE DetailArrives(r)
    BY <2>1, <2>2, ShownIs, CallIs DEF DetailArrives, Answered, Call
  <2>3. CASE DetailFromDisk(r)
    <3>1. pages[today][r] \in Edit
      BY <2>1, <2>3, ShownIs DEF DetailFromDisk
    <3> QED BY <2>3, <3>1, CallIs DEF DetailFromDisk, Answered, Call
  <2> QED BY <2>2, <2>3
<1>2. /\ r \in call.requests /\ UNCHANGED <<setup, listing, content, gone, held, today, shown>>
      /\ pages' \in [CrawlDay -> [Row -> Edit \cup {None}]]
  BY ShownIs, SavedPages DEF DetailArrives, DetailFromDisk
<1> DEFINE c == [call EXCEPT !.requests = @ \ {r}, !.records = @ \cup {[id |-> r, page |-> page]}]
<1>3. [id |-> r, page |-> page] \in Result
  BY RecordIs
<1>4. /\ c \in Call /\ c.pc = call.pc /\ c.retry = call.retry /\ c.page = call.page
      /\ c.complete = call.complete /\ c.expected = call.expected /\ c.requests \subseteq call.requests
      /\ c.records = call.records \cup {[id |-> r, page |-> page]} /\ c.permanent = call.permanent
  BY <1>3, CallIs DEF Call
<1>5. call' = c /\ call.pc = "crawl" /\ page # None
  BY <1>1, <1>2, ShownIs, BoundsAre
<1> HIDE DEF c
<1>6. r \in c.permanent => Gone(r)
  BY <1>4 DEF CrawlIInv, RecordInv
<1> QED BY <1>2, <1>4, <1>5, <1>6, AnsweredStep

LEMMA DetailFailedStep ==
  ASSUME CrawlIInv, NEW r \in Row, DetailFailed(r)
  PROVE  CrawlIInv'
<1>1. /\ r \in call.requests /\ UNCHANGED <<setup, listing, content, gone, held, today, shown>>
      /\ pages' \in [CrawlDay -> [Row -> Edit \cup {None}]] /\ call.pc = "crawl"
  BY ShownIs DEF DetailFailed
<1>2. CASE Optional /\ (Browser \/ ~call.retry)
  <2> DEFINE c == [call EXCEPT !.requests = @ \ {r}, !.records = @ \cup {[id |-> r, page |-> None]}]
  <2>1. call' = c
    BY <1>2, CallIs DEF DetailFailed, Answered, ListOnly, Call
  <2>2. [id |-> r, page |-> None] \in Result
    BY RecordIs
  <2>3. /\ c \in Call /\ c.pc = call.pc /\ c.retry = call.retry /\ c.page = call.page
        /\ c.complete = call.complete /\ c.expected = call.expected /\ c.requests \subseteq call.requests
        /\ c.records = call.records \cup {[id |-> r, page |-> None]} /\ c.permanent = call.permanent
    BY <2>2, CallIs DEF Call
  <2> HIDE DEF c
  <2>4. (r \in c.permanent => Gone(r)) /\ setup.mode # "list_detail" /\ None \in Edit \cup {None}
    BY <1>2, <2>3 DEF CrawlIInv, RecordInv, Optional
  <2> QED BY <1>1, <2>1, <2>3, <2>4, AnsweredStep
<1>3. CASE ~(Optional /\ (Browser \/ ~call.retry))
  <2> DEFINE given == IF Gone(r) /\ ~Browser THEN call.permanent \cup {r} ELSE call.permanent
             c == [call EXCEPT !.requests = @ \ {r}, !.permanent = given]
  <2>1. call' = c
    BY <1>3, CallIs DEF DetailFailed, Answered, Call
  <2>2. given \in SUBSET Row /\ given \subseteq call.permanent \cup {r} /\ (r \in given => Gone(r))
    BY CallIs DEF CrawlIInv, RecordInv
  <2> HIDE DEF given
  <2>3. /\ c \in Call /\ c.pc = call.pc /\ c.retry = call.retry /\ c.page = call.page
        /\ c.complete = call.complete /\ c.expected = call.expected /\ c.requests \subseteq call.requests
        /\ c.records = call.records /\ c.permanent = given
    BY <2>2, CallIs DEF Call
  <2> HIDE DEF c
  <2>4. 1 \in Edit \cup {None} /\ 1 # None /\ c.records \subseteq call.records \cup {[id |-> r, page |-> 1]}
    BY <2>3, BoundsAre
  <2> QED BY <1>1, <2>1, <2>2, <2>3, <2>4, AnsweredStep
<1> QED BY <1>2, <1>3

LEMMA DetailRaisesStep ==
  ASSUME CrawlIInv, NEW r \in Row, DetailRaises(r)
  PROVE  CrawlIInv'
<1>1. /\ r \in call.requests /\ UNCHANGED <<setup, listing, content, gone, held, today, shown>>
      /\ pages' \in [CrawlDay -> [Row -> Edit \cup {None}]] /\ call.pc = "crawl"
  BY ShownIs, SavedPages DEF DetailRaises
<1> DEFINE left == IF Browser THEN {} ELSE call.requests \ {r}
           c == [call EXCEPT !.requests = left]
<1>2. call' = c
  BY DEF DetailRaises, Answered
<1>3. /\ c \in Call /\ c.pc = call.pc /\ c.retry = call.retry /\ c.page = call.page
      /\ c.complete = call.complete /\ c.expected = call.expected /\ c.requests \subseteq call.requests
      /\ c.records = call.records /\ c.permanent = call.permanent
  BY CallIs DEF Call
<1> HIDE DEF c
<1>4. /\ 1 \in Edit \cup {None} /\ 1 # None /\ c.records \subseteq call.records \cup {[id |-> r, page |-> 1]}
      /\ r \in c.permanent => Gone(r)
  BY <1>3, BoundsAre DEF CrawlIInv, RecordInv
<1> QED BY <1>1, <1>2, <1>3, <1>4, AnsweredStep

LEMMA ListingFailedStep ==
  ASSUME CrawlIInv, ListingFailed
  PROVE  CrawlIInv'
<1>1. call.pc = "crawl" /\ pages \in [CrawlDay -> [Row -> Edit \cup {None}]]
  BY WaitingIs, CallIs DEF ListingFailed, CrawlIInv, CallInv, CrawlTypeOK
<1> DEFINE c == [call EXCEPT !.page = None, !.error = TRUE]
<1>2. /\ c \in Call /\ c.pc = call.pc /\ c.retry = call.retry /\ c.page = None /\ c.complete = call.complete
      /\ c.expected = call.expected /\ c.requests = call.requests /\ c.permanent = call.permanent
      /\ c.records = call.records
  BY CallIs, BoundsAre DEF Call
<1>3. call' = c
  BY DEF ListingFailed
<1> HIDE DEF c
<1>4. Runs(call) /\ Read(call)
  BY <1>1, ReadNow
<1>5. Runs(c) /\ Read(c)
  BY <1>1, <1>2, <1>4 DEF Runs, Read
<1> QED BY <1>1, <1>3, <1>5, RunningStep DEF ListingFailed

\* The rows of a page, and those before it, are rows the source lists.
LEMMA PageIs ==
  ASSUME CrawlIInv, call.page # None
  PROVE  /\ Before \in Nat /\ PageEnd \in Nat /\ PageEnd <= Len(listing) /\ call.page \in 1..MaxPages
         /\ NextLink => Before = (call.page - 1) * PageSize
         /\ MorePages => NextLink /\ PageEnd = call.page * PageSize
         /\ ~MorePages => PageEnd = Len(listing)
<1>1. call.page \in 1..MaxPages
  BY CallIs, BoundsAre DEF None
<1>2. PageSize \in Nat /\ call.page \in Nat /\ call.page - 1 \in Nat /\ Len(listing) \in Nat
  BY <1>1, BoundsAre, ListingIs
<1>3. (call.page - 1) * PageSize \in Nat /\ call.page * PageSize \in Nat
  BY <1>2, SMTT(30)
<1>4. (call.page - 1 >= 0) /\ Before \in Nat
  BY <1>2, <1>3 DEF Before
<1> QED BY <1>1, <1>2, <1>3, <1>4 DEF Before, PageEnd, MorePages

\* What the reading of a page adds to the rows read before.
LEMMA PageAdds ==
  ASSUME CrawlIInv, call.page # None, NEW k \in Nat, NextLink,
         call.expected = {listing[i] : i \in DOMAIN listing \cap 1..Before} \ Linkless,
         k >= Before, k <= Len(listing) \/ k = Before
  PROVE  call.expected \cup ({listing[i] : i \in (Before + 1)..k} \ (Linkless \cup call.expected))
           = {listing[i] : i \in DOMAIN listing \cap 1..k} \ Linkless
<1>1. Before \in Nat /\ Len(listing) \in Nat /\ DOMAIN listing = 1..Len(listing)
  BY PageIs, ListingIs
<1>2. DOMAIN listing \cap 1..k = (DOMAIN listing \cap 1..Before) \cup ((Before + 1)..k)
  BY <1>1
<1> QED BY <1>2

LEMMA ListingPageStep ==
  ASSUME CrawlIInv, ListingPage
  PROVE  CrawlIInv'
<1>1. /\ call.page # None /\ setup.spider = "generic" /\ call.pc = "crawl"
      /\ pages \in [CrawlDay -> [Row -> Edit \cup {None}]]
      /\ UNCHANGED <<setup, listing, content, gone, pages, held, today, shown>>
  BY WaitingIs, CallIs DEF ListingPage, CrawlIInv, CallInv, CrawlTypeOK
<1>2. /\ Before \in Nat /\ PageEnd \in Nat /\ PageEnd <= Len(listing) /\ call.page \in 1..MaxPages
      /\ NextLink => Before = (call.page - 1) * PageSize
      /\ MorePages => NextLink /\ PageEnd = call.page * PageSize
      /\ ~MorePages => PageEnd = Len(listing)
  BY <1>1, PageIs
<1>3. PICK k \in {Before} \cup (Before..PageEnd), valid \in {TRUE, NextLink => FALSE} :
       LET read == {listing[i] : i \in (Before + 1)..k} \ (Linkless \cup call.expected)
           fine == k >= PageEnd /\ valid
           more == MorePages /\ fine
       IN  call' = [call EXCEPT
             !.expected = @ \cup read, !.requests = @ \cup read,
             !.page     = IF more /\ call.page < MaxPages THEN @ + 1 ELSE None,
             !.complete = fine /\ ~MorePages,
             !.error    = ~fine \/ (more /\ call.page >= MaxPages)]
  BY DEF ListingPage
<1> DEFINE read == {listing[i] : i \in (Before + 1)..k} \ (Linkless \cup call.expected)
           fine == k >= PageEnd /\ valid
           on   == MorePages /\ fine /\ call.page < MaxPages
           next == IF on THEN call.page + 1 ELSE None
           bad  == ~fine \/ (MorePages /\ fine /\ call.page >= MaxPages)
           c == [call EXCEPT !.expected = @ \cup read, !.requests = @ \cup read, !.page = next,
                   !.complete = fine /\ ~MorePages, !.error = bad]
<1>4. call' = c
  BY <1>3
<1>5. /\ k \in Nat /\ k >= Before /\ (k <= Len(listing) \/ k = Before) /\ (k = Before \/ k <= PageEnd)
      /\ valid \in BOOLEAN
  <2>1. k = Before \/ k \in Before..PageEnd
    OBVIOUS
  <2>2. valid = TRUE \/ valid = (NextLink => FALSE)
    OBVIOUS
  <2>3. valid \in BOOLEAN
    BY <2>2
  <2>4. Len(listing) \in Nat
    BY ListingIs
  <2> QED BY <1>2, <2>1, <2>3, <2>4
<1>6. read \subseteq RowsOf(listing) \ Linkless
  <2>1. Len(listing) \in Nat /\ DOMAIN listing = 1..Len(listing)
    BY ListingIs
  <2>2. Before \in Nat
    BY <1>2
  <2>3. \A i \in (Before + 1)..k : i \in 1..Len(listing)
    BY <1>5, <2>1, <2>2
  <2> QED BY <2>1, <2>3 DEF RowsOf
<1>7. read \in SUBSET (Row \ Linkless) /\ read \subseteq Accountable(listing)
  BY <1>6, ListingIs DEF Accountable, Linked
<1>8. next \in 0..MaxPages
  BY <1>2, BoundsAre
<1> HIDE DEF read, next, bad
<1>9. bad \in BOOLEAN /\ fine \in BOOLEAN
  BY <1>5 DEF bad
<1>10. MorePages \in BOOLEAN
  BY DEF MorePages
<1>11. /\ c \in Call /\ c.pc = call.pc /\ c.retry = call.retry /\ c.page = next
       /\ c.complete <=> fine /\ ~MorePages
       /\ c.expected = call.expected \cup read /\ c.requests = call.requests \cup read
       /\ c.permanent = call.permanent /\ c.records = call.records
  BY <1>7, <1>8, <1>9, <1>10, CallIs DEF Call
<1> HIDE DEF c
<1>12. Runs(call) /\ Read(call) /\ ~call.retry
  BY <1>1, ReadNow DEF Runs
<1>13. Accountable(listing) \subseteq shown.items
  BY <1>1 DEF CrawlIInv, CallInv
<1>14. Runs(c)
  BY <1>1, <1>7, <1>11, <1>12, <1>13 DEF Runs
<1>15. Read(c)
  <2> SUFFICES ASSUME NextLink, shown.steady
               PROVE  /\ c.page # None => c.expected =
                           {listing[i] : i \in DOMAIN listing \cap 1..(c.page - 1) * PageSize} \ Linkless
                      /\ c.complete => c.page = None /\ c.expected = Accountable(listing)
    BY DEF Read
  <2>1. c.expected = {listing[i] : i \in DOMAIN listing \cap 1..k} \ Linkless
    BY <1>1, <1>2, <1>5, <1>11, <1>12, PageAdds DEF Read, read
  <2>2. ASSUME c.page # None PROVE k = (c.page - 1) * PageSize
    <3>1. on /\ c.page = call.page + 1
      BY <2>2, <1>11 DEF next
    <3>2. PageSize \in Nat /\ PageSize > 0 /\ call.page \in Nat
      BY <1>2, BoundsAre
    <3>3. call.page * PageSize > (call.page - 1) * PageSize
      BY <3>2, SMTT(30)
    <3>4. k = PageEnd
      BY <1>2, <1>5, <3>1, <3>2, <3>3
    <3>5. c.page - 1 = call.page
      BY <3>1, <3>2
    <3> QED BY <1>2, <3>1, <3>4, <3>5
  <2>3. ASSUME c.complete PROVE c.page = None /\ c.expected = Accountable(listing)
    <3>1. ~MorePages /\ fine /\ c.page = None
      BY <2>3, <1>11 DEF next
    <3>2. DOMAIN listing \cap 1..k = DOMAIN listing
      BY <3>1, <1>2, <1>5, ListingIs
    <3>3. setup.mode = "list_detail"
      BY <1>1, NextLinkIs
    <3> QED BY <2>1, <3>1, <3>2, <3>3 DEF Accountable, RowsOf, Linked
  <2> QED BY <2>1, <2>2, <2>3
<1> QED BY <1>1, <1>4, <1>14, <1>15, RunningStep

LEMMA ListOnlyIs ==
  ASSUME NEW rows \in SUBSET Row
  PROVE  /\ ListOnly(rows) \in SUBSET Result /\ Ids(ListOnly(rows)) = rows
         /\ \A rec \in ListOnly(rows) : rec.page = None /\ rec.id \in rows
<1>1. \A r \in rows : [id |-> r, page |-> None] \in Result
  BY RecordIs
<1>2. ListOnly(rows) \in SUBSET Result /\ \A rec \in ListOnly(rows) : rec.page = None /\ rec.id \in rows
  BY <1>1 DEF ListOnly
<1>3. \A r \in rows : r \in Ids(ListOnly(rows))
  <2> SUFFICES ASSUME NEW r \in rows PROVE r \in Ids(ListOnly(rows))
    OBVIOUS
  <2>1. [id |-> r, page |-> None] \in ListOnly(rows) /\ [id |-> r, page |-> None].id = r
    BY DEF ListOnly
  <2> QED BY <2>1 DEF Ids
<1>4. Ids(ListOnly(rows)) \subseteq rows
  BY <1>2 DEF Ids
<1> QED BY <1>2, <1>3, <1>4

LEMMA SavedListingStep ==
  ASSUME CrawlIInv, SavedListing
  PROVE  CrawlIInv'
<1>1. /\ call.page # None /\ setup.spider = "saved_html" /\ call.pc = "crawl"
      /\ pages \in [CrawlDay -> [Row -> Edit \cup {None}]]
      /\ UNCHANGED <<setup, listing, content, gone, pages, held, today, shown>>
  BY WaitingIs, CallIs DEF SavedListing, CrawlIInv, CallInv, CrawlTypeOK
<1>2. PICK k \in 0..Len(listing) :
       LET rows   == {listing[i] : i \in 1..k}
           bare   == CASE setup.mode = "listing_only" -> rows
                       [] Optional -> rows \cap Linkless
                       [] OTHER -> {}
           detail == k = Len(listing) /\ setup.mode # "listing_only"
       IN  call' = [call EXCEPT
             !.page     = None,
             !.records  = ListOnly(bare),
             !.expected = IF detail THEN rows \ Linkless ELSE {},
             !.requests = IF detail THEN Sent ELSE {}]
  BY <1>1 DEF SavedListing
<1> DEFINE rows   == {listing[i] : i \in 1..k}
           bare   == CASE setup.mode = "listing_only" -> rows
                       [] Optional -> rows \cap Linkless
                       [] OTHER -> {}
           detail == k = Len(listing) /\ setup.mode # "listing_only"
           wanted == IF detail THEN rows \ Linkless ELSE {}
           asked  == IF detail THEN Sent ELSE {}
           c == [call EXCEPT !.page = None, !.records = ListOnly(bare), !.expected = wanted,
                   !.requests = asked]
<1>3. call' = c
  BY <1>2
<1>4. rows \subseteq RowsOf(listing) /\ (k = Len(listing) => rows = RowsOf(listing))
  <2>1. Len(listing) \in Nat /\ DOMAIN listing = 1..Len(listing)
    BY ListingIs
  <2>2. \A i \in 1..k : i \in 1..Len(listing)
    BY <2>1
  <2> QED BY <2>1, <2>2 DEF RowsOf
<1>5. Sent \subseteq RowsOf(listing) \ Linkless
  BY DEF Sent, RowsOf, Linked
<1> HIDE DEF rows
<1>6. /\ bare \subseteq rows /\ (setup.mode = "list_detail" => bare = {})
      /\ (setup.mode = "list_optional_detail" => bare = rows \cap Linkless)
  BY DEF Optional
<1> HIDE DEF bare
<1>7. wanted \subseteq rows \ Linkless /\ asked \subseteq wanted
  BY <1>4, <1>5
<1> HIDE DEF wanted, asked
<1>8. rows \in SUBSET Row /\ bare \in SUBSET Row
  BY <1>4, <1>6, ListingIs
<1>9. /\ ListOnly(bare) \in SUBSET Result /\ Ids(ListOnly(bare)) = bare
      /\ \A rec \in ListOnly(bare) : rec.page = None /\ rec.id \in bare
  BY <1>8, ListOnlyIs
<1>10. wanted \in SUBSET (Row \ Linkless) /\ asked \in SUBSET Row /\ None \in 0..MaxPages
  BY <1>7, <1>8, BoundsAre
<1>11. /\ c \in Call /\ c.pc = call.pc /\ c.retry = call.retry /\ c.page = None /\ c.expected = wanted
       /\ c.requests = asked /\ c.permanent = call.permanent /\ c.records = ListOnly(bare)
  BY <1>9, <1>10, CallIs DEF Call
<1> HIDE DEF c
<1>12. ~call.retry /\ \A r \in call.permanent : Gone(r)
  BY <1>1 DEF CrawlIInv, CallInv, RecordInv
<1>13. call.permanent = {}
  BY <1>1, CallIs DEF CrawlIInv, CallInv
<1>14. Justified(c.records)
  BY <1>6, <1>9, <1>11 DEF Justified
<1>15. rows \cap Linkless \subseteq shown.items \/ setup.mode = "list_detail"
  BY <1>1, <1>4 DEF CrawlIInv, CallInv, Accountable
<1>16. rows \ Linkless \subseteq shown.items
  BY <1>1, <1>4 DEF CrawlIInv, CallInv, Accountable, Linked
<1>17. Runs(c)
  BY <1>1, <1>6, <1>7, <1>9, <1>11, <1>12, <1>13, <1>14, <1>15, <1>16 DEF Runs
<1>18. ~NextLink
  BY <1>1, NextLinkIs
<1>19. Read(c)
  BY <1>18 DEF Read
<1> QED BY <1>1, <1>3, <1>17, <1>19, RunningStep

\* Between two calls only the source and what the caller holds can change.
LEMMA IdleStep ==
  ASSUME CrawlIInv, call' = Waiting, shown' = <<>>, setup' = setup, listing' \in Listings,
         gone \subseteq gone', gone' \subseteq Page, content' \in [Page -> Edit],
         pages' \in [CrawlDay -> [Row -> Edit \cup {None}]], today' \in CrawlDay,
         held' \in [got : SUBSET Result, owed : SUBSET (Row \ Linkless)],
         Ids(held'.got) \cap held'.owed = {}, Justified(held'.got)
  PROVE  CrawlIInv'
<1>1. CrawlTypeOK'
  BY WaitingIs DEF CrawlIInv, CrawlTypeOK, Page, Linked
<1>2. Waiting' = Waiting
  BY DEF Waiting
<1>3. CallInv'
  BY <1>2, WaitingIs DEF CallInv, Ids
<1>4. ReadInv'
  BY WaitingIs DEF ReadInv
<1>5. Justified(held.got)'
  BY DEF Justified, Gone
<1>6. RecordInv'
  BY <1>5, WaitingIs DEF RecordInv, Justified, Ids
<1> QED BY <1>1, <1>3, <1>4, <1>6 DEF CrawlIInv

LEMMA NowIs ==
  ASSUME CrawlIInv
  PROVE  /\ setup \in Setups /\ listing \in Listings /\ gone \subseteq Page /\ content \in [Page -> Edit]
         /\ pages \in [CrawlDay -> [Row -> Edit \cup {None}]] /\ today \in CrawlDay
         /\ held \in [got : SUBSET Result, owed : SUBSET (Row \ Linkless)]
         /\ Ids(held.got) \cap held.owed = {} /\ Justified(held.got)
         /\ call = Waiting <=> shown = <<>>
         /\ call = Waiting <=> call.pc = "idle"
  BY DEF CrawlIInv, CrawlTypeOK, CallInv, RecordInv

LEMMA RelistStep ==
  ASSUME CrawlIInv, NEW l \in Listings, Relist(l)
  PROVE  CrawlIInv'
<1>1. CASE call = Waiting
  BY <1>1, NowIs, IdleStep DEF Relist
<1>2. CASE call # Waiting
  <2>1. /\ call.pc = "crawl" /\ call.page # None /\ ~call.retry /\ shown # <<>>
        /\ shown \in [items : SUBSET Row, steady : BOOLEAN]
    BY <1>2, NowIs, CallIs DEF Relist, CrawlIInv, CallInv
  <2>2. /\ shown' = [items |-> shown.items \cup Accountable(l), steady |-> FALSE] /\ listing' = l
        /\ UNCHANGED <<setup, content, gone, pages, call, held, today>>
    BY <2>1 DEF Relist
  <2>3. l \in Seq(Row)
    BY CrawlAssumption
  <2>4. Accountable(l) \in SUBSET Row /\ Accountable(listing)' = Accountable(l)
    BY <2>2, <2>3 DEF Accountable, RowsOf, Linked
  <2>5. CrawlTypeOK'
    BY <2>2 DEF CrawlIInv, CrawlTypeOK, Page
  <2>6. /\ shown' \in [items : SUBSET Row, steady : BOOLEAN] /\ shown'.items = shown.items \cup Accountable(l)
        /\ ~shown'.steady /\ shown' # <<>>
    BY <2>1, <2>2, <2>4
  <2>7. CallInv'
    BY <1>2, <2>1, <2>2, <2>4, <2>6 DEF CrawlIInv, CallInv, Waiting, Ids
  <2>8. ReadInv'
    BY <2>6 DEF ReadInv
  <2>9. RecordInv'
    BY <2>2 DEF CrawlIInv, RecordInv, Justified, Gone, Ids
  <2> QED BY <2>5, <2>7, <2>8, <2>9 DEF CrawlIInv
<1> QED BY <1>1, <1>2

LEMMA SourceStep ==
  ASSUME CrawlIInv, SourceChanges
  PROVE  CrawlIInv'
<1>1. CASE \E l \in Listings : Relist(l)
  BY <1>1, RelistStep
<1>2. ASSUME NEW p \in Page, EditDetail(p) PROVE CrawlIInv'
  <2>1. content[p] + 1 \in Edit /\ content \in [Page -> Edit]
    BY <1>2, NowIs, BoundsAre DEF EditDetail, Edit
  <2>2. content' \in [Page -> Edit]
    BY <1>2, <2>1 DEF EditDetail
  <2> QED BY <1>2, <2>2, NowIs, IdleStep DEF EditDetail
<1>3. ASSUME NEW p \in Page, RemoveDetail(p) PROVE CrawlIInv'
  BY <1>3, NowIs, IdleStep DEF RemoveDetail
<1>4. CASE NextDay
  <2>1. today' \in CrawlDay
    BY <1>4, NowIs, BoundsAre DEF NextDay, CrawlDay
  <2> QED BY <1>4, <2>1, NowIs, IdleStep DEF NextDay
<1> QED BY <1>1, <1>2, <1>3, <1>4 DEF SourceChanges

\* A call has begun: nothing was read, a call for owed pages asks for those.
LEMMA BegunStep ==
  ASSUME CrawlIInv, call = Waiting, NEW c \in Call, call' = c, c.pc = "crawl", c.page \in {None, 1},
         c.requests = c.expected, c.permanent = {}, c.records = {}, c.complete = FALSE,
         c.retry => c.page = None /\ c.expected = held.owed, ~c.retry => c.expected = {},
         shown' = [items |-> Accountable(listing), steady |-> TRUE],
         UNCHANGED <<setup, listing, content, gone, pages, held, today>>
  PROVE  CrawlIInv'
<1>1. c.expected \in SUBSET (Row \ Linkless) /\ c.retry \in BOOLEAN
  BY DEF Call
<1>4. Accountable(listing) \in SUBSET Row /\ Accountable(listing)' = Accountable(listing)
  BY ListingIs DEF Accountable, RowsOf, Linked
<1>5. /\ shown' \in [items : SUBSET Row, steady : BOOLEAN] /\ shown'.items = Accountable(listing)
      /\ shown' # <<>> /\ Waiting' = Waiting
  BY <1>4 DEF Waiting
<1>6. CrawlTypeOK'
  BY DEF CrawlIInv, CrawlTypeOK, Page
<1>7. CallInv'
  BY <1>1, <1>4, <1>5, WaitingIs DEF CallInv, Ids
<1>8. ReadInv'
  <2>1. c.page # None => c.page = 1 /\ ~c.retry
    OBVIOUS
  <2>2. ASSUME c.page # None, NextLink PROVE Before' = (1 - 1) * PageSize
    BY <2>1, <2>2 DEF Before, NextLink
  <2>3. DOMAIN listing \cap 1..((1 - 1) * PageSize) = {}
    BY ListingIs, BoundsAre
  <2>4. NextLink' <=> NextLink
    BY DEF NextLink
  <2> QED BY <2>1, <2>2, <2>3, <2>4 DEF ReadInv
<1>9. RecordInv'
  BY DEF CrawlIInv, RecordInv, Justified, Gone, Ids
<1> QED BY <1>6, <1>7, <1>8, <1>9 DEF CrawlIInv

LEMMA StartStep ==
  ASSUME CrawlIInv, StartCrawl \/ StartOwed
  PROVE  CrawlIInv'
<1> DEFINE c == IF StartCrawl THEN [Waiting EXCEPT !.pc = "crawl", !.page = 1]
                ELSE [Waiting EXCEPT !.pc = "crawl", !.retry = TRUE, !.expected = held.owed, !.requests = held.owed]
<1>1. held.owed \in SUBSET (Row \ Linkless)
  BY NowIs
<1>2. call' = c /\ call = Waiting /\ shown' = [items |-> Accountable(listing), steady |-> TRUE]
  BY DEF StartCrawl, StartOwed
<1>3. UNCHANGED <<setup, listing, content, gone, pages, held, today>>
  BY DEF StartCrawl, StartOwed
<1>4. c \in Call /\ c.pc = "crawl" /\ c.permanent = {} /\ c.records = {} /\ c.complete = FALSE
  BY <1>1, WaitingIs, BoundsAre DEF Call
<1>5. c.page \in {None, 1} /\ c.requests = c.expected
  BY <1>1, WaitingIs DEF Call
<1>6. (c.retry => c.page = None /\ c.expected = held.owed) /\ (~c.retry => c.expected = {})
  BY <1>1, WaitingIs DEF Call
<1> HIDE DEF c
<1> QED BY <1>2, <1>3, <1>4, <1>5, <1>6, BegunStep

LEMMA IdsOfBoth ==
  ASSUME NEW a, NEW b
  PROVE  Ids(a \cup b) = Ids(a) \cup Ids(b)
<1>1. Ids(a) \subseteq Ids(a \cup b) /\ Ids(b) \subseteq Ids(a \cup b)
  BY DEF Ids
<1>2. ASSUME NEW x \in Ids(a \cup b) PROVE x \in Ids(a) \cup Ids(b)
  <2>1. PICK rec \in a \cup b : x = rec.id
    BY DEF Ids
  <2> QED BY <2>1 DEF Ids
<1> QED BY <1>1, <1>2

\* The result of a call: no record is owed, and those with list data only are
\* those of pages the source has given up or does not require.
LEMMA CrawledIs ==
  ASSUME CrawlIInv
  PROVE  /\ Crawled \in [got : SUBSET Result, owed : SUBSET (Row \ Linkless)]
         /\ Ids(Crawled.got) = (IF call.retry THEN Ids(held.got) ELSE {}) \cup Ids(call.records) \cup call.permanent
         /\ Crawled.owed = call.expected \ (Ids(call.records) \cup call.permanent)
         /\ Justified(Crawled.got)
<1> DEFINE noted   == call.permanent \ Ids(call.records)
           records == call.records \cup ListOnly(noted)
           got     == IF call.retry THEN held.got \cup records ELSE records
<1>1. noted \in SUBSET Row
  BY CallIs
<1>2. /\ ListOnly(noted) \in SUBSET Result /\ Ids(ListOnly(noted)) = noted
      /\ \A rec \in ListOnly(noted) : rec.page = None /\ rec.id \in noted
  BY <1>1, ListOnlyIs
<1>3. Ids(held.got \cup records) = Ids(held.got) \cup Ids(records)
  BY IdsOfBoth
<1>4. Ids(records) = Ids(call.records) \cup call.permanent
  <2>1. Ids(records) = Ids(call.records) \cup Ids(ListOnly(noted))
    BY IdsOfBoth
  <2> QED BY <1>2, <2>1
<1>5. records \in SUBSET Result /\ got \in SUBSET Result
  BY <1>2, CallIs
<1>6. Justified(call.records) /\ Justified(held.got) /\ Justified(ListOnly(noted))
  BY <1>2 DEF CrawlIInv, RecordInv, Justified
<1>7. Justified(got)
  BY <1>6 DEF Justified
<1>8. Crawled = [got |-> got, owed |-> call.expected \ Ids(records)]
  BY DEF Crawled
<1>9. Ids(got) = (IF call.retry THEN Ids(held.got) ELSE {}) \cup Ids(call.records) \cup call.permanent
  BY <1>3, <1>4
<1> HIDE DEF noted, records, got
<1> QED BY <1>4, <1>5, <1>7, <1>8, <1>9, CallIs

LEMMA ReturnStep ==
  ASSUME CrawlIInv, ReturnCrawl \/ RaiseCrawl
  PROVE  CrawlIInv'
<1>1. CASE ReturnCrawl
  <2>1. Ids(Crawled.got) \cap Crawled.owed = {}
    <3>1. call.retry => call.expected = held.owed /\ Ids(held.got) \cap held.owed = {}
      BY DEF CrawlIInv, CallInv, RecordInv
    <3> QED BY <3>1, CrawledIs
  <2> QED BY <1>1, <2>1, CrawledIs, NowIs, IdleStep DEF ReturnCrawl
<1>2. CASE RaiseCrawl
  BY <1>2, NowIs, IdleStep DEF RaiseCrawl
<1> QED BY <1>1, <1>2

LEMMA CrawlStep ==
  ASSUME CrawlIInv, [CrawlNext]_crawlVars
  PROVE  CrawlIInv'
<1>1. CASE SourceChanges
  BY <1>1, SourceStep
<1>2. CASE Crawling
  <2>1. CASE StartCrawl \/ StartOwed
    BY <2>1, StartStep
  <2>2. CASE ReturnCrawl \/ RaiseCrawl
    BY <2>2, ReturnStep
  <2>3. CASE ListingFailed \/ ListingPage \/ SavedListing
    BY <2>3, ListingFailedStep, ListingPageStep, SavedListingStep
  <2>4. CASE \E r \in Row : DetailArrives(r) \/ DetailFromDisk(r) \/ DetailFailed(r) \/ DetailRaises(r)
    BY <2>4, DetailArrivesStep, DetailFailedStep, DetailRaisesStep
  <2> QED BY <1>2, <2>1, <2>2, <2>3, <2>4 DEF Crawling
<1>3. CASE UNCHANGED crawlVars
  BY <1>3 DEF crawlVars, CrawlIInv, CrawlTypeOK, CallInv, ReadInv, RecordInv, Page, Ids, Justified, Gone,
       Waiting, NextLink, Before, Accountable, RowsOf, Linked
<1> QED BY <1>1, <1>2, <1>3 DEF CrawlNext

LEMMA CrawlStarts ==
  ASSUME CrawlInit
  PROVE  CrawlIInv
<1>1. /\ setup \in Setups /\ listing \in Listings /\ content = [p \in Page |-> 1] /\ gone = {}
      /\ pages = [d \in CrawlDay |-> [r \in Row |-> None]]
      /\ call = Waiting /\ held = [got |-> {}, owed |-> {}] /\ today = 1 /\ shown = <<>>
  BY DEF CrawlInit
<1>2. CrawlTypeOK
  BY <1>1, BoundsAre, WaitingIs DEF CrawlTypeOK
<1>3. CallInv /\ ReadInv
  BY <1>1, WaitingIs DEF CallInv, ReadInv, Ids
<1>4. RecordInv
  BY <1>1, WaitingIs DEF RecordInv, Justified, Ids
<1> QED BY <1>2, <1>3, <1>4 DEF CrawlIInv

\* The invariant of a crawl: what a running call has read was listed since it
\* began, a next-link listing that stood still is read from its front without a
\* gap, and what the caller holds is never owed as well.
THEOREM CrawlInductive == CrawlSpec => []CrawlIInv
<1>1. CrawlInit => CrawlIInv
  BY CrawlStarts
<1>2. CrawlIInv /\ [CrawlNext]_crawlVars => CrawlIInv'
  BY CrawlStep
<1> QED BY <1>1, <1>2, PTL DEF CrawlSpec

\* A required detail page is missing from a record that the caller holds only when
\* the source has given the page up: failed requests, callbacks that raise and
\* killed processes never cost a member its details.
THEOREM MissingPagesAreGone == CrawlSpec => []ListOnlyIsJustified
<1>1. CrawlIInv => ListOnlyIsJustified
  BY DEF CrawlIInv, RecordInv, ListOnlyIsJustified
<1> QED BY <1>1, CrawlInductive, PTL

(***************************************************************************)
(* Crawl implements AtomicCrawl                                            *)
(***************************************************************************)
LEMMA AtomicStarts ==
  ASSUME CrawlInit
  PROVE  Atomic!Init
<1>1. CrawlIInv
  BY CrawlStarts
<1>2. Accountable(listing) \in SUBSET Row /\ (~NextLink) \in BOOLEAN
  BY <1>1, ListingIs DEF NextLink
<1>3. held = [got |-> {}, owed |-> {}] /\ shown = <<>>
  BY DEF CrawlInit
<1>4. Ids(held.got) = {} /\ held.owed = {}
  BY <1>3 DEF Ids
<1> QED BY <1>2, <1>3, <1>4 DEF Atomic!Init, Atomic!Between

\* What AtomicCrawl sees of a crawl: the reading of pages, changes of detail pages
\* and the passing of days are none of its steps.
LEMMA UnseenStep ==
  ASSUME UNCHANGED <<setup, listing, held, shown>>
  PROVE  UNCHANGED Atomic!vars
  BY DEF Atomic!vars, Accountable, RowsOf, Linked, NextLink, Ids

LEMMA RelistSeen ==
  ASSUME CrawlIInv, NEW l \in Listings, Relist(l)
  PROVE  Atomic!Next
<1>1. CrawlIInv'
  BY RelistStep
<1>2. listing' \in Seq(Row) /\ listing' = l
  BY CrawlAssumption DEF Relist
<1>3. /\ shown' = IF shown = <<>> THEN shown
                  ELSE [items |-> shown.items \cup Accountable(l), steady |-> FALSE]
      /\ UNCHANGED <<setup, held>>
  BY DEF Relist
<1>4. Accountable(listing)' = Accountable(l) /\ Accountable(l) \in SUBSET Row
  BY <1>2, <1>3 DEF Accountable, RowsOf, Linked
<1>5. UNCHANGED <<Ids(held.got), held.owed, ~NextLink>>
  BY <1>3 DEF Ids, NextLink
<1>6. Atomic!Relist
  BY <1>3, <1>4, <1>5 DEF Atomic!Relist, Atomic!Between
<1> QED BY <1>6 DEF Atomic!Next

LEMMA StartSeen ==
  ASSUME CrawlIInv, StartCrawl \/ StartOwed
  PROVE  Atomic!Next
<1>1. /\ shown = <<>> /\ shown' = [items |-> Accountable(listing), steady |-> TRUE]
      /\ UNCHANGED <<setup, listing, held>>
  BY NowIs DEF StartCrawl, StartOwed
<1>2. UNCHANGED <<Accountable(listing), Ids(held.got), held.owed, ~NextLink>>
  BY <1>1 DEF Accountable, RowsOf, Linked, Ids, NextLink
<1>3. Atomic!Call
  BY <1>1, <1>2 DEF Atomic!Call, Atomic!Between
<1> QED BY <1>3 DEF Atomic!Next

LEMMA RaiseSeen ==
  ASSUME CrawlIInv, RaiseCrawl
  PROVE  Atomic!Next
<1>1. shown # <<>> /\ shown' = <<>> /\ UNCHANGED <<setup, listing, held>>
  BY NowIs DEF RaiseCrawl
<1>2. UNCHANGED <<Accountable(listing), Ids(held.got), held.owed, ~NextLink>>
  BY <1>1 DEF Accountable, RowsOf, Linked, Ids, NextLink
<1>3. Atomic!Raise
  BY <1>1, <1>2 DEF Atomic!Raise, Atomic!Between
<1> QED BY <1>3 DEF Atomic!Next

\* A listing with next links is returned only when all of its pages were read.
LEMMA ReturnSeen ==
  ASSUME CrawlIInv, ReturnCrawl
  PROVE  Atomic!Next
<1>1. /\ call.pc = "crawl" /\ ~Incomplete /\ held' = Crawled /\ shown' = <<>>
      /\ UNCHANGED <<setup, listing>>
  BY DEF ReturnCrawl, Over
<1>2. shown # <<>>
  BY <1>1, NowIs
<1>3. UNCHANGED <<Accountable(listing), ~NextLink>>
  BY <1>1 DEF Accountable, RowsOf, Linked, NextLink
<1>4. /\ Ids(held.got)' = (IF call.retry THEN Ids(held.got) ELSE {}) \cup Ids(call.records) \cup call.permanent
      /\ held'.owed = call.expected \ (Ids(call.records) \cup call.permanent)
  <2>1. Ids(held.got)' = Ids(Crawled.got)
    BY <1>1 DEF Ids
  <2> QED BY <1>1, <2>1, CrawledIs
<1>5. call.permanent \subseteq call.expected
  BY CallIs
<1>6. Runs(call) /\ Read(call)
  BY <1>1, ReadNow
<1>7. CASE call.retry
  <2>1. call.expected = held.owed /\ Ids(call.records) \subseteq held.owed /\ Ids(held.got) \cap held.owed = {}
    BY <1>6, <1>7, NowIs DEF Runs
  <2>2. /\ Ids(held.got) \subseteq Ids(held.got)' /\ Ids(held.got)' \cap held'.owed = {}
        /\ Ids(held.got)' \cup held'.owed = Ids(held.got) \cup held.owed
    BY <1>4, <1>5, <1>7, <2>1
  <2>3. Atomic!ReturnOwed
    BY <1>1, <1>2, <1>3, <2>2 DEF Atomic!ReturnOwed, Atomic!Between
  <2> QED BY <2>3 DEF Atomic!Next
<1>8. CASE ~call.retry
  <2>1. call.expected \cup Ids(call.records) \subseteq shown.items
    BY <1>6, <1>8 DEF Runs
  <2>2. /\ Ids(held.got)' \cap held'.owed = {}
        /\ Ids(held.got)' \cup held'.owed = call.expected \cup Ids(call.records)
    BY <1>4, <1>5, <1>8
  <2>3. ASSUME NextLink, shown.steady
        PROVE  Ids(held.got)' \cup held'.owed = Accountable(listing)
    <3>1. Ids(call.records) \subseteq call.expected
      BY <1>6, <2>3, NextLinkIs DEF Runs
    <3>2. call.complete
      BY <1>1, <1>8, <2>3 DEF Incomplete
    <3>3. call.expected = Accountable(listing)
      BY <1>6, <1>8, <2>3, <3>2 DEF Read
    <3> QED BY <2>2, <3>1, <3>3
  <2>4. Atomic!Return
    BY <1>1, <1>2, <1>3, <2>1, <2>2, <2>3 DEF Atomic!Return, Atomic!Between
  <2> QED BY <2>4 DEF Atomic!Next
<1> QED BY <1>7, <1>8

LEMMA AtomicStep ==
  ASSUME CrawlIInv, [CrawlNext]_crawlVars
  PROVE  [Atomic!Next]_Atomic!vars
<1>1. CASE \E l \in Listings : Relist(l)
  BY <1>1, RelistSeen
<1>2. CASE StartCrawl \/ StartOwed
  BY <1>2, StartSeen
<1>3. CASE ReturnCrawl
  BY <1>3, ReturnSeen
<1>4. CASE RaiseCrawl
  BY <1>4, RaiseSeen
<1>5. CASE NextDay \/ ListingFailed \/ ListingPage \/ SavedListing \/ UNCHANGED crawlVars
  <2>1. UNCHANGED <<setup, listing, held, shown>>
    BY <1>5 DEF NextDay, ListingFailed, ListingPage, SavedListing, crawlVars
  <2> QED BY <2>1, UnseenStep
<1>6. ASSUME NEW p \in Page, EditDetail(p) \/ RemoveDetail(p)
      PROVE  UNCHANGED Atomic!vars
  <2>1. UNCHANGED <<setup, listing, held, shown>>
    BY <1>6 DEF EditDetail, RemoveDetail
  <2> QED BY <2>1, UnseenStep
<1>7. ASSUME NEW r \in Row, DetailArrives(r) \/ DetailFromDisk(r) \/ DetailFailed(r) \/ DetailRaises(r)
      PROVE  UNCHANGED Atomic!vars
  <2>1. UNCHANGED <<setup, listing, held, shown>>
    BY <1>7 DEF DetailArrives, DetailFromDisk, DetailFailed, DetailRaises
  <2> QED BY <2>1, UnseenStep
<1> QED BY <1>1, <1>2, <1>3, <1>4, <1>5, <1>6, <1>7 DEF CrawlNext, SourceChanges, Crawling

\* For its caller a crawl is one step: whatever fails, raises or changes while it
\* runs, the rows it returns were listed meanwhile, each has a record or is owed,
\* of a listing with next links that stood still none is missing, and a call for
\* owed pages gives up nothing of what the caller had.
THEOREM CrawlIsAtomic == CrawlSpec => ImplementsAtomicCrawl
<1>1. CrawlInit => Atomic!Init
  BY AtomicStarts
<1>2. CrawlIInv /\ [CrawlNext]_crawlVars => [Atomic!Next]_Atomic!vars
  BY AtomicStep
<1> QED BY <1>1, <1>2, CrawlInductive, PTL DEF CrawlSpec, ImplementsAtomicCrawl, Atomic!Spec

(***************************************************************************)
(* Download                                                                *)
(***************************************************************************)
LEMMA EditionsAre ==
  /\ MaxEdition \in Nat /\ 1 \in Edition /\ Chunks \in Nat /\ Chunks > 0 /\ Attempts \in Nat /\ Attempts > 0
  /\ Edition \in SUBSET Nat
  BY DownloadAssumption DEF Edition

\* The newest edition is one of those offered, and none is newer.
LEMMA NewestIs ==
  ASSUME NEW s \in Seq(Edition), s # <<>>
  PROVE  /\ Newest(s) \in Edition /\ \E i \in DOMAIN s : s[i] = Newest(s)
         /\ \A i \in DOMAIN s : s[i] <= Newest(s)
<1> DEFINE offered == {s[i] : i \in DOMAIN s}
<1>1. \A i \in DOMAIN s : s[i] \in Edition
  OBVIOUS
<1>2. 1 \in DOMAIN s
  <2>1. Len(s) \in Nat /\ Len(s) # 0 /\ DOMAIN s = 1..Len(s)
    BY EmptySeq
  <2> QED BY <2>1
<1>3. offered \in SUBSET Nat /\ offered # {} /\ \A e \in offered : e <= MaxEdition
  BY <1>1, <1>2, EditionsAre DEF Edition
<1>4. \E e \in offered : \A f \in offered : f <= e
  BY <1>3, EditionsAre, GreatestNatural
<1>5. Newest(s) \in offered /\ \A f \in offered : f <= Newest(s)
  BY <1>4 DEF Newest
<1> QED BY <1>1, <1>5

Piece == Edition \X (1..Chunks)

\* The pieces of an edition up to the n-th, and one more.
LEMMA PiecesGrow ==
  ASSUME NEW e \in Edition, NEW n \in Nat, n < Chunks
  PROVE  /\ [i \in 1..n |-> <<e, i>>] \in Seq(Piece) /\ <<e, n + 1>> \in Piece
         /\ Append([i \in 1..n |-> <<e, i>>], <<e, n + 1>>) = [i \in 1..(n + 1) |-> <<e, i>>]
         /\ [i \in 1..(n + 1) |-> <<e, i>>] \in Seq(Piece)
<1>1. \A i \in 1..n : <<e, i>> \in Piece
  BY EditionsAre DEF Piece
<1>2. <<e, n + 1>> \in Piece
  BY EditionsAre DEF Piece
<1> DEFINE s == [i \in 1..n |-> <<e, i>>]
<1>3. s \in Seq(Piece) /\ Len(s) = n
  BY <1>1
<1>4. \A i \in 1..n : s[i] = <<e, i>>
  OBVIOUS
<1> HIDE DEF s
<1>5. /\ Append(s, <<e, n + 1>>) \in Seq(Piece) /\ Len(Append(s, <<e, n + 1>>)) = n + 1
      /\ \A i \in 1..n : Append(s, <<e, n + 1>>)[i] = <<e, i>>
      /\ Append(s, <<e, n + 1>>)[n + 1] = <<e, n + 1>>
  BY <1>2, <1>3, <1>4
<1> DEFINE t == Append(s, <<e, n + 1>>)
<1>6. t \in [1..(n + 1) -> Piece] /\ \A i \in 1..(n + 1) : t[i] = <<e, i>>
  <2> HIDE DEF t
  <2>1. t \in Seq(Piece) /\ Len(t) = n + 1 /\ t[n + 1] = <<e, n + 1>> /\ \A i \in 1..n : t[i] = <<e, i>>
    BY <1>5 DEF t
  <2>2. DOMAIN t = 1..(n + 1)
    BY <2>1
  <2>3. \A i \in 1..(n + 1) : i \in 1..n \/ i = n + 1
    OBVIOUS
  <2> QED BY <2>1, <2>2, <2>3
<1>7. t = [i \in 1..(n + 1) |-> <<e, i>>]
  BY <1>6
<1> QED BY <1>2, <1>3, <1>5, <1>7 DEF s

LEMMA DownloadIs ==
  ASSUME DownloadIInv
  PROVE  /\ resolver \in Resolvers /\ catalogue \in Seq(Edition) /\ catalogue # <<>>
         /\ fetch \in Fetch /\ fetch.pc \in {"idle", "request", "body"} /\ fetch.edition \in Edition
         /\ fetch.attempt \in 0..Attempts /\ fetch.received \in 0..Chunks /\ newest \in Edition
         /\ files \in Seq(Seq(Piece)) /\ Len(files) \in Nat /\ delivered \in 0..Len(files)
         /\ Newest(catalogue) \in Edition
         /\ newest <= Newest(catalogue)
         /\ fetch.pc = "idle" <=> fetch = NoFetch
         /\ fetch.pc # "idle" => /\ Len(files) \in 1..Len(files) /\ delivered = 0
                                 /\ resolver # "link_text" => fetch.edition >= newest
<1>1. /\ resolver \in Resolvers /\ catalogue \in Seq(Edition) /\ catalogue # <<>>
      /\ fetch \in Fetch /\ newest \in Edition /\ files \in Seq(Seq(Piece)) /\ delivered \in 0..Len(files)
      /\ newest <= Newest(catalogue)
      /\ fetch.pc = "idle" <=> fetch = NoFetch
      /\ fetch.pc # "idle" => files # <<>> /\ delivered = 0 /\ (resolver # "link_text" => fetch.edition >= newest)
  BY DEF DownloadIInv, DownloadTypeOK, Piece
<1>2. /\ fetch.pc \in {"idle", "request", "body"} /\ fetch.edition \in Edition
      /\ fetch.attempt \in 0..Attempts /\ fetch.received \in 0..Chunks
  BY <1>1 DEF Fetch
<1>3. Len(files) \in Nat
  BY <1>1
<1>4. files # <<>> => Len(files) > 0
  BY <1>1, EmptySeq
<1>5. Newest(catalogue) \in Edition
  BY <1>1, NewestIs
<1> QED BY <1>1, <1>2, <1>3, <1>4, <1>5

LEMMA NoFetchIs ==
  /\ NoFetch \in Fetch /\ NoFetch.pc = "idle"
  BY EditionsAre DEF NoFetch, Fetch

\* Which edition a request answers with: never one older than the newest there was
\* when the download began, unless a page is read from its front.
LEMMA ResolvedIs ==
  ASSUME DownloadIInv
  PROVE  Resolved \in Edition /\ (resolver # "link_text" => Resolved = Newest(catalogue))
<1>1. catalogue \in Seq(Edition) /\ catalogue # <<>>
  BY DownloadIs
<1>2. Head(catalogue) \in Edition
  BY <1>1
<1> QED BY <1>2, DownloadIs DEF Resolved

LEMMA PublishStep ==
  ASSUME DownloadIInv, Publish
  PROVE  DownloadIInv'
<1> DEFINE e == Newest(catalogue) + 1
<1>1. /\ catalogue \in Seq(Edition) /\ e \in Edition /\ newest \in Edition /\ newest <= e /\ e \in Nat
      /\ UNCHANGED <<resolver, fetch, files, delivered, newest>>
  <2>1. Newest(catalogue) \in Edition /\ newest \in Edition /\ newest <= Newest(catalogue)
    BY DownloadIs
  <2> QED BY <2>1, DownloadIs, EditionsAre DEF Publish, Edition
<1>2. catalogue' \in {<<e>> \o catalogue, Append(catalogue, e), <<e>>}
  BY DEF Publish
<1> HIDE DEF e
<1>3. catalogue' \in Seq(Edition) /\ \E i \in DOMAIN catalogue' : catalogue'[i] = e
  <2>1. CASE catalogue' = <<e>> \o catalogue
    <3>1. /\ <<e>> \in Seq(Edition) /\ Len(<<e>>) = 1 /\ <<e>>[1] = e /\ Len(catalogue) \in Nat
      BY <1>1
    <3>2. <<e>> \o catalogue \in Seq(Edition) /\ Len(<<e>> \o catalogue) = 1 + Len(catalogue)
          /\ (<<e>> \o catalogue)[1] = e
      BY <1>1, <3>1, ConcatProperties
    <3>3. 1 \in DOMAIN (<<e>> \o catalogue)
      BY <3>1, <3>2
    <3> QED BY <2>1, <3>2, <3>3
  <2>2. CASE catalogue' = Append(catalogue, e)
    <3>1. /\ Append(catalogue, e) \in Seq(Edition) /\ Len(catalogue) \in Nat
          /\ Len(Append(catalogue, e)) = Len(catalogue) + 1 /\ Append(catalogue, e)[Len(catalogue) + 1] = e
      BY <1>1, AppendProperties
    <3>2. Len(catalogue) + 1 \in DOMAIN Append(catalogue, e)
      BY <3>1
    <3> QED BY <2>2, <3>1, <3>2
  <2>3. CASE catalogue' = <<e>>
    BY <1>1, <2>3
  <2> QED BY <1>2, <2>1, <2>2, <2>3
<1>4. catalogue' # <<>>
  BY <1>3, EmptySeq
<1>5. e <= Newest(catalogue') /\ Newest(catalogue') \in Edition
  BY <1>3, <1>4, NewestIs
<1>6. newest' <= Newest(catalogue)'
  <2>1. newest \in Nat /\ e \in Nat /\ Newest(catalogue') \in Nat
    BY <1>1, <1>5, EditionsAre
  <2>2. newest <= Newest(catalogue')
    BY <1>1, <1>5, <2>1
  <2> QED BY <1>1, <2>2
<1> QED BY <1>1, <1>3, <1>4, <1>6 DEF DownloadIInv, DownloadTypeOK, DownloadIsOneAnswer, NoFetch

\* Nothing on disk or offered changes, and a running download keeps its edition.
LEMMA QuietStep ==
  ASSUME DownloadIInv, fetch' \in Fetch, fetch' # fetch \/ fetch' = NoFetch,
         UNCHANGED <<resolver, catalogue, files, newest>>, delivered' = 0 \/ delivered' = delivered,
         fetch'.pc # "body", fetch'.pc = "idle" => fetch' = NoFetch,
         fetch'.pc # "idle" => fetch.pc # "idle" /\ fetch'.edition = fetch.edition /\ delivered' = 0
  PROVE  DownloadIInv'
<1>1. DownloadTypeOK'
  BY DownloadIs DEF DownloadIInv, DownloadTypeOK
<1>2. DownloadIsOneAnswer'
  BY DEF DownloadIInv, DownloadIsOneAnswer
<1>3. NoFetch' = NoFetch
  BY DEF NoFetch
<1> QED BY <1>1, <1>2, <1>3, NoFetchIs DEF DownloadIInv

LEMMA AttemptStep ==
  ASSUME DownloadIInv, AttemptFails \/ DownloadFails
  PROVE  DownloadIInv'
<1>1. CASE AttemptFails
  <2>1. fetch.attempt + 1 \in 0..Attempts
    BY <1>1, DownloadIs, EditionsAre DEF AttemptFails
  <2>2. /\ fetch' = [fetch EXCEPT !.pc = "request", !.attempt = @ + 1] /\ fetch.pc # "idle"
        /\ UNCHANGED <<resolver, catalogue, files, delivered, newest>>
    BY <1>1 DEF AttemptFails
  <2>3. fetch' \in Fetch /\ fetch'.pc = "request" /\ fetch'.edition = fetch.edition
    BY <2>1, <2>2, DownloadIs DEF Fetch
  <2>4. fetch'.attempt # fetch.attempt
    BY <2>1, <2>2, DownloadIs DEF Fetch
  <2> QED BY <2>2, <2>3, <2>4, DownloadIs, QuietStep
<1>2. CASE DownloadFails
  BY <1>2, NoFetchIs, QuietStep DEF DownloadFails
<1> QED BY <1>1, <1>2

LEMMA StartDownloadStep ==
  ASSUME DownloadIInv, StartDownload
  PROVE  DownloadIInv'
<1>1. /\ fetch' = [pc |-> "request", edition |-> Resolved, attempt |-> 1, received |-> 0]
      /\ files' = Append(files, <<>>) /\ delivered' = 0 /\ newest' = Newest(catalogue)
      /\ UNCHANGED <<resolver, catalogue>>
  BY DEF StartDownload
<1>2. fetch' \in Fetch /\ fetch'.pc = "request" /\ fetch'.edition = Resolved
  BY <1>1, ResolvedIs, EditionsAre DEF Fetch
<1>3. /\ files' \in Seq(Seq(Piece)) /\ Len(files') = Len(files) + 1 /\ Len(files) \in Nat
  <2>1. <<>> \in Seq(Piece) /\ files \in Seq(Seq(Piece))
    BY DownloadIs, EmptySeq
  <2> HIDE DEF Piece
  <2> QED BY <1>1, <2>1, AppendProperties
<1>4. files' # <<>> /\ 0 \in 0..Len(files')
  BY <1>3, EmptySeq
<1>5. /\ resolver \in Resolvers /\ catalogue \in Seq(Edition) /\ catalogue # <<>>
      /\ Newest(catalogue) \in Edition /\ Newest(catalogue) <= Newest(catalogue)
  <2>1. Newest(catalogue) \in Edition
    BY DownloadIs
  <2>2. Newest(catalogue) \in Nat
    BY <2>1, EditionsAre
  <2> QED BY <2>1, <2>2, DownloadIs
<1>6. DownloadTypeOK'
  BY <1>1, <1>2, <1>3, <1>4, <1>5 DEF DownloadTypeOK, Piece
<1>7. DownloadIsOneAnswer' /\ NoFetch' = NoFetch
  BY <1>1 DEF DownloadIsOneAnswer, NoFetch
<1>8. newest' <= Newest(catalogue)'
  BY <1>1, <1>5
<1>9. resolver' # "link_text" => fetch'.edition >= newest'
  BY <1>1, <1>2, <1>5, ResolvedIs, EditionsAre
<1> QED BY <1>1, <1>2, <1>4, <1>6, <1>7, <1>8, <1>9, NoFetchIs DEF DownloadIInv

\* The file of the running download is rewritten, the others stay.
LEMMA WriteStep ==
  ASSUME DownloadIInv, fetch.pc # "idle", NEW body \in Seq(Piece),
         files' = [files EXCEPT ![Len(files)] = body],
         fetch' \in Fetch, fetch'.pc = "body",
         body = [i \in 1..fetch'.received |-> <<fetch'.edition, i>>],
         resolver # "link_text" => fetch'.edition >= newest,
         UNCHANGED <<resolver, catalogue, delivered, newest>>
  PROVE  DownloadIInv'
<1>1. files \in Seq(Seq(Piece)) /\ Len(files) \in 1..Len(files) /\ delivered = 0
  BY DownloadIs
<1>2. /\ files' \in Seq(Seq(Piece)) /\ Len(files') = Len(files) /\ files'[Len(files)] = body
  <2> HIDE DEF Piece
  <2> QED BY <1>1
<1>3. files' # <<>>
  BY <1>1, <1>2, EmptySeq
<1>4. DownloadTypeOK'
  BY <1>1, <1>2, DownloadIs DEF DownloadIInv, DownloadTypeOK, Piece
<1>5. DownloadIsOneAnswer' /\ NoFetch' = NoFetch
  BY <1>1 DEF DownloadIsOneAnswer, NoFetch
<1> QED BY <1>1, <1>2, <1>3, <1>4, <1>5, NoFetchIs DEF DownloadIInv

LEMMA BodyStep ==
  ASSUME DownloadIInv, Body
  PROVE  DownloadIInv'
<1> DEFINE e == IF resolver = "static" THEN Newest(catalogue) ELSE fetch.edition
<1>1. /\ fetch.pc = "request" /\ fetch' = [fetch EXCEPT !.pc = "body", !.received = 0, !.edition = e]
      /\ files' = [files EXCEPT ![Len(files)] = <<>>]
      /\ UNCHANGED <<resolver, catalogue, delivered, newest>>
  BY DEF Body
<1>2. e \in Edition /\ (resolver # "link_text" => e >= newest)
  BY <1>1, DownloadIs, EditionsAre
<1> HIDE DEF e
<1>3. fetch' \in Fetch /\ fetch'.pc = "body" /\ fetch'.received = 0 /\ fetch'.edition = e
  <2>1. fetch \in Fetch /\ 0 \in 0..Chunks
    BY DownloadIs, EditionsAre
  <2> QED BY <1>1, <1>2, <2>1 DEF Fetch
<1>4. <<>> \in Seq(Piece) /\ <<>> = [i \in 1..0 |-> <<e, i>>]
  BY EmptySeq
<1> QED BY <1>1, <1>2, <1>3, <1>4, WriteStep

LEMMA ChunkStep ==
  ASSUME DownloadIInv, Chunk
  PROVE  DownloadIInv'
<1> DEFINE e == fetch.edition
           n == fetch.received
<1>1. /\ fetch.pc = "body" /\ n < Chunks /\ fetch' = [fetch EXCEPT !.received = n + 1]
      /\ files' = [files EXCEPT ![Len(files)] = Append(files[Len(files)], <<e, n + 1>>)]
      /\ UNCHANGED <<resolver, catalogue, delivered, newest>>
  BY DEF Chunk
<1>2. /\ e \in Edition /\ n \in Nat /\ n + 1 \in 0..Chunks /\ (resolver # "link_text" => e >= newest)
  <2>1. e \in Edition /\ n \in 0..Chunks /\ (resolver # "link_text" => e >= newest)
    BY <1>1, DownloadIs
  <2> QED BY <1>1, <2>1, EditionsAre
<1>3. files[Len(files)] = [i \in 1..n |-> <<e, i>>]
  BY <1>1 DEF DownloadIInv
<1>4. fetch' \in Fetch /\ fetch'.pc = "body" /\ fetch'.received = n + 1 /\ fetch'.edition = e
  BY <1>1, <1>2, DownloadIs DEF Fetch
<1> HIDE DEF e, n
<1> DEFINE body == [i \in 1..(n + 1) |-> <<e, i>>]
<1>5. body \in Seq(Piece) /\ files' = [files EXCEPT ![Len(files)] = body]
  BY <1>1, <1>2, <1>3, PiecesGrow
<1>6. body = [i \in 1..fetch'.received |-> <<fetch'.edition, i>>]
  BY <1>4
<1> HIDE DEF body
<1> QED BY <1>1, <1>2, <1>4, <1>5, <1>6, WriteStep

LEMMA DownloadedStep ==
  ASSUME DownloadIInv, Downloaded
  PROVE  DownloadIInv'
<1>1. /\ fetch.pc = "body" /\ fetch.received = Chunks /\ fetch' = NoFetch /\ delivered' = Len(files)
      /\ UNCHANGED <<resolver, catalogue, files, newest>>
  BY DEF Downloaded
<1>2. /\ files[Len(files)] = [i \in 1..Chunks |-> <<fetch.edition, i>>] /\ fetch.edition \in Edition
      /\ resolver # "link_text" => fetch.edition >= newest
      /\ Len(files) \in 1..Len(files)
  BY <1>1, DownloadIs DEF DownloadIInv
<1>3. DownloadIsOneAnswer'
  BY <1>1, <1>2 DEF DownloadIsOneAnswer
<1>4. DownloadTypeOK'
  BY <1>1, <1>2, NoFetchIs DEF DownloadIInv, DownloadTypeOK
<1> QED BY <1>1, <1>3, <1>4, NoFetchIs DEF DownloadIInv, NoFetch

LEMMA DownloadStep ==
  ASSUME DownloadIInv, [DownloadNext]_downloadVars
  PROVE  DownloadIInv'
<1>1. CASE UNCHANGED downloadVars
  BY <1>1 DEF downloadVars, DownloadIInv, DownloadTypeOK, DownloadIsOneAnswer, NoFetch
<1> QED BY <1>1, PublishStep, StartDownloadStep, BodyStep, ChunkStep, DownloadedStep, AttemptStep
        DEF DownloadNext

LEMMA DownloadStarts ==
  ASSUME DownloadInit
  PROVE  DownloadIInv
<1>1. /\ resolver \in Resolvers /\ catalogue = <<1>> /\ fetch = NoFetch /\ files = <<>> /\ delivered = 0
      /\ newest = 1
  BY DEF DownloadInit
<1>2. catalogue \in Seq(Edition) /\ catalogue # <<>> /\ 1 \in DOMAIN catalogue /\ catalogue[1] = 1
  BY <1>1, EditionsAre
<1>3. newest <= Newest(catalogue)
  BY <1>1, <1>2, NewestIs
<1>4. files \in Seq(Seq(Piece)) /\ Len(files) = 0
  BY <1>1, EmptySeq
<1>5. DownloadTypeOK
  BY <1>1, <1>2, <1>4, NoFetchIs, EditionsAre DEF DownloadTypeOK, Piece
<1> QED BY <1>1, <1>3, <1>5, NoFetchIs DEF DownloadIInv, DownloadIsOneAnswer

\* The invariant of a download: while an attempt writes, its file holds what was
\* received of one answer, from the front and without a gap.
THEOREM DownloadInductive == DownloadSpec => []DownloadIInv
<1>1. DownloadInit => DownloadIInv
  BY DownloadStarts
<1>2. DownloadIInv /\ [DownloadNext]_downloadVars => DownloadIInv'
  BY DownloadStep
<1> QED BY <1>1, <1>2, PTL DEF DownloadSpec

\* A file that is handed over is the whole of one answer, however many attempts
\* wrote into it, and no older than the newest edition at the start unless the
\* address was read from the front of a page.
THEOREM HandedDownloadIsWhole == DownloadSpec => []DownloadIsOneAnswer
<1>1. DownloadIInv => DownloadIsOneAnswer
  BY DEF DownloadIInv
<1> QED BY <1>1, DownloadInductive, PTL

(***************************************************************************)
(* Bypass: the invariant                                                   *)
(***************************************************************************)
LEMMA SiteIs ==
  /\ MaxListPages \in Nat /\ SitePages \in Nat /\ MaxVersion \in Nat /\ MaxRun \in Nat
  /\ MaxListPages > 0 /\ SitePages > 0 /\ MaxVersion > 0 /\ MaxRun > 0
  BY BypassAssumption

LEMMA BypassIs ==
  ASSUME BypassIInv
  PROVE  /\ recipe \in Recipes /\ version \in 1..MaxVersion /\ version \in Nat /\ links \subseteq Popup
         /\ browse \in Browse /\ browse.step \in Nat /\ browse.step >= 1
         /\ browse.pc \in {"idle", "act", "popups", "pages", "write", "publish"}
         /\ browse.keys \in SUBSET Popup /\ browse.snapshots \in SUBSET Popup
         /\ browse.bodies \in Seq(PageBody) /\ browse.published \in 0..3
         /\ browse.saved \in FileName \cup {<<>>}
         /\ browse.pc # "idle" => browse.dom \in Dom
         /\ disk \in [DOMAIN disk -> File] /\ DOMAIN disk \subseteq FileName
         /\ runs \in 0..MaxRun /\ handed \in {<<>>} \cup DOMAIN disk
         /\ since \in [version : 1..MaxVersion, keys : SUBSET Popup, steady : BOOLEAN]
  BY DEF BypassIInv, BypassTypeOK, Browse

\* A configuration saves with its last action, and no action before it saves.
LEMMA RecipeIs ==
  ASSUME BypassIInv
  PROVE  /\ Len(recipe.actions) \in Nat /\ DOMAIN recipe.actions = 1..Len(recipe.actions)
         /\ recipe.mode \in {"safe_get", "uc_open"}
         /\ Len(recipe.actions) >= 1 /\ recipe.actions[Len(recipe.actions)] \in SaveKind
         /\ \A i \in 1..Len(recipe.actions) : recipe.actions[i] \in SaveKind => i = Len(recipe.actions)
         /\ \A i, j \in 1..Len(recipe.actions) :
              i < j /\ Prepares(recipe, recipe.actions[i]) => recipe.actions[j] \notin Reload
<1>1. recipe \in Recipes
  BY BypassIs
<1>2. /\ recipe \in Recipe
      /\ \E i \in DOMAIN recipe.actions : recipe.actions[i] \in SaveKind
      /\ \A i, j \in DOMAIN recipe.actions : i < j =>
           recipe.actions[i] \notin SaveKind /\ (Prepares(recipe, recipe.actions[i]) => recipe.actions[j] \notin Reload)
  BY <1>1, RecipesAssumption
<1>3. recipe.actions \in Seq(ActionKind) /\ recipe.mode \in {"safe_get", "uc_open"}
  BY <1>2 DEF Recipe
<1> DEFINE n == Len(recipe.actions)
<1>4. n \in Nat /\ DOMAIN recipe.actions = 1..n
  BY <1>3
<1> HIDE DEF n
<1>5. PICK i \in 1..n : recipe.actions[i] \in SaveKind
  BY <1>2, <1>4
<1>6. n >= 1 /\ n \in 1..n
  BY <1>4, <1>5
<1>7. \A k \in 1..n : recipe.actions[k] \in SaveKind => k = n
  BY <1>2, <1>4, <1>6
<1>8. recipe.actions[n] \in SaveKind
  BY <1>5, <1>7
<1> QED BY <1>2, <1>3, <1>4, <1>6, <1>7, <1>8 DEF n

\* The last action is the one that is running when something is saved.
LEMMA SavesLast ==
  ASSUME BypassIInv, browse.step <= Len(recipe.actions), Action \in SaveKind
  PROVE  browse.step = Len(recipe.actions)
  BY BypassIs, RecipeIs DEF Action

LEMMA PutIs ==
  ASSUME NEW there, there \in [DOMAIN there -> File], NEW name, NEW data \in Dom, NEW whole \in BOOLEAN
  PROVE  /\ DOMAIN Put(there, name, data, whole) = DOMAIN there \cup {name}
         /\ Put(there, name, data, whole) \in [DOMAIN Put(there, name, data, whole) -> File]
         /\ Put(there, name, data, whole)[name] = [data |-> data, whole |-> whole]
         /\ \A n \in DOMAIN there : n # name => Put(there, name, data, whole)[n] = there[n]
<1>1. [data |-> data, whole |-> whole] \in File
  BY DEF File
<1> QED BY <1>1 DEF Put

LEMMA WithoutIs ==
  ASSUME NEW there, there \in [DOMAIN there -> File], NEW names
  PROVE  /\ DOMAIN Without(there, names) = DOMAIN there \ names
         /\ Without(there, names) \in [DOMAIN Without(there, names) -> File]
         /\ \A n \in DOMAIN there \ names : Without(there, names)[n] = there[n]
  BY DEF Without

LEMMA NameIs ==
  ASSUME BypassIInv, runs > 0
  PROVE  /\ \A kind \in FileKind : Name(kind) \in FileName
         /\ \A kind : Name(kind)[1] = kind /\ Name(kind)[2] = runs
         /\ \A name \in FileName : name[1] \in FileKind /\ name[2] \in 1..MaxRun /\ name = <<name[1], name[2]>>
<1>1. runs \in 1..MaxRun
  BY BypassIs, SiteIs
<1> QED BY <1>1 DEF FileName, Name

Protected == {"save_pdf", "embed_images", "image", "source", "manifest"}

\* A set of files in which the rule of PublishedIsWhole holds.
Published(there) ==
  \A name \in DOMAIN there :
    /\ name[1] \in Protected => there[name].whole
    /\ name[1] = "image" => <<"source", name[2]>> \in DOMAIN there /\ <<"manifest", name[2]>> \in DOMAIN there

LEMMA PublishedIs == PublishedIsWhole <=> Published(disk)
  BY DEF PublishedIsWhole, Published, Protected, Holds

LEMMA PublishedPut ==
  ASSUME BypassIInv, runs > 0, NEW there, there \in [DOMAIN there -> File], Published(there),
         NEW kind \in FileKind, NEW data \in Dom, NEW whole \in BOOLEAN,
         kind \in Protected => whole = TRUE,
         kind = "image" => Name("source") \in DOMAIN there /\ Name("manifest") \in DOMAIN there
  PROVE  Published(Put(there, Name(kind), data, whole))
<1> DEFINE name == Name(kind)
           new == Put(there, name, data, whole)
<1> HIDE DEF name
<1>1. /\ DOMAIN new = DOMAIN there \cup {name} /\ new[name] = [data |-> data, whole |-> whole]
      /\ \A n \in DOMAIN there : n # name => new[n] = there[n]
  BY DEF Put
<1> HIDE DEF new
<1>2. name[1] = kind /\ name[2] = runs
  BY NameIs DEF name
<1>3. Name("source") = <<"source", runs>> /\ Name("manifest") = <<"manifest", runs>>
  BY DEF Name
<1>4. ASSUME NEW n \in DOMAIN new
      PROVE  /\ n[1] \in Protected => new[n].whole
             /\ n[1] = "image" => <<"source", n[2]>> \in DOMAIN new /\ <<"manifest", n[2]>> \in DOMAIN new
  <2>1. CASE n = name
    BY <1>1, <1>2, <1>3, <2>1
  <2>2. CASE n # name
    BY <1>1, <2>2 DEF Published
  <2> QED BY <2>1, <2>2
<1> QED BY <1>4 DEF Published, new, name

\* What holds of the files whatever the collection is doing.
Kept(there) ==
  /\ there \in [DOMAIN there -> File] /\ DOMAIN there \subseteq FileName /\ Published(there)
  /\ \A name \in DOMAIN there : name[2] <= runs

LEMMA DiskIs ==
  ASSUME BypassIInv
  PROVE  Kept(disk)
  BY PublishedIs DEF BypassIInv, BypassTypeOK, FilesInv, Kept

LEMMA KeptPut ==
  ASSUME BypassIInv, runs > 0, NEW there, Kept(there),
         NEW kind \in FileKind, NEW data \in Dom, NEW whole \in BOOLEAN,
         kind \in Protected => whole = TRUE,
         kind = "image" => Name("source") \in DOMAIN there /\ Name("manifest") \in DOMAIN there
  PROVE  /\ Kept(Put(there, Name(kind), data, whole))
         /\ DOMAIN Put(there, Name(kind), data, whole) = DOMAIN there \cup {Name(kind)}
         /\ Put(there, Name(kind), data, whole)[Name(kind)].data = data
         /\ Put(there, Name(kind), data, whole)[Name(kind)].whole = whole
<1> DEFINE new == Put(there, Name(kind), data, whole)
<1>1. there \in [DOMAIN there -> File] /\ DOMAIN there \subseteq FileName /\ Published(there)
  BY DEF Kept
<1>2. new \in [DOMAIN new -> File] /\ DOMAIN new = DOMAIN there \cup {Name(kind)}
      /\ new[Name(kind)] = [data |-> data, whole |-> whole]
  <2>1. [data |-> data, whole |-> whole] \in File
    BY DEF File
  <2> QED BY <1>1, <2>1 DEF Put
<1>3. Published(new)
  BY <1>1, PublishedPut
<1> HIDE DEF new
<1>4. Name(kind) \in FileName /\ Name(kind)[2] = runs /\ runs <= runs
  BY NameIs, BypassIs
<1>5. Kept(new)
  BY <1>1, <1>2, <1>3, <1>4 DEF Kept
<1>6. new[Name(kind)].data = data /\ new[Name(kind)].whole = whole
  BY <1>2
<1> QED BY <1>2, <1>5, <1>6 DEF new

LEMMA KeptWithout ==
  ASSUME NEW there, Kept(there), NEW names,
         \A n \in names : n[1] \in {"source", "manifest"} => <<"image", n[2]>> \notin DOMAIN there
  PROVE  /\ Kept(Without(there, names)) /\ DOMAIN Without(there, names) = DOMAIN there \ names
<1> DEFINE new == Without(there, names)
<1>1. /\ DOMAIN new = DOMAIN there \ names /\ new \in [DOMAIN new -> File]
      /\ \A n \in DOMAIN there \ names : new[n] = there[n]
  BY DEF Kept, Without
<1> HIDE DEF new
<1>2. ASSUME NEW n \in DOMAIN new
      PROVE  /\ n[1] \in Protected => new[n].whole
             /\ n[1] = "image" => <<"source", n[2]>> \in DOMAIN new /\ <<"manifest", n[2]>> \in DOMAIN new
  <2>1. n \in DOMAIN there /\ n \in FileName /\ new[n] = there[n]
    BY <1>1 DEF Kept
  <2>2. n[1] \in Protected => new[n].whole
    BY <2>1 DEF Kept, Published
  <2>3. ASSUME n[1] = "image"
        PROVE  <<"source", n[2]>> \in DOMAIN new /\ <<"manifest", n[2]>> \in DOMAIN new
    <3>1. n = <<"image", n[2]>>
      BY <2>1, <2>3 DEF FileName
    <3>2. <<"source", n[2]>> \in DOMAIN there /\ <<"manifest", n[2]>> \in DOMAIN there
      BY <2>1, <2>3 DEF Kept, Published
    <3>3. /\ <<"source", n[2]>>[1] = "source" /\ <<"source", n[2]>>[2] = n[2]
          /\ <<"manifest", n[2]>>[1] = "manifest" /\ <<"manifest", n[2]>>[2] = n[2]
      OBVIOUS
    <3>4. <<"source", n[2]>> \notin names /\ <<"manifest", n[2]>> \notin names
      BY <2>1, <3>1, <3>3
    <3> QED BY <1>1, <3>2, <3>4
  <2> QED BY <2>2, <2>3
<1>3. Published(new)
  BY <1>2 DEF Published
<1> QED BY <1>1, <1>3 DEF Kept, new

\* A step of a running collection that leaves the invariant to hold: the parts
\* that are the same for all actions.
LEMMA ActingStep ==
  ASSUME BypassIInv, browse.pc # "idle", NEW b \in Browse, browse' = b, b.pc # "idle", b.dom \in Dom, b.step >= 1,
         UNCHANGED <<recipe, version, runs, handed>>, links' \subseteq Popup,
         since' \in [version : 1..MaxVersion, keys : SUBSET Popup, steady : BOOLEAN],
         Kept(disk'), PreparedInv', SavingInv',
         b.step <= Len(recipe.actions) => ~Holds(Name("image"))' /\ b.published <= 2,
         b.saved # <<>> => Holds(b.saved)' /\ Whole(disk[b.saved])' /\ b.step > Len(recipe.actions),
         b.pc = "publish" /\ Action' = "save_image" =>
           \A i \in 1..b.published : Holds(Name(CaptureOrder[i]))'
  PROVE  BypassIInv'
<1>1. handed = <<>> /\ runs > 0
  BY DEF BypassIInv, FilesInv
<1>2. BypassTypeOK'
  BY <1>1, BypassIs DEF BypassTypeOK, Kept
<1>3. PublishedIsWhole'
  BY DEF PublishedIsWhole, Kept, Published, Protected, Holds
<1>4. HandedIsWhole'
  BY <1>1 DEF HandedIsWhole
<1>5. Closed.pc = "idle" /\ Closed' = Closed
  BY DEF Closed
<1>6. \A name \in DOMAIN disk' : name[2] <= runs'
  BY DEF Kept
<1>7. b.saved # <<>> => Holds(browse.saved)' /\ Whole(disk[browse.saved])' /\ b.step > Len(recipe.actions)
  BY DEF Holds, Whole
<1>8. FilesInv'
  BY <1>1, <1>3, <1>4, <1>5, <1>6, <1>7 DEF FilesInv
<1> QED BY <1>2, <1>8 DEF BypassIInv

LEMMA ActingIs ==
  ASSUME BypassIInv, browse.pc # "idle", browse.step <= Len(recipe.actions)
  PROVE  /\ browse.saved = <<>> /\ browse.published <= 2 /\ ~Holds(Name("image")) /\ runs > 0
         /\ browse.dom \in Dom /\ browse.dom.seen >= since.version /\ browse.dom.seen <= version
         /\ since.version <= version /\ browse.step \in 1..Len(recipe.actions)
<1>1. browse.dom \in Dom /\ browse.dom.seen \in 1..MaxVersion /\ since.version \in 1..MaxVersion
  BY BypassIs DEF Dom
<1>2. browse.dom.seen >= since.version /\ browse.dom.seen <= version
  BY DEF BypassIInv, PreparedInv
<1>3. since.version <= version
  BY <1>1, <1>2, BypassIs, SiteIs
<1>4. browse.step \in 1..Len(recipe.actions)
  BY BypassIs, RecipeIs
<1>5. browse.saved # <<>> => browse.step > Len(recipe.actions)
  BY DEF BypassIInv, FilesInv
<1>6. browse.saved = <<>>
  BY <1>4, <1>5, RecipeIs
<1> QED BY <1>1, <1>2, <1>3, <1>4, <1>6 DEF BypassIInv, FilesInv

\* The page keeps what was prepared in it, or shows the site anew when nothing was.
LEMMA PreparedStep ==
  ASSUME BypassIInv, browse.pc # "idle", browse.step <= Len(recipe.actions),
         NEW b \in Browse, browse' = b, b.dom \in Dom, b.step \in {browse.step, browse.step + 1},
         UNCHANGED <<recipe, version>>,
         since'.version = since.version, since'.steady => since.steady,
         \/ /\ b.dom.seen = browse.dom.seen /\ (browse.dom.scripted => b.dom.scripted)
            /\ \/ b.pc = "popups" \/ b.dom.profiles = since'.keys
               \/ browse.pc # "popups" /\ b.dom.profiles = browse.dom.profiles /\ since'.keys = since.keys
         \/ b.dom.seen = version /\ Action \in Reload /\ b.pc # "popups",
         b.step = browse.step + 1 =>
           /\ Reports(recipe, Action) => b.dom.scripted
           /\ Action = "collect_popup_profiles" => b.dom.profiles = since'.keys,
         b.pc = "popups" => b.step = browse.step /\ Action = "collect_popup_profiles" /\ b.keys = since'.keys
  PROVE  PreparedInv'
<1>1. /\ browse.dom \in Dom /\ browse.dom.seen >= since.version /\ browse.dom.seen <= version
      /\ since.version <= version /\ browse.step \in 1..Len(recipe.actions)
      /\ DOMAIN recipe.actions = 1..Len(recipe.actions) /\ Len(recipe.actions) \in Nat
  BY ActingIs, RecipeIs
<1>2. b.dom.seen >= since'.version /\ b.dom.seen <= version'
  <2>1. version \in Nat
    BY BypassIs
  <2> QED BY <1>1, <2>1
<1>3. since'.steady => version' = since'.version
  BY DEF BypassIInv, PreparedInv
<1>4. b.pc = "popups" => Action' = "collect_popup_profiles" /\ b.keys = since'.keys
  BY DEF Action
<1>5. ASSUME NEW i \in DOMAIN recipe.actions, i < b.step
      PROVE  /\ recipe.actions[i] = "await_js" /\ recipe.mode = "uc_open" => b.dom.scripted
             /\ recipe.actions[i] = "collect_popup_profiles" /\ b.pc # "popups" => b.dom.profiles = since'.keys
  <2>1. i < browse.step \/ (i = browse.step /\ b.step = browse.step + 1)
    BY <1>1, <1>5
  <2>2. CASE i = browse.step /\ b.step = browse.step + 1
    BY <2>2 DEF Action, Reports
  <2>3. CASE i < browse.step
    <3>1. /\ recipe.actions[i] = "await_js" /\ recipe.mode = "uc_open" => browse.dom.scripted
          /\ recipe.actions[i] = "collect_popup_profiles" /\ browse.pc # "popups" =>
               browse.dom.profiles = since.keys
      BY <2>3 DEF BypassIInv, PreparedInv
    <3>2. Action \in Reload => ~Prepares(recipe, recipe.actions[i])
      BY <1>1, <2>3, RecipeIs DEF Action
    <3> QED BY <3>1, <3>2 DEF Prepares, Reports
  <2> QED BY <2>1, <2>2, <2>3
<1> QED BY <1>2, <1>3, <1>4, <1>5 DEF PreparedInv

LEMMA OpenedIs ==
  ASSUME BypassIInv
  PROVE  Opened \in Dom /\ Opened.seen = version
<1>1. <<>> \in Seq(PageBody)
  BY EmptySeq
<1> QED BY <1>1, BypassIs DEF Opened, Dom

\* A step that changes the browser only.
LEMMA BrowserStep ==
  ASSUME BypassIInv, browse.pc # "idle", browse.step <= Len(recipe.actions),
         NEW b \in Browse, browse' = b, b.pc \in {"act", "popups", "pages"}, b.dom \in Dom, b.step >= 1,
         b.saved = browse.saved, b.published = browse.published,
         UNCHANGED <<recipe, version, links, disk, runs, handed>>,
         since' \in [version : 1..MaxVersion, keys : SUBSET Popup, steady : BOOLEAN],
         PreparedInv', SavingInv'
  PROVE  BypassIInv'
<1>1. Kept(disk') /\ links' \subseteq Popup
  BY DiskIs, BypassIs DEF Kept
<1>2. ~Holds(Name("image"))' /\ b.published <= 2 /\ b.saved = <<>>
  BY ActingIs DEF Holds, Name
<1> QED BY <1>1, <1>2, ActingStep

\* The next action, with what the page shows now.
LEMMA AdvanceIs ==
  ASSUME BypassIInv, NEW dom \in Dom, NEW b, b = [browse EXCEPT !.dom = dom, !.pc = "act", !.step = browse.step + 1]
  PROVE  /\ b \in Browse /\ b.pc = "act" /\ b.dom = dom /\ b.step = browse.step + 1 /\ b.step >= 1
         /\ b.saved = browse.saved /\ b.published = browse.published
<1>1. browse \in Browse /\ browse.step \in Nat
  BY BypassIs
<1>2. browse.step + 1 \in Nat /\ browse.step + 1 >= 1
  BY <1>1
<1> QED BY <1>1, <1>2 DEF Browse

LEMMA NavigateOrWaitStep ==
  ASSUME BypassIInv, NavigateOrWait
  PROVE  BypassIInv'
<1> DEFINE dom == IF Action = "navigate" THEN Opened ELSE browse.dom
           b   == [browse EXCEPT !.dom = dom, !.pc = "act", !.step = browse.step + 1]
<1>1. /\ browse.pc = "act" /\ browse.step <= Len(recipe.actions) /\ Action \in {"navigate", "wait"}
      /\ UNCHANGED <<recipe, version, links, disk, runs, handed, since>>
  BY DEF NavigateOrWait, Acting
<1>2. browse' = b
  BY BypassIs DEF NavigateOrWait, Advance, Browse
<1>3. dom \in Dom /\ (Action = "navigate" => dom.seen = version) /\ (Action # "navigate" => dom = browse.dom)
  BY <1>1, OpenedIs, BypassIs
<1> HIDE DEF dom
<1>4. /\ b \in Browse /\ b.pc = "act" /\ b.dom = dom /\ b.step = browse.step + 1 /\ b.step >= 1
      /\ b.saved = browse.saved /\ b.published = browse.published
  BY <1>3, AdvanceIs
<1> HIDE DEF b
<1>5. PreparedInv'
  BY <1>1, <1>2, <1>3, <1>4, PreparedStep DEF Reload, Reports
<1>6. SavingInv'
  BY <1>2, <1>4 DEF SavingInv
<1> QED BY <1>1, <1>2, <1>3, <1>4, <1>5, <1>6, BrowserStep, BypassIs

LEMMA ExecuteJsStep ==
  ASSUME BypassIInv, ExecuteJs
  PROVE  BypassIInv'
<1>1. /\ browse.pc = "act" /\ browse.step <= Len(recipe.actions)
      /\ Action \in {"execute_js", "await_js"}
      /\ UNCHANGED <<recipe, version, links, disk, runs, handed, since>>
  BY DEF ExecuteJs, Acting
<1>2. PICK ran \in {TRUE, Reports(recipe, Action)} :
        browse' = Advance([browse EXCEPT !.dom.scripted = @ \/ ran])
  BY DEF ExecuteJs
<1> DEFINE scripted == browse.dom.scripted \/ ran
           dom == [browse.dom EXCEPT !.scripted = scripted]
           b   == [browse EXCEPT !.dom = dom, !.pc = "act", !.step = browse.step + 1]
<1>3. browse' = b
  BY <1>2, BypassIs DEF Advance, Browse
<1>4. /\ scripted \in BOOLEAN /\ (browse.dom.scripted => scripted)
      /\ (Reports(recipe, Action) => scripted)
  BY DEF Reports
<1> HIDE DEF scripted
<1>5. dom \in Dom /\ dom.seen = browse.dom.seen /\ dom.profiles = browse.dom.profiles /\ dom.scripted = scripted
  BY <1>1, <1>4, BypassIs DEF Dom
<1> HIDE DEF dom
<1>6. /\ b \in Browse /\ b.pc = "act" /\ b.dom = dom /\ b.step = browse.step + 1 /\ b.step >= 1
      /\ b.saved = browse.saved /\ b.published = browse.published
  BY <1>5, AdvanceIs
<1> HIDE DEF b
<1>7. PreparedInv'
  BY <1>1, <1>3, <1>4, <1>5, <1>6, PreparedStep
<1>8. SavingInv'
  BY <1>3, <1>6 DEF SavingInv
<1> QED BY <1>1, <1>3, <1>5, <1>6, <1>7, <1>8, BrowserStep, BypassIs

LEMMA PopupStep ==
  ASSUME BypassIInv, NEW k \in Popup, DiscoverKeys \/ OpenPopup(k)
  PROVE  BypassIInv'
<1> DEFINE b == IF DiscoverKeys THEN [browse EXCEPT !.pc = "popups", !.keys = links, !.snapshots = {}]
                ELSE [browse EXCEPT !.snapshots = @ \cup {k}]
           keys == IF DiscoverKeys THEN links ELSE since.keys
<1>1. /\ browse.pc \in {"act", "popups"} /\ browse.step <= Len(recipe.actions)
      /\ Action = "collect_popup_profiles" /\ browse' = b
      /\ since' = [since EXCEPT !.keys = keys] /\ (browse.pc = "popups" => browse.keys = since.keys)
      /\ UNCHANGED <<recipe, version, links, disk, runs, handed>>
  <2>1. CASE DiscoverKeys
    BY <2>1 DEF DiscoverKeys, Acting
  <2>2. CASE ~DiscoverKeys
    <3>1. since = [since EXCEPT !.keys = since.keys]
      BY BypassIs
    <3> QED BY <2>2, <3>1 DEF OpenPopup, BypassIInv, SavingInv, PreparedInv
  <2> QED BY <2>1, <2>2
<1>2. keys \in SUBSET Popup /\ (~DiscoverKeys => browse.pc = "popups")
  BY BypassIs DEF OpenPopup
<1>3. /\ b \in Browse /\ b.pc = "popups" /\ b.dom = browse.dom /\ b.step = browse.step /\ b.keys = keys
      /\ b.saved = browse.saved /\ b.published = browse.published
  BY <1>1, <1>2, BypassIs DEF Browse
<1> HIDE DEF b, keys
<1>4. /\ since' \in [version : 1..MaxVersion, keys : SUBSET Popup, steady : BOOLEAN]
      /\ since'.version = since.version /\ since'.steady = since.steady /\ since'.keys = keys
  BY <1>1, <1>2, BypassIs
<1>5. browse.dom \in Dom /\ browse.step >= 1 /\ browse.step \in Nat
  BY <1>1, BypassIs
<1>6. PreparedInv'
  BY <1>1, <1>3, <1>4, <1>5, PreparedStep DEF Reports
<1>7. SavingInv'
  BY <1>1, <1>3 DEF SavingInv, Action
<1> QED BY <1>1, <1>3, <1>4, <1>5, <1>6, <1>7, BrowserStep

LEMMA InsertPopupsStep ==
  ASSUME BypassIInv, InsertPopups
  PROVE  BypassIInv'
<1>1. /\ browse.pc = "popups" /\ browse.step <= Len(recipe.actions)
      /\ Action = "collect_popup_profiles" /\ browse.snapshots = since.keys
      /\ UNCHANGED <<recipe, version, links, disk, runs, handed, since>>
  BY DEF InsertPopups, BypassIInv, SavingInv, PreparedInv
<1> DEFINE dom == [browse.dom EXCEPT !.profiles = browse.snapshots]
           b   == [browse EXCEPT !.dom = dom, !.pc = "act", !.step = browse.step + 1]
<1>2. browse' = b
  BY BypassIs DEF InsertPopups, Advance, Browse
<1>3. dom \in Dom /\ dom.seen = browse.dom.seen /\ dom.profiles = since.keys /\ dom.scripted = browse.dom.scripted
  BY <1>1, BypassIs DEF Dom
<1> HIDE DEF dom
<1>4. /\ b \in Browse /\ b.pc = "act" /\ b.dom = dom /\ b.step = browse.step + 1 /\ b.step >= 1
      /\ b.saved = browse.saved /\ b.published = browse.published
  BY <1>3, AdvanceIs
<1> HIDE DEF b
<1>5. PreparedInv'
  BY <1>1, <1>2, <1>3, <1>4, PreparedStep DEF Reports
<1>6. SavingInv'
  BY <1>2, <1>4 DEF SavingInv
<1> QED BY <1>1, <1>2, <1>3, <1>4, <1>5, <1>6, BrowserStep, BypassIs

LEMMA KeptUnfinished ==
  ASSUME BypassIInv, runs > 0, NEW kind \in FileKind \ Protected, NEW data \in Dom
  PROVE  /\ Kept(Put(disk, Name(kind), data, FALSE))
         /\ DOMAIN Put(disk, Name(kind), data, FALSE) = DOMAIN disk \cup {Name(kind)}
<1>1. kind # "image" /\ Kept(disk)
  BY DiskIs DEF Protected
<1>2. Kept(Put(disk, Name(kind), data, FALSE))
  BY <1>1, KeptPut
<1> QED BY <1>2 DEF Put

\* A file that is not there yet is written: in place, or under a name that
\* promises nothing.
LEMMA WritingStep ==
  ASSUME BypassIInv, browse.pc # "idle", browse.step <= Len(recipe.actions),
         NEW b \in Browse, browse' = b, b.pc \in {"write", "publish"}, b.dom \in Dom, b.step = browse.step,
         b.saved = <<>>, b.published <= 2, Action = "save_image" => b.published = 0,
         NEW kind \in {"html", "part", "pending"}, disk' = Put(disk, Name(kind), b.dom, FALSE),
         UNCHANGED <<recipe, version, links, runs, handed>>,
         since' \in [version : 1..MaxVersion, keys : SUBSET Popup, steady : BOOLEAN],
         PreparedInv', SavingInv'
  PROVE  BypassIInv'
<1>1. /\ runs > 0 /\ ~Holds(Name("image")) /\ Kept(disk) /\ kind \in FileKind /\ kind \notin Protected
      /\ FALSE \in BOOLEAN /\ b.step >= 1 /\ links' \subseteq Popup
  BY ActingIs, DiskIs, BypassIs DEF FileKind, Protected
<1>2. Kept(disk') /\ DOMAIN disk' = DOMAIN disk \cup {Name(kind)}
  BY <1>1, KeptUnfinished
<1>3. ~Holds(Name("image"))'
  BY <1>1, <1>2 DEF Holds, Name
<1>4. Action' = Action /\ \A i \in 1..0 : FALSE
  BY DEF Action
<1> QED BY <1>1, <1>2, <1>3, <1>4, ActingStep

LEMMA BeginSaveStep ==
  ASSUME BypassIInv, BeginSave
  PROVE  BypassIInv'
<1> DEFINE data == IF Action = "save_json" THEN Opened ELSE browse.dom
           b    == [browse EXCEPT !.pc = "write", !.dom = data]
<1>1. /\ browse.pc = "act" /\ browse.step <= Len(recipe.actions) /\ Action \in {"save_html", "save_json"}
      /\ browse' = b /\ disk' = Put(disk, Name("html"), data, FALSE)
      /\ UNCHANGED <<recipe, version, links, runs, handed, since>>
  BY DEF BeginSave, Acting, Write
<1>2. data \in Dom /\ (Action = "save_json" => data.seen = version) /\ (Action # "save_json" => data = browse.dom)
  BY <1>1, OpenedIs, BypassIs
<1> HIDE DEF data
<1>3. /\ b \in Browse /\ b.pc = "write" /\ b.dom = data /\ b.step = browse.step /\ browse.step \in Nat
      /\ b.saved = browse.saved /\ b.published = browse.published
  BY <1>2, BypassIs DEF Browse
<1> HIDE DEF b
<1>4. PreparedInv'
  BY <1>1, <1>2, <1>3, PreparedStep DEF Reload, Reports
<1>5. Action' = Action
  BY <1>1, <1>3 DEF Action
<1>6. SavingInv'
  BY <1>1, <1>3, <1>5 DEF SavingInv
<1>7. b.saved = <<>> /\ b.published <= 2
  BY <1>1, <1>3, ActingIs
<1> QED BY <1>1, <1>2, <1>3, <1>4, <1>6, <1>7, WritingStep, BypassIs

LEMMA WritePartStep ==
  ASSUME BypassIInv, NEW kind \in {"save_pdf", "embed_images"}, WritePart(kind)
  PROVE  BypassIInv'
<1> DEFINE data == IF kind = "save_pdf" THEN Opened ELSE browse.dom
           b    == [browse EXCEPT !.pc = "publish", !.dom = data,
                      !.saved = IF kind = "embed_images" THEN <<>> ELSE @]
<1>1. /\ browse.pc = "act" /\ browse.step <= Len(recipe.actions) /\ Action = kind
      /\ browse' = b /\ disk' = Put(disk, Name("part"), data, FALSE)
      /\ UNCHANGED <<recipe, version, links, runs, handed, since>>
  BY DEF WritePart, Acting
<1>2. data \in Dom /\ (kind = "save_pdf" => data.seen = version) /\ (kind # "save_pdf" => data = browse.dom)
  BY <1>1, OpenedIs, BypassIs
<1> HIDE DEF data
<1>3. browse.saved = <<>> /\ browse.published <= 2
  BY <1>1, ActingIs
<1>4. /\ b \in Browse /\ b.pc = "publish" /\ b.dom = data /\ b.step = browse.step /\ browse.step \in Nat
      /\ b.saved = <<>> /\ b.published = browse.published
  BY <1>2, <1>3, BypassIs DEF Browse
<1> HIDE DEF b
<1>5. PreparedInv'
  BY <1>1, <1>2, <1>4, PreparedStep DEF Reload, Reports
<1>6. Action' = Action
  BY <1>1, <1>4 DEF Action
<1>7. SavingInv'
  BY <1>1, <1>4, <1>6 DEF SavingInv
<1> QED BY <1>1, <1>2, <1>3, <1>4, <1>5, <1>7, WritingStep, BypassIs

LEMMA WriteCaptureStep ==
  ASSUME BypassIInv, WriteCapture
  PROVE  BypassIInv'
<1> DEFINE b == [browse EXCEPT !.pc = "publish", !.saved = <<>>, !.dom = Opened, !.published = 0]
<1>1. /\ browse.pc = "act" /\ browse.step <= Len(recipe.actions) /\ Action = "save_image"
      /\ browse' = b /\ disk' = Put(disk, Name("pending"), Opened, FALSE)
      /\ UNCHANGED <<recipe, version, links, runs, handed, since>>
  BY DEF WriteCapture, Acting
<1>2. Opened \in Dom /\ Opened.seen = version
  BY OpenedIs
<1>3. /\ b \in Browse /\ b.pc = "publish" /\ b.dom = Opened /\ b.step = browse.step /\ browse.step \in Nat
      /\ b.saved = <<>> /\ b.published = 0
  <2>1. browse \in Browse /\ 0 \in 0..3
    BY BypassIs
  <2> QED BY <1>2, <2>1 DEF Browse
<1> HIDE DEF b
<1>4. PreparedInv'
  BY <1>1, <1>2, <1>3, PreparedStep DEF Reload, Reports
<1>5. Action' = Action
  BY <1>1, <1>3 DEF Action
<1>6. SavingInv'
  BY <1>1, <1>3, <1>5 DEF SavingInv
<1>7. disk' = Put(disk, Name("pending"), b.dom, FALSE) /\ b.published <= 2
  BY <1>1, <1>3
<1> QED BY <1>1, <1>2, <1>3, <1>4, <1>6, <1>7, WritingStep, BypassIs

LEMMA BodiesAre ==
  ASSUME BypassIInv
  PROVE  /\ Len(browse.bodies) \in Nat /\ DOMAIN browse.bodies = 1..Len(browse.bodies)
         /\ NextBody \in PageBody /\ ErrorBody \in PageBody
         /\ NextBody = <<version, IF Len(browse.bodies) + 1 < SitePages THEN Len(browse.bodies) + 1 ELSE SitePages>>
         /\ ErrorBody = <<version, 0>>
<1>1. Len(browse.bodies) \in Nat /\ DOMAIN browse.bodies = 1..Len(browse.bodies)
  BY BypassIs
<1>2. version \in 1..MaxVersion
  BY BypassIs
<1>3. (IF Len(browse.bodies) + 1 < SitePages THEN Len(browse.bodies) + 1 ELSE SitePages) \in 0..SitePages
  BY <1>1, SiteIs
<1>4. 0 \in 0..SitePages
  BY SiteIs
<1> QED BY <1>1, <1>2, <1>3, <1>4 DEF NextBody, ErrorBody, PageBody

LEMMA BeginPagesStep ==
  ASSUME BypassIInv, BeginPages
  PROVE  BypassIInv'
<1> DEFINE first == <<browse.dom.seen, 1>>
           b == [browse EXCEPT !.pc = "pages", !.bodies = <<first>>]
<1>1. /\ browse.pc = "act" /\ browse.step <= Len(recipe.actions) /\ Action = "save_paginated_html"
      /\ browse' = b /\ UNCHANGED <<recipe, version, links, disk, runs, handed, since>>
  BY DEF BeginPages, Acting
<1>2. /\ browse.dom \in Dom /\ browse.dom.seen \in 1..MaxVersion
      /\ (since.steady => browse.dom.seen = version)
  <2>1. /\ browse.dom \in Dom /\ browse.dom.seen >= since.version /\ browse.dom.seen <= version
        /\ since.steady => version = since.version
    BY <1>1, ActingIs DEF BypassIInv, PreparedInv
  <2>2. browse.dom.seen \in 1..MaxVersion /\ version \in Nat
    BY <2>1, BypassIs DEF Dom
  <2> QED BY <2>1, <2>2, SiteIs
<1>3. first \in PageBody
  BY <1>2, SiteIs DEF PageBody
<1>4. <<first>> \in Seq(PageBody) /\ Len(<<first>>) = 1 /\ <<first>> = [i \in 1..1 |-> first]
  <2> HIDE DEF first
  <2> QED BY <1>3
<1>5. since.steady => ReadPages(<<first>>)
  <2>1. since.steady => <<first>> = [i \in 1..1 |-> <<version, i>>]
    BY <1>2
  <2> QED BY <1>4, <2>1, SiteIs DEF ReadPages
<1> HIDE DEF first
<1>6. /\ b \in Browse /\ b.pc = "pages" /\ b.dom = browse.dom /\ b.step = browse.step /\ browse.step \in Nat
      /\ b.saved = browse.saved /\ b.published = browse.published /\ b.bodies = <<first>> /\ browse.step >= 1
  BY <1>4, BypassIs DEF Browse
<1> HIDE DEF b
<1>7. PreparedInv'
  BY <1>1, <1>2, <1>6, PreparedStep DEF Reports
<1>8. Action' = Action
  BY <1>1, <1>6 DEF Action
<1>9. SavingInv'
  <2>1. since'.steady => ReadPages(<<first>>)
    BY <1>1, <1>5
  <2>2. since'.steady => <<first>> = [i \in 1..Len(<<first>>) |-> <<version', i>>] /\ Len(<<first>>) <= SitePages
    BY <1>1, <2>1 DEF ReadPages
  <2>3. browse'.bodies = <<first>>
    BY <1>1, <1>6
  <2> QED BY <1>1, <1>6, <1>8, <2>2, <2>3 DEF SavingInv, ReadPages
<1> QED BY <1>1, <1>2, <1>6, <1>7, <1>9, BrowserStep, BypassIs

\* Of a site that stands still and answers, the page that is fetched is the next one.
LEMMA FetchPageStep ==
  ASSUME BypassIInv, NEW body \in {NextBody, ErrorBody}, FetchPage(body)
  PROVE  BypassIInv'
<1> DEFINE bodies == Append(browse.bodies, body)
           steady == since.steady /\ body = NextBody
           n == Len(browse.bodies)
           b == [browse EXCEPT !.bodies = bodies]
<1>1. /\ browse.pc = "pages" /\ ~Repeated(body) /\ browse' = b
      /\ since' = [since EXCEPT !.steady = steady]
      /\ UNCHANGED <<recipe, version, links, disk, runs, handed>>
  BY DEF FetchPage
<1>2. /\ browse.step <= Len(recipe.actions) /\ Action = "save_paginated_html"
      /\ since.steady => ReadPages(browse.bodies)
  BY <1>1 DEF BypassIInv, SavingInv
<1>3. /\ n \in Nat /\ DOMAIN browse.bodies = 1..n /\ body \in PageBody /\ browse.bodies \in Seq(PageBody)
  BY BodiesAre, BypassIs
<1>4. /\ bodies \in Seq(PageBody) /\ Len(bodies) = n + 1 /\ bodies[n + 1] = body
      /\ \A i \in 1..n : bodies[i] = browse.bodies[i]
  <2> HIDE DEF PageBody
  <2> QED BY <1>3, AppendProperties
<1>5. ASSUME steady PROVE ReadPages(bodies)
  <2>1. n <= SitePages /\ \A i \in 1..n : browse.bodies[i] = <<version, i>>
    <3>1. browse.bodies = [i \in 1..n |-> <<version, i>>] /\ n <= SitePages
      BY <1>2, <1>5 DEF ReadPages
    <3> QED BY <3>1
  <2>2. body = <<version, IF n + 1 < SitePages THEN n + 1 ELSE SitePages>>
    BY <1>5, BodiesAre
  <2>3. n # SitePages
    <3>1. SUFFICES ASSUME n = SitePages PROVE FALSE
      OBVIOUS
    <3>2. body = <<version, SitePages>> /\ SitePages \in 1..n
      BY <2>2, <3>1, SiteIs
    <3>3. browse.bodies[SitePages] = body
      BY <2>1, <3>2
    <3> QED BY <1>1, <1>3, <3>2, <3>3 DEF Repeated
  <2>4. body = <<version, n + 1>> /\ n + 1 <= SitePages
    BY <1>3, <2>1, <2>2, <2>3, SiteIs
  <2>5. \A i \in 1..(n + 1) : bodies[i] = <<version, i>>
    <3> HIDE DEF bodies
    <3>1. \A i \in 1..(n + 1) : i \in 1..n \/ i = n + 1
      BY <1>3
    <3> QED BY <1>4, <2>1, <2>4, <3>1
  <2>6. DOMAIN bodies = 1..(n + 1)
    BY <1>3, <1>4
  <2>7. bodies = [i \in 1..(n + 1) |-> <<version, i>>]
    <3> HIDE DEF bodies, n
    <3>1. bodies \in [1..(n + 1) -> PageBody]
      BY <1>4, <2>6
    <3> QED BY <2>5, <3>1
  <2> QED BY <1>4, <2>4, <2>7 DEF ReadPages
<1> HIDE DEF bodies
<1>6. /\ b \in Browse /\ b.pc = "pages" /\ b.dom = browse.dom /\ b.step = browse.step /\ browse.step \in Nat
      /\ b.saved = browse.saved /\ b.published = browse.published /\ b.bodies = bodies /\ browse.step >= 1
  BY <1>1, <1>4, BypassIs DEF Browse
<1> HIDE DEF b
<1>7. steady \in BOOLEAN
  BY BypassIs
<1>8. /\ since' \in [version : 1..MaxVersion, keys : SUBSET Popup, steady : BOOLEAN]
      /\ since'.version = since.version /\ (since'.steady <=> steady) /\ since'.keys = since.keys
  <2> HIDE DEF steady
  <2> QED BY <1>1, <1>7, BypassIs
<1>9. browse.dom \in Dom
  BY <1>1, BypassIs
<1>10. PreparedInv'
  BY <1>1, <1>2, <1>6, <1>8, <1>9, PreparedStep DEF Reports
<1>11. Action' = Action
  BY <1>1, <1>6 DEF Action
<1>12. SavingInv'
  <2>1. since'.steady => ReadPages(bodies)
    BY <1>5, <1>8
  <2>2. since'.steady => bodies = [i \in 1..Len(bodies) |-> <<version', i>>] /\ Len(bodies) <= SitePages
    BY <1>1, <2>1 DEF ReadPages
  <2>3. browse'.bodies = bodies
    BY <1>1, <1>6
  <2> QED BY <1>1, <1>2, <1>6, <1>11, <2>2, <2>3 DEF SavingInv, ReadPages
<1> QED BY <1>1, <1>2, <1>6, <1>8, <1>9, <1>10, <1>12, BrowserStep

\* The list ends when a page comes again or there are enough: of a site that stood
\* still and answered, all pages are there.
LEMMA AllPages ==
  ASSUME BypassIInv, EndPages, since.steady, SitePages <= MaxListPages
  PROVE  browse.bodies = [i \in 1..SitePages |-> <<version, i>>]
<1> DEFINE n == Len(browse.bodies)
<1>1. browse.bodies = [i \in 1..n |-> <<version, i>>] /\ n <= SitePages
  BY DEF EndPages, BypassIInv, SavingInv, ReadPages
<1>2. n \in Nat /\ DOMAIN browse.bodies = 1..n /\ \A i \in 1..n : browse.bodies[i] = <<version, i>>
  BY <1>1, BodiesAre
<1>3. /\ NextBody = <<version, IF n + 1 < SitePages THEN n + 1 ELSE SitePages>> /\ ErrorBody = <<version, 0>>
  BY BodiesAre
<1> HIDE DEF n
<1>4. ~Repeated(ErrorBody)
  BY <1>2, <1>3 DEF Repeated
<1>5. Repeated(NextBody) => n >= SitePages
  BY <1>2, <1>3, SiteIs DEF Repeated
<1>6. n >= MaxListPages => n >= SitePages
  BY <1>2, SiteIs
<1>7. n >= SitePages
  BY <1>4, <1>5, <1>6 DEF EndPages, n
<1>8. n = SitePages
  BY <1>1, <1>2, <1>7, SiteIs
<1> QED BY <1>1, <1>8

LEMMA SavePagesStep ==
  ASSUME BypassIInv, EndPages \/ PageUnanswered
  PROVE  BypassIInv'
<1> DEFINE steady == since.steady /\ EndPages
           data == [browse.dom EXCEPT !.bodies = browse.bodies]
           b == [browse EXCEPT !.pc = "write", !.dom = data]
<1>1. /\ browse.pc = "pages" /\ browse' = b /\ disk' = Put(disk, Name("html"), data, FALSE)
      /\ UNCHANGED <<recipe, version, links, runs, handed>>
  BY DEF EndPages, PageUnanswered, SavePages, Write
<1>2. /\ since' \in [version : 1..MaxVersion, keys : SUBSET Popup, steady : BOOLEAN]
      /\ since'.version = since.version /\ since'.keys = since.keys /\ (since'.steady => steady)
  <2>1. CASE EndPages
    BY <2>1, BypassIs DEF EndPages, SavePages
  <2>2. CASE PageUnanswered
    BY <2>2, BypassIs DEF PageUnanswered, SavePages
  <2> QED BY <2>1, <2>2
<1>3. /\ browse.step <= Len(recipe.actions) /\ Action = "save_paginated_html"
  BY <1>1 DEF BypassIInv, SavingInv
<1>4. /\ data \in Dom /\ data.seen = browse.dom.seen /\ data.profiles = browse.dom.profiles
      /\ data.scripted = browse.dom.scripted /\ data.bodies = browse.bodies
  BY <1>1, BypassIs DEF Dom
<1> HIDE DEF data
<1>5. browse.saved = <<>> /\ browse.published <= 2
  BY <1>1, <1>3, ActingIs
<1>6. /\ b \in Browse /\ b.pc = "write" /\ b.dom = data /\ b.step = browse.step /\ browse.step \in Nat
      /\ b.saved = <<>> /\ b.published = browse.published
  BY <1>4, <1>5, BypassIs DEF Browse
<1> HIDE DEF b
<1>7. PreparedInv'
  BY <1>1, <1>2, <1>3, <1>4, <1>6, PreparedStep DEF Reports
<1>8. Action' = Action
  BY <1>1, <1>6 DEF Action
<1>9. since'.steady /\ SitePages <= MaxListPages => data.bodies = [i \in 1..SitePages |-> <<version, i>>]
  BY <1>2, <1>4, AllPages
<1>10. SavingInv'
  BY <1>1, <1>3, <1>6, <1>8, <1>9 DEF SavingInv
<1>11. disk' = Put(disk, Name("html"), b.dom, FALSE)
  BY <1>1, <1>6
<1> QED BY <1>1, <1>2, <1>3, <1>4, <1>5, <1>6, <1>7, <1>10, <1>11, WritingStep

\* The file that a last action saved: what it holds is what the actions before it
\* prepared.
LEMMA SavedIsWhole ==
  ASSUME BypassIInv, browse.pc \in {"write", "publish"}, NEW file, file.whole, file.data = browse.dom
  PROVE  Whole(file)
<1>1. browse.step <= Len(recipe.actions) /\ Action \in SaveKind
  BY DEF BypassIInv, SavingInv, SaveKind
<1>2. browse.step = Len(recipe.actions)
  BY <1>1, SavesLast
<1>3. ASSUME NEW i \in DOMAIN recipe.actions, recipe.actions[i] \notin SaveKind
      PROVE  i < browse.step
  BY <1>1, <1>2, <1>3, RecipeIs DEF Action
<1>4. file.data.seen >= since.version
  BY DEF BypassIInv, PreparedInv
<1>5. Has("collect_popup_profiles") => file.data.profiles = since.keys
  BY <1>3 DEF Has, SaveKind, BypassIInv, PreparedInv
<1>6. Has("await_js") /\ recipe.mode = "uc_open" => file.data.scripted
  BY <1>3 DEF Has, SaveKind, BypassIInv, PreparedInv
<1>7. ASSUME Has("save_paginated_html"), since.steady, SitePages <= MaxListPages
      PROVE  file.data.bodies = [i \in 1..SitePages |-> <<file.data.seen, i>>]
  <2>1. Action = "save_paginated_html"
    BY <1>2, <1>7, RecipeIs DEF Has, Action, SaveKind
  <2>2. browse.pc = "write"
    BY <2>1 DEF BypassIInv, SavingInv
  <2>3. browse.dom.bodies = [i \in 1..SitePages |-> <<version, i>>]
    BY <1>7, <2>1, <2>2 DEF BypassIInv, SavingInv
  <2>4. browse.dom.seen = version
    <3>1. /\ browse.dom.seen >= since.version /\ browse.dom.seen <= version /\ since.version = version
          /\ browse.dom \in Dom
      BY <1>1, <1>7, ActingIs DEF BypassIInv, PreparedInv
    <3>2. browse.dom.seen \in Nat /\ version \in Nat
      BY <3>1, BypassIs, SiteIs DEF Dom
    <3> QED BY <3>1, <3>2
  <2> QED BY <2>3, <2>4
<1> QED BY <1>4, <1>5, <1>6, <1>7 DEF Whole

LEMMA KeptFinished ==
  ASSUME BypassIInv, runs > 0, NEW there, Kept(there), NEW kind \in FileKind, NEW data \in Dom,
         kind = "image" => Name("source") \in DOMAIN there /\ Name("manifest") \in DOMAIN there
  PROVE  /\ Kept(Put(there, Name(kind), data, TRUE))
         /\ DOMAIN Put(there, Name(kind), data, TRUE) = DOMAIN there \cup {Name(kind)}
         /\ Put(there, Name(kind), data, TRUE)[Name(kind)].data = data
         /\ Put(there, Name(kind), data, TRUE)[Name(kind)].whole
<1>1. Kept(Put(there, Name(kind), data, TRUE))
  BY KeptPut
<1> QED BY <1>1 DEF Put

\* The save is over: the collection goes on with the file it saved.
Leaving(was, name) == Advance([was EXCEPT !.saved = name])

LEMMA LeavingIs ==
  ASSUME NEW was \in Browse, was.step \in Nat, NEW name \in FileName
  PROVE  /\ Leaving(was, name) \in Browse /\ Leaving(was, name).pc = "act"
         /\ Leaving(was, name).dom = was.dom /\ Leaving(was, name).step = was.step + 1
         /\ Leaving(was, name).saved = name
<1> DEFINE b == [was EXCEPT !.saved = name, !.pc = "act", !.step = was.step + 1]
<1>1. Leaving(was, name) = b
  BY DEF Leaving, Advance, Browse
<1>2. was \in Browse /\ was.step + 1 \in Nat /\ name \in FileName \cup {<<>>}
  OBVIOUS
<1> HIDE DEF FileName
<1>3. b \in Browse
  BY <1>2 DEF Browse
<1> QED BY <1>1, <1>2, <1>3 DEF Browse

\* The last action has saved its file: nothing of it is missing.
LEMMA SavedStep ==
  ASSUME BypassIInv, browse.pc \in {"write", "publish"}, NEW there, Kept(there),
         NEW kind \in {"html", "save_pdf", "embed_images", "image"},
         kind = "image" => Name("source") \in DOMAIN there /\ Name("manifest") \in DOMAIN there,
         disk' = Put(there, Name(kind), browse.dom, TRUE),
         NEW b \in Browse, browse' = b, b.pc = "act", b.dom = browse.dom, b.step = browse.step + 1,
         b.saved = Name(kind),
         UNCHANGED <<recipe, version, links, runs, handed, since>>
  PROVE  BypassIInv'
<1>1. /\ browse.step <= Len(recipe.actions) /\ Action \in SaveKind
  BY DEF BypassIInv, SavingInv, SaveKind
<1>2. browse.step = Len(recipe.actions) /\ browse.step \in Nat /\ browse.step >= 1
  BY <1>1, SavesLast, BypassIs
<1>3. runs > 0 /\ browse.dom \in Dom /\ browse.published <= 2
  BY <1>1, ActingIs
<1>4. kind \in FileKind
  BY DEF FileKind
<1>5. /\ Kept(Put(there, Name(kind), browse.dom, TRUE))
      /\ Put(there, Name(kind), browse.dom, TRUE)[Name(kind)].data = browse.dom
      /\ Put(there, Name(kind), browse.dom, TRUE)[Name(kind)].whole
      /\ DOMAIN Put(there, Name(kind), browse.dom, TRUE) = DOMAIN there \cup {Name(kind)}
  <2>1. Kept(Put(there, Name(kind), browse.dom, TRUE))
    BY <1>3, <1>4, KeptFinished
  <2> QED BY <2>1 DEF Put
<1>6. Whole(disk'[Name(kind)])
  BY <1>5, SavedIsWhole
<1>7. Holds(b.saved)' /\ Whole(disk[b.saved])' /\ b.saved # <<>>
  <2>1. disk'[b.saved] = disk'[Name(kind)] /\ b.saved \in DOMAIN disk'
    BY <1>5
  <2>2. Whole(disk'[b.saved])
    BY <1>6, <2>1
  <2>3. b.saved # <<>>
    BY DEF Name
  <2> QED BY <2>1, <2>2, <2>3 DEF Holds, Whole, Has
<1>8. b.step > Len(recipe.actions) /\ ~(b.step <= Len(recipe.actions)) /\ b.step >= 1
  BY <1>2
<1>9. PreparedInv'
  BY <1>1, <1>2, <1>3, PreparedStep DEF SaveKind, Reports
<1>10. SavingInv'
  BY DEF SavingInv
<1> QED BY <1>3, <1>5, <1>7, <1>8, <1>9, <1>10, ActingStep, BypassIs

LEMMA EndSaveStep ==
  ASSUME BypassIInv, EndSave
  PROVE  BypassIInv'
<1> DEFINE b == Leaving(browse, Name("html"))
<1>1. /\ browse.pc = "write" /\ disk' = Put(disk, Name("html"), browse.dom, TRUE) /\ browse' = b
      /\ UNCHANGED <<recipe, version, links, runs, handed, since>>
  BY DEF EndSave, Leaving
<1>2. Name("html") \in FileName
  BY <1>1, NameIs DEF FileKind, BypassIInv, FilesInv
<1>3. /\ b \in Browse /\ b.pc = "act" /\ b.dom = browse.dom /\ b.step = browse.step + 1 /\ b.saved = Name("html")
  <2>1. browse \in Browse /\ browse.step \in Nat
    BY BypassIs
  <2> QED BY <1>2, <2>1, LeavingIs
<1> HIDE DEF b
<1> QED BY <1>1, <1>3, DiskIs, SavedStep

LEMMA ReplacePartStep ==
  ASSUME BypassIInv, ReplacePart
  PROVE  BypassIInv'
<1> DEFINE kind == Action
           there == Without(disk, {Name("part")})
           b == Leaving(browse, Name(kind))
<1>1. /\ browse.pc = "publish" /\ kind \in {"save_pdf", "embed_images"}
      /\ disk' = Put(there, Name(kind), browse.dom, TRUE) /\ browse' = b
      /\ UNCHANGED <<recipe, version, links, runs, handed, since>>
  BY DEF ReplacePart, Leaving
<1>2. Name(kind) \in FileName
  BY <1>1, NameIs DEF FileKind, BypassIInv, FilesInv
<1>3. Kept(there)
  <2>1. \A n \in {Name("part")} : n[1] \notin {"source", "manifest"}
    BY DEF Name
  <2> QED BY <2>1, DiskIs, KeptWithout
<1> HIDE DEF kind, there
<1>4. /\ b \in Browse /\ b.pc = "act" /\ b.dom = browse.dom /\ b.step = browse.step + 1 /\ b.saved = Name(kind)
  <2>1. browse \in Browse /\ browse.step \in Nat
    BY BypassIs
  <2> QED BY <1>2, <2>1, LeavingIs
<1> HIDE DEF b
<1> QED BY <1>1, <1>3, <1>4, SavedStep

\* The files of a capture appear one after the other, the image last.
LEMMA PublishCaptureStep ==
  ASSUME BypassIInv, PublishCapture
  PROVE  BypassIInv'
<1> DEFINE n == browse.published + 1
           kind == CaptureOrder[n]
<1>1. /\ browse.pc = "publish" /\ Action = "save_image" /\ browse.step <= Len(recipe.actions)
      /\ UNCHANGED <<recipe, version, links, runs, handed, since>>
      /\ \A i \in 1..browse.published : Holds(Name(CaptureOrder[i]))
  BY DEF PublishCapture, BypassIInv, SavingInv, FilesInv
<1>2. /\ browse.published \in {0, 1, 2} /\ browse.saved = <<>> /\ runs > 0 /\ browse.dom \in Dom
      /\ ~Holds(Name("image")) /\ browse.step \in Nat /\ browse.step >= 1
  BY <1>1, ActingIs, BypassIs
<1>3. /\ Len(CaptureOrder) = 3 /\ CaptureOrder[1] = "source" /\ CaptureOrder[2] = "manifest"
      /\ CaptureOrder[3] = "image"
  BY DEF CaptureOrder
<1>4. CASE browse.published < 2
  <2> DEFINE b == [browse EXCEPT !.published = n]
  <2>1. disk' = Put(disk, Name(kind), browse.dom, TRUE) /\ browse' = b
    <3>1. n < Len(CaptureOrder)
      BY <1>2, <1>3, <1>4
    <3> QED BY <3>1 DEF PublishCapture
  <2>2. n \in {1, 2} /\ kind \in {"source", "manifest"} /\ kind \in FileKind /\ kind # "image"
    BY <1>2, <1>3, <1>4 DEF FileKind
  <2>3. /\ b \in Browse /\ b.pc = "publish" /\ b.dom = browse.dom /\ b.step = browse.step
        /\ b.saved = <<>> /\ b.published = n
    <3>1. n \in 0..3
      BY <2>2
    <3> HIDE DEF n
    <3> QED BY <1>1, <1>2, <3>1, BypassIs DEF Browse
  <2>4. Kept(disk') /\ DOMAIN disk' = DOMAIN disk \cup {Name(kind)}
    <3> HIDE DEF kind
    <3>1. Kept(Put(disk, Name(kind), browse.dom, TRUE))
      BY <1>2, <2>2, DiskIs, KeptFinished
    <3> QED BY <2>1, <3>1 DEF Put
  <2> HIDE DEF b
  <2>5. PreparedInv'
    BY <1>1, <1>2, <2>1, <2>3, PreparedStep DEF Reports
  <2>6. Action' = Action
    BY <1>1, <2>1, <2>3 DEF Action
  <2>7. SavingInv'
    BY <1>1, <2>1, <2>3, <2>6 DEF SavingInv
  <2>8. ~Holds(Name("image"))' /\ b.published <= 2
    BY <1>1, <1>2, <2>2, <2>3, <2>4 DEF Holds, Name
  <2>9. \A i \in 1..b.published : Holds(Name(CaptureOrder[i]))'
    <3> SUFFICES ASSUME NEW i \in 1..n PROVE <<CaptureOrder[i], runs'>> \in DOMAIN disk'
      BY <2>3 DEF Holds, Name, CaptureOrder
    <3>1. i \in 1..browse.published \/ i = n
      BY <1>2
    <3> QED BY <1>1, <2>4, <3>1 DEF Holds, Name
  <2> QED BY <1>1, <1>2, <2>1, <2>3, <2>4, <2>5, <2>7, <2>8, <2>9, ActingStep, BypassIs
<1>5. CASE browse.published = 2
  <2> DEFINE there == Without(disk, {Name("pending")})
             was == [browse EXCEPT !.published = 3]
             b == Leaving(was, Name("image"))
  <2>1. disk' = Put(there, Name("image"), browse.dom, TRUE) /\ browse' = b
    <3>1. ~(n < Len(CaptureOrder)) /\ n = 3 /\ kind = "image"
      BY <1>2, <1>3, <1>5
    <3>2. disk' = Put(there, Name("image"), browse.dom, TRUE)
      BY <3>1 DEF PublishCapture
    <3>3. browse' = Advance([was EXCEPT !.saved = Name("image")])
      BY <3>1 DEF PublishCapture
    <3> QED BY <3>2, <3>3 DEF Leaving
  <2>2. Name("image") \in FileName
    BY <1>2, NameIs DEF FileKind
  <2>3. Kept(there) /\ DOMAIN there = DOMAIN disk \ {Name("pending")}
    <3>1. \A m \in {Name("pending")} : m[1] \notin {"source", "manifest"}
      BY DEF Name
    <3> QED BY <3>1, DiskIs, KeptWithout
  <2>4. Name("source") \in DOMAIN there /\ Name("manifest") \in DOMAIN there
    <3>1. Holds(Name("source")) /\ Holds(Name("manifest"))
      BY <1>1, <1>3, <1>5
    <3> QED BY <2>3, <3>1 DEF Holds, Name
  <2> HIDE DEF there
  <2>5. /\ b \in Browse /\ b.pc = "act" /\ b.dom = browse.dom /\ b.step = browse.step + 1 /\ b.saved = Name("image")
    <3>1. was \in Browse /\ was.step = browse.step /\ was.dom = browse.dom /\ was.step \in Nat
      BY <1>2, BypassIs DEF Browse
    <3> HIDE DEF was
    <3> QED BY <2>2, <3>1, LeavingIs
  <2> HIDE DEF b
  <2> QED BY <1>1, <2>1, <2>3, <2>4, <2>5, SavedStep
<1> QED BY <1>2, <1>4, <1>5

\* The collection is over; the caller is given nothing, or a file without a flaw.
LEMMA ClosedStep ==
  ASSUME BypassIInv, browse' = Closed, UNCHANGED <<recipe, version, links, runs, since>>, Kept(disk'),
         handed' # <<>> => handed' \in DOMAIN disk' /\ Whole(disk'[handed'])
  PROVE  BypassIInv'
<1>1. /\ Closed \in Browse /\ Closed.pc = "idle" /\ Closed.step = 1 /\ Closed.saved = <<>>
      /\ Closed.published = 0 /\ Closed' = Closed
  <2>1. <<>> \in Seq(PageBody) /\ 0 \in 0..3
    BY EmptySeq
  <2> HIDE DEF PageBody
  <2> QED BY <2>1 DEF Closed, Browse
<1>2. BypassTypeOK'
  BY <1>1, BypassIs DEF BypassTypeOK, Kept
<1>3. PreparedInv' /\ SavingInv'
  BY <1>1 DEF PreparedInv, SavingInv
<1>4. PublishedIsWhole'
  BY DEF PublishedIsWhole, Kept, Published, Protected, Holds
<1>5. HandedIsWhole'
  BY DEF HandedIsWhole, Whole, Has
<1>6. \A name \in DOMAIN disk' : name[2] <= runs'
  BY DEF Kept
<1>7. FilesInv'
  BY <1>1, <1>4, <1>5, <1>6 DEF FilesInv
<1> QED BY <1>2, <1>3, <1>7 DEF BypassIInv

LEMMA ReturnArtifactStep ==
  ASSUME BypassIInv, ReturnArtifact
  PROVE  BypassIInv'
<1>1. Kept(disk')
  BY DiskIs DEF ReturnArtifact
<1>2. handed' # <<>> => handed' \in DOMAIN disk' /\ Whole(disk'[handed'])
  BY DEF ReturnArtifact, BypassIInv, FilesInv, Holds
<1> QED BY <1>1, <1>2, ClosedStep DEF ReturnArtifact

LEMMA KillCollectorStep ==
  ASSUME BypassIInv, KillCollector
  PROVE  BypassIInv'
<1>1. Kept(disk')
  BY DiskIs DEF KillCollector
<1>2. handed' = <<>>
  BY DEF KillCollector, BypassIInv, FilesInv
<1> QED BY <1>1, <1>2, ClosedStep DEF KillCollector

\* Taking back a capture leaves no image without its page: the image is not there yet.
LEMMA ActionFailsStep ==
  ASSUME BypassIInv, ActionFails
  PROVE  BypassIInv'
<1> DEFINE back == IF browse.pc = "publish" THEN {Name(CaptureOrder[i]) : i \in 1..browse.published} ELSE {}
           names == {Name("part"), Name("pending")} \cup back
<1>1. browse' = Closed /\ disk' = Without(disk, names) /\ handed' = <<>>
      /\ UNCHANGED <<recipe, version, links, runs, since>>
  BY DEF ActionFails, BypassIInv, FilesInv
<1>2. ASSUME NEW n \in names, n[1] \in {"source", "manifest"} PROVE <<"image", n[2]>> \notin DOMAIN disk
  <2>1. n \in back
    BY <1>2 DEF Name
  <2> HIDE DEF names
  <2>2. browse.pc = "publish" /\ n[2] = runs
    BY <2>1 DEF Name
  <2>3. browse.step <= Len(recipe.actions)
    BY <2>2 DEF BypassIInv, SavingInv
  <2>4. ~Holds(Name("image"))
    BY <2>2, <2>3, ActingIs
  <2> QED BY <2>2, <2>4 DEF Holds, Name
<1> HIDE DEF names
<1>3. Kept(disk')
  BY <1>1, <1>2, DiskIs, KeptWithout
<1> QED BY <1>1, <1>3, ClosedStep

\* A new run: no file has its number.
LEMMA OpenPageStep ==
  ASSUME BypassIInv, OpenPage
  PROVE  BypassIInv'
<1> DEFINE b == [Closed EXCEPT !.pc = "act", !.dom = Opened]
<1>1. /\ browse' = b /\ runs' = runs + 1 /\ runs < MaxRun /\ handed' = <<>>
      /\ since' = [version |-> version, keys |-> {}, steady |-> TRUE]
      /\ UNCHANGED <<recipe, version, links, disk>>
  BY DEF OpenPage
<1>2. Opened \in Dom /\ Opened.seen = version /\ version \in Nat
  BY OpenedIs, BypassIs
<1>3. /\ b \in Browse /\ b.pc = "act" /\ b.step = 1 /\ b.saved = <<>> /\ b.published = 0 /\ b.dom = Opened
  <2>1. <<>> \in Seq(PageBody) /\ 0 \in 0..3
    BY EmptySeq
  <2> HIDE DEF PageBody
  <2> QED BY <1>2, <2>1 DEF Closed, Browse
<1> HIDE DEF b
<1>4. runs \in Nat /\ runs' \in 1..MaxRun
  BY <1>1, BypassIs, SiteIs
<1>5. /\ since' \in [version : 1..MaxVersion, keys : SUBSET Popup, steady : BOOLEAN]
      /\ since'.version = version
  BY <1>1, BypassIs
<1>6. Kept(disk) /\ disk' = disk
  BY <1>1, DiskIs
<1>7. BypassTypeOK'
  BY <1>1, <1>2, <1>3, <1>4, <1>5, <1>6, BypassIs DEF BypassTypeOK, Kept
<1>8. PreparedInv'
  BY <1>1, <1>2, <1>3, <1>5, RecipeIs DEF PreparedInv
<1>9. SavingInv'
  BY <1>1, <1>3 DEF SavingInv
<1>10. \A name \in DOMAIN disk' : name[2] <= runs' /\ name[2] # runs'
  <2> SUFFICES ASSUME NEW name \in DOMAIN disk PROVE name[2] <= runs' /\ name[2] # runs'
    BY <1>6
  <2>1. name \in FileName /\ name[2] <= runs
    BY <1>6 DEF Kept
  <2>2. name[2] \in Nat
    BY <2>1, SiteIs DEF FileName
  <2> QED BY <1>1, <1>4, <2>1, <2>2
<1>11. ~Holds(Name("image"))'
  BY <1>10 DEF Holds, Name
<1>12. PublishedIsWhole' /\ HandedIsWhole'
  BY <1>1, <1>6 DEF PublishedIsWhole, HandedIsWhole, BypassIInv, FilesInv, Holds
<1>13. Closed'.pc = "idle"
  BY DEF Closed
<1>14. FilesInv'
  BY <1>1, <1>3, <1>4, <1>10, <1>11, <1>12, <1>13 DEF FilesInv
<1> QED BY <1>7, <1>8, <1>9, <1>14 DEF BypassIInv

\* The site changes: what was found of it is older than the site from now on.
LEMMA ChangeSiteStep ==
  ASSUME BypassIInv, ChangeSite
  PROVE  BypassIInv'
<1>1. /\ version < MaxVersion /\ version' = version + 1 /\ version' \in 1..MaxVersion
      /\ UNCHANGED <<recipe, links, disk, browse, runs, handed>>
  BY BypassIs, SiteIs DEF ChangeSite
<1>2. /\ since' \in [version : 1..MaxVersion, keys : SUBSET Popup, steady : BOOLEAN] /\ ~since'.steady
      /\ since'.version = since.version /\ since'.keys = since.keys
  BY BypassIs DEF ChangeSite
<1>3. BypassTypeOK'
  BY <1>1, <1>2, BypassIs DEF BypassTypeOK
<1>4. PreparedInv'
  <2>1. browse.pc # "idle" => browse.dom.seen <= version'
    <3> SUFFICES ASSUME browse.pc # "idle" PROVE browse.dom.seen <= version'
      OBVIOUS
    <3>1. browse.dom.seen \in Nat /\ version \in Nat
      BY BypassIs, SiteIs DEF Dom
    <3>2. browse.dom.seen <= version
      BY DEF BypassIInv, PreparedInv
    <3> QED BY <1>1, <3>1, <3>2
  <2> QED BY <1>1, <1>2, <2>1 DEF PreparedInv, BypassIInv, Action
<1>5. SavingInv'
  BY <1>1, <1>2 DEF SavingInv, BypassIInv, Action
<1>6. \A file : Whole(file) => Whole(file)'
  BY <1>1, <1>2 DEF Whole, Has
<1>7. FilesInv'
  <2>1. PublishedIsWhole'
    BY <1>1 DEF PublishedIsWhole, BypassIInv, FilesInv, Holds
  <2>2. HandedIsWhole'
    BY <1>1, <1>6 DEF HandedIsWhole, BypassIInv, FilesInv
  <2>3. Closed' = Closed
    BY DEF Closed
  <2>4. browse.saved # <<>> => (Holds(browse.saved) /\ Whole(disk[browse.saved]))'
    BY <1>1, <1>6 DEF BypassIInv, FilesInv, Holds
  <2> QED BY <1>1, <2>1, <2>2, <2>3, <2>4 DEF FilesInv, BypassIInv, Holds, Name, Action
<1> QED BY <1>3, <1>4, <1>5, <1>7 DEF BypassIInv

\* The invariant does not look at the links the page shows.
LEMMA LinksStep ==
  ASSUME BypassIInv, links' \subseteq Popup,
         UNCHANGED <<recipe, version, disk, browse, runs, handed, since>>
  PROVE  BypassIInv'
<1>1. BypassTypeOK'
  BY DEF BypassTypeOK, BypassIInv
<1>2. PreparedInv' /\ SavingInv'
  BY DEF PreparedInv, SavingInv, ReadPages, Action, BypassIInv
<1>3. PublishedIsWhole' /\ HandedIsWhole' /\ \A file : Whole(file) => Whole(file)'
  BY DEF PublishedIsWhole, HandedIsWhole, Whole, Has, Holds, BypassIInv, FilesInv
<1>4. Closed' = Closed
  BY DEF Closed
<1>5. FilesInv'
  BY <1>3, <1>4 DEF FilesInv, BypassIInv, Holds, Name, Action, CaptureOrder
<1> QED BY <1>1, <1>2, <1>5 DEF BypassIInv

LEMMA BypassStep ==
  ASSUME BypassIInv, [BypassNext]_bypassVars
  PROVE  BypassIInv'
<1>1. CASE UNCHANGED bypassVars \/ \E k \in Popup : ChangeLinks(k)
  <2>1. links' \subseteq Popup /\ UNCHANGED <<recipe, version, disk, browse, runs, handed, since>>
    BY <1>1, BypassIs DEF bypassVars, ChangeLinks
  <2> QED BY <2>1, LinksStep
<1>2. CASE ChangeSite \/ \E k \in Popup : OpenPopup(k)
  BY <1>2, ChangeSiteStep, PopupStep
<1>3. CASE DiscoverKeys
  <2>1. PICK k \in Popup : TRUE
    BY <1>3, BypassIs DEF DiscoverKeys
  <2> QED BY <1>3, <2>1, PopupStep
<1>4. CASE OpenPage \/ NavigateOrWait \/ ExecuteJs \/ InsertPopups
  BY <1>4, OpenPageStep, NavigateOrWaitStep, ExecuteJsStep, InsertPopupsStep
<1>5. CASE BeginSave \/ BeginPages \/ EndPages \/ PageUnanswered \/ EndSave
  BY <1>5, BeginSaveStep, BeginPagesStep, SavePagesStep, EndSaveStep
<1>6. CASE FetchPage(NextBody) \/ FetchPage(ErrorBody)
  BY <1>6, FetchPageStep
<1>7. CASE \E kind \in {"save_pdf", "embed_images"} : WritePart(kind)
  BY <1>7, WritePartStep
<1>8. CASE ReplacePart \/ WriteCapture \/ PublishCapture
  BY <1>8, ReplacePartStep, WriteCaptureStep, PublishCaptureStep
<1>9. CASE ReturnArtifact \/ ActionFails \/ KillCollector
  BY <1>9, ReturnArtifactStep, ActionFailsStep, KillCollectorStep
<1> QED BY <1>1, <1>2, <1>3, <1>4, <1>5, <1>6, <1>7, <1>8, <1>9 DEF BypassNext

LEMMA BypassStarts ==
  ASSUME BypassInit
  PROVE  BypassIInv
<1>1. /\ Closed \in Browse /\ Closed.pc = "idle" /\ Closed.step = 1 /\ Closed.saved = <<>>
      /\ Closed.published = 0 /\ browse = Closed
  <2>1. <<>> \in Seq(PageBody) /\ 0 \in 0..3
    BY EmptySeq
  <2> HIDE DEF PageBody
  <2> QED BY <2>1 DEF Closed, Browse, BypassInit
<1>2. DOMAIN disk = {} /\ disk \in [DOMAIN disk -> File]
  BY DEF BypassInit
<1>3. 1 \in 1..MaxVersion /\ 0 \in 0..MaxRun
  BY SiteIs
<1>4. BypassTypeOK
  BY <1>1, <1>2, <1>3 DEF BypassTypeOK, BypassInit
<1>5. PreparedInv /\ SavingInv
  BY <1>1 DEF PreparedInv, SavingInv
<1>6. PublishedIsWhole /\ HandedIsWhole
  BY <1>2 DEF PublishedIsWhole, HandedIsWhole, BypassInit
<1>7. FilesInv
  BY <1>1, <1>2, <1>6 DEF FilesInv, BypassInit
<1> QED BY <1>4, <1>5, <1>7 DEF BypassIInv

\* The invariant of a protected collection: what the actions before the present one
\* prepared is in the page, the listing pages read are the first ones of the site,
\* and what stands under a final name was written to its end.
THEOREM BypassInductive == BypassSpec => []BypassIInv
<1>1. BypassInit => BypassIInv
  BY BypassStarts
<1>2. BypassIInv /\ [BypassNext]_bypassVars => BypassIInv'
  BY BypassStep
<1> QED BY <1>1, <1>2, PTL DEF BypassSpec

\* Whenever the process died, a PDF, a snapshot or an image on disk is whole, and an
\* image has its page and its manifest beside it.
THEOREM PublishedFilesAreWhole == BypassSpec => []PublishedIsWhole
<1>1. BypassIInv => PublishedIsWhole
  BY DEF BypassIInv, FilesInv
<1> QED BY <1>1, BypassInductive, PTL

\* The file a caller is given was written to its end by the collection it asked for,
\* shows the site no older than the navigation, and holds every popup found, the
\* effect of the script and, of a site that stood still, every listing page.
THEOREM HandedFileIsWhole == BypassSpec => []HandedIsWhole
<1>1. BypassIInv => HandedIsWhole
  BY DEF BypassIInv, FilesInv
<1> QED BY <1>1, BypassInductive, PTL

(***************************************************************************)
(* ApiCollect: the plan                                                    *)
(***************************************************************************)
Value == STRING \cup (Int \X Int) \cup Seq(STRING)
Query == UNION {[P -> Value] : P \in SUBSET STRING}
Frame == [query : Query, facet : Nat, total : Nat, ask : Seq(Query), left : Int]
Plan  == [stack : Seq(Frame), leaves : Seq(Query), over : BOOLEAN]

Distinct(facets) ==
  \A j, k \in DOMAIN facets : facets[j].param = facets[k].param => j = k

Promises(facets) == \A k \in DOMAIN facets : Promised(facets[k], Rec)

LEMMA QueryIs ==
  ASSUME NEW q \in Query
  PROVE  /\ DOMAIN q \in SUBSET STRING
         /\ \A p \in DOMAIN q : q[p] \in Value
         /\ q = [p \in DOMAIN q |-> q[p]]
<1>1. PICK P \in SUBSET STRING : q \in [P -> Value]
  BY DEF Query
<1> QED
  BY <1>1

LEMMA QueryFrom ==
  ASSUME NEW q, DOMAIN q \in SUBSET STRING, \A p \in DOMAIN q : q[p] \in Value,
         q = [p \in DOMAIN q |-> q[p]]
  PROVE  q \in Query
<1>1. q \in [DOMAIN q -> Value]
  OBVIOUS
<1> QED
  BY <1>1 DEF Query

LEMMA NoParamsIs ==
  /\ NoParams \in Query /\ DOMAIN NoParams = {} /\ \A x : Matches(x, NoParams)
<1>1. DOMAIN NoParams = {} /\ NoParams = [p \in DOMAIN NoParams |-> NoParams[p]]
  BY DEF NoParams
<1>2. NoParams \in Query
  BY <1>1, QueryFrom
<1> QED
  BY <1>1, <1>2 DEF Matches

\* What a query asks for when one parameter is set.
LEMMA WithIs ==
  ASSUME NEW q \in Query, NEW p \in STRING, NEW v \in Value
  PROVE  /\ With(q, p, v) \in Query
         /\ DOMAIN With(q, p, v) = DOMAIN q \cup {p}
         /\ With(q, p, v)[p] = v
         /\ \A r \in DOMAIN q \ {p} : With(q, p, v)[r] = q[r]
<1> DEFINE w == With(q, p, v)
<1>1. DOMAIN q \in SUBSET STRING /\ \A r \in DOMAIN q : q[r] \in Value
  BY QueryIs
<1>2. /\ DOMAIN w = DOMAIN q \cup {p} /\ w[p] = v
      /\ \A r \in DOMAIN q \ {p} : w[r] = q[r]
      /\ w = [r \in DOMAIN w |-> w[r]]
  BY DEF With
<1> HIDE DEF w
<1>3. w \in Query
  <2>1. DOMAIN w \in SUBSET STRING
    BY <1>1, <1>2
  <2>2. \A r \in DOMAIN w : w[r] \in Value
    BY <1>1, <1>2
  <2> QED
    BY <1>2, <2>1, <2>2, QueryFrom
<1> QED
  BY <1>2, <1>3 DEF w

LEMMA WithMatches ==
  ASSUME NEW q \in Query, NEW p \in STRING, NEW v \in Value, NEW x
  PROVE  Matches(x, With(q, p, v)) <=>
           Answers(x, p, v) /\ \A r \in DOMAIN q \ {p} : Answers(x, r, q[r])
<1> DEFINE w == With(q, p, v)
<1>1. DOMAIN w = DOMAIN q \cup {p} /\ w[p] = v /\ \A r \in DOMAIN q \ {p} : w[r] = q[r]
  BY WithIs
<1> HIDE DEF w
<1>2. Matches(x, w) <=> \A r \in DOMAIN q \cup {p} : Answers(x, r, w[r])
  BY <1>1 DEF Matches
<1> QED
  BY <1>1, <1>2, Zenon DEF w

LEMMA FacetKinds ==
  ASSUME NEW f \in Facet
  PROVE  /\ f.type \in {"enum", "range", "substring"} /\ f.param \in STRING
         /\ f.complete \in BOOLEAN
         /\ f.type = "enum" => f.values \in Seq(STRING) /\ f.disjoint \in BOOLEAN
         /\ f.type = "range" => f.low \in Int /\ f.high \in Int
         /\ f.type = "substring" => f.alphabet \in Seq(STRING) /\ f.depth \in Nat
<1>1. CASE f \in [type : {"enum"}, param : STRING, values : Seq(STRING), disjoint : BOOLEAN,
                  complete : BOOLEAN]
  BY <1>1
<1>2. CASE f \in [type : {"range"}, param : STRING, low : Int, high : Int, complete : BOOLEAN]
  BY <1>2
<1>3. CASE f \in [type : {"substring"}, param : STRING, alphabet : Seq(STRING), depth : Nat,
                  complete : BOOLEAN]
  BY <1>3
<1> QED
  BY <1>1, <1>2, <1>3 DEF Facet

LEMMA LettersAre ==
  ASSUME NEW f \in Facet, f.type = "substring"
  PROVE  /\ Letters(f) \in SUBSET STRING
         /\ \A k \in DOMAIN f.alphabet : f.alphabet[k] \in Letters(f)
         /\ Seq(Letters(f)) \subseteq Seq(STRING)
<1>1. f.alphabet \in Seq(STRING)
  BY FacetKinds
<1>2. \A k \in DOMAIN f.alphabet : f.alphabet[k] \in STRING
  BY <1>1
<1>3. Letters(f) \in SUBSET STRING
  BY <1>2 DEF Letters
<1>4. ASSUME NEW w \in Seq(Letters(f)) PROVE w \in Seq(STRING)
  <2>1. PICK n \in Nat : w \in [1..n -> Letters(f)]
    BY DEF Seq
  <2>2. w \in [1..n -> STRING]
    BY <2>1, <1>3
  <2> QED
    BY <2>2
<1> QED
  BY <1>3, <1>4 DEF Letters

LEMMA PrefixIs ==
  ASSUME NEW facets \in Seq(Facet), NEW j \in DOMAIN facets, facets[j].type = "substring",
         NEW q \in Query, NEW i, QueryOK(facets, q, i)
  PROVE  Prefix(facets[j], q) \in Seq(Letters(facets[j]))
<1>1. CASE facets[j].param \in DOMAIN q
  BY <1>1 DEF Prefix, QueryOK
<1>2. CASE facets[j].param \notin DOMAIN q
  BY <1>2, EmptySeq DEF Prefix
<1> QED
  BY <1>1, <1>2

\* A query that the j-th facet narrows stays within the bounds of the facets.
LEMMA Narrowed ==
  ASSUME NEW facets \in Seq(Facet), Distinct(facets), NEW j \in DOMAIN facets,
         NEW q \in Query, NEW i \in Nat, QueryOK(facets, q, i), NEW m \in Nat, i <= j, j <= m,
         NEW v \in Value,
         facets[j].type = "enum" => j < m,
         facets[j].type = "range" =>
           v \in Int \X Int /\ facets[j].low <= v[1] /\ v[2] <= facets[j].high,
         facets[j].type = "substring" => v \in Seq(Letters(facets[j]))
  PROVE  QueryOK(facets, With(q, facets[j].param, v), m)
<1> DEFINE p == facets[j].param
<1> DEFINE w == With(q, p, v)
<1>1. facets[j] \in Facet /\ p \in STRING /\ j \in Nat /\ DOMAIN facets = 1..Len(facets)
  BY FacetKinds
<1>2. DOMAIN w = DOMAIN q \cup {p} /\ w[p] = v /\ \A r \in DOMAIN q \ {p} : w[r] = q[r]
  <2> HIDE DEF p
  <2> QED
    BY <1>1, WithIs
<1> HIDE DEF w
<1>3. ASSUME NEW k \in DOMAIN facets, facets[k].param \in DOMAIN w
      PROVE  /\ k <= m /\ (facets[k].type = "enum" => k < m)
             /\ facets[k].type = "range" =>
                  /\ w[facets[k].param] \in Int \X Int
                  /\ facets[k].low <= w[facets[k].param][1] /\ w[facets[k].param][2] <= facets[k].high
             /\ facets[k].type = "substring" => w[facets[k].param] \in Seq(Letters(facets[k]))
  <2>1. CASE k = j
    BY <2>1, <1>2
  <2>2. CASE k # j
    <3>1. facets[k].param # p
      BY <2>2 DEF Distinct
    <3>2. facets[k].param \in DOMAIN q \ {p}
      BY <3>1, <1>2, <1>3
    <3>3. w[facets[k].param] = q[facets[k].param]
      BY <3>2, <1>2
    <3>4. k \in Nat
      OBVIOUS
    <3>5. /\ k <= i /\ (facets[k].type = "enum" => k < i)
          /\ facets[k].type = "range" =>
               /\ q[facets[k].param] \in Int \X Int
               /\ facets[k].low <= q[facets[k].param][1] /\ q[facets[k].param][2] <= facets[k].high
          /\ facets[k].type = "substring" => q[facets[k].param] \in Seq(Letters(facets[k]))
      BY <3>2 DEF QueryOK
    <3> QED
      BY <3>3, <3>4, <3>5, <1>1
  <2> QED
    BY <2>1, <2>2
<1> QED
  BY <1>3 DEF QueryOK, w

\* The index that the children of the j-th facet are split on with.
Further(f, j) == IF f.type = "enum" THEN j + 1 ELSE j

LEMMA RangeBounds ==
  ASSUME NEW f \in Facet, f.type = "range", NEW q \in Query, f.param \in DOMAIN q,
         q[f.param] \in Int \X Int, f.low <= q[f.param][1], q[f.param][2] <= f.high,
         q[f.param][1] < q[f.param][2],
         NEW v \in {<<q[f.param][1], (q[f.param][1] + q[f.param][2]) \div 2>>,
                    <<(q[f.param][1] + q[f.param][2]) \div 2 + 1, q[f.param][2]>>}
  PROVE  v \in Int \X Int /\ f.low <= v[1] /\ v[2] <= f.high
<1>1. PICK a \in Int, b \in Int : q[f.param] = <<a, b>>
  OBVIOUS
<1>2. f.low \in Int /\ f.high \in Int
  BY FacetKinds
<1>3. a < b /\ f.low <= a /\ b <= f.high /\ v \in {<<a, (a + b) \div 2>>, <<(a + b) \div 2 + 1, b>>}
  BY <1>1
<1>4. (a + b) \div 2 \in Int /\ a <= (a + b) \div 2 /\ (a + b) \div 2 < b
  BY <1>3
<1>5. CASE v = <<a, (a + b) \div 2>>
  BY <1>2, <1>3, <1>4, <1>5
<1>6. CASE v = <<(a + b) \div 2 + 1, b>>
  BY <1>2, <1>3, <1>4, <1>6
<1> QED
  BY <1>3, <1>5, <1>6

LEMMA ChildrenAre ==
  ASSUME NEW facets \in Seq(Facet), Distinct(facets), NEW j \in DOMAIN facets,
         NEW q \in Query, NEW i \in Nat, QueryOK(facets, q, i), i <= j, Splits(q, facets[j])
  PROVE  /\ Children(q, facets[j]) \in Seq(Query)
         /\ \A k \in DOMAIN Children(q, facets[j]) :
              QueryOK(facets, Children(q, facets[j])[k], Further(facets[j], j))
<1> DEFINE f == facets[j]
<1> DEFINE p == f.param
<1> DEFINE m == Further(f, j)
<1>1. /\ f \in Facet /\ p \in STRING /\ j \in Nat /\ m \in Nat /\ j <= m /\ (f.type = "enum" => j < m)
      /\ f.type \in {"enum", "range", "substring"}
  BY FacetKinds DEF Further
<1>2. ASSUME NEW v \in Value,
             f.type = "range" => v \in Int \X Int /\ f.low <= v[1] /\ v[2] <= f.high,
             f.type = "substring" => v \in Seq(Letters(f))
      PROVE  With(q, p, v) \in Query /\ QueryOK(facets, With(q, p, v), m)
  BY <1>1, <1>2, WithIs, Narrowed
<1> HIDE DEF m
<1>3. CASE f.type = "enum"
  <2>1. f.values \in Seq(STRING) /\ Children(q, f) = [k \in DOMAIN f.values |-> With(q, p, f.values[k])]
    BY <1>1, <1>3, FacetKinds DEF Children, EnumChildren
  <2>2. \A k \in DOMAIN f.values : f.values[k] \in Value
    BY <2>1 DEF Value
  <2>3. \A k \in DOMAIN f.values :
          With(q, p, f.values[k]) \in Query /\ QueryOK(facets, With(q, p, f.values[k]), m)
    BY <2>2, <1>2, <1>3
  <2>4. PICK n \in Nat : DOMAIN f.values = 1..n
    BY <2>1
  <2>5. Children(q, f) \in [1..n -> Query]
    BY <2>1, <2>3, <2>4
  <2> QED
    BY <2>1, <2>3, <2>5 DEF m
<1>4. CASE f.type = "range"
  <2>1. CASE p \notin DOMAIN q
    <3>1. Children(q, f) = << With(q, p, <<f.low, f.high>>) >>
      BY <1>4, <2>1 DEF Children, RangeChildren
    <3>2. <<f.low, f.high>> \in Int \X Int /\ f.low \in Int /\ f.high \in Int
      BY <1>1, <1>4, FacetKinds
    <3>3. <<f.low, f.high>> \in Value
      BY <3>2 DEF Value
    <3>4. With(q, p, <<f.low, f.high>>) \in Query /\ QueryOK(facets, With(q, p, <<f.low, f.high>>), m)
      BY <1>2, <3>2, <3>3, <1>4
    <3> HIDE DEF f, p
    <3> QED
      BY <3>1, <3>4 DEF m, f
  <2>2. CASE p \in DOMAIN q
    <3> DEFINE a == q[p][1]
    <3> DEFINE b == q[p][2]
    <3>1. Children(q, f) = << With(q, p, <<a, (a + b) \div 2>>), With(q, p, <<(a + b) \div 2 + 1, b>>) >>
      BY <1>4, <2>2 DEF Children, RangeChildren
    <3>2. q[p] \in Int \X Int /\ f.low <= a /\ b <= f.high /\ a < b
      BY <1>4, <2>2 DEF QueryOK, Splits
    <3>3. \A v \in {<<a, (a + b) \div 2>>, <<(a + b) \div 2 + 1, b>>} :
            v \in Int \X Int /\ f.low <= v[1] /\ v[2] <= f.high
      BY <1>1, <1>4, <2>2, <3>2, RangeBounds
    <3>4. \A v \in {<<a, (a + b) \div 2>>, <<(a + b) \div 2 + 1, b>>} :
            With(q, p, v) \in Query /\ QueryOK(facets, With(q, p, v), m)
      BY <3>3, <1>2, <1>4 DEF Value
    <3> DEFINE c == With(q, p, <<a, (a + b) \div 2>>)
    <3> DEFINE d == With(q, p, <<(a + b) \div 2 + 1, b>>)
    <3>5. c \in Query /\ d \in Query /\ QueryOK(facets, c, m) /\ QueryOK(facets, d, m)
      BY <3>4
    <3>6. Children(q, f) = <<c, d>>
      BY <3>1
    <3> HIDE DEF f, p, a, b, c, d
    <3> QED
      BY <3>5, <3>6 DEF m, f
  <2> QED
    BY <2>1, <2>2
<1>5. CASE f.type = "substring"
  <2> DEFINE w(k) == Append(Prefix(f, q), f.alphabet[k])
  <2>1. f.alphabet \in Seq(STRING) /\ Children(q, f) = [k \in DOMAIN f.alphabet |-> With(q, p, w(k))]
    BY <1>1, <1>5, FacetKinds DEF Children, SubstringChildren
  <2>2. Prefix(f, q) \in Seq(Letters(f))
    BY <1>5, PrefixIs
  <2>3. \A k \in DOMAIN f.alphabet : w(k) \in Seq(Letters(f)) /\ w(k) \in Value
    BY <1>1, <1>5, <2>2, LettersAre, AppendProperties DEF Value
  <2>4. \A k \in DOMAIN f.alphabet :
          With(q, p, w(k)) \in Query /\ QueryOK(facets, With(q, p, w(k)), m)
    BY <2>3, <1>2, <1>5
  <2>5. PICK n \in Nat : DOMAIN f.alphabet = 1..n
    BY <2>1
  <2> HIDE DEF w
  <2>6. Children(q, f) \in [1..n -> Query]
    BY <2>1, <2>4, <2>5
  <2> QED
    BY <2>1, <2>4, <2>6 DEF m
<1> QED
  BY <1>1, <1>3, <1>4, <1>5

\* A record of a query that a facet splits is found by one of its values, or left to
\* the catch-all.
LEMMA Cover ==
  ASSUME NEW facets \in Seq(Facet), Promises(facets), NEW j \in DOMAIN facets,
         NEW q \in Query, NEW i \in Nat, QueryOK(facets, q, i), Splits(q, facets[j]),
         NEW x \in Rec, Matches(x, q)
  PROVE  \/ \E k \in DOMAIN Children(q, facets[j]) : Matches(x, Children(q, facets[j])[k])
         \/ CatchAll(q, facets[j])
<1> DEFINE f == facets[j]
<1> DEFINE p == f.param
<1>1. /\ f \in Facet /\ p \in STRING /\ f.type \in {"enum", "range", "substring"}
      /\ f.complete \in BOOLEAN
  BY FacetKinds
<1>2. Promised(f, Rec)
  BY DEF Promises
<1>3. \A v \in Value : Answers(x, p, v) => Matches(x, With(q, p, v))
  BY <1>1, WithMatches DEF Matches
<1> HIDE DEF f, p
<1>4. CASE f.type = "enum"
  <2>1. f.values \in Seq(STRING) /\ Children(q, f) = [k \in DOMAIN f.values |-> With(q, p, f.values[k])]
    BY <1>1, <1>4, FacetKinds DEF Children, EnumChildren, p
  <2>2. \A k \in DOMAIN f.values : f.values[k] \in Value
    BY <2>1 DEF Value
  <2>3. f.complete => \E k \in DOMAIN f.values : Answers(x, p, f.values[k])
    BY <1>2, <1>4 DEF Promised, p
  <2> QED
    BY <1>3, <1>4, <2>1, <2>2, <2>3 DEF CatchAll, f
<1>5. CASE f.type = "range" /\ p \notin DOMAIN q
  <2>1. Children(q, f) = << With(q, p, <<f.low, f.high>>) >>
    BY <1>5 DEF Children, RangeChildren, p
  <2>2. f.complete => Answers(x, p, <<f.low, f.high>>)
    BY <1>2, <1>5 DEF Promised, p
  <2>3. <<f.low, f.high>> \in Value
    BY <1>1, <1>5, FacetKinds DEF Value
  <2> QED
    BY <1>3, <1>5, <2>1, <2>2, <2>3 DEF CatchAll, f, p
<1>6. CASE f.type = "range" /\ p \in DOMAIN q
  <2>1. q[p] \in Int \X Int /\ f.low <= q[p][1] /\ q[p][2] <= f.high /\ q[p][1] < q[p][2]
    BY <1>6 DEF QueryOK, Splits, f, p
  <2>2. PICK a \in Int, b \in Int : q[p] = <<a, b>>
    BY <2>1
  <2>3. f.low \in Int /\ f.high \in Int /\ a < b /\ a \in f.low..f.high /\ b \in f.low..f.high
    BY <1>1, <1>6, <2>1, <2>2, FacetKinds
  <2>4. Answers(x, p, <<a, b>>)
    BY <1>6, <2>2 DEF Matches
  <2>5. Answers(x, p, <<a, (a + b) \div 2>>) \/ Answers(x, p, <<(a + b) \div 2 + 1, b>>)
    BY <1>2, <1>6, <2>3, <2>4 DEF Promised, p
  <2>6. Children(q, f) = << With(q, p, <<a, (a + b) \div 2>>), With(q, p, <<(a + b) \div 2 + 1, b>>) >>
    BY <1>6, <2>2 DEF Children, RangeChildren, p
  <2>7. <<a, (a + b) \div 2>> \in Value /\ <<(a + b) \div 2 + 1, b>> \in Value
    BY DEF Value
  <2> HIDE <2>2
  <2>8. \/ Matches(x, With(q, p, <<a, (a + b) \div 2>>))
        \/ Matches(x, With(q, p, <<(a + b) \div 2 + 1, b>>))
    BY <1>3, <2>5, <2>7
  <2> DEFINE c == With(q, p, <<a, (a + b) \div 2>>)
  <2> DEFINE d == With(q, p, <<(a + b) \div 2 + 1, b>>)
  <2> HIDE DEF c, d
  <2>9. Children(q, f) = <<c, d>> /\ (Matches(x, c) \/ Matches(x, d))
    BY <2>6, <2>8 DEF c, d
  <2>10. \E k \in DOMAIN <<c, d>> : Matches(x, <<c, d>>[k])
    BY <2>9
  <2> QED
    BY <2>9, <2>10 DEF f
<1>7. CASE f.type = "substring"
  <2> DEFINE w(k) == Append(Prefix(f, q), f.alphabet[k])
  <2>1. f.alphabet \in Seq(STRING) /\ Children(q, f) = [k \in DOMAIN f.alphabet |-> With(q, p, w(k))]
    BY <1>1, <1>7, FacetKinds DEF Children, SubstringChildren, p
  <2>2. Prefix(f, q) \in Seq(Letters(f)) /\ Len(Prefix(f, q)) < f.depth /\ f.depth \in Nat
    BY <1>1, <1>7, PrefixIs, FacetKinds DEF f, Splits
  <2>3. \A k \in DOMAIN f.alphabet : w(k) \in Value
    BY <1>1, <1>7, <2>2, LettersAre, AppendProperties DEF Value
  <2>4. PICK n \in Nat : n = Len(Prefix(f, q)) /\ Prefix(f, q) \in [1..n -> Letters(f)]
    BY <2>2
  <2>5. n \in 0..f.depth - 1
    BY <2>2, <2>4
  <2>6. n = 0 \/ Answers(x, p, Prefix(f, q))
    BY <2>4 DEF Prefix, Matches, p
  <2>7. f.complete => \E k \in DOMAIN f.alphabet : Answers(x, p, w(k))
    BY <1>2, <1>7, <2>4, <2>5, <2>6 DEF Promised, p
  <2> HIDE DEF w
  <2> QED
    BY <1>3, <1>7, <2>1, <2>3, <2>7 DEF CatchAll, f
<1> QED
  BY <1>1, <1>4, <1>5, <1>6, <1>7 DEF f

\* The facet that splits a query next.
LEMMA NextIs ==
  ASSUME NEW facets \in Seq(Facet), NEW q, NEW i \in Nat, i >= 1
  PROVE  /\ NextFacet(facets, q, i) \in Nat
         /\ NextFacet(facets, q, i) # 0 =>
              /\ NextFacet(facets, q, i) \in DOMAIN facets /\ i <= NextFacet(facets, q, i)
              /\ Splits(q, facets[NextFacet(facets, q, i)])
<1> DEFINE able == {j \in i..Len(facets) : Splits(q, facets[j])}
<1>1. able \in SUBSET Nat /\ DOMAIN facets = 1..Len(facets) /\ Len(facets) \in Nat
  OBVIOUS
<1>2. NextFacet(facets, q, i) = IF able = {} THEN 0 ELSE CHOOSE j \in able : \A k \in able : j <= k
  BY DEF NextFacet
<1>3. CASE able = {}
  BY <1>2, <1>3
<1>4. CASE able # {}
  <2>1. \E j \in able : \A k \in able : j <= k
    BY <1>1, <1>4, LeastNatural
  <2>2. NextFacet(facets, q, i) \in able
    BY <1>2, <1>4, <2>1
  <2> QED
    BY <1>1, <2>2
<1> QED
  BY <1>3, <1>4

\* The members of a sequence that grows or shrinks by one.
LEMMA MembersCons ==
  ASSUME NEW S, NEW s \in Seq(S), NEW x \in S
  PROVE  <<x>> \o s \in Seq(S) /\ ToSet(<<x>> \o s) = {x} \cup ToSet(s)
<1> DEFINE t == <<x>> \o s
<1>1. t \in Seq(S) /\ Len(t) = Len(s) + 1 /\ t[1] = x /\ \A k \in 1..Len(s) : t[k + 1] = s[k]
  OBVIOUS
<1>2. DOMAIN t = 1..Len(s) + 1 /\ DOMAIN s = 1..Len(s) /\ Len(s) \in Nat
  BY <1>1
<1> HIDE DEF t
<1>3. ASSUME NEW k \in DOMAIN t PROVE t[k] \in {x} \cup ToSet(s)
  <2>1. CASE k = 1
    BY <2>1, <1>1
  <2>2. CASE k # 1
    <3>1. PICK m \in 1..Len(s) : k = m + 1
      <4>1. k - 1 \in 1..Len(s) /\ k = (k - 1) + 1
        BY <2>2, <1>2
      <4> QED
        BY <4>1
    <3>2. t[k] = s[m] /\ m \in DOMAIN s
      BY <3>1, <1>1, <1>2
    <3> QED
      BY <3>2 DEF ToSet
  <2> QED
    BY <2>1, <2>2
<1>4. ASSUME NEW m \in DOMAIN s PROVE s[m] \in ToSet(t)
  <2>1. m + 1 \in DOMAIN t /\ t[m + 1] = s[m]
    BY <1>1, <1>2
  <2> QED
    BY <2>1 DEF ToSet
<1>5. x \in ToSet(t)
  <2>1. 1 \in DOMAIN t
    BY <1>2
  <2> QED
    BY <2>1, <1>1 DEF ToSet
<1>6. ToSet(t) \subseteq {x} \cup ToSet(s)
  BY <1>3 DEF ToSet
<1>7. ToSet(s) \subseteq ToSet(t)
  BY <1>4 DEF ToSet
<1> QED
  BY <1>1, <1>5, <1>6, <1>7 DEF t

LEMMA MembersTail ==
  ASSUME NEW S, NEW s \in Seq(S), s # <<>>
  PROVE  /\ Head(s) \in S /\ Tail(s) \in Seq(S)
         /\ Len(Tail(s)) = Len(s) - 1 /\ \A k \in DOMAIN Tail(s) : Tail(s)[k] = s[k + 1]
         /\ ToSet(s) = {Head(s)} \cup ToSet(Tail(s))
<1> DEFINE x == Head(s)
<1> DEFINE t == Tail(s)
<1>1. /\ x \in S /\ t \in Seq(S) /\ x = s[1] /\ Len(s) \in Nat /\ Len(s) >= 1
      /\ Len(t) = Len(s) - 1 /\ \A k \in 1..Len(t) : t[k] = s[k + 1]
  OBVIOUS
<1>2. DOMAIN s = 1..Len(s) /\ DOMAIN t = 1..Len(s) - 1
  BY <1>1
<1> HIDE DEF x, t
<1>3. ASSUME NEW k \in DOMAIN s PROVE s[k] \in {x} \cup ToSet(t)
  <2>1. CASE k = 1
    BY <2>1, <1>1
  <2>2. CASE k # 1
    <3>1. PICK m \in 1..Len(t) : k = m + 1
      <4>1. k - 1 \in 1..Len(t) /\ k = (k - 1) + 1
        BY <2>2, <1>1, <1>2
      <4> QED
        BY <4>1
    <3>2. s[k] = t[m] /\ m \in DOMAIN t
      BY <3>1, <1>1, <1>2
    <3> QED
      BY <3>2 DEF ToSet
  <2> QED
    BY <2>1, <2>2
<1>4. ASSUME NEW m \in DOMAIN t PROVE t[m] \in ToSet(s) /\ t[m] = s[m + 1]
  <2>1. m + 1 \in DOMAIN s /\ t[m] = s[m + 1]
    BY <1>1, <1>2
  <2> QED
    BY <2>1 DEF ToSet
<1>5. x \in ToSet(s)
  <2>1. 1 \in DOMAIN s
    BY <1>1, <1>2
  <2> QED
    BY <2>1, <1>1 DEF ToSet
<1>6. ToSet(s) \subseteq {x} \cup ToSet(t)
  BY <1>3 DEF ToSet
<1>7. ToSet(t) \subseteq ToSet(s)
  BY <1>4 DEF ToSet
<1> QED
  BY <1>1, <1>4, <1>5, <1>6, <1>7 DEF x, t

LEMMA MembersAppend ==
  ASSUME NEW S, NEW s \in Seq(S), NEW x \in S
  PROVE  Append(s, x) \in Seq(S) /\ ToSet(Append(s, x)) = ToSet(s) \cup {x}
<1> DEFINE t == Append(s, x)
<1>1. t \in Seq(S) /\ Len(t) = Len(s) + 1 /\ t[Len(s) + 1] = x /\ \A k \in 1..Len(s) : t[k] = s[k]
  BY AppendProperties
<1>2. DOMAIN t = 1..Len(s) + 1 /\ DOMAIN s = 1..Len(s) /\ Len(s) \in Nat
  BY <1>1
<1> HIDE DEF t
<1>3. \A k \in DOMAIN t : k = Len(s) + 1 \/ k \in DOMAIN s
  BY <1>2
<1>4. Len(s) + 1 \in DOMAIN t /\ \A k \in DOMAIN s : k \in DOMAIN t
  BY <1>2
<1>5. \A k \in DOMAIN t : t[k] \in ToSet(s) \cup {x}
  BY <1>1, <1>2, <1>3 DEF ToSet
<1>6. x \in ToSet(t) /\ \A k \in DOMAIN s : s[k] \in ToSet(t)
  BY <1>1, <1>2, <1>4 DEF ToSet
<1>7. ToSet(t) \subseteq ToSet(s) \cup {x} /\ ToSet(s) \cup {x} \subseteq ToSet(t)
  BY <1>5, <1>6 DEF ToSet
<1> QED
  BY <1>1, <1>7 DEF t

Push(plan, frame) == [plan EXCEPT !.stack = <<frame>> \o @]
Pop(plan) == [plan EXCEPT !.stack = Tail(@)]
Leaf(plan, q) == [plan EXCEPT !.leaves = Append(@, q)]
Overfull(plan, q) == [plan EXCEPT !.leaves = Append(@, q), !.over = TRUE]

LEMMA PlanIs ==
  ASSUME NEW plan \in Plan
  PROVE  plan.stack \in Seq(Frame) /\ plan.leaves \in Seq(Query) /\ plan.over \in BOOLEAN
BY DEF Plan

LEMMA PushIs ==
  ASSUME NEW plan \in Plan, NEW fr \in Frame
  PROVE  /\ Push(plan, fr) \in Plan /\ Push(plan, fr).stack = <<fr>> \o plan.stack
         /\ Push(plan, fr).leaves = plan.leaves /\ (Push(plan, fr).over <=> plan.over)
<1>1. PICK a \in Seq(Frame), b \in Seq(Query), c \in BOOLEAN :
        plan = [stack |-> a, leaves |-> b, over |-> c]
  BY DEF Plan
<1>2. plan.stack = a /\ plan.leaves = b /\ plan.over = c
  BY <1>1
<1> DEFINE d == <<fr>> \o a
<1>3. Push(plan, fr) = [stack |-> d, leaves |-> b, over |-> c]
  <2>1. Push(plan, fr) = [plan EXCEPT !.stack = d]
    BY <1>2 DEF Push
  <2> HIDE DEF d
  <2> QED
    BY <1>1, <2>1
<1>4. d \in Seq(Frame)
  BY MembersCons
<1> HIDE DEF d
<1>5. [stack |-> d, leaves |-> b, over |-> c] \in Plan
  BY <1>4 DEF Plan
<1> QED
  BY <1>2, <1>3, <1>5 DEF d

LEMMA LeafIs ==
  ASSUME NEW plan \in Plan, NEW q \in Query
  PROVE  /\ Leaf(plan, q) \in Plan /\ Leaf(plan, q).leaves = Append(plan.leaves, q)
         /\ Leaf(plan, q).stack = plan.stack /\ (Leaf(plan, q).over <=> plan.over)
         /\ Overfull(plan, q) \in Plan /\ Overfull(plan, q).leaves = Append(plan.leaves, q)
         /\ Overfull(plan, q).stack = plan.stack /\ Overfull(plan, q).over
<1>1. PICK a \in Seq(Frame), b \in Seq(Query), c \in BOOLEAN :
        plan = [stack |-> a, leaves |-> b, over |-> c]
  BY DEF Plan
<1>2. plan.stack = a /\ plan.leaves = b /\ plan.over = c
  BY <1>1
<1> DEFINE e == Append(b, q)
<1>3. /\ Leaf(plan, q) = [stack |-> a, leaves |-> e, over |-> c]
      /\ Overfull(plan, q) = [stack |-> a, leaves |-> e, over |-> TRUE]
  <2>1. /\ Leaf(plan, q) = [plan EXCEPT !.leaves = e]
        /\ Overfull(plan, q) = [plan EXCEPT !.leaves = e, !.over = TRUE]
    BY <1>2 DEF Leaf, Overfull
  <2> HIDE DEF e
  <2> QED
    BY <1>1, <2>1
<1>4. e \in Seq(Query)
  BY MembersAppend
<1> HIDE DEF e
<1>5. /\ [stack |-> a, leaves |-> e, over |-> c] \in Plan
      /\ [stack |-> a, leaves |-> e, over |-> TRUE] \in Plan
  BY <1>4 DEF Plan
<1> QED
  BY <1>2, <1>3, <1>5 DEF e

LEMMA PopIs ==
  ASSUME NEW plan \in Plan, plan.stack # <<>>
  PROVE  /\ Pop(plan) \in Plan /\ Pop(plan).stack = Tail(plan.stack)
         /\ Pop(plan).leaves = plan.leaves /\ (Pop(plan).over <=> plan.over)
<1>1. PICK a \in Seq(Frame), b \in Seq(Query), c \in BOOLEAN :
        plan = [stack |-> a, leaves |-> b, over |-> c]
  BY DEF Plan
<1>2. plan.stack = a /\ plan.leaves = b /\ plan.over = c
  BY <1>1
<1> DEFINE d == Tail(a)
<1>3. Pop(plan) = [stack |-> d, leaves |-> b, over |-> c]
  <2>1. Pop(plan) = [plan EXCEPT !.stack = d]
    BY <1>2 DEF Pop
  <2> HIDE DEF d
  <2> QED
    BY <1>1, <2>1
<1>4. d \in Seq(Frame)
  BY <1>2, MembersTail
<1> HIDE DEF d
<1>5. [stack |-> d, leaves |-> b, over |-> c] \in Plan
  BY <1>4 DEF Plan
<1> QED
  BY <1>2, <1>3, <1>5 DEF d

\* What a plan owes, in terms of its sets of facets and slices.
LEMMA SoughtIs ==
  ASSUME NEW plan, NEW facets, NEW x
  PROVE  Sought(plan, facets, x) <=>
           \/ \E q \in ToSet(plan.leaves) : Matches(x, q)
           \/ \E fr \in ToSet(plan.stack) : SoughtBy(facets, fr, x)
BY DEF Sought, ToSet

NewFrame(facets, q, total, j) ==
  [query |-> q, facet |-> j, total |-> total, ask |-> Children(q, facets[j]), left |-> total]

LEMMA CapIs == Cap \in Nat /\ Cap > 0
  BY CapAssumption

LEMMA CollectIs ==
  ASSUME NEW plan \in Plan, NEW facets \in Seq(Facet), NEW q \in Query, NEW total \in Nat,
         NEW i \in Nat, i >= 1
  PROVE  LET new == Collect(plan, facets, q, total, i)
             j   == NextFacet(facets, q, i)
         IN  \/ total = 0 /\ new = plan
             \/ total \in 1..Cap /\ new = Leaf(plan, q)
             \/ total > Cap /\ new = Overfull(plan, q)
             \/ /\ total > Cap /\ new = Push(plan, NewFrame(facets, q, total, j))
                /\ j \in DOMAIN facets /\ i <= j /\ Splits(q, facets[j])
<1> DEFINE j == NextFacet(facets, q, i)
<1>0. j \in Nat /\ (j # 0 => j \in DOMAIN facets /\ i <= j /\ Splits(q, facets[j]))
  BY NextIs
<1> DEFINE frame == [query |-> q, facet |-> j, total |-> total,
                     ask |-> Children(q, facets[j]), left |-> total]
<1>1. Collect(plan, facets, q, total, i) =
        CASE total = 0             -> plan
          [] total \in 1..Cap      -> [plan EXCEPT !.leaves = Append(@, q)]
          [] total > Cap /\ j = 0  -> [plan EXCEPT !.leaves = Append(@, q), !.over = TRUE]
          [] total > Cap /\ j # 0  -> [plan EXCEPT !.stack = <<frame>> \o @]
  BY DEF Collect
<1> HIDE DEF j
<1>2. frame = NewFrame(facets, q, total, j)
  BY DEF NewFrame
<1> HIDE DEF frame
<1>4. CASE total = 0
  BY <1>1, <1>4, CapIs
<1>5. CASE total \in 1..Cap
  BY <1>1, <1>5, CapIs DEF Leaf
<1>6. CASE total > Cap /\ j = 0
  BY <1>1, <1>6, CapIs DEF Overfull
<1>7. CASE total > Cap /\ j # 0
  BY <1>0, <1>1, <1>2, <1>7, CapIs DEF Push, j
<1> QED
  BY <1>0, <1>4, <1>5, <1>6, <1>7, CapIs

LEMMA QueryStays ==
  ASSUME NEW facets \in Seq(Facet), NEW q, NEW i \in Nat, NEW j \in Nat, i <= j,
         QueryOK(facets, q, i)
  PROVE  QueryOK(facets, q, j)
<1>1. \A k \in DOMAIN facets : k \in Nat
  OBVIOUS
<1>2. \A k \in Nat : (k <= i => k <= j) /\ (k < i => k < j)
  OBVIOUS
<1> QED
  BY <1>1, <1>2 DEF QueryOK

\* A disjoint enum is asked for all its values in their order.
LEMMA EnumAsks ==
  ASSUME NEW f \in Facet, f.type = "enum", NEW q \in Query
  PROVE  /\ Children(q, f) \in Seq(Query) /\ Len(Children(q, f)) = Len(f.values)
         /\ \A k \in DOMAIN Children(q, f) : Children(q, f)[k] = With(q, f.param, f.values[k])
         /\ Len(f.values) \in Nat /\ \A k \in DOMAIN f.values : f.values[k] \in Value
         /\ DOMAIN f.values = 1..Len(f.values)
<1>1. f.values \in Seq(STRING) /\ f.param \in STRING
  BY FacetKinds
<1>2. PICK n \in Nat : n = Len(f.values) /\ DOMAIN f.values = 1..n
  BY <1>1
<1>3. Children(q, f) = [k \in 1..n |-> With(q, f.param, f.values[k])]
  BY <1>2 DEF Children, EnumChildren
<1>4. \A k \in 1..n : f.values[k] \in Value
  BY <1>1, <1>2 DEF Value
<1>5. \A k \in 1..n : With(q, f.param, f.values[k]) \in Query
  BY <1>1, <1>4, WithIs
<1>6. Children(q, f) \in [1..n -> Query]
  BY <1>3, <1>5
<1>7. Children(q, f) \in Seq(Query) /\ Len(Children(q, f)) = n
  BY <1>6
<1> QED
  BY <1>2, <1>3, <1>4, <1>7

LEMMA NewFrameIs ==
  ASSUME NEW facets \in Seq(Facet), Distinct(facets), NEW j \in DOMAIN facets,
         NEW q \in Query, NEW i \in Nat, QueryOK(facets, q, i), i <= j, Splits(q, facets[j]),
         NEW total \in Nat, total > Cap
  PROVE  /\ NewFrame(facets, q, total, j) \in Frame
         /\ FrameOK(facets, NewFrame(facets, q, total, j))
<1> DEFINE fr == NewFrame(facets, q, total, j)
<1> DEFINE f == facets[j]
<1>1. /\ f \in Facet /\ f.type \in {"enum", "range", "substring"} /\ j \in Nat /\ j # 0
      /\ j \in 0..Len(facets)
  BY FacetKinds
<1>2. /\ Children(q, f) \in Seq(Query)
      /\ \A k \in DOMAIN Children(q, f) : QueryOK(facets, Children(q, f)[k], Further(f, j))
  BY ChildrenAre
<1>3. /\ fr.query = q /\ fr.facet = j /\ fr.total = total /\ fr.ask = Children(q, f)
      /\ fr.left = total
  BY DEF NewFrame
<1>4. fr \in Frame
  BY <1>1, <1>2 DEF NewFrame, Frame
<1>5. Onward(facets, fr) = Further(f, j)
  BY <1>1, <1>3 DEF Onward, Further
<1>6. QueryOK(facets, q, j)
  BY <1>1, QueryStays
<1> HIDE DEF fr
<1>7. ASSUME Counts(facets, fr)
      PROVE  /\ Len(f.values) - Len(fr.ask) = 0
             /\ \A k \in DOMAIN fr.ask :
                  fr.ask[k] = With(fr.query, f.param, f.values[0 + k])
  <2>1. f.type = "enum"
    BY <1>3, <1>7 DEF Counts
  <2>2. /\ Len(Children(q, f)) = Len(f.values) /\ Len(f.values) \in Nat
        /\ \A k \in DOMAIN Children(q, f) : Children(q, f)[k] = With(q, f.param, f.values[k])
    BY <1>1, <2>1, EnumAsks
  <2>3. \A k \in DOMAIN Children(q, f) : 0 + k = k
    BY <1>2
  <2> QED
    BY <1>3, <2>2, <2>3
<1>8. Counts(facets, fr) =>
        /\ Len(f.values) - Len(fr.ask) >= 0
        /\ \A k \in DOMAIN fr.ask :
             fr.ask[k] = With(fr.query, f.param, f.values[(Len(f.values) - Len(fr.ask)) + k])
  BY <1>7
<1> QED
  BY <1>1, <1>2, <1>3, <1>4, <1>5, <1>6, <1>8 DEF FrameOK, fr

LEMMA NewFrameCounts ==
  ASSUME NEW facets \in Seq(Facet), NEW j \in DOMAIN facets, NEW q \in Query,
         NEW total, NEW all, total = Cardinality(Slice(all, q))
  PROVE  CountOK(facets, NewFrame(facets, q, total, j), all)
<1> DEFINE fr == NewFrame(facets, q, total, j)
<1> DEFINE f == facets[j]
<1>1. f \in Facet
  OBVIOUS
<1>2. /\ fr.query = q /\ fr.facet = j /\ fr.total = total /\ fr.ask = Children(q, f)
      /\ fr.left = total
  BY DEF NewFrame
<1> HIDE DEF fr
<1>3. ASSUME Counts(facets, fr) PROVE NotFound(f, fr, all) = Slice(all, q)
  <2>1. f.type = "enum"
    BY <1>2, <1>3 DEF Counts
  <2>2. Len(Children(q, f)) = Len(f.values) /\ Len(f.values) \in Nat
    BY <1>1, <2>1, EnumAsks
  <2>3. 1..Len(f.values) - Len(fr.ask) = {}
    BY <1>2, <2>2
  <2> QED
    BY <1>2, <2>3 DEF NotFound
<1> QED
  BY <1>2, <1>3 DEF CountOK, fr

LEMMA NewFrameSeeks ==
  ASSUME NEW facets \in Seq(Facet), Promises(facets), NEW j \in DOMAIN facets,
         NEW q \in Query, NEW i \in Nat, QueryOK(facets, q, i), Splits(q, facets[j]),
         NEW total, NEW x \in Rec, Matches(x, q)
  PROVE  SoughtBy(facets, NewFrame(facets, q, total, j), x)
<1> DEFINE fr == NewFrame(facets, q, total, j)
<1>1. fr.query = q /\ fr.facet = j /\ fr.ask = Children(q, facets[j]) /\ j # 0
  BY DEF NewFrame
<1>2. \/ \E k \in DOMAIN Children(q, facets[j]) : Matches(x, Children(q, facets[j])[k])
      \/ CatchAll(q, facets[j])
  BY Cover
<1> HIDE DEF fr
<1> QED
  BY <1>1, <1>2 DEF SoughtBy, fr

FramesOK(facets, plan) == \A fr \in ToSet(plan.stack) : FrameOK(facets, fr)
Counted(facets, plan, all) == \A fr \in ToSet(plan.stack) : CountOK(facets, fr, all)

\* A query is asked for, becomes a slice, or is split, and nothing else is lost.
LEMMA CollectKeeps ==
  ASSUME NEW plan \in Plan, NEW facets \in Seq(Facet), Distinct(facets), Promises(facets),
         NEW q \in Query, NEW total \in Nat, NEW i \in Nat, i >= 1, QueryOK(facets, q, i),
         FramesOK(facets, plan)
  PROVE  LET new == Collect(plan, facets, q, total, i) IN
         /\ new \in Plan /\ FramesOK(facets, new)
         /\ plan.over => new.over
         /\ new.over \/ \A l \in ToSet(new.leaves) : l \in ToSet(plan.leaves) \/ (l = q /\ total <= Cap)
         /\ \A all : total = Cardinality(Slice(all, q)) /\ Counted(facets, plan, all) =>
              Counted(facets, new, all)
         /\ \A x \in Rec : Sought(plan, facets, x) \/ (Matches(x, q) /\ total # 0) =>
              Sought(new, facets, x)
<1> DEFINE new == Collect(plan, facets, q, total, i)
<1> DEFINE j == NextFacet(facets, q, i)
<1> DEFINE fr == NewFrame(facets, q, total, j)
<1>0. /\ plan.stack \in Seq(Frame) /\ plan.leaves \in Seq(Query)
      /\ ToSet(Append(plan.leaves, q)) = ToSet(plan.leaves) \cup {q}
  BY PlanIs, MembersAppend
<1> HIDE DEF j, fr, new
<1>1. CASE total = 0 /\ new = plan
  <2>1. new = plan
    BY <1>1
  <2>2. new.over <=> plan.over
    BY <2>1
  <2>3. \A l \in ToSet(new.leaves) : l \in ToSet(plan.leaves)
    BY <2>1
  <2>4. \A all : Counted(facets, plan, all) => Counted(facets, new, all)
    BY <2>1
  <2>5. \A x \in Rec : Sought(plan, facets, x) => Sought(new, facets, x)
    BY <2>1
  <2>6. new \in Plan /\ FramesOK(facets, new)
    BY <2>1
  <2> QED
    BY <1>1, <2>2, <2>3, <2>4, <2>5, <2>6 DEF new
<1>2. CASE total \in 1..Cap /\ new = Leaf(plan, q)
  <2>1. /\ new \in Plan /\ new.leaves = Append(plan.leaves, q) /\ new.stack = plan.stack
        /\ (new.over <=> plan.over)
    BY <1>2, LeafIs
  <2>2. \A x : Sought(plan, facets, x) \/ Matches(x, q) => Sought(new, facets, x)
    BY <1>0, <2>1, SoughtIs
  <2> QED
    BY <1>0, <1>2, <2>1, <2>2, CapIs DEF FramesOK, Counted, new
<1>3. CASE total > Cap /\ new = Overfull(plan, q)
  <2>1. /\ new \in Plan /\ new.leaves = Append(plan.leaves, q) /\ new.stack = plan.stack
        /\ new.over
    BY <1>3, LeafIs
  <2>2. \A x : Sought(plan, facets, x) \/ Matches(x, q) => Sought(new, facets, x)
    BY <1>0, <2>1, SoughtIs
  <2> QED
    BY <1>0, <1>3, <2>1, <2>2 DEF FramesOK, Counted, new
<1>4. CASE total > Cap /\ new = Push(plan, fr) /\ j \in DOMAIN facets /\ i <= j /\ Splits(q, facets[j])
  <2>1. fr \in Frame /\ FrameOK(facets, fr)
    BY <1>4, NewFrameIs DEF fr
  <2>2. \A all : total = Cardinality(Slice(all, q)) => CountOK(facets, fr, all)
    BY <1>4, NewFrameCounts DEF fr
  <2>3. \A x \in Rec : Matches(x, q) => SoughtBy(facets, fr, x)
    BY <1>4, NewFrameSeeks DEF fr
  <2>4. /\ new \in Plan /\ new.stack = <<fr>> \o plan.stack /\ new.leaves = plan.leaves
        /\ (new.over <=> plan.over)
    BY <1>4, <2>1, PushIs
  <2>5. ToSet(new.stack) = {fr} \cup ToSet(plan.stack)
    BY <1>0, <2>1, <2>4, MembersCons
  <2>6. \A x \in Rec : Sought(plan, facets, x) \/ Matches(x, q) => Sought(new, facets, x)
    BY <2>3, <2>4, <2>5, SoughtIs
  <2>7. FramesOK(facets, new)
    BY <2>1, <2>5 DEF FramesOK
  <2>8. \A all : total = Cardinality(Slice(all, q)) /\ Counted(facets, plan, all) =>
          Counted(facets, new, all)
    BY <2>2, <2>5 DEF Counted
  <2>9. plan.over => new.over
    BY <2>4
  <2>10. \A l \in ToSet(new.leaves) : l \in ToSet(plan.leaves)
    BY <2>4
  <2>11. new.over \/ \A l \in ToSet(new.leaves) : l \in ToSet(plan.leaves) \/ (l = q /\ total <= Cap)
    BY <2>10
  <2>12. \A x \in Rec : Sought(plan, facets, x) \/ (Matches(x, q) /\ total # 0) =>
              Sought(new, facets, x)
    BY <2>6
  <2>13. new \in Plan
    BY <2>4
  <2> QED
    BY <2>7, <2>8, <2>9, <2>11, <2>12, <2>13 DEF new
<1> QED
  BY <1>1, <1>2, <1>3, <1>4, CollectIs DEF fr, j, new

LEMMA NarrowerMatches ==
  ASSUME NEW q \in Query, NEW p \in STRING, p \notin DOMAIN q, NEW v \in Value, NEW x
  PROVE  Matches(x, With(q, p, v)) <=> Matches(x, q) /\ Answers(x, p, v)
<1>1. DOMAIN q \ {p} = DOMAIN q
  OBVIOUS
<1>2. Matches(x, With(q, p, v)) <=> Answers(x, p, v) /\ \A r \in DOMAIN q : Answers(x, r, q[r])
  BY <1>1, WithMatches
<1> QED
  BY <1>2 DEF Matches

\* The values of a disjoint enum that are still to be asked for.
LEMMA CountsIs ==
  ASSUME NEW facets \in Seq(Facet), Promises(facets), NEW fr \in Frame, FrameOK(facets, fr),
         Counts(facets, fr)
  PROVE  LET f == facets[fr.facet]
             n == Len(f.values) - Len(fr.ask)
         IN  /\ fr.facet \in DOMAIN facets /\ f \in Facet /\ f.type = "enum" /\ n \in Nat
             /\ DOMAIN f.values = 1..Len(f.values) /\ Len(f.values) \in Nat
             /\ Len(fr.ask) \in Nat /\ DOMAIN fr.ask = 1..Len(fr.ask)
             /\ fr.query \in Query /\ f.param \in STRING /\ f.param \notin DOMAIN fr.query
             /\ \A k \in DOMAIN fr.ask : n + k \in DOMAIN f.values
             /\ \A x : \A k \in DOMAIN fr.ask :
                  Matches(x, fr.ask[k]) <=>
                    Matches(x, fr.query) /\ Answers(x, f.param, f.values[n + k])
             /\ \A x \in Rec, j, k \in DOMAIN f.values :
                  Answers(x, f.param, f.values[j]) /\ Answers(x, f.param, f.values[k]) => j = k
<1> DEFINE f == facets[fr.facet]
<1> DEFINE n == Len(f.values) - Len(fr.ask)
<1>1. fr.facet \in DOMAIN facets /\ f.type = "enum" /\ f.disjoint
  BY DEF Counts, FrameOK
<1>2. f \in Facet /\ f.param \in STRING /\ f.values \in Seq(STRING)
  BY <1>1, FacetKinds
<1>3. /\ DOMAIN f.values = 1..Len(f.values) /\ Len(f.values) \in Nat
      /\ \A k \in DOMAIN f.values : f.values[k] \in Value
  BY <1>2 DEF Value
<1>4. fr.ask \in Seq(Query) /\ fr.query \in Query
  BY DEF Frame
<1>5. Len(fr.ask) \in Nat /\ DOMAIN fr.ask = 1..Len(fr.ask)
  BY <1>4
<1>6. f.param \notin DOMAIN fr.query
  <2>1. QueryOK(facets, fr.query, fr.facet)
    BY DEF FrameOK
  <2>2. f.param \in DOMAIN fr.query => fr.facet < fr.facet
    BY <1>1, <2>1 DEF QueryOK
  <2>3. fr.facet \in Nat
    BY <1>1
  <2> QED
    BY <2>2, <2>3
<1>7. n >= 0 /\ \A k \in DOMAIN fr.ask : fr.ask[k] = With(fr.query, f.param, f.values[n + k])
  BY <1>1 DEF FrameOK
<1>8. \A k \in DOMAIN fr.ask : n + k \in DOMAIN f.values
  <2>1. PICK a \in Nat : a = Len(f.values)
    BY <1>3
  <2>2. PICK b \in Nat : b = Len(fr.ask)
    BY <1>5
  <2>3. DOMAIN f.values = 1..a /\ DOMAIN fr.ask = 1..b /\ n = a - b /\ a - b >= 0
    BY <1>3, <1>5, <1>7, <2>1, <2>2
  <2> HIDE DEF f, n
  <2> QED
    BY <2>3
<1>9. Promised(f, Rec)
  BY <1>1 DEF Promises
<1>10. \A x \in Rec, j, k \in DOMAIN f.values :
         Answers(x, f.param, f.values[j]) /\ Answers(x, f.param, f.values[k]) => j = k
  BY <1>1, <1>9 DEF Promised
<1>11. n \in Nat
  BY <1>3, <1>5, <1>7
<1> HIDE DEF f, n
<1>12. ASSUME NEW k \in DOMAIN fr.ask, NEW x
       PROVE  Matches(x, fr.ask[k]) <=>
                Matches(x, fr.query) /\ Answers(x, f.param, f.values[n + k])
  <2>1. f.values[n + k] \in Value
    BY <1>3, <1>8
  <2>2. fr.ask[k] = With(fr.query, f.param, f.values[n + k])
    BY <1>7
  <2> DEFINE v == f.values[n + k]
  <2> HIDE DEF v
  <2>3. v \in Value /\ fr.ask[k] = With(fr.query, f.param, v)
    BY <2>1, <2>2 DEF v
  <2>4. Matches(x, With(fr.query, f.param, v)) <=> Matches(x, fr.query) /\ Answers(x, f.param, v)
    BY <1>2, <1>4, <1>6, <2>3, NarrowerMatches
  <2> QED
    BY <2>3, <2>4 DEF v
<1> QED
  BY <1>1, <1>2, <1>3, <1>4, <1>5, <1>6, <1>8, <1>10, <1>11, <1>12 DEF f, n

\* Asking for one more value finds its records, and no others.
LEMMA CountedDown ==
  ASSUME NEW facets \in Seq(Facet), Promises(facets), NEW fr \in Frame, FrameOK(facets, fr),
         Counts(facets, fr), fr.ask # <<>>, NEW all \in SUBSET Rec,
         NEW new \in Frame, new.query = fr.query, new.ask = Tail(fr.ask)
  PROVE  LET f == facets[fr.facet] IN
         /\ Slice(all, Head(fr.ask)) \subseteq NotFound(f, fr, all)
         /\ NotFound(f, new, all) = NotFound(f, fr, all) \ Slice(all, Head(fr.ask))
         /\ \A k \in DOMAIN fr.ask, x \in all :
              k # 1 /\ Matches(x, fr.ask[k]) =>
                x \in NotFound(f, fr, all) \ Slice(all, Head(fr.ask))
<1> DEFINE f == facets[fr.facet]
<1> DEFINE n == Len(f.values) - Len(fr.ask)
<1> DEFINE A(x, k) == Answers(x, f.param, f.values[k])
<1>1. /\ n \in Nat /\ Len(f.values) \in Nat /\ Len(fr.ask) \in Nat /\ DOMAIN fr.ask = 1..Len(fr.ask)
      /\ DOMAIN f.values = 1..Len(f.values)
      /\ \A k \in DOMAIN fr.ask : n + k \in DOMAIN f.values
      /\ \A x : \A k \in DOMAIN fr.ask : Matches(x, fr.ask[k]) <=> Matches(x, fr.query) /\ A(x, n + k)
      /\ \A x \in Rec, j, k \in DOMAIN f.values : A(x, j) /\ A(x, k) => j = k
  BY CountsIs
<1>2. fr.ask \in Seq(Query)
  BY DEF Frame
<1>3. Head(fr.ask) = fr.ask[1] /\ Len(Tail(fr.ask)) = Len(fr.ask) - 1 /\ Len(fr.ask) >= 1
  BY <1>2
<1>4. Len(f.values) - Len(new.ask) = n + 1 /\ 1 \in DOMAIN fr.ask /\ n + 1 \in DOMAIN f.values
  <2>1. PICK a \in Nat : a = Len(f.values)
    BY <1>1
  <2>2. PICK b \in Nat : b = Len(fr.ask)
    BY <1>1
  <2>3. Len(new.ask) = b - 1 /\ b >= 1
    BY <1>3, <2>2
  <2>4. 1 \in DOMAIN fr.ask
    BY <1>1, <1>3
  <2>5. n + 1 \in DOMAIN f.values
    BY <1>1, <2>4
  <2>6. Len(f.values) - Len(new.ask) = (a - b) + 1
    <3>1. PICK c \in Int : c = Len(new.ask)
      BY <2>3
    <3>2. c = b - 1
      BY <2>3, <3>1
    <3>3. a - c = (a - b) + 1
      BY <3>2
    <3> HIDE DEF f
    <3> QED
      BY <2>1, <3>1, <3>3
  <2> QED
    BY <2>1, <2>2, <2>4, <2>5, <2>6
<1>5. \A x : x \in NotFound(f, fr, all) <=>
               x \in all /\ Matches(x, fr.query) /\ \A k \in 1..n : ~A(x, k)
  BY DEF NotFound, Slice
<1>6. \A x : x \in NotFound(f, new, all) <=>
               x \in all /\ Matches(x, fr.query) /\ \A k \in 1..n + 1 : ~A(x, k)
  BY <1>4 DEF NotFound, Slice
<1>7. \A x : x \in Slice(all, Head(fr.ask)) <=> x \in all /\ Matches(x, fr.query) /\ A(x, n + 1)
  <2>1. \A x : Matches(x, Head(fr.ask)) <=> Matches(x, fr.query) /\ A(x, n + 1)
    BY <1>1, <1>3, <1>4
  <2> HIDE DEF n, f, A
  <2> QED
    BY <2>1 DEF Slice
<1>8. /\ \A k \in 1..n : k \in DOMAIN f.values /\ k # n + 1
      /\ \A k \in 1..n + 1 : k \in 1..n \/ k = n + 1
      /\ \A k \in 1..n : k \in 1..n + 1
      /\ n + 1 \in 1..n + 1
      /\ \A k \in DOMAIN fr.ask : k # 1 => n + k # n + 1 /\ n + k \notin 1..n
  <2>1. PICK a \in Nat : a = Len(f.values) /\ DOMAIN f.values = 1..a
    BY <1>1
  <2>2. PICK b \in Nat : b = Len(fr.ask) /\ DOMAIN fr.ask = 1..b
    BY <1>1
  <2> HIDE DEF n, f, A
  <2> QED
    BY <1>1, <1>4, <2>1, <2>2
<1> HIDE DEF n, f, A
<1>9. ASSUME NEW x \in Slice(all, Head(fr.ask)) PROVE x \in NotFound(f, fr, all)
  <2>1. x \in all /\ x \in Rec /\ Matches(x, fr.query) /\ A(x, n + 1)
    BY <1>7
  <2>2. \A k \in 1..n : ~A(x, k)
    BY <2>1, <1>1, <1>4, <1>8
  <2> QED
    BY <2>1, <2>2, <1>5
<1>10. NotFound(f, new, all) = NotFound(f, fr, all) \ Slice(all, Head(fr.ask))
  <2>1. \A x : (\A k \in 1..n + 1 : ~A(x, k)) <=> (\A k \in 1..n : ~A(x, k)) /\ ~A(x, n + 1)
    BY <1>8
  <2>2. \A x : x \in NotFound(f, new, all) <=>
                 x \in NotFound(f, fr, all) /\ x \notin Slice(all, Head(fr.ask))
    BY <2>1, <1>5, <1>6, <1>7
  <2> QED
    BY <2>2
<1>11. ASSUME NEW k \in DOMAIN fr.ask, NEW x \in all, k # 1, Matches(x, fr.ask[k])
       PROVE  x \in NotFound(f, fr, all) \ Slice(all, Head(fr.ask))
  <2>1. x \in Rec /\ Matches(x, fr.query) /\ A(x, n + k) /\ n + k \in DOMAIN f.values
    BY <1>1, <1>11
  <2>2. \A i \in 1..n : ~A(x, i)
    BY <2>1, <1>1, <1>8, <1>11
  <2>3. ~A(x, n + 1)
    BY <2>1, <1>1, <1>4, <1>8, <1>11
  <2> QED
    BY <2>1, <2>2, <2>3, <1>5, <1>7
<1> QED
  BY <1>9, <1>10, <1>11 DEF f

LEMMA TopIs ==
  ASSUME NEW plan \in Plan, plan.stack # <<>>, NEW facets, FramesOK(facets, plan)
  PROVE  /\ Head(plan.stack) \in Frame /\ FrameOK(facets, Head(plan.stack))
         /\ ToSet(plan.stack) = {Head(plan.stack)} \cup ToSet(Pop(plan).stack)
         /\ Pop(plan) \in Plan /\ Pop(plan).leaves = plan.leaves /\ (Pop(plan).over <=> plan.over)
         /\ Pop(plan).stack = Tail(plan.stack) /\ FramesOK(facets, Pop(plan))
<1>1. plan.stack \in Seq(Frame)
  BY PlanIs
<1>2. /\ Pop(plan) \in Plan /\ Pop(plan).leaves = plan.leaves /\ (Pop(plan).over <=> plan.over)
      /\ Pop(plan).stack = Tail(plan.stack)
  BY PopIs
<1>3. /\ Head(plan.stack) \in Frame
      /\ ToSet(plan.stack) = {Head(plan.stack)} \cup ToSet(Tail(plan.stack))
  BY <1>1, MembersTail
<1> QED
  BY <1>2, <1>3 DEF FramesOK

\* The frame that is left when the next query of a facet has its total.
Asked(fr, left, ask) == [fr EXCEPT !.left = left, !.ask = ask]

LEMMA AskedIs ==
  ASSUME NEW facets \in Seq(Facet), NEW fr \in Frame, FrameOK(facets, fr), fr.ask # <<>>,
         NEW left \in Int, NEW ask \in {<<>>, Tail(fr.ask)}
  PROVE  LET new == Asked(fr, left, ask) IN
         /\ new \in Frame /\ FrameOK(facets, new)
         /\ new.query = fr.query /\ new.facet = fr.facet /\ new.total = fr.total
         /\ new.ask = ask /\ new.left = left
         /\ Onward(facets, new) = Onward(facets, fr) /\ (Counts(facets, new) <=> Counts(facets, fr))
         /\ Head(fr.ask) \in Query /\ QueryOK(facets, Head(fr.ask), Onward(facets, fr))
         /\ Onward(facets, fr) \in Nat /\ Onward(facets, fr) >= 1
<1> DEFINE new == Asked(fr, left, ask)
<1>0. new = [fr EXCEPT !.left = left, !.ask = ask]
  BY DEF Asked
<1> HIDE DEF new
<1>1. /\ fr.query \in Query /\ fr.facet \in Nat /\ fr.total \in Nat /\ fr.ask \in Seq(Query)
      /\ fr.left \in Int /\ fr = [query |-> fr.query, facet |-> fr.facet, total |-> fr.total,
                                   ask |-> fr.ask, left |-> fr.left]
  BY DEF Frame
<1>2. /\ new.query = fr.query /\ new.facet = fr.facet /\ new.total = fr.total
      /\ new.ask = ask /\ new.left = left
  BY <1>0, <1>1
<1>3. new = [query |-> fr.query, facet |-> fr.facet, total |-> fr.total, ask |-> ask, left |-> left]
  BY <1>0, <1>1
<1>4. /\ Tail(fr.ask) \in Seq(Query) /\ Head(fr.ask) \in Query /\ Head(fr.ask) = fr.ask[1]
      /\ 1 \in DOMAIN fr.ask /\ Len(fr.ask) \in Nat /\ Len(fr.ask) >= 1
      /\ \A k \in DOMAIN Tail(fr.ask) : Tail(fr.ask)[k] = fr.ask[k + 1] /\ k + 1 \in DOMAIN fr.ask
      /\ Len(Tail(fr.ask)) = Len(fr.ask) - 1
  <2>1. /\ Tail(fr.ask) \in Seq(Query) /\ Head(fr.ask) \in Query
        /\ Len(Tail(fr.ask)) = Len(fr.ask) - 1
        /\ \A k \in DOMAIN Tail(fr.ask) : Tail(fr.ask)[k] = fr.ask[k + 1]
    BY <1>1, MembersTail
  <2>2. PICK m \in Nat : m = Len(fr.ask) /\ DOMAIN fr.ask = 1..m /\ m >= 1 /\ Head(fr.ask) = fr.ask[1]
    BY <1>1
  <2>3. DOMAIN Tail(fr.ask) = 1..m - 1
    BY <2>1, <2>2
  <2> QED
    BY <2>1, <2>2, <2>3
<1>5. ask \in Seq(Query)
  BY <1>4, EmptySeq
<1>6. new \in Frame
  BY <1>1, <1>3, <1>5 DEF Frame
<1> HIDE <1>3
<1>7. Onward(facets, new) = Onward(facets, fr) /\ (Counts(facets, new) <=> Counts(facets, fr))
  BY <1>2 DEF Onward, Counts
<1>8. /\ fr.facet \in 0..Len(facets) /\ QueryOK(facets, fr.query, fr.facet)
      /\ \A k \in DOMAIN fr.ask : QueryOK(facets, fr.ask[k], Onward(facets, fr))
      /\ fr.facet # 0 => fr.total > Cap
  BY DEF FrameOK
<1>9. \A k \in DOMAIN new.ask : QueryOK(facets, new.ask[k], Onward(facets, new))
  <2>1. CASE ask = <<>>
    <3>1. DOMAIN new.ask = {}
      BY <2>1, <1>2
    <3> QED
      BY <3>1
  <2>2. CASE ask = Tail(fr.ask)
    BY <2>2, <1>2, <1>4, <1>7, <1>8
  <2> QED
    BY <2>1, <2>2
<1>10. ASSUME Counts(facets, new)
       PROVE  LET f == facets[new.facet]
                  n == Len(f.values) - Len(new.ask)
              IN  n >= 0 /\ \A k \in DOMAIN new.ask : new.ask[k] = With(new.query, f.param, f.values[n + k])
  <2> DEFINE f == facets[fr.facet]
  <2>1. Counts(facets, fr) /\ fr.facet \in DOMAIN facets /\ f.type = "enum"
    BY <1>7, <1>8, <1>10 DEF Counts
  <2>2. /\ Len(f.values) - Len(fr.ask) >= 0
        /\ \A k \in DOMAIN fr.ask :
             fr.ask[k] = With(fr.query, f.param, f.values[(Len(f.values) - Len(fr.ask)) + k])
    BY <2>1 DEF FrameOK
  <2>3. f \in Facet /\ f.values \in Seq(STRING)
    BY <2>1, FacetKinds
  <2>4. PICK a \in Nat : a = Len(f.values)
    BY <2>3
  <2>5. PICK b \in Nat : b = Len(fr.ask)
    BY <1>4
  <2>6. CASE ask = <<>>
    <3>1. DOMAIN new.ask = {} /\ Len(new.ask) = 0
      BY <2>6, <1>2, EmptySeq
    <3>2. Len(f.values) - Len(new.ask) >= 0
      BY <2>4, <3>1
    <3> QED
      BY <3>1, <3>2, <1>2
  <2>7. CASE ask = Tail(fr.ask)
    <3>1. Len(new.ask) = b - 1 /\ b >= 1
      BY <2>5, <2>7, <1>2, <1>4
    <3>2. Len(f.values) - Len(new.ask) = (a - b) + 1
      <4>1. PICK c \in Int : c = Len(new.ask) /\ c = b - 1
        BY <3>1
      <4>2. a - c = (a - b) + 1
        BY <4>1
      <4> HIDE DEF f
      <4> QED
        BY <2>4, <4>1, <4>2
    <3>3. a - b >= 0
      BY <2>2, <2>4, <2>5
    <3>4. ASSUME NEW k \in DOMAIN new.ask
          PROVE  new.ask[k] = With(new.query, f.param, f.values[((a - b) + 1) + k])
      <4>1. k \in Nat
        BY <2>7, <1>2, <1>4
      <4>2. new.ask[k] = fr.ask[k + 1] /\ k + 1 \in DOMAIN fr.ask
        BY <2>7, <1>2, <1>4
      <4>3. fr.ask[k + 1] = With(fr.query, f.param, f.values[(a - b) + (k + 1)])
        BY <2>2, <2>4, <2>5, <4>2
      <4>4. (a - b) + (k + 1) = ((a - b) + 1) + k
        BY <4>1
      <4> HIDE DEF f
      <4> QED
        BY <4>2, <4>3, <4>4, <1>2
    <3>5. (a - b) + 1 >= 0
      BY <3>3
    <3>6. f = facets[new.facet]
      BY <1>2
    <3> HIDE DEF f
    <3> QED
      BY <3>2, <3>4, <3>5, <3>6
  <2> QED
    BY <2>6, <2>7
<1>11. FrameOK(facets, new)
  BY <1>2, <1>7, <1>8, <1>9, <1>10 DEF FrameOK
<1>12. Onward(facets, fr) \in Nat /\ Onward(facets, fr) >= 1
  BY <1>1 DEF Onward
<1> QED
  BY <1>2, <1>4, <1>6, <1>7, <1>8, <1>11, <1>12 DEF new

LEMMA Finite ==
  /\ Rec \subseteq Nat /\ IsFiniteSet(Rec)
  /\ \A all \in SUBSET Rec : IsFiniteSet(all) /\ Cardinality(all) \in Nat
  /\ \A all \in SUBSET Rec : \A q : Slice(all, q) \in SUBSET all
<1>1. Rec \subseteq Nat /\ IsFiniteSet(Rec)
  BY ApiAssumption
<1>2. \A all \in SUBSET Rec : IsFiniteSet(all) /\ Cardinality(all) \in Nat
  BY <1>1, FS_Subset, FS_CardinalityType
<1> QED
  BY <1>1, <1>2 DEF Slice

LEMMA TakenAway ==
  ASSUME NEW all \in SUBSET Rec, NEW part \in SUBSET all
  PROVE  /\ Cardinality(all \ part) = Cardinality(all) - Cardinality(part)
         /\ Cardinality(all) \in Nat /\ Cardinality(part) \in Nat
         /\ \A x \in all \ part : Cardinality(all) - Cardinality(part) > 0
<1>1. IsFiniteSet(all) /\ Cardinality(all) \in Nat /\ Cardinality(part) \in Nat
  BY Finite
<1>2. all \cap part = part
  OBVIOUS
<1>3. Cardinality(all \ part) = Cardinality(all) - Cardinality(part)
  BY <1>1, <1>2, FS_Difference
<1>4. all \ part # {} => Cardinality(all \ part) > 0
  <2>1. all \ part \in SUBSET Rec
    OBVIOUS
  <2> QED
    BY <2>1, Finite, FS_EmptySet
<1> QED
  BY <1>1, <1>3, <1>4

\* The total of a query is told: what the plan has to find, it still has to find.
LEMMA ToldKeeps ==
  ASSUME NEW plan \in Plan, NEW facets \in Seq(Facet), Distinct(facets), Promises(facets),
         plan.stack # <<>>, Head(plan.stack).ask # <<>>, FramesOK(facets, plan),
         NEW total \in Nat, NEW new, new = Told(plan, facets, total)
  PROVE  LET child == Head(Head(plan.stack).ask) IN
         /\ new \in Plan /\ FramesOK(facets, new)
         /\ plan.over => new.over
         /\ new.over \/ \A l \in ToSet(new.leaves) : l \in ToSet(plan.leaves) \/ (l = child /\ total <= Cap)
         /\ \A all \in SUBSET Rec :
              total = Cardinality(Slice(all, child)) /\ Counted(facets, plan, all) =>
                /\ Counted(facets, new, all)
                /\ \A x \in all : Sought(plan, facets, x) => Sought(new, facets, x)
<1> DEFINE top == Head(plan.stack)
<1> DEFINE child == Head(top.ask)
<1> DEFINE left == top.left - total
<1> DEFINE stop == Counts(facets, top) /\ left <= 0
<1> DEFINE ask == IF stop THEN <<>> ELSE Tail(top.ask)
<1> DEFINE rest == Asked(top, left, ask)
<1> DEFINE i == Onward(facets, top)
<1> DEFINE up == Pop(plan)
<1> DEFINE mid == Push(up, rest)
<1>1. /\ top \in Frame /\ FrameOK(facets, top) /\ up \in Plan
      /\ ToSet(plan.stack) = {top} \cup ToSet(up.stack)
      /\ up.leaves = plan.leaves /\ (up.over <=> plan.over) /\ FramesOK(facets, up)
  BY TopIs
<1>2. left \in Int /\ ask \in {<<>>, Tail(top.ask)}
  BY <1>1 DEF Frame
<1> HIDE DEF left, ask, top, stop
<1>3. /\ rest \in Frame /\ FrameOK(facets, rest)
      /\ rest.query = top.query /\ rest.facet = top.facet /\ rest.total = top.total
      /\ rest.ask = ask /\ rest.left = left
      /\ (Counts(facets, rest) <=> Counts(facets, top))
      /\ child \in Query /\ QueryOK(facets, child, i) /\ i \in Nat /\ i >= 1
  <2>1. top.ask # <<>>
    BY DEF top
  <2>2. /\ facets \in Seq(Facet) /\ top \in Frame /\ FrameOK(facets, top) /\ top.ask # <<>>
        /\ left \in Int /\ ask \in {<<>>, Tail(top.ask)}
    BY <1>1, <1>2, <2>1
  <2> HIDE DEF rest, child, i
  <2>3. rest \in Frame /\ FrameOK(facets, rest)
    BY <2>2, AskedIs DEF rest
  <2>4. rest.query = top.query /\ rest.facet = top.facet /\ rest.total = top.total
    BY <2>2, AskedIs DEF rest
  <2>5. rest.ask = ask /\ rest.left = left
    BY <2>2, AskedIs DEF rest
  <2>6. Counts(facets, rest) <=> Counts(facets, top)
    BY <2>4 DEF Counts
  <2>7. child \in Query /\ QueryOK(facets, child, i) /\ i \in Nat /\ i >= 1
    BY <2>2, AskedIs DEF child, i
  <2> QED
    BY <2>3, <2>4, <2>5, <2>6, <2>7
<1>4. new = Collect(mid, facets, child, total, i)
  <2>1. mid = [plan EXCEPT !.stack = <<rest>> \o Tail(@)]
    <3>1. PICK a \in Seq(Frame), b \in Seq(Query), c \in BOOLEAN :
            plan = [stack |-> a, leaves |-> b, over |-> c]
      BY DEF Plan
    <3> DEFINE d == Tail(a)
    <3> DEFINE e == <<rest>> \o d
    <3>2. up = [plan EXCEPT !.stack = d]
      BY <3>1 DEF Pop
    <3> HIDE DEF d
    <3>3. up = [stack |-> d, leaves |-> b, over |-> c]
      BY <3>1, <3>2
    <3> HIDE DEF up, rest
    <3>4. mid = [up EXCEPT !.stack = e]
      BY <3>3 DEF Push
    <3>5. [plan EXCEPT !.stack = <<rest>> \o Tail(@)] = [plan EXCEPT !.stack = e]
      BY <3>1 DEF d
    <3> HIDE DEF e, mid
    <3>6. mid = [stack |-> e, leaves |-> b, over |-> c]
      BY <3>3, <3>4
    <3>7. [plan EXCEPT !.stack = e] = [stack |-> e, leaves |-> b, over |-> c]
      BY <3>1
    <3> QED
      BY <3>5, <3>6, <3>7
  <2>2. Told(plan, facets, total) = Collect([plan EXCEPT !.stack = <<rest>> \o Tail(@)], facets, child, total, i)
    BY DEF Told, Asked, top, left, stop, ask
  <2> HIDE DEF mid, rest, child, i
  <2> QED
    BY <2>1, <2>2
<1> HIDE DEF rest, i, child
<1>5. /\ mid \in Plan /\ ToSet(mid.stack) = {rest} \cup ToSet(up.stack)
      /\ mid.leaves = plan.leaves /\ (mid.over <=> plan.over)
  <2>1. /\ mid \in Plan /\ mid.stack = <<rest>> \o up.stack /\ mid.leaves = up.leaves
        /\ (mid.over <=> up.over)
    BY <1>1, <1>3, PushIs
  <2>2. ToSet(<<rest>> \o up.stack) = {rest} \cup ToSet(up.stack)
    BY <1>1, <1>3, PlanIs, MembersCons
  <2> QED
    BY <1>1, <2>1, <2>2
<1> HIDE DEF mid, up
<1>6. FramesOK(facets, mid)
  BY <1>1, <1>3, <1>5 DEF FramesOK
<1>7. /\ new \in Plan /\ FramesOK(facets, new)
      /\ mid.over => new.over
      /\ new.over \/ \A l \in ToSet(new.leaves) : l \in ToSet(mid.leaves) \/ (l = child /\ total <= Cap)
      /\ \A all : total = Cardinality(Slice(all, child)) /\ Counted(facets, mid, all) =>
           Counted(facets, new, all)
      /\ \A x \in Rec : Sought(mid, facets, x) \/ (Matches(x, child) /\ total # 0) =>
           Sought(new, facets, x)
  <2>1. /\ mid \in Plan /\ facets \in Seq(Facet) /\ Distinct(facets) /\ Promises(facets)
        /\ child \in Query /\ total \in Nat /\ i \in Nat /\ i >= 1 /\ QueryOK(facets, child, i)
        /\ FramesOK(facets, mid) /\ new = Collect(mid, facets, child, total, i)
    BY <1>3, <1>4, <1>5, <1>6
  <2> QED
    BY <2>1, CollectKeeps
<1>8. ASSUME NEW all \in SUBSET Rec, total = Cardinality(Slice(all, child)),
             Counted(facets, plan, all)
      PROVE  /\ Counted(facets, mid, all)
             /\ \A x \in all : Sought(plan, facets, x) =>
                  Sought(mid, facets, x) \/ (Matches(x, child) /\ total # 0)
  <2> DEFINE f == facets[top.facet]
  <2> DEFINE open == NotFound(f, top, all)
  <2> DEFINE found == Slice(all, child)
  <2>1. CountOK(facets, top, all)
    BY <1>1, <1>8 DEF Counted
  <2>2. open \in SUBSET Rec /\ open \in SUBSET all /\ found \in SUBSET Rec
    BY DEF NotFound, Slice
  <2>3. ASSUME Counts(facets, top), ask = Tail(top.ask)
        PROVE  /\ left = Cardinality(NotFound(f, rest, all))
    <3>1. top.facet # 0 /\ top.ask # <<>>
      BY <2>3 DEF Counts, top
    <3>2. top.left = Cardinality(open)
      BY <2>1, <2>3, <3>1 DEF CountOK
    <3>3. found \subseteq open /\ NotFound(f, rest, all) = open \ found
      BY <1>1, <1>3, <2>3, <3>1, CountedDown DEF child
    <3> HIDE DEF open, found
    <3>4. Cardinality(open \ found) = Cardinality(open) - Cardinality(found)
      BY <2>2, <3>3, TakenAway
    <3> QED
      BY <3>2, <3>3, <3>4, <1>8 DEF left, found
  <2>4. CountOK(facets, rest, all)
    <3>1. CASE ask = Tail(top.ask)
      BY <3>1, <1>3, <2>1, <2>3 DEF CountOK
    <3>2. CASE ask = <<>>
      BY <3>2, <1>3, <2>1 DEF CountOK
    <3> QED
      BY <3>1, <3>2, <1>2
  <2>5. Counted(facets, mid, all)
    BY <1>1, <1>5, <1>8, <2>4 DEF Counted
  <2>6. ASSUME NEW x \in all, SoughtBy(facets, top, x)
        PROVE  SoughtBy(facets, rest, x) \/ (Matches(x, child) /\ total # 0)
    <3>1. CASE top.facet # 0 /\ CatchAll(top.query, f) /\ Matches(x, top.query)
      BY <3>1, <1>3 DEF SoughtBy
    <3>2. ASSUME NEW k \in DOMAIN top.ask, Matches(x, top.ask[k])
          PROVE  SoughtBy(facets, rest, x) \/ (Matches(x, child) /\ total # 0)
      <4>1. top.ask \in Seq(Query) /\ top.ask # <<>>
        BY <1>1 DEF Frame, top
      <4>2. PICK m \in Nat : m = Len(top.ask) /\ DOMAIN top.ask = 1..m /\ child = top.ask[1]
        BY <4>1 DEF child
      <4>3. CASE k = 1
        <5>1. x \in found /\ Matches(x, child)
          BY <3>2, <4>2, <4>3 DEF Slice
        <5>2. total # 0
          BY <1>8, <2>2, <5>1, Finite, FS_EmptySet
        <5> QED
          BY <5>1, <5>2
      <4>4. CASE k # 1 /\ ask = Tail(top.ask)
        <5>1. /\ Len(Tail(top.ask)) = m - 1
              /\ \A n \in DOMAIN Tail(top.ask) : Tail(top.ask)[n] = top.ask[n + 1]
              /\ Tail(top.ask) \in Seq(Query)
          BY <4>1, <4>2, MembersTail
        <5>2. DOMAIN Tail(top.ask) = 1..m - 1
          BY <5>1, <4>2
        <5>3. PICK n \in 1..m - 1 : k = n + 1
          <6>1. k - 1 \in 1..m - 1 /\ k = (k - 1) + 1
            BY <4>2, <4>4
          <6> QED
            BY <6>1
        <5>4. Matches(x, ask[n]) /\ n \in DOMAIN ask
          BY <3>2, <4>4, <5>1, <5>2, <5>3
        <5> QED
          BY <5>4, <1>3 DEF SoughtBy
      <4>5. CASE k # 1 /\ ask # Tail(top.ask)
        <5>1. Counts(facets, top) /\ left <= 0
          BY <4>5 DEF ask, stop
        <5>2. top.facet # 0
          BY <5>1 DEF Counts
        <5>3. top.left = Cardinality(open)
          BY <2>1, <4>1, <5>1, <5>2 DEF CountOK
        <5> DEFINE fr == [top EXCEPT !.ask = Tail(top.ask)]
        <5>4. fr \in Frame /\ fr.query = top.query /\ fr.ask = Tail(top.ask)
          <6>1. Tail(top.ask) \in Seq(Query)
            BY <4>1, MembersTail
          <6> DEFINE s == Tail(top.ask)
          <6> HIDE DEF s
          <6>2. s \in Seq(Query)
            BY <6>1 DEF s
          <6>3. [top EXCEPT !.ask = s] \in Frame /\ [top EXCEPT !.ask = s].query = top.query
                /\ [top EXCEPT !.ask = s].ask = s
            BY <1>1, <6>2 DEF Frame
          <6> QED
            BY <6>3 DEF s
        <5> HIDE DEF fr
        <5>5. found \subseteq open /\ x \in open \ found
          BY <1>1, <3>2, <4>1, <4>5, <5>1, <5>4, CountedDown DEF child
        <5> HIDE DEF open, found
        <5>6. Cardinality(open) - Cardinality(found) > 0
          BY <2>2, <5>5, TakenAway
        <5>7. left = Cardinality(open) - Cardinality(found)
          BY <1>8, <5>3 DEF left, found
        <5>8. Cardinality(open) \in Nat /\ Cardinality(found) \in Nat
          BY <2>2, Finite
        <5> QED
          BY <5>1, <5>6, <5>7, <5>8
      <4> QED
        BY <4>3, <4>4, <4>5
    <3> QED
      BY <2>6, <3>1, <3>2 DEF SoughtBy
  <2>7. ASSUME NEW x \in all, Sought(plan, facets, x)
        PROVE  Sought(mid, facets, x) \/ (Matches(x, child) /\ total # 0)
    BY <1>1, <1>5, <2>6, <2>7, SoughtIs
  <2> QED
    BY <2>5, <2>7
<1>9. ASSUME NEW all \in SUBSET Rec, total = Cardinality(Slice(all, child)),
             Counted(facets, plan, all)
      PROVE  /\ Counted(facets, new, all)
             /\ \A x \in all : Sought(plan, facets, x) => Sought(new, facets, x)
  BY <1>7, <1>8, <1>9
<1>10. plan.over => new.over
  BY <1>5, <1>7
<1>11. new.over \/ \A l \in ToSet(new.leaves) : l \in ToSet(plan.leaves) \/ (l = child /\ total <= Cap)
  BY <1>5, <1>7
<1> QED
  BY <1>7, <1>9, <1>10, <1>11 DEF child, top

\* A facet is left: what it has not found is left to its catch-all, if it has one.
LEMMA AllToldKeeps ==
  ASSUME NEW plan \in Plan, NEW facets \in Seq(Facet), Distinct(facets), Promises(facets),
         plan.stack # <<>>, Head(plan.stack).ask = <<>>, FramesOK(facets, plan)
  PROVE  LET new == AllTold(plan, facets) IN
         /\ new \in Plan /\ FramesOK(facets, new)
         /\ plan.over => new.over
         /\ new.over \/ \A l \in ToSet(new.leaves) : l \in ToSet(plan.leaves)
         /\ \A all : Counted(facets, plan, all) => Counted(facets, new, all)
         /\ \A x \in Rec : Sought(plan, facets, x) => Sought(new, facets, x)
<1> DEFINE new == AllTold(plan, facets)
<1> DEFINE top == Head(plan.stack)
<1> DEFINE up == Pop(plan)
<1> DEFINE caught == top.facet # 0 /\ CatchAll(top.query, facets[top.facet])
<1>1. /\ top \in Frame /\ FrameOK(facets, top) /\ up \in Plan
      /\ ToSet(plan.stack) = {top} \cup ToSet(up.stack)
      /\ up.leaves = plan.leaves /\ (up.over <=> plan.over) /\ FramesOK(facets, up)
  BY TopIs
<1>2. new = IF caught THEN Collect(up, facets, top.query, top.total, top.facet + 1) ELSE up
  BY DEF AllTold, Pop
<1>3. top.ask = <<>>
  OBVIOUS
<1> HIDE DEF new, top, up
<1>4. \A x : SoughtBy(facets, top, x) => caught /\ Matches(x, top.query)
  <2>1. DOMAIN top.ask = {}
    BY <1>3
  <2> QED
    BY <2>1 DEF SoughtBy
<1>5. CASE ~caught
  <2>1. new = up
    BY <1>2, <1>5
  <2>2. \A x \in Rec : Sought(plan, facets, x) => Sought(up, facets, x)
    BY <1>1, <1>4, <1>5, SoughtIs
  <2>3. \A all : Counted(facets, plan, all) => Counted(facets, up, all)
    BY <1>1 DEF Counted
  <2>4. up.over \/ \A l \in ToSet(up.leaves) : l \in ToSet(plan.leaves)
    BY <1>1
  <2> QED
    BY <1>1, <2>1, <2>2, <2>3, <2>4 DEF new
<1>6. CASE caught
  <2> DEFINE q == top.query
  <2> DEFINE total == top.total
  <2> DEFINE i == top.facet + 1
  <2>1. /\ q \in Query /\ total \in Nat /\ i \in Nat /\ i >= 1 /\ top.facet \in Nat
        /\ top.facet <= i
    BY <1>1 DEF Frame
  <2>2. QueryOK(facets, q, top.facet) /\ total > Cap
    BY <1>1, <1>6 DEF FrameOK
  <2>3. QueryOK(facets, q, i)
    BY <2>1, <2>2, QueryStays
  <2>4. new = Collect(up, facets, q, total, i)
    BY <1>2, <1>6
  <2> HIDE DEF i, q, total
  <2>5. /\ up \in Plan /\ facets \in Seq(Facet) /\ Distinct(facets) /\ Promises(facets)
        /\ q \in Query /\ total \in Nat /\ i \in Nat /\ i >= 1 /\ QueryOK(facets, q, i)
        /\ FramesOK(facets, up)
    BY <1>1, <2>1, <2>3
  <2>6. /\ new \in Plan /\ FramesOK(facets, new)
        /\ up.over => new.over
        /\ new.over \/ \A l \in ToSet(new.leaves) : l \in ToSet(up.leaves) \/ (l = q /\ total <= Cap)
        /\ \A all : total = Cardinality(Slice(all, q)) /\ Counted(facets, up, all) =>
             Counted(facets, new, all)
        /\ \A x \in Rec : Sought(up, facets, x) \/ (Matches(x, q) /\ total # 0) =>
             Sought(new, facets, x)
    BY <2>4, <2>5, CollectKeeps
  <2>7. plan.over => new.over
    BY <1>1, <2>6
  <2>8. new.over \/ \A l \in ToSet(new.leaves) : l \in ToSet(plan.leaves)
    <3>1. ~(total <= Cap)
      BY <2>1, <2>2, CapIs DEF total
    <3> QED
      BY <1>1, <2>6, <3>1
  <2>9. ASSUME NEW all, Counted(facets, plan, all) PROVE Counted(facets, new, all)
    <3>1. CountOK(facets, top, all) /\ Counted(facets, up, all)
      BY <1>1, <2>9 DEF Counted
    <3>2. total = Cardinality(Slice(all, q))
      BY <1>6, <3>1 DEF CountOK, total, q
    <3> QED
      BY <2>6, <3>1, <3>2
  <2>10. ASSUME NEW x \in Rec, Sought(plan, facets, x) PROVE Sought(new, facets, x)
    <3>1. Sought(up, facets, x) \/ Matches(x, q)
      BY <1>1, <1>4, <2>10, SoughtIs DEF q
    <3>2. total # 0
      BY <2>1, <2>2, CapIs DEF total
    <3> QED
      BY <2>6, <3>1, <3>2
  <2> QED
    BY <2>6, <2>7, <2>8, <2>9, <2>10 DEF new
<1> QED
  BY <1>5, <1>6

\* A plan begins with a query for everything.
LEMMA NewPlanIs ==
  ASSUME NEW facets \in Seq(Facet)
  PROVE  /\ NewPlan \in Plan /\ FramesOK(facets, NewPlan) /\ ~NewPlan.over
         /\ NewPlan.leaves = <<>> /\ ToSet(NewPlan.leaves) = {}
         /\ \A all : Counted(facets, NewPlan, all)
         /\ \A x : Sought(NewPlan, facets, x)
<1>1. /\ Root.query = NoParams /\ Root.facet = 0 /\ Root.ask = <<NoParams>>
      /\ NewPlan.stack = <<Root>> /\ NewPlan.leaves = <<>> /\ ~NewPlan.over
  BY DEF Root, NewPlan
<1>2. NoParams \in Query /\ DOMAIN NoParams = {} /\ \A x : Matches(x, NoParams)
  BY NoParamsIs
<1>3. Root \in Frame
  <2>1. <<NoParams>> \in Seq(Query)
    BY <1>2
  <2> QED
    BY <1>2, <2>1 DEF Root, Frame
<1>4. NewPlan \in Plan
  BY <1>3, EmptySeq DEF NewPlan, Plan
<1>5. ToSet(NewPlan.stack) = {Root} /\ ToSet(NewPlan.leaves) = {}
  BY <1>1 DEF ToSet
<1>6. FrameOK(facets, Root)
  <2>1. ~Counts(facets, Root)
    BY <1>1 DEF Counts
  <2>2. \A i : QueryOK(facets, NoParams, i)
    BY <1>2 DEF QueryOK
  <2>3. \A k \in DOMAIN Root.ask : Root.ask[k] = NoParams
    BY <1>1
  <2>4. 0 \in 0..Len(facets)
    OBVIOUS
  <2> QED
    BY <1>1, <2>1, <2>2, <2>3, <2>4 DEF FrameOK
<1>7. \A all : CountOK(facets, Root, all)
  BY <1>1 DEF CountOK
<1>8. \A x : SoughtBy(facets, Root, x)
  BY <1>1, <1>2 DEF SoughtBy
<1> QED
  BY <1>1, <1>4, <1>5, <1>6, <1>7, <1>8, SoughtIs DEF FramesOK, Counted

(***************************************************************************)
(* ApiCollect: the pages                                                   *)
(***************************************************************************)
LEMMA RankIs ==
  ASSUME NEW S \in SUBSET Rec
  PROVE  /\ Cardinality(S) \in Nat /\ \A x : Rank(S, x) \in Nat
         /\ \A x \in S : Rank(S, x) < Cardinality(S)
         /\ \A x, z \in S : Rank(S, x) = Rank(S, z) => x = z
         /\ \A T \in SUBSET S : \A x : Rank(T, x) <= Rank(S, x)
<1> DEFINE below(T, x) == {y \in T : y < x}
<1>1. S \subseteq Nat /\ IsFiniteSet(S) /\ Cardinality(S) \in Nat
  BY Finite
<1>2. \A T, x : Rank(T, x) = Cardinality(below(T, x))
  BY DEF Rank
<1>3. \A x : below(S, x) \in SUBSET S /\ IsFiniteSet(below(S, x)) /\ Cardinality(below(S, x)) \in Nat
  <2> TAKE x
  <2>1. below(S, x) \in SUBSET S /\ below(S, x) \in SUBSET Rec
    OBVIOUS
  <2> QED
    BY <2>1, Finite
<1>4. \A x \in S : x \notin below(S, x)
  BY <1>1
<1>5. ASSUME NEW x \in S, NEW z \in S, x < z
      PROVE  x \in below(S, z) /\ below(S, x) \in SUBSET below(S, z)
  <2>1. x \in Nat /\ z \in Nat
    BY <1>1
  <2>2. \A y \in S : y < x => y < z
    BY <1>1, <1>5, <2>1
  <2>3. below(S, x) \subseteq below(S, z)
    BY <2>2
  <2> QED
    BY <1>5, <2>3
<1>6. \A T \in SUBSET S : \A x : below(T, x) \in SUBSET below(S, x)
  OBVIOUS
<1> HIDE DEF below
<1>7. \A x \in S : Cardinality(below(S, x)) < Cardinality(S)
  <2> TAKE x \in S
  <2>1. Cardinality(below(S, x)) <= Cardinality(S)
    BY <1>1, <1>3, FS_Subset
  <2>2. Cardinality(below(S, x)) # Cardinality(S)
    BY <1>1, <1>3, <1>4, FS_Subset
  <2> QED
    BY <1>1, <1>3, <2>1, <2>2
<1>8. ASSUME NEW x \in S, NEW z \in S, x < z
      PROVE  Cardinality(below(S, x)) < Cardinality(below(S, z))
  <2>1. x \in below(S, z) /\ below(S, x) \in SUBSET below(S, z) /\ x \notin below(S, x)
    BY <1>4, <1>5, <1>8
  <2>2. Cardinality(below(S, x)) <= Cardinality(below(S, z))
    BY <1>3, <2>1, FS_Subset
  <2>3. Cardinality(below(S, x)) # Cardinality(below(S, z))
    BY <1>3, <2>1, FS_Subset
  <2> QED
    BY <1>3, <2>2, <2>3
<1>9. \A x, z \in S : Rank(S, x) = Rank(S, z) => x = z
  <2> SUFFICES ASSUME NEW x \in S, NEW z \in S, Rank(S, x) = Rank(S, z), x # z PROVE FALSE
    OBVIOUS
  <2>1. x < z \/ z < x
    BY <1>1
  <2>2. Rank(S, x) \in Nat /\ Rank(S, z) \in Nat
    BY <1>2, <1>3
  <2> QED
    BY <2>1, <2>2, <1>2, <1>8
<1>10. \A T \in SUBSET S : \A x : Rank(T, x) <= Rank(S, x)
  BY <1>2, <1>3, <1>6, FS_Subset
<1> QED
  BY <1>1, <1>2, <1>3, <1>7, <1>9, <1>10

\* Every place in the order of a set is taken.
LEMMA RankTaken ==
  ASSUME NEW S \in SUBSET Rec, NEW k \in 1..Cardinality(S)
  PROVE  \E x \in S : Rank(S, x) = k - 1
<1> DEFINE n == Cardinality(S)
<1> DEFINE place == [x \in S |-> Rank(S, x) + 1]
<1>1. IsFiniteSet(S) /\ n \in Nat
  BY Finite
<1>2. /\ \A x \in S : Rank(S, x) \in Nat /\ Rank(S, x) < n
      /\ \A x, z \in S : Rank(S, x) = Rank(S, z) => x = z
  BY RankIs
<1>3. IsFiniteSet(1..n) /\ Cardinality(1..n) = n
  BY <1>1, FS_Interval
<1> HIDE DEF n
<1>4. \A x \in S : place[x] \in 1..n
  BY <1>1, <1>2
<1>5. \A x, z \in S : place[x] = place[z] => x = z
  BY <1>2
<1>6. place \in Injection(S, 1..n)
  <2>1. place \in [S -> 1..n]
    BY <1>4
  <2> HIDE DEF place
  <2> QED
    BY <1>5, <2>1 DEF Injection, IsInjective
<1> HIDE DEF place
<1>7. place \in Surjection(S, 1..n)
  BY <1>1, <1>3, <1>6, FS_Injection DEF n
<1>8. k \in 1..n
  BY DEF n
<1>9. PICK x \in S : place[x] = k
  BY <1>7, <1>8 DEF Surjection
<1>10. Rank(S, x) + 1 = k /\ Rank(S, x) \in Nat
  BY <1>2, <1>9 DEF place
<1>11. k \in Nat
  BY <1>8
<1> QED
  BY <1>10, <1>11

LEMMA InOrderIs ==
  ASSUME NEW S \in SUBSET Rec
  PROVE  /\ InOrder(S) \in Seq(S) /\ Len(InOrder(S)) = Cardinality(S) /\ Cardinality(S) \in Nat
         /\ DOMAIN InOrder(S) = 1..Cardinality(S)
         /\ \A k \in 1..Cardinality(S) : InOrder(S)[k] \in S /\ Rank(S, InOrder(S)[k]) = k - 1
         /\ \A x \in S : /\ Rank(S, x) + 1 \in 1..Cardinality(S)
                         /\ InOrder(S)[Rank(S, x) + 1] = x
         /\ ToSet(InOrder(S)) = S
         /\ \A j, k \in 1..Cardinality(S) : InOrder(S)[j] = InOrder(S)[k] => j = k
<1> DEFINE n == Cardinality(S)
<1> DEFINE s == InOrder(S)
<1>1. /\ n \in Nat /\ \A x \in S : Rank(S, x) \in Nat /\ Rank(S, x) < n
      /\ \A x, z \in S : Rank(S, x) = Rank(S, z) => x = z
  BY RankIs
<1>2. \A k \in 1..n : \E x \in S : Rank(S, x) = k - 1
  BY RankTaken
<1>3. s = [k \in 1..n |-> CHOOSE x \in S : Rank(S, x) = k - 1]
  BY DEF InOrder
<1> HIDE DEF n, s
<1>4. \A k \in 1..n : s[k] \in S /\ Rank(S, s[k]) = k - 1
  BY <1>2, <1>3
<1>5. s \in [1..n -> S] /\ DOMAIN s = 1..n
  BY <1>3, <1>4
<1>6. s \in Seq(S) /\ Len(s) = n
  BY <1>1, <1>5
<1>7. ASSUME NEW x \in S PROVE Rank(S, x) + 1 \in 1..n /\ s[Rank(S, x) + 1] = x
  <2>1. PICK r \in Nat : r = Rank(S, x) /\ r < n
    BY <1>1
  <2>2. r + 1 \in 1..n /\ (r + 1) - 1 = r
    BY <1>1, <2>1
  <2>3. s[r + 1] \in S /\ Rank(S, s[r + 1]) = r
    BY <1>4, <2>2
  <2> QED
    BY <1>1, <2>1, <2>2, <2>3
<1>8. \A j, k \in 1..n : s[j] = s[k] => j = k
  <2> SUFFICES ASSUME NEW j \in 1..n, NEW k \in 1..n, s[j] = s[k] PROVE j = k
    OBVIOUS
  <2>1. j - 1 = k - 1
    BY <1>4
  <2>2. j \in Nat /\ k \in Nat
    OBVIOUS
  <2> QED
    BY <2>1, <2>2
<1>9. ToSet(s) = S
  BY <1>4, <1>5, <1>7 DEF ToSet
<1> QED
  BY <1>1, <1>4, <1>5, <1>6, <1>7, <1>8, <1>9 DEF n, s

(***************************************************************************)
(* ApiCollect: the invariant                                               *)
(***************************************************************************)
Collection ==
  [pc : {"idle", "plan", "pages", "profiles"}, endpoint : Nat, expected : Nat, plan : Plan,
   leaves : Seq(Query), page : Nat \ {0}, fetched : Nat, before : Nat, written : Seq(Rec),
   own : [Rec -> State \cup {NoProfile}], next : Nat \ {0}]

ApiShape ==
  /\ collect \in Collection
  /\ past \in [feeds : Seq([Endpoints -> SUBSET Rec]), full : BOOLEAN, counting : BOOLEAN]

Intact == ApiShape /\ ApiIInv

LEMMA SetupIs ==
  ASSUME ApiTypeOK
  PROVE  /\ api \in ApiSetup /\ api.facets \in Seq(Facet)
         /\ Distinct(api.facets) /\ Promises(api.facets)
         /\ api.endpoints \in 1..2 /\ api.paging \in {"page", "offset", "none"}
         /\ api.endpoints \in Nat /\ Endpoints = 1..api.endpoints /\ 1 \in Endpoints
         /\ Strict => api.dedup
         /\ feed \in [Endpoints -> SUBSET Rec] /\ collect.endpoint \in Endpoints
<1>1. api \in ApiSetups
  BY DEF ApiTypeOK
<1>2. /\ api \in ApiSetup /\ (api.endpoints > 1 => api.dedup)
      /\ \A j, k \in DOMAIN api.facets : api.facets[j].param = api.facets[k].param => j = k
      /\ \A k \in DOMAIN api.facets : Promised(api.facets[k], Rec)
  BY <1>1, ApiSetupAssumption
<1>3. /\ api.facets \in Seq(Facet) /\ api.endpoints \in 1..2
      /\ api.paging \in {"page", "offset", "none"}
  BY <1>2 DEF ApiSetup
<1>4. Endpoints = 1..api.endpoints /\ 1 \in Endpoints /\ api.endpoints \in Nat
  BY <1>3 DEF Endpoints
<1> QED
  BY <1>2, <1>3, <1>4 DEF ApiTypeOK, Strict, Distinct, Promises

LEMMA CollectionIs ==
  ASSUME ApiShape
  PROVE  /\ collect \in Collection
         /\ collect.pc \in {"idle", "plan", "pages", "profiles"} /\ collect.endpoint \in Nat
         /\ collect.expected \in Nat /\ collect.plan \in Plan /\ collect.leaves \in Seq(Query)
         /\ collect.page \in Nat \ {0} /\ collect.fetched \in Nat /\ collect.before \in Nat
         /\ collect.written \in Seq(Rec) /\ Len(collect.written) \in Nat
         /\ DOMAIN collect.written = 1..Len(collect.written)
         /\ collect.own \in [Rec -> State \cup {NoProfile}]
         /\ collect.next \in Nat \ {0}
BY DEF ApiShape, Collection

LEMMA PastIs ==
  ASSUME ApiShape, ApiTypeOK, PastInv
  PROVE  /\ past \in [feeds : Seq([Endpoints -> SUBSET Rec]), full : BOOLEAN, counting : BOOLEAN]
         /\ Len(past.feeds) \in Nat /\ Len(past.feeds) >= 1
         /\ DOMAIN past.feeds = 1..Len(past.feeds)
         /\ First \in [Endpoints -> SUBSET Rec]
         /\ \A e \in Endpoints : First[e] \in SUBSET Rec /\ feed[e] \in SUBSET Rec
         /\ Len(past.feeds) = 1 => First = feed /\ ~past.counting
         /\ past.full \in BOOLEAN /\ past.counting \in BOOLEAN
<1>1. /\ past.feeds \in Seq([Endpoints -> SUBSET Rec]) /\ past.feeds # <<>>
      /\ past.feeds[Len(past.feeds)] = feed
      /\ past.counting => Len(past.feeds) > 1
  BY DEF ApiShape, PastInv
<1>2. /\ Len(past.feeds) \in Nat /\ Len(past.feeds) >= 1
      /\ DOMAIN past.feeds = 1..Len(past.feeds) /\ 1 \in DOMAIN past.feeds
  BY <1>1
<1>3. First \in [Endpoints -> SUBSET Rec]
  BY <1>1, <1>2 DEF First
<1>4. feed \in [Endpoints -> SUBSET Rec]
  BY SetupIs
<1>5. Len(past.feeds) = 1 => First = feed /\ ~past.counting
  BY <1>1, <1>2 DEF First
<1> QED
  BY <1>2, <1>3, <1>4, <1>5 DEF ApiShape

LEMMA QuietIs ==
  /\ Quiet \in Collection /\ Quiet.pc = "idle" /\ Quiet.endpoint = 1 /\ Quiet.expected = 0
  /\ Quiet.plan = NewPlan /\ Quiet.leaves = <<>> /\ Quiet.page = 1 /\ Quiet.fetched = 0
  /\ Quiet.before = 0 /\ Quiet.written = <<>> /\ Quiet.next = 1
  /\ Quiet.own \in [Rec -> State \cup {NoProfile}]
<1>1. NewPlan \in Plan
  <2>1. <<>> \in Seq(Facet)
    BY EmptySeq
  <2> QED
    BY <2>1, NewPlanIs
<1>2. <<>> \in Seq(Query) /\ <<>> \in Seq(Rec)
  BY EmptySeq
<1>3. [x \in Rec |-> NoProfile] \in [Rec -> State \cup {NoProfile}]
  OBVIOUS
<1>4. /\ Quiet.pc = "idle" /\ Quiet.endpoint = 1 /\ Quiet.expected = 0
      /\ Quiet.plan = NewPlan /\ Quiet.leaves = <<>> /\ Quiet.page = 1 /\ Quiet.fetched = 0
      /\ Quiet.before = 0 /\ Quiet.written = <<>> /\ Quiet.next = 1
      /\ Quiet.own = [x \in Rec |-> NoProfile]
  BY DEF Quiet
<1> DEFINE own == [x \in Rec |-> NoProfile]
<1>5. Quiet = [pc |-> "idle", endpoint |-> 1, expected |-> 0, plan |-> NewPlan, leaves |-> <<>>,
               page |-> 1, fetched |-> 0, before |-> 0, written |-> <<>>, own |-> own, next |-> 1]
  BY DEF Quiet
<1> HIDE DEF own
<1>6. own \in [Rec -> State \cup {NoProfile}]
  BY <1>3 DEF own
<1>7. Quiet \in Collection
  BY <1>1, <1>2, <1>5, <1>6 DEF Collection
<1> QED
  BY <1>3, <1>4, <1>7

LEMMA SinceIs ==
  ASSUME ApiTypeOK, Apart(feed), NEW p, p = Since(feed)
  PROVE  /\ p \in [feeds : Seq([Endpoints -> SUBSET Rec]), full : BOOLEAN, counting : BOOLEAN]
         /\ p.feeds = <<feed>> /\ Len(p.feeds) = 1 /\ p.feeds[1] = feed /\ ~p.full /\ ~p.counting
         /\ p.feeds # <<>>
<1>1. feed \in [Endpoints -> SUBSET Rec]
  BY SetupIs
<1>2. <<feed>> \in Seq([Endpoints -> SUBSET Rec]) /\ Len(<<feed>>) = 1 /\ <<feed>>[1] = feed
      /\ <<feed>> # <<>>
  BY <1>1
<1>3. p = [feeds |-> <<feed>>, full |-> FALSE, counting |-> FALSE]
  BY DEF Since
<1> DEFINE s == <<feed>>
<1> HIDE DEF s
<1>4. p = [feeds |-> s, full |-> FALSE, counting |-> FALSE] /\ s \in Seq([Endpoints -> SUBSET Rec])
  BY <1>2, <1>3 DEF s
<1>5. p \in [feeds : Seq([Endpoints -> SUBSET Rec]), full : BOOLEAN, counting : BOOLEAN]
  BY <1>4
<1>6. p.feeds = s /\ ~p.full /\ ~p.counting
  BY <1>4
<1> QED
  BY <1>2, <1>5, <1>6 DEF s

Profiles == [ApiDay -> [Rec -> State \cup {NoProfile}]]

\* A step that leaves the lists, the collection and its history alone.
LEMMA SameStep ==
  ASSUME Intact, UNCHANGED <<api, feed, collect, past>>,
         moment' \in State, members' \in Profiles, date' \in ApiDay
  PROVE  Intact'
<1>1. ApiShape /\ ApiTypeOK /\ PastInv /\ PlanInv /\ WholeInv /\ PageInv /\ WrittenInv /\ ProbeInv
      /\ CompletedInv
  BY DEF Intact, ApiIInv
<1>2. ApiTypeOK'
  BY <1>1 DEF ApiTypeOK, Endpoints, Profiles
<1>3. ApiShape'
  BY <1>1 DEF ApiShape, Endpoints
<1>4. PastInv'
  BY <1>1 DEF PastInv, First, Apart, Endpoints
<1>5. PlanInv'
  BY <1>1 DEF PlanInv, OneChange, Fits
<1>6. WholeInv'
  BY <1>1 DEF WholeInv, OneChange, First, Faceted, Ahead
<1>7. PageInv'
  BY <1>1 DEF PageInv, OneChange, Fits, Faceted
<1>8. WrittenInv'
  BY <1>1 DEF WrittenInv, OneChange, First, FromEarlier, Ever, Endpoints
<1>9. ProbeInv'
  BY <1>1 DEF ProbeInv, OneChange, First, Strict
<1>10. CompletedInv'
  BY <1>1 DEF CompletedInv, OneChange, First, Strict, Completed, Ever, Endpoints
<1> QED
  BY <1>2, <1>3, <1>4, <1>5, <1>6, <1>7, <1>8, <1>9, <1>10 DEF Intact, ApiIInv

\* A collection that ended, however it did.
LEMMA EndedStep ==
  ASSUME Intact, UNCHANGED <<api, feed, moment, date>>, members' \in Profiles, collect' = Quiet,
         past' \in {past, Since(feed)}
  PROVE  Intact'
<1>1. ApiShape /\ ApiTypeOK /\ PastInv
  BY DEF Intact, ApiIInv
<1>2. /\ collect' \in Collection /\ collect'.pc = "idle" /\ collect'.endpoint = 1
      /\ collect'.expected = 0 /\ collect'.written = <<>>
      /\ collect'.own \in [Rec -> State \cup {NoProfile}]
  BY QuietIs
<1>3. 1 \in Endpoints
  BY <1>1, SetupIs
<1>4. PastInv' /\ past' \in [feeds : Seq([Endpoints -> SUBSET Rec]), full : BOOLEAN, counting : BOOLEAN]
  <2>1. CASE past' = past
    BY <1>1, <2>1, PastIs DEF PastInv, First, Apart, Endpoints
  <2>2. CASE past' = Since(feed)
    <3>1. Apart(feed)
      BY <1>1 DEF PastInv
    <3>2. /\ past' \in [feeds : Seq([Endpoints -> SUBSET Rec]), full : BOOLEAN, counting : BOOLEAN]
          /\ Len(past'.feeds) = 1 /\ past'.feeds[1] = feed /\ ~past'.counting /\ past'.feeds # <<>>
      BY <1>1, <2>2, <3>1, SinceIs
    <3> QED
      BY <3>1, <3>2 DEF PastInv, First, Apart, Endpoints
  <2> QED
    BY <2>1, <2>2
<1>5. ApiShape'
  BY <1>2, <1>4 DEF ApiShape, Endpoints
<1>6. ApiTypeOK'
  <2>1. 0 \in 0..Cardinality(Rec) /\ <<>> \in Seq(Rec)
    BY Finite, FS_CardinalityType, EmptySeq
  <2> QED
    BY <1>1, <1>2, <1>3, <2>1 DEF ApiTypeOK, Endpoints, Profiles
<1>7. WrittenInv'
  <2>1. DOMAIN collect'.written = {}
    BY <1>2
  <2> QED
    BY <1>2, <2>1 DEF WrittenInv
<1>8. PlanInv' /\ WholeInv' /\ PageInv' /\ ProbeInv' /\ CompletedInv'
  BY <1>2 DEF PlanInv, WholeInv, PageInv, ProbeInv, CompletedInv, Completed
<1> QED
  BY <1>4, <1>5, <1>6, <1>7, <1>8 DEF Intact, ApiIInv

\* A collection begins.
LEMMA StartCollectStep ==
  ASSUME Intact, StartCollect
  PROVE  Intact'
<1>1. ApiShape /\ ApiTypeOK /\ PastInv
  BY DEF Intact, ApiIInv
<1>2. /\ collect' = [Quiet EXCEPT !.pc = "plan", !.expected = Cardinality(feed[1])]
      /\ past' = Since(feed) /\ UNCHANGED <<api, feed, moment, members, date>>
  BY DEF StartCollect
<1>3. /\ 1 \in Endpoints /\ feed[1] \in SUBSET Rec /\ api.facets \in Seq(Facet)
      /\ feed \in [Endpoints -> SUBSET Rec] /\ Endpoints = 1..api.endpoints /\ api.endpoints \in Nat
  BY <1>1, SetupIs
<1>4. Cardinality(feed[1]) \in Nat /\ Cardinality(feed[1]) \in 0..Cardinality(Rec)
  <2>1. Cardinality(feed[1]) \in Nat /\ Cardinality(feed[1]) <= Cardinality(Rec) /\ Cardinality(Rec) \in Nat
    BY <1>3, Finite, FS_Subset, FS_CardinalityType
  <2> QED
    BY <2>1
<1>5. /\ collect' \in Collection /\ collect'.pc = "plan" /\ collect'.endpoint = 1
      /\ collect'.expected = Cardinality(feed[1]) /\ collect'.plan = NewPlan
      /\ collect'.written = <<>> /\ collect'.own \in [Rec -> State \cup {NoProfile}]
  <2> DEFINE n == Cardinality(feed[1])
  <2> HIDE DEF n
  <2>1. n \in Nat /\ collect' = [Quiet EXCEPT !.pc = "plan", !.expected = n]
    BY <1>2, <1>4 DEF n
  <2>2. /\ collect' \in Collection /\ collect'.pc = "plan" /\ collect'.expected = n
        /\ collect'.endpoint = Quiet.endpoint /\ collect'.plan = Quiet.plan
        /\ collect'.written = Quiet.written /\ collect'.own = Quiet.own
    BY <2>1, QuietIs DEF Collection
  <2> QED
    BY <2>2, QuietIs DEF n
<1>6. Apart(feed)
  BY <1>1 DEF PastInv
<1>7. /\ past' \in [feeds : Seq([Endpoints -> SUBSET Rec]), full : BOOLEAN, counting : BOOLEAN]
      /\ Len(past'.feeds) = 1 /\ past'.feeds[1] = feed /\ ~past'.counting /\ past'.feeds # <<>>
  BY <1>1, <1>2, <1>6, SinceIs
<1>8. PastInv'
  BY <1>2, <1>6, <1>7 DEF PastInv, First, Apart, Endpoints
<1>9. ApiShape'
  BY <1>2, <1>5, <1>7 DEF ApiShape, Endpoints
<1>10. ApiTypeOK'
  BY <1>1, <1>2, <1>3, <1>4, <1>5, EmptySeq DEF ApiTypeOK, Endpoints
<1>11. DOMAIN collect'.written = {}
  BY <1>5
<1>12. WrittenInv'
  BY <1>5, <1>11 DEF WrittenInv
<1>13. /\ FramesOK(api.facets, NewPlan) /\ ToSet(NewPlan.leaves) = {}
       /\ \A all : Counted(api.facets, NewPlan, all) /\ \A x : Sought(NewPlan, api.facets, x)
  BY <1>3, NewPlanIs
<1>14. PlanInv'
  <2>1. \A k \in DOMAIN NewPlan.stack :
          /\ FrameOK(api.facets, NewPlan.stack[k])
          /\ CountOK(api.facets, NewPlan.stack[k], feed[1])
    BY <1>13 DEF FramesOK, Counted, ToSet
  <2>2. \A k \in DOMAIN NewPlan.leaves : FALSE
    BY <1>13 DEF ToSet
  <2>3. collect'.plan = NewPlan /\ feed'[collect'.endpoint] = feed[1] /\ api' = api
    BY <1>2, <1>5
  <2> QED
    BY <2>1, <2>2, <2>3 DEF PlanInv
<1>15. WholeInv'
  BY <1>2, <1>5, <1>13 DEF WholeInv
<1>16. PageInv'
  BY <1>5 DEF PageInv
<1>17. ProbeInv'
  BY <1>2, <1>5, <1>7 DEF ProbeInv, First
<1>18. CompletedInv'
  <2>1. \A e \in Endpoints : ~(e < 1)
    BY <1>3
  <2> QED
    BY <1>2, <1>5, <2>1 DEF CompletedInv, Completed, Endpoints
<1> QED
  BY <1>8, <1>9, <1>10, <1>12, <1>14, <1>15, <1>16, <1>17, <1>18 DEF Intact, ApiIInv

\* When every record that was listed at first has to be found.
Additions ==
  /\ OneChange /\ First[collect.endpoint] \subseteq feed[collect.endpoint] /\ ~past.counting
  /\ Len(past.feeds) = 1 \/ ~past.full

\* A step of the plan.
LEMMA PlanStep ==
  ASSUME Intact, collect.pc = "plan", UNCHANGED <<api, feed, moment, members, date>>,
         collect' \in Collection, collect'.pc = "plan", collect'.endpoint = collect.endpoint,
         collect'.expected = collect.expected, collect'.written = collect.written,
         collect'.own = collect.own,
         past' \in [feeds : Seq([Endpoints -> SUBSET Rec]), full : BOOLEAN, counting : BOOLEAN],
         past'.feeds = past.feeds, past'.counting <=> past.counting, past.full => past'.full,
         FramesOK(api.facets, collect'.plan),
         ~past.counting => Counted(api.facets, collect'.plan, feed[collect.endpoint]),
         OneChange /\ ~collect'.plan.over => \A l \in ToSet(collect'.plan.leaves) : Fits(l)',
         Additions /\ Faceted => \A x \in First[collect.endpoint] : Sought(collect'.plan, api.facets, x)
  PROVE  Intact'
<1>1. ApiShape /\ ApiTypeOK /\ PastInv /\ PlanInv /\ WholeInv /\ PageInv /\ WrittenInv /\ ProbeInv
      /\ CompletedInv
  BY DEF Intact, ApiIInv
<1>2. ApiTypeOK'
  BY <1>1 DEF ApiTypeOK, Endpoints
<1>3. ApiShape'
  BY <1>1 DEF ApiShape, Endpoints
<1>4. First' = First /\ (OneChange' <=> OneChange) /\ (Strict' <=> Strict) /\ (Faceted' <=> Faceted)
  BY DEF First, OneChange, Strict, Faceted
<1>5. PastInv'
  BY <1>1, <1>4 DEF PastInv, Apart, Endpoints
<1>6. PlanInv'
  <2>1. \A k \in DOMAIN collect'.plan.stack :
          /\ FrameOK(api.facets, collect'.plan.stack[k])
          /\ ~past.counting => CountOK(api.facets, collect'.plan.stack[k], feed[collect.endpoint])
    BY DEF FramesOK, Counted, ToSet
  <2>2. OneChange /\ ~collect'.plan.over =>
          (\A k \in DOMAIN collect.plan.leaves : Fits(collect.plan.leaves[k]))'
    BY DEF ToSet, Fits
  <2> QED
    BY <1>4, <2>1, <2>2 DEF PlanInv
<1>7. WholeInv'
  BY <1>4 DEF WholeInv, Additions
<1>8. PageInv'
  BY DEF PageInv
<1>9. WrittenInv'
  BY <1>1, <1>4 DEF WrittenInv, FromEarlier, Ever, Endpoints
<1>10. ProbeInv'
  BY <1>1, <1>4 DEF ProbeInv
<1>11. CompletedInv'
  BY <1>1, <1>4 DEF CompletedInv, Completed, Ever, Endpoints
<1> QED
  BY <1>2, <1>3, <1>5, <1>6, <1>7, <1>8, <1>9, <1>10, <1>11 DEF Intact, ApiIInv

\* What the invariant says of a plan under way.
LEMMA PlanningIs ==
  ASSUME Intact, collect.pc = "plan"
  PROVE  /\ collect.plan \in Plan /\ FramesOK(api.facets, collect.plan)
         /\ ~past.counting => Counted(api.facets, collect.plan, feed[collect.endpoint])
         /\ OneChange /\ ~collect.plan.over => \A l \in ToSet(collect.plan.leaves) : Fits(l)
         /\ Additions /\ Faceted =>
              \A x \in First[collect.endpoint] : Sought(collect.plan, api.facets, x)
         /\ feed[collect.endpoint] \in SUBSET Rec /\ collect.endpoint \in Endpoints
         /\ First[collect.endpoint] \in SUBSET Rec
         /\ past.full \in BOOLEAN /\ past.counting \in BOOLEAN /\ Len(past.feeds) \in Nat
<1>1. ApiShape /\ ApiTypeOK /\ PastInv /\ PlanInv /\ WholeInv
  BY DEF Intact, ApiIInv
<1>2. /\ \A k \in DOMAIN collect.plan.stack : FrameOK(api.facets, collect.plan.stack[k])
      /\ ~past.counting => \A k \in DOMAIN collect.plan.stack :
           CountOK(api.facets, collect.plan.stack[k], feed[collect.endpoint])
      /\ OneChange /\ ~collect.plan.over =>
           \A k \in DOMAIN collect.plan.leaves : Fits(collect.plan.leaves[k])
  BY <1>1 DEF PlanInv
<1>3. /\ FramesOK(api.facets, collect.plan)
      /\ ~past.counting => Counted(api.facets, collect.plan, feed[collect.endpoint])
      /\ OneChange /\ ~collect.plan.over => \A l \in ToSet(collect.plan.leaves) : Fits(l)
  BY <1>2 DEF FramesOK, Counted, ToSet
<1>4. Additions /\ Faceted => \A x \in First[collect.endpoint] : Sought(collect.plan, api.facets, x)
  BY <1>1 DEF WholeInv, Additions
<1>5. /\ feed[collect.endpoint] \in SUBSET Rec /\ collect.endpoint \in Endpoints
      /\ First[collect.endpoint] \in SUBSET Rec
      /\ past.full \in BOOLEAN /\ past.counting \in BOOLEAN /\ Len(past.feeds) \in Nat
  BY <1>1, SetupIs, PastIs
<1>6. collect.plan \in Plan
  BY <1>1, CollectionIs
<1> QED
  BY <1>3, <1>4, <1>5, <1>6

LEMMA AskTotalStep ==
  ASSUME Intact, AskTotal
  PROVE  Intact'
<1>1. ApiShape /\ ApiTypeOK /\ PastInv
  BY DEF Intact, ApiIInv
<1> DEFINE e == collect.endpoint
<1> DEFINE all == feed[e]
<1> DEFINE child == Head(Head(collect.plan.stack).ask)
<1> DEFINE total == Cardinality(Slice(all, child))
<1> DEFINE new == Told(collect.plan, api.facets, total)
<1>2. /\ collect.pc = "plan" /\ Faceted /\ collect.plan.stack # <<>>
      /\ Head(collect.plan.stack).ask # <<>>
      /\ collect' = [collect EXCEPT !.plan = Told(@, api.facets, total)]
      /\ past' = [past EXCEPT !.full = @ \/ total = Cap]
      /\ UNCHANGED <<api, feed, moment, members, date>>
  BY DEF AskTotal
<1>3. /\ collect.plan \in Plan /\ FramesOK(api.facets, collect.plan)
      /\ ~past.counting => Counted(api.facets, collect.plan, all)
      /\ OneChange /\ ~collect.plan.over => \A l \in ToSet(collect.plan.leaves) : Fits(l)
      /\ Additions /\ Faceted => \A x \in First[e] : Sought(collect.plan, api.facets, x)
      /\ all \in SUBSET Rec /\ e \in Endpoints /\ First[e] \in SUBSET Rec
      /\ past.full \in BOOLEAN /\ past.counting \in BOOLEAN /\ Len(past.feeds) \in Nat
  BY <1>2, PlanningIs
<1>4. total \in Nat
  <2>1. Slice(all, child) \in SUBSET Rec
    BY <1>3, Finite
  <2> QED
    BY <2>1, Finite
<1>5. api.facets \in Seq(Facet) /\ Distinct(api.facets) /\ Promises(api.facets)
  BY <1>1, SetupIs
<1> HIDE DEF total
<1>6. /\ new \in Plan /\ FramesOK(api.facets, new)
      /\ collect.plan.over => new.over
      /\ new.over \/ \A l \in ToSet(new.leaves) :
           l \in ToSet(collect.plan.leaves) \/ (l = child /\ total <= Cap)
      /\ \A some \in SUBSET Rec :
           total = Cardinality(Slice(some, child)) /\ Counted(api.facets, collect.plan, some) =>
             /\ Counted(api.facets, new, some)
             /\ \A x \in some : Sought(collect.plan, api.facets, x) => Sought(new, api.facets, x)
  BY <1>2, <1>3, <1>4, <1>5, ToldKeeps
<1>7. ~past.counting =>
        /\ Counted(api.facets, new, all)
        /\ \A x \in all : Sought(collect.plan, api.facets, x) => Sought(new, api.facets, x)
  <2>1. total = Cardinality(Slice(all, child))
    BY DEF total
  <2> QED
    BY <1>3, <1>6, <2>1
<1> HIDE DEF new
<1>8. collect' = [collect EXCEPT !.plan = new]
  BY <1>2 DEF new
<1>9. /\ collect' \in Collection /\ collect'.pc = "plan" /\ collect'.endpoint = collect.endpoint
      /\ collect'.expected = collect.expected /\ collect'.written = collect.written
      /\ collect'.own = collect.own /\ collect'.plan = new
  BY <1>1, <1>2, <1>6, <1>8, CollectionIs DEF Collection
<1>10. /\ past' \in [feeds : Seq([Endpoints -> SUBSET Rec]), full : BOOLEAN, counting : BOOLEAN]
       /\ past'.feeds = past.feeds /\ (past'.counting <=> past.counting)
       /\ past'.full <=> (past.full \/ total = Cap)
  BY <1>1, <1>2, PastIs
<1>11. ASSUME OneChange, ~new.over, NEW l \in ToSet(new.leaves)
       PROVE  Fits(l)'
  <2>1. ~collect.plan.over /\ (l \in ToSet(collect.plan.leaves) \/ (l = child /\ total <= Cap))
    BY <1>6, <1>11
  <2>2. CASE l \in ToSet(collect.plan.leaves)
    <3>1. Fits(l)
      BY <1>3, <1>11, <2>1, <2>2
    <3> QED
      BY <1>2, <1>9, <1>10, <3>1 DEF Fits
  <2>3. CASE l = child /\ total <= Cap
    <3>1. (Fits(l))' <=> /\ Len(past'.feeds) = 1 \/ ~past'.full => total <= Cap
                         /\ Len(past'.feeds) = 1 /\ ~past'.full => total < Cap
      BY <1>2, <1>9, <2>3 DEF Fits, total
    <3>2. ~past'.full => total # Cap
      BY <1>10
    <3> QED
      BY <1>4, <2>3, <3>1, <3>2, CapIs
  <2> QED
    BY <2>1, <2>2, <2>3
<1>12. ASSUME Additions PROVE \A x \in First[e] : Sought(new, api.facets, x)
  <2>1. First[e] \subseteq all /\ ~past.counting
    BY <1>12 DEF Additions
  <2> QED
    BY <1>2, <1>3, <1>7, <1>12, <2>1
<1> HIDE DEF e, all
<1>13. /\ FramesOK(api.facets, collect'.plan)
       /\ ~past.counting => Counted(api.facets, collect'.plan, feed[collect.endpoint])
       /\ OneChange /\ ~collect'.plan.over => \A l \in ToSet(collect'.plan.leaves) : Fits(l)'
       /\ Additions /\ Faceted => \A x \in First[collect.endpoint] : Sought(collect'.plan, api.facets, x)
  BY <1>6, <1>7, <1>9, <1>11, <1>12 DEF e, all
<1> QED
  BY <1>2, <1>9, <1>10, <1>13, PlanStep

LEMMA LeaveFacetStep ==
  ASSUME Intact, LeaveFacet
  PROVE  Intact'
<1>1. ApiShape /\ ApiTypeOK /\ PastInv
  BY DEF Intact, ApiIInv
<1> DEFINE e == collect.endpoint
<1> DEFINE new == AllTold(collect.plan, api.facets)
<1>2. /\ collect.pc = "plan" /\ Faceted /\ collect.plan.stack # <<>>
      /\ Head(collect.plan.stack).ask = <<>>
      /\ collect' = [collect EXCEPT !.plan = new]
      /\ UNCHANGED <<api, feed, moment, members, date, past>>
  BY DEF LeaveFacet
<1>3. /\ collect.plan \in Plan /\ FramesOK(api.facets, collect.plan)
      /\ ~past.counting => Counted(api.facets, collect.plan, feed[e])
      /\ OneChange /\ ~collect.plan.over => \A l \in ToSet(collect.plan.leaves) : Fits(l)
      /\ Additions /\ Faceted => \A x \in First[e] : Sought(collect.plan, api.facets, x)
      /\ First[e] \in SUBSET Rec
  BY <1>2, PlanningIs
<1>4. api.facets \in Seq(Facet) /\ Distinct(api.facets) /\ Promises(api.facets)
  BY <1>1, SetupIs
<1>5. /\ new \in Plan /\ FramesOK(api.facets, new)
      /\ collect.plan.over => new.over
      /\ new.over \/ \A l \in ToSet(new.leaves) : l \in ToSet(collect.plan.leaves)
      /\ \A all : Counted(api.facets, collect.plan, all) => Counted(api.facets, new, all)
      /\ \A x \in Rec : Sought(collect.plan, api.facets, x) => Sought(new, api.facets, x)
  BY <1>2, <1>3, <1>4, AllToldKeeps
<1> HIDE DEF new
<1>6. /\ collect' \in Collection /\ collect'.pc = "plan" /\ collect'.endpoint = collect.endpoint
      /\ collect'.expected = collect.expected /\ collect'.written = collect.written
      /\ collect'.own = collect.own /\ collect'.plan = new
  BY <1>1, <1>2, <1>5, CollectionIs DEF Collection
<1>7. /\ past' \in [feeds : Seq([Endpoints -> SUBSET Rec]), full : BOOLEAN, counting : BOOLEAN]
      /\ past'.feeds = past.feeds /\ (past'.counting <=> past.counting)
      /\ past.full => past'.full
  BY <1>1, <1>2, PastIs
<1>8. ASSUME OneChange, ~new.over, NEW l \in ToSet(new.leaves)
      PROVE  Fits(l)'
  <2>1. ~collect.plan.over /\ l \in ToSet(collect.plan.leaves)
    BY <1>5, <1>8
  <2>2. Fits(l)
    BY <1>3, <1>8, <2>1
  <2> QED
    BY <1>2, <1>6, <2>2 DEF Fits
<1>9. /\ FramesOK(api.facets, collect'.plan)
      /\ ~past.counting => Counted(api.facets, collect'.plan, feed[collect.endpoint])
      /\ OneChange /\ ~collect'.plan.over => \A l \in ToSet(collect'.plan.leaves) : Fits(l)'
      /\ Additions /\ Faceted => \A x \in First[collect.endpoint] : Sought(collect'.plan, api.facets, x)
  BY <1>3, <1>5, <1>6, <1>8
<1> QED
  BY <1>2, <1>6, <1>7, <1>9, PlanStep

\* The plan is made, its first slice is read from its first page.
LEMMA PlannedStep ==
  ASSUME Intact, Planned
  PROVE  Intact'
<1>1. ApiShape /\ ApiTypeOK /\ PastInv /\ PlanInv /\ WholeInv /\ PageInv /\ WrittenInv /\ ProbeInv
      /\ CompletedInv
  BY DEF Intact, ApiIInv
<1> DEFINE e == collect.endpoint
<1>2. collect.pc = "plan" /\ UNCHANGED <<api, feed, moment, members, date, past>>
  BY DEF Planned
<1>3. CASE collect.plan.over
  <2>1. collect' = Quiet
    BY <1>3 DEF Planned
  <2>2. members' \in Profiles
    BY <1>1, <1>2 DEF ApiTypeOK, Profiles
  <2> QED
    BY <1>2, <2>1, <2>2, EndedStep
<1>4. CASE ~collect.plan.over
  <2> DEFINE leaves == IF Faceted THEN collect.plan.leaves ELSE <<NoParams>>
  <2>1. /\ Faceted => collect.plan.stack = <<>>
        /\ collect' = [collect EXCEPT !.pc = "pages", !.plan = NewPlan, !.leaves = leaves,
                         !.page = 1, !.fetched = 0, !.before = Len(collect.written)]
    BY <1>4 DEF Planned
  <2>2. /\ collect.plan \in Plan
        /\ OneChange => \A l \in ToSet(collect.plan.leaves) : Fits(l)
        /\ Additions /\ Faceted => \A x \in First[e] : Sought(collect.plan, api.facets, x)
        /\ First[e] \in SUBSET Rec
    BY <1>2, <1>4, PlanningIs
  <2>3. leaves \in Seq(Query) /\ NewPlan \in Plan
    <3>1. <<NoParams>> \in Seq(Query)
      BY NoParamsIs
    <3>2. api.facets \in Seq(Facet)
      BY <1>1, SetupIs
    <3> QED
      BY <2>2, <3>1, <3>2, PlanIs, NewPlanIs
  <2>4. /\ collect.written \in Seq(Rec) /\ Len(collect.written) \in Nat
        /\ DOMAIN collect.written = 1..Len(collect.written)
    BY <1>1, CollectionIs
  <2> DEFINE n == Len(collect.written)
  <2> HIDE DEF leaves, n
  <2>5. /\ collect' \in Collection /\ collect'.pc = "pages" /\ collect'.endpoint = e
        /\ collect'.expected = collect.expected /\ collect'.written = collect.written
        /\ collect'.own = collect.own /\ collect'.plan = NewPlan /\ collect'.leaves = leaves
        /\ collect'.page = 1 /\ collect'.fetched = 0 /\ collect'.before = n
    <3>1. n \in Nat /\ collect' = [collect EXCEPT !.pc = "pages", !.plan = NewPlan, !.leaves = leaves,
                                      !.page = 1, !.fetched = 0, !.before = n]
      BY <2>1, <2>4 DEF n
    <3> DEFINE plan == NewPlan
    <3>2. leaves \in Seq(Query) /\ plan \in Plan
      BY <2>3
    <3>3. collect \in Collection
      BY <1>1 DEF ApiShape
    <3>4. collect' = [collect EXCEPT !.pc = "pages", !.plan = plan, !.leaves = leaves,
                        !.page = 1, !.fetched = 0, !.before = n]
      BY <3>1
    <3> HIDE DEF plan
    <3>5. collect' = [pc |-> "pages", endpoint |-> collect.endpoint, expected |-> collect.expected,
                      plan |-> plan, leaves |-> leaves, page |-> 1, fetched |-> 0, before |-> n,
                      written |-> collect.written, own |-> collect.own, next |-> collect.next]
      BY <3>3, <3>4 DEF Collection
    <3>6. /\ collect.endpoint \in Nat /\ collect.expected \in Nat /\ collect.written \in Seq(Rec)
          /\ collect.own \in [Rec -> State \cup {NoProfile}] /\ collect.next \in Nat \ {0}
      BY <1>1, CollectionIs
    <3>7. collect' \in Collection
      BY <3>1, <3>2, <3>5, <3>6 DEF Collection
    <3>8. /\ collect'.pc = "pages" /\ collect'.endpoint = e
          /\ collect'.expected = collect.expected /\ collect'.written = collect.written
          /\ collect'.own = collect.own /\ collect'.plan = plan /\ collect'.leaves = leaves
          /\ collect'.page = 1 /\ collect'.fetched = 0 /\ collect'.before = n
      BY <3>5
    <3> QED
      BY <3>7, <3>8 DEF plan
  <2>6. First' = First /\ (OneChange' <=> OneChange) /\ (Strict' <=> Strict) /\ (Faceted' <=> Faceted)
    BY <1>2 DEF First, OneChange, Strict, Faceted
  <2>7. ApiTypeOK' /\ ApiShape'
    BY <1>1, <1>2, <2>5 DEF ApiTypeOK, ApiShape, Endpoints
  <2>8. PastInv'
    BY <1>1, <1>2, <2>6 DEF PastInv, Apart, Endpoints
  <2>9. PlanInv'
    BY <2>5 DEF PlanInv
  <2>10. WholeInv'
    <3> SUFFICES ASSUME Additions, NEW x \in First[e]
                 PROVE  (x \in ToSet(collect.written) \/ Ahead(x))'
      BY <1>2, <2>5, <2>6 DEF WholeInv, Additions
    <3>1. \E k \in DOMAIN leaves : Matches(x, leaves[k])
      <4>1. CASE Faceted
        <5>1. Sought(collect.plan, api.facets, x)
          BY <2>2, <4>1
        <5>2. DOMAIN collect.plan.stack = {}
          BY <2>1, <4>1
        <5> QED
          BY <4>1, <5>1, <5>2 DEF Sought, leaves
      <4>2. CASE ~Faceted
        <5>1. leaves = <<NoParams>> /\ Matches(x, NoParams)
          BY <4>2, NoParamsIs DEF leaves
        <5> QED
          BY <5>1
      <4> QED
        BY <4>1, <4>2
    <3>2. PICK k \in DOMAIN leaves : Matches(x, leaves[k])
      BY <3>1
    <3>3. k \in 1..Len(leaves) /\ leaves # <<>>
      BY <2>3, <3>2
    <3>4. Rank(Slice(feed[e], leaves[1]), x) >= 0
      <4>1. feed[e] \in SUBSET Rec
        BY <1>2, PlanningIs
      <4>2. Slice(feed[e], leaves[1]) \in SUBSET Rec
        BY <4>1, Finite
      <4>3. Rank(Slice(feed[e], leaves[1]), x) \in Nat
        BY <4>2, RankIs
      <4> QED
        BY <4>3
    <3>5. (collect'.page - 1) * ApiPageSize = 0
      BY <2>5, ApiAssumption
    <3>6. CASE k = 1
      BY <1>2, <2>5, <3>2, <3>3, <3>4, <3>5, <3>6 DEF Ahead
    <3>7. CASE k # 1
      <4>1. k \in 2..Len(leaves)
        BY <2>3, <3>3, <3>7
      <4> QED
        BY <2>5, <3>2, <4>1 DEF Ahead
    <3> QED
      BY <3>6, <3>7
  <2>11. PageInv'
    <3>1. 0 <= (collect'.page - 1) * ApiPageSize
      BY <2>5, ApiAssumption
    <3>2. ASSUME OneChange, Faceted PROVE (\A k \in DOMAIN collect.leaves : Fits(collect.leaves[k]))'
      <4>1. collect'.leaves = collect.plan.leaves
        BY <2>5, <3>2 DEF leaves
      <4>2. \A k \in DOMAIN collect.plan.leaves : Fits(collect.plan.leaves[k])
        BY <2>2, <3>2 DEF ToSet
      <4> QED
        BY <1>2, <2>5, <4>1, <4>2 DEF Fits
    <3> QED
      BY <2>5, <2>6, <3>1, <3>2 DEF PageInv
  <2>12. WrittenInv'
    <3>1. n \in 0..Len(collect.written) /\ \A k \in DOMAIN collect.written : k <= n
      BY <2>4 DEF n
    <3> QED
      BY <1>1, <1>2, <2>5, <2>6, <3>1 DEF WrittenInv, FromEarlier, Ever, Endpoints
  <2>13. ProbeInv'
    <3>1. \A k \in DOMAIN collect.written : ~(k > n)
      BY <2>4 DEF n
    <3> QED
      BY <1>1, <1>2, <2>5, <2>6, <3>1 DEF ProbeInv
  <2>14. CompletedInv'
    BY <1>1, <1>2, <2>5, <2>6 DEF CompletedInv, Completed, Ever, Endpoints
  <2> QED
    BY <2>7, <2>8, <2>9, <2>10, <2>11, <2>12, <2>13, <2>14 DEF Intact, ApiIInv
<1> QED
  BY <1>3, <1>4

\* One record more or less in a slice.
LEMMA OneMore ==
  ASSUME NEW S \in SUBSET Rec, NEW x \in Rec, NEW q,
         NEW T, T = IF x \in S THEN S \ {x} ELSE S \cup {x}
  PROVE  /\ T \in SUBSET Rec
         /\ Cardinality(Slice(T, q)) \in Nat /\ Cardinality(Slice(S, q)) \in Nat
         /\ Cardinality(Slice(T, q)) <= Cardinality(Slice(S, q)) + 1
<1>1. T \in SUBSET Rec
  OBVIOUS
<1>2. /\ Slice(T, q) \in SUBSET Rec /\ Slice(S, q) \in SUBSET Rec
      /\ IsFiniteSet(Slice(S, q)) /\ Cardinality(Slice(S, q)) \in Nat
      /\ Cardinality(Slice(T, q)) \in Nat
  <2>1. Slice(T, q) \in SUBSET Rec /\ Slice(S, q) \in SUBSET Rec
    BY <1>1, Finite
  <2> QED
    BY <2>1, Finite
<1>3. Slice(T, q) \subseteq Slice(S, q) \cup {x}
  BY DEF Slice
<1>4. /\ IsFiniteSet(Slice(S, q) \cup {x})
      /\ Cardinality(Slice(S, q) \cup {x}) <= Cardinality(Slice(S, q)) + 1
      /\ Cardinality(Slice(S, q) \cup {x}) \in Nat
  <2>1. /\ IsFiniteSet(Slice(S, q) \cup {x})
        /\ Cardinality(Slice(S, q) \cup {x}) =
             IF x \in Slice(S, q) THEN Cardinality(Slice(S, q)) ELSE Cardinality(Slice(S, q)) + 1
    BY <1>2, FS_AddElement
  <2> QED
    BY <1>2, <2>1
<1>5. Cardinality(Slice(T, q)) <= Cardinality(Slice(S, q) \cup {x})
  BY <1>3, <1>4, FS_Subset
<1> QED
  BY <1>1, <1>2, <1>4, <1>5

\* The source changes while it is read. The invariant says nothing after the second
\* change; until the first one the lists are what they were when the collection began.
LEMMA ChangeFeedStep ==
  ASSUME Intact, NEW e \in {1, 2}, NEW x \in Rec, ChangeFeed(e, x)
  PROVE  Intact'
<1>1. ApiShape /\ ApiTypeOK /\ PastInv /\ PlanInv /\ WholeInv /\ PageInv /\ WrittenInv /\ ProbeInv
      /\ CompletedInv
  BY DEF Intact, ApiIInv
<1> DEFINE now == collect.endpoint
<1>2. /\ e \in Endpoints /\ \A f \in Endpoints \ {e} : x \notin feed[f]
      /\ collect.pc \in {"plan", "pages"}
      /\ feed' = [feed EXCEPT ![e] = IF x \in @ THEN @ \ {x} ELSE @ \cup {x}]
      /\ past' = [past EXCEPT !.feeds = Append(@, feed'),
                              !.counting = @ \/ (e = collect.endpoint /\ Counting)]
      /\ UNCHANGED <<api, moment, members, collect, date>>
  BY DEF ChangeFeed
<1>3. /\ past \in [feeds : Seq([Endpoints -> SUBSET Rec]), full : BOOLEAN, counting : BOOLEAN]
      /\ Len(past.feeds) \in Nat /\ Len(past.feeds) >= 1
      /\ Len(past.feeds) = 1 => First = feed /\ ~past.counting
      /\ First \in [Endpoints -> SUBSET Rec]
  BY <1>1, PastIs
<1>4. /\ feed \in [Endpoints -> SUBSET Rec] /\ now \in Endpoints
      /\ Endpoints = 1..api.endpoints
  BY <1>1, SetupIs
<1>5. /\ feed' \in [Endpoints -> SUBSET Rec]
      /\ feed'[e] = IF x \in feed[e] THEN feed[e] \ {x} ELSE feed[e] \cup {x}
      /\ \A f \in Endpoints \ {e} : feed'[f] = feed[f]
  BY <1>2, <1>4
<1>6. /\ past'.feeds = Append(past.feeds, feed') /\ (past'.full <=> past.full)
      /\ past'.counting <=> (past.counting \/ (e = now /\ Counting))
      /\ past'.feeds \in Seq([Endpoints -> SUBSET Rec])
      /\ past' \in [feeds : Seq([Endpoints -> SUBSET Rec]), full : BOOLEAN, counting : BOOLEAN]
  <2> DEFINE feeds == Append(past.feeds, feed')
  <2> DEFINE counting == past.counting \/ (e = now /\ Counting)
  <2>1. feeds \in Seq([Endpoints -> SUBSET Rec])
    BY <1>3, <1>5
  <2>2. counting \in BOOLEAN
    OBVIOUS
  <2>3. past' = [past EXCEPT !.feeds = feeds, !.counting = counting]
    BY <1>2
  <2> HIDE DEF feeds, counting
  <2>4. /\ past'.feeds = feeds /\ (past'.full <=> past.full) /\ (past'.counting <=> counting)
        /\ past' \in [feeds : Seq([Endpoints -> SUBSET Rec]), full : BOOLEAN, counting : BOOLEAN]
    BY <1>3, <2>1, <2>2, <2>3
  <2> QED
    BY <2>1, <2>4 DEF feeds, counting
<1>7. /\ Len(past'.feeds) = Len(past.feeds) + 1 /\ past'.feeds # <<>>
      /\ past'.feeds[Len(past'.feeds)] = feed' /\ past'.feeds[1] = past.feeds[1]
  BY <1>3, <1>5, <1>6
<1>8. First' = First
  BY <1>7 DEF First
<1>9. (Strict' <=> Strict) /\ (Faceted' <=> Faceted) /\ Endpoints' = Endpoints
  BY <1>2 DEF Strict, Faceted, Endpoints
<1>10. /\ OneChange' => Len(past.feeds) = 1 /\ Len(past'.feeds) = 2 /\ OneChange /\ First = feed
                        /\ ~past.counting
       /\ ~past'.counting => ~past.counting
  <2>1. PICK n \in Nat : n = Len(past.feeds)
    BY <1>3
  <2>2. PICK m \in Nat : m = Len(past'.feeds)
    BY <1>7, <2>1
  <2>3. m = n + 1 /\ n >= 1 /\ (n = 1 => First = feed /\ ~past.counting)
    BY <1>3, <1>7, <2>1, <2>2
  <2>4. (OneChange' <=> m <= 2) /\ (OneChange <=> n <= 2)
    BY <2>1, <2>2 DEF OneChange
  <2>5. OneChange' => n = 1 /\ m = 2
    BY <2>3, <2>4
  <2> QED
    BY <1>6, <2>1, <2>2, <2>3, <2>4, <2>5
<1>11. PastInv'
  <2>1. Apart(First)' /\ Apart(feed)'
    BY <1>1, <1>2, <1>4, <1>5, <1>8, <1>9 DEF PastInv, Apart
  <2>2. ASSUME Len(past'.feeds) = 2
        PROVE  \E a \in Endpoints, r \in Rec :
                 /\ \A f \in Endpoints \ {a} : r \notin First[f]
                 /\ feed' = [First EXCEPT ![a] = IF r \in @ THEN @ \ {r} ELSE @ \cup {r}]
    <3>1. Len(past.feeds) = 1
      <4>1. OneChange'
        BY <2>2 DEF OneChange
      <4> QED
        BY <1>10, <4>1
    <3>2. First = feed
      BY <1>3, <3>1
    <3> QED
      BY <1>2, <3>2
  <2>3. past'.counting => Len(past'.feeds) > 1
    BY <1>3, <1>7
  <2> QED
    BY <1>7, <1>8, <1>9, <2>1, <2>2, <2>3 DEF PastInv
<1>12. ApiTypeOK' /\ ApiShape'
  BY <1>1, <1>2, <1>5, <1>6, <1>9 DEF ApiTypeOK, ApiShape
<1>13. ASSUME OneChange', NEW q, Fits(q)
       PROVE  Fits(q)'
  <2> DEFINE n == Cardinality(Slice(feed[now], q))
  <2> DEFINE m == Cardinality(Slice(feed'[now], q))
  <2>1. n \in Nat /\ m \in Nat /\ m <= n + 1
    <3>1. CASE now = e
      <4> DEFINE S == feed[e]
      <4> DEFINE T == feed'[e]
      <4>1. S \in SUBSET Rec /\ T = IF x \in S THEN S \ {x} ELSE S \cup {x}
        BY <1>2, <1>4, <1>5
      <4> HIDE DEF S, T
      <4>2. /\ Cardinality(Slice(T, q)) \in Nat /\ Cardinality(Slice(S, q)) \in Nat
            /\ Cardinality(Slice(T, q)) <= Cardinality(Slice(S, q)) + 1
        BY <4>1, OneMore
      <4> QED
        BY <3>1, <4>2 DEF S, T
    <3>2. CASE now # e
      <4>1. feed'[now] = feed[now] /\ feed[now] \in SUBSET Rec
        BY <1>4, <1>5, <3>2
      <4>2. Slice(feed[now], q) \in SUBSET Rec
        BY <4>1, Finite
      <4>3. n \in Nat
        BY <4>2, Finite
      <4> QED
        BY <4>1, <4>3
    <3> QED
      BY <3>1, <3>2
  <2>2. Len(past.feeds) = 1 /\ Len(past'.feeds) = 2
    BY <1>10, <1>13
  <2>3. ~past.full => n < Cap
    BY <1>13, <2>2 DEF Fits
  <2>4. (Fits(q))' <=> /\ Len(past'.feeds) = 1 \/ ~past'.full => m <= Cap
                       /\ Len(past'.feeds) = 1 /\ ~past'.full => m < Cap
    BY <1>2 DEF Fits
  <2> HIDE DEF n, m
  <2> QED
    BY <1>6, <2>1, <2>2, <2>3, <2>4, CapIs
<1>14. PlanInv'
  <2> SUFFICES ASSUME collect.pc = "plan"
               PROVE  PlanInv'
    BY <1>2 DEF PlanInv
  <2>1. \A k \in DOMAIN collect.plan.stack : FrameOK(api.facets, collect.plan.stack[k])
    BY <1>1 DEF PlanInv
  <2>2. ASSUME ~past'.counting, NEW k \in DOMAIN collect.plan.stack
        PROVE  CountOK(api.facets, collect.plan.stack[k], feed'[now])
    <3>1. CountOK(api.facets, collect.plan.stack[k], feed[now])
      BY <1>1, <1>10, <2>2 DEF PlanInv
    <3>2. CASE now # e
      BY <1>4, <1>5, <3>1, <3>2
    <3>3. CASE now = e
      <4>1. ~Counting
        BY <1>6, <2>2, <3>3
      <4> QED
        BY <2>2, <4>1 DEF Counting, CountOK
    <3> QED
      BY <3>2, <3>3
  <2>3. ASSUME OneChange', ~collect.plan.over, NEW k \in DOMAIN collect.plan.leaves
        PROVE  (Fits(collect.plan.leaves[k]))'
    <3>1. Fits(collect.plan.leaves[k])
      BY <1>1, <1>10, <2>3 DEF PlanInv
    <3>2. (Fits(collect.plan.leaves[k]))' <=> Fits(collect.plan.leaves[k])'
      OBVIOUS
    <3> DEFINE q == collect.plan.leaves[k]
    <3>3. q' = q
      BY <1>2
    <3> QED
      BY <1>2, <1>13, <2>3, <3>1 DEF Fits
  <2> QED
    BY <1>2, <2>1, <2>2, <2>3 DEF PlanInv
<1>15. ASSUME OneChange', ~past'.counting, First[now] \subseteq feed'[now],
              Len(past'.feeds) = 1 \/ ~past'.full
       PROVE  /\ Additions /\ feed[now] \subseteq feed'[now]
  <2>1. Len(past.feeds) = 1 /\ First = feed /\ ~past.counting /\ OneChange
    BY <1>10, <1>15
  <2> QED
    BY <1>15, <2>1 DEF Additions
<1>16. WholeInv'
  <2>1. ASSUME OneChange', ~past'.counting, First[now] \subseteq feed'[now],
               Len(past'.feeds) = 1 \/ ~past'.full, NEW r \in First[now],
               collect.pc = "plan", Faceted
        PROVE  Sought(collect.plan, api.facets, r)
    BY <1>1, <1>15, <2>1 DEF WholeInv, Additions
  <2>2. ASSUME OneChange', ~past'.counting, First[now] \subseteq feed'[now],
               Len(past'.feeds) = 1 \/ ~past'.full, NEW r \in First[now],
               collect.pc = "pages"
        PROVE  r \in ToSet(collect.written) \/ (Ahead(r))'
    <3>1. r \in ToSet(collect.written) \/ Ahead(r)
      BY <1>1, <1>15, <2>2 DEF WholeInv, Additions
    <3>2. feed[now] \subseteq feed'[now] /\ feed'[now] \in SUBSET Rec
      BY <1>4, <1>5, <1>15, <2>2
    <3>3. ASSUME NEW q
          PROVE  /\ Rank(Slice(feed[now], q), r) \in Nat /\ Rank(Slice(feed'[now], q), r) \in Nat
                 /\ Rank(Slice(feed[now], q), r) <= Rank(Slice(feed'[now], q), r)
      <4>1. Slice(feed[now], q) \in SUBSET Slice(feed'[now], q)
        BY <3>2 DEF Slice
      <4>2. Slice(feed'[now], q) \in SUBSET Rec
        BY <3>2, Finite
      <4>3. Slice(feed[now], q) \in SUBSET Rec
        BY <4>1, <4>2
      <4> QED
        BY <4>1, <4>2, <4>3, RankIs
    <3>4. collect.page \in Nat \ {0} /\ ApiPageSize \in Nat
      BY <1>1, CollectionIs, ApiAssumption
    <3>5. (collect.page - 1) * ApiPageSize \in Int
      BY <3>4
    <3> DEFINE from == (collect.page - 1) * ApiPageSize
    <3>6. Ahead(r) <=>
            \/ \E k \in 2..Len(collect.leaves) : Matches(r, collect.leaves[k])
            \/ /\ collect.leaves # <<>> /\ Matches(r, collect.leaves[1])
               /\ Rank(Slice(feed[now], collect.leaves[1]), r) >= from
      BY DEF Ahead
    <3>7. (Ahead(r))' <=>
            \/ \E k \in 2..Len(collect.leaves) : Matches(r, collect.leaves[k])
            \/ /\ collect.leaves # <<>> /\ Matches(r, collect.leaves[1])
               /\ Rank(Slice(feed'[now], collect.leaves[1]), r) >= from
      BY <1>2 DEF Ahead
    <3> HIDE DEF from, now
    <3> QED
      BY <3>1, <3>3, <3>5, <3>6, <3>7 DEF from
  <2> QED
    BY <1>2, <1>8, <1>9, <2>1, <2>2 DEF WholeInv
<1>17. PageInv'
  <2>1. ASSUME collect.pc = "pages", OneChange', Faceted, NEW k \in DOMAIN collect.leaves
        PROVE  (Fits(collect.leaves[k]))'
    <3>1. Fits(collect.leaves[k])
      BY <1>1, <1>10, <2>1 DEF PageInv
    <3> QED
      BY <1>2, <1>13, <2>1, <3>1 DEF Fits
  <2> QED
    BY <1>1, <1>2, <1>9, <2>1 DEF PageInv
<1>18. OneChange' => \A f \in Endpoints : Ever(f) \subseteq (Ever(f))' /\ Ever(f) = First[f]
  BY <1>8, <1>10 DEF Ever
<1>19. WrittenInv'
  <2>1. api.dedup => \A j, k \in DOMAIN collect.written :
                       collect.written[j] = collect.written[k] => j = k
    BY <1>1 DEF WrittenInv
  <2>2. ASSUME OneChange', NEW k, FromEarlier(k)
        PROVE  (FromEarlier(k))'
    BY <1>2, <1>9, <1>18, <2>2 DEF FromEarlier
  <2>3. ASSUME OneChange', NEW k, collect.written[k] \in Ever(now)
        PROVE  collect.written[k] \in (Ever(collect.endpoint))'
    <3>1. collect.written[k] \in First[now]
      BY <1>4, <1>18, <2>3
    <3>2. (Ever(collect.endpoint))' = First'[now] \cup feed'[now]
      BY <1>2 DEF Ever
    <3> QED
      BY <1>8, <3>1, <3>2
  <2>4. now' = now
    BY <1>2
  <2>5. ASSUME OneChange' PROVE OneChange
    BY <1>10, <2>5
  <2> QED
    BY <1>1, <1>2, <2>1, <2>2, <2>3, <2>4, <2>5 DEF WrittenInv
<1>20. ProbeInv'
  BY <1>1, <1>2, <1>8, <1>9, <1>10 DEF ProbeInv
<1>21. CompletedInv'
  <2> SUFFICES ASSUME OneChange', NEW f \in Endpoints, Completed(f), Strict
               PROVE  ToSet(collect.written) \cap (Ever(f))' \in {First[f], feed'[f]}
    BY <1>2, <1>7, <1>8, <1>9, <1>10 DEF CompletedInv, Completed
  <2>1. First[f] \subseteq ToSet(collect.written) /\ First = feed /\ OneChange
    BY <1>1, <1>10 DEF CompletedInv
  <2>2. (Ever(f))' = First[f] \cup feed'[f]
    BY <1>8 DEF Ever
  <2>3. CASE f # e
    <3>1. feed'[f] = First[f]
      BY <1>5, <2>1, <2>3
    <3> QED
      BY <2>1, <2>2, <3>1
  <2>4. CASE f = e /\ x \in feed[e]
    BY <1>5, <2>1, <2>2, <2>4
  <2>5. CASE f = e /\ x \notin feed[e]
    <3>1. \A k \in DOMAIN collect.written : \E g \in Endpoints : collect.written[k] \in feed[g]
      BY <1>1, <1>2, <1>4, <1>18, <2>1 DEF WrittenInv, FromEarlier, Ever
    <3>2. x \notin ToSet(collect.written)
      BY <1>2, <2>5, <3>1 DEF ToSet
    <3> QED
      BY <1>5, <2>1, <2>2, <2>5, <3>2
  <2> QED
    BY <2>3, <2>4, <2>5
<1> QED
  BY <1>11, <1>12, <1>14, <1>16, <1>17, <1>19, <1>20, <1>21 DEF Intact, ApiIInv

\* A part of a sequence.
LEMMA CutIs ==
  ASSUME NEW S, NEW s \in Seq(S), NEW n \in 0..Len(s), NEW m \in Nat
  PROVE  LET cut == SubSeq(s, m + 1, n) IN
         /\ cut \in Seq(S) /\ Len(cut) \in Nat /\ Len(cut) = IF m < n THEN n - m ELSE 0
         /\ DOMAIN cut = 1..Len(cut)
         /\ \A k \in 1..Len(cut) : m + k \in 1..n /\ cut[k] = s[m + k]
<1> DEFINE cut == SubSeq(s, m + 1, n)
<1>1. m + 1 \in Int /\ n \in Int /\ Len(s) \in Nat /\ n <= Len(s)
  OBVIOUS
<1>2. \A i \in (m + 1)..n : s[i] \in S
  BY <1>1
<1>3. /\ cut \in Seq(S) /\ Len(cut) = IF m + 1 <= n THEN n - (m + 1) + 1 ELSE 0
      /\ \A i \in 1..n - (m + 1) + 1 : cut[i] = s[(m + 1) + i - 1]
  BY <1>1, <1>2, SubSeqProperties
<1> HIDE DEF cut
<1>4. Len(cut) = (IF m < n THEN n - m ELSE 0) /\ Len(cut) \in Nat
  BY <1>1, <1>3
<1>5. ASSUME NEW k \in 1..Len(cut)
      PROVE  m + k \in 1..n /\ cut[k] = s[m + k]
  <2>1. m < n /\ k \in 1..n - m
    BY <1>1, <1>4
  <2>2. k \in 1..n - (m + 1) + 1 /\ (m + 1) + k - 1 = m + k /\ m + k \in 1..n
    BY <1>1, <2>1
  <2>3. cut[k] = s[(m + 1) + k - 1]
    BY <1>3, <2>2
  <2> QED
    BY <2>2, <2>3
<1>6. DOMAIN cut = 1..Len(cut)
  BY <1>3, <1>4
<1> QED
  BY <1>3, <1>4, <1>5, <1>6 DEF cut

From == (collect.page - 1) * ApiPageSize

LEMMA FromIs ==
  ASSUME ApiShape
  PROVE  /\ From \in Nat /\ ApiPageSize \in Nat \ {0} /\ From + ApiPageSize \in Nat
         /\ \A p : p = collect.page + 1 => (p - 1) * ApiPageSize = From + ApiPageSize
<1>1. PICK p \in Nat : collect.page = p + 1
  <2>1. collect.page - 1 \in Nat /\ collect.page = (collect.page - 1) + 1
    BY CollectionIs
  <2> QED
    BY <2>1
<1>2. ApiPageSize \in Nat \ {0}
  BY ApiAssumption
<1>3. collect.page - 1 = p /\ collect.page + 1 - 1 = p + 1
  BY <1>1
<1>4. p * ApiPageSize \in Nat /\ (p + 1) * ApiPageSize = p * ApiPageSize + ApiPageSize
  BY <1>2
<1>5. ASSUME NEW q, q = collect.page + 1
      PROVE  (q - 1) * ApiPageSize = (p + 1) * ApiPageSize
  <2>1. q - 1 = p + 1
    BY <1>1, <1>5
  <2> QED
    BY <2>1
<1> QED
  BY <1>2, <1>3, <1>4, <1>5 DEF From

\* What a page holds, and where a record that it does not hold is.
LEMMA AnswerIs ==
  ASSUME Intact, collect.pc = "pages", collect.leaves # <<>>
  PROVE  LET S == Slice(feed[collect.endpoint], collect.leaves[1]) IN
         /\ S \in SUBSET Rec /\ Answer \in Seq(Rec) /\ Len(Answer) \in Nat
         /\ DOMAIN Answer = 1..Len(Answer) /\ ToSet(Answer) \subseteq S
         /\ \A j, k \in DOMAIN Answer : Answer[j] = Answer[k] => j = k
         /\ api.paging # "none" => Len(Answer) <= ApiPageSize
         /\ ~Faceted \/ Cardinality(S) <= Cap =>
              \A x \in S : x \notin ToSet(Answer) /\ Rank(S, x) >= From =>
                /\ api.paging # "none" /\ Len(Answer) = ApiPageSize
                /\ Rank(S, x) >= From + ApiPageSize
<1> DEFINE S == Slice(feed[collect.endpoint], collect.leaves[1])
<1> DEFINE N == Cardinality(S)
<1> DEFINE hits == InOrder(S)
<1> DEFINE n == IF Faceted /\ N > Cap THEN Cap ELSE N
<1> DEFINE top == IF Faceted /\ Len(hits) > Cap THEN SubSeq(hits, 1, Cap) ELSE hits
<1> DEFINE to == IF From + ApiPageSize < Len(top) THEN From + ApiPageSize ELSE Len(top)
<1>1. ApiShape /\ ApiTypeOK
  BY DEF Intact, ApiIInv
<1>2. Head(collect.leaves) = collect.leaves[1]
  BY <1>1, CollectionIs
<1>3. Answer = IF api.paging = "none" THEN top ELSE SubSeq(top, From + 1, to)
  BY <1>2 DEF Answer, From
<1>4. From \in Nat /\ ApiPageSize \in Nat \ {0} /\ From + ApiPageSize \in Nat
  BY <1>1, FromIs
<1>5. S \in SUBSET Rec
  <2>1. feed[collect.endpoint] \in SUBSET Rec
    BY <1>1, SetupIs
  <2> QED
    BY <2>1, Finite
<1> HIDE DEF S
<1>6. /\ hits \in Seq(S) /\ Len(hits) = N /\ N \in Nat
      /\ \A k \in 1..N : hits[k] \in S /\ Rank(S, hits[k]) = k - 1
      /\ \A x \in S : Rank(S, x) + 1 \in 1..N /\ hits[Rank(S, x) + 1] = x
      /\ \A j, k \in 1..N : hits[j] = hits[k] => j = k
  BY <1>5, InOrderIs
<1>7. \A x \in S : Rank(S, x) \in Nat
  BY <1>5, RankIs
<1> HIDE DEF hits, N
<1>8. /\ n \in Nat /\ n <= N /\ (~Faceted \/ N <= Cap => n = N)
  BY <1>6, CapIs
<1>9. /\ top \in Seq(S) /\ Len(top) = n /\ \A k \in 1..n : top[k] = hits[k]
  <2>1. CASE Faceted /\ N > Cap
    <3>1. Cap \in 0..Len(hits) /\ 0 \in Nat /\ 0 < Cap
      BY <1>6, <2>1, CapIs
    <3> DEFINE cut == SubSeq(hits, 0 + 1, Cap)
    <3>2. /\ cut \in Seq(S) /\ Len(cut) = IF 0 < Cap THEN Cap - 0 ELSE 0
          /\ \A k \in 1..Len(cut) : cut[k] = hits[0 + k]
      BY <1>6, <3>1, CutIs
    <3>3. top = cut
      <4>1. 0 + 1 = 1 /\ Faceted /\ Len(hits) > Cap
        BY <1>6, <2>1
      <4>2. cut = SubSeq(hits, 1, Cap)
        BY <4>1, Zenon
      <4> QED
        BY <4>1, <4>2, Zenon
    <3> HIDE DEF cut, top
    <3>4. Len(cut) = Cap /\ n = Cap
      BY <2>1, <3>1, <3>2
    <3>5. \A k \in 1..Cap : 0 + k = k
      BY <3>1
    <3> QED
      BY <3>2, <3>3, <3>4, <3>5
  <2>2. CASE ~(Faceted /\ N > Cap)
    BY <1>6, <2>2
  <2> QED
    BY <2>1, <2>2
<1> HIDE DEF top, n
<1> DEFINE m == IF api.paging = "none" THEN 0 ELSE From
<1> DEFINE l == IF api.paging = "none" THEN n
                ELSE IF From >= n THEN 0
                ELSE IF From + ApiPageSize < n THEN ApiPageSize ELSE n - From
<1>10. /\ m \in Nat /\ l \in Nat /\ (api.paging # "none" => l <= ApiPageSize)
       /\ \A k \in 1..l : m + k \in 1..n
  BY <1>4, <1>8
<1>11. Answer \in Seq(S) /\ Len(Answer) = l /\ \A k \in 1..l : Answer[k] = top[m + k]
  <2>1. CASE api.paging = "none"
    <3>1. \A k \in 1..n : 0 + k = k
      BY <1>8
    <3> QED
      BY <1>3, <1>9, <2>1, <3>1
  <2>2. CASE api.paging # "none"
    <3>1. to \in 0..Len(top) /\ to = IF From + ApiPageSize < n THEN From + ApiPageSize ELSE n
      BY <1>4, <1>8, <1>9
    <3> HIDE DEF to
    <3> DEFINE cut == SubSeq(top, From + 1, to)
    <3>2. /\ cut \in Seq(S) /\ Len(cut) = IF From < to THEN to - From ELSE 0
          /\ \A k \in 1..Len(cut) : cut[k] = top[From + k]
      <4>1. top \in Seq(S) /\ to \in 0..Len(top) /\ From \in Nat
        BY <1>4, <1>9, <3>1
      <4> QED
        BY <4>1, CutIs, Zenon
    <3>3. Answer = cut
      BY <1>3, <2>2
    <3> HIDE DEF cut
    <3>4. Len(cut) = l /\ m = From
      BY <1>4, <1>8, <2>2, <3>1, <3>2
    <3> HIDE DEF l, m
    <3> QED
      BY <3>2, <3>3, <3>4
  <2> QED
    BY <2>1, <2>2
<1> HIDE DEF l, m
<1>12. ASSUME NEW k \in 1..l
       PROVE  Answer[k] = hits[m + k] /\ m + k \in 1..N
  <2>1. m + k \in 1..n /\ Answer[k] = top[m + k]
    BY <1>10, <1>11
  <2>2. top[m + k] = hits[m + k]
    BY <1>9, <2>1
  <2>3. m + k \in 1..N
    BY <1>6, <1>8, <2>1
  <2> QED
    BY <2>1, <2>2, <2>3
<1>13. DOMAIN Answer = 1..l
  BY <1>11
<1>14. Answer \in Seq(Rec) /\ ToSet(Answer) \subseteq S
  BY <1>5, <1>11, <1>13 DEF ToSet
<1>15. ASSUME NEW j \in DOMAIN Answer, NEW k \in DOMAIN Answer, Answer[j] = Answer[k]
       PROVE  j = k
  <2>1. m + j \in 1..N /\ m + k \in 1..N /\ hits[m + j] = hits[m + k]
    BY <1>12, <1>13, <1>15
  <2>2. m + j = m + k
    BY <1>6, <2>1
  <2> QED
    BY <1>10, <1>13, <2>2
<1>16. ASSUME ~Faceted \/ N <= Cap, NEW x \in S, x \notin ToSet(Answer), Rank(S, x) >= From
       PROVE  /\ api.paging # "none" /\ Len(Answer) = ApiPageSize
              /\ Rank(S, x) >= From + ApiPageSize
  <2>1. PICK r \in Nat : r = Rank(S, x)
    BY <1>7, <1>16
  <2>2. r + 1 \in 1..N /\ hits[r + 1] = x /\ n = N
    BY <1>6, <1>8, <1>16, <2>1
  <2>3. ASSUME NEW k \in 1..l, m + k = r + 1
        PROVE  FALSE
    <3>1. Answer[k] = x
      BY <1>12, <2>2, <2>3
    <3> QED
      BY <1>13, <1>16, <3>1 DEF ToSet
  <2>4. CASE api.paging = "none"
    <3>1. r + 1 \in 1..l /\ m + (r + 1) = r + 1
      BY <1>8, <2>2, <2>4 DEF l, m
    <3> QED
      BY <2>3, <3>1
  <2>5. CASE api.paging # "none"
    <3>1. PICK d \in Nat : r = From + d
      <4>1. r - From \in Nat /\ r = From + (r - From)
        BY <1>4, <1>16, <2>1
      <4> QED
        BY <4>1
    <3>2. d + 1 \notin 1..l
      <4>1. m + (d + 1) = r + 1
        BY <1>4, <2>5, <3>1 DEF m
      <4> QED
        BY <2>3, <4>1
    <3>3. d >= l
      BY <1>10, <3>2
    <3>4. r + 1 <= n /\ n \in Nat
      BY <1>8, <2>2
    <3>5. From + ApiPageSize < n /\ l = ApiPageSize
      BY <1>4, <2>5, <3>1, <3>3, <3>4 DEF l
    <3> QED
      BY <1>4, <1>11, <2>1, <2>5, <3>1, <3>3, <3>5
  <2> QED
    BY <2>4, <2>5
<1>17. Len(Answer) \in Nat /\ DOMAIN Answer = 1..Len(Answer)
       /\ (api.paging # "none" => Len(Answer) <= ApiPageSize)
  BY <1>10, <1>11, <1>13
<1> QED
  BY <1>5, <1>14, <1>15, <1>16, <1>17 DEF S, N

LEMMA MembersConcat ==
  ASSUME NEW S, NEW s \in Seq(S), NEW t \in Seq(S)
  PROVE  /\ s \o t \in Seq(S) /\ ToSet(s \o t) = ToSet(s) \cup ToSet(t)
         /\ Len(s \o t) = Len(s) + Len(t) /\ DOMAIN (s \o t) = 1..Len(s) + Len(t)
         /\ \A k \in DOMAIN s : k \in DOMAIN (s \o t) /\ (s \o t)[k] = s[k]
         /\ \A k \in DOMAIN (s \o t) :
              \/ k \in DOMAIN s /\ (s \o t)[k] = s[k]
              \/ \E m \in DOMAIN t : k = Len(s) + m /\ (s \o t)[k] = t[m]
<1> DEFINE u == s \o t
<1>1. /\ u \in Seq(S) /\ Len(u) = Len(s) + Len(t)
      /\ \A i \in 1..Len(s) + Len(t) : u[i] = IF i <= Len(s) THEN s[i] ELSE t[i - Len(s)]
  BY ConcatProperties
<1> HIDE DEF u
<1>2. /\ Len(s) \in Nat /\ Len(t) \in Nat /\ DOMAIN s = 1..Len(s) /\ DOMAIN t = 1..Len(t)
  OBVIOUS
<1>3. DOMAIN u = 1..Len(s) + Len(t)
  BY <1>1
<1>4. ASSUME NEW k \in DOMAIN s PROVE k \in DOMAIN u /\ u[k] = s[k]
  <2>1. k \in 1..Len(s) + Len(t) /\ k <= Len(s)
    BY <1>2
  <2> QED
    BY <1>1, <1>3, <2>1
<1>5. ASSUME NEW k \in DOMAIN u
      PROVE  \/ k \in DOMAIN s /\ u[k] = s[k]
             \/ \E m \in DOMAIN t : k = Len(s) + m /\ u[k] = t[m]
  <2>1. CASE k <= Len(s)
    <3>1. k \in DOMAIN s
      BY <1>2, <1>3, <2>1
    <3> QED
      BY <1>4, <3>1
  <2>2. CASE k > Len(s)
    <3>1. PICK m \in DOMAIN t : k = Len(s) + m /\ m = k - Len(s)
      <4>1. k - Len(s) \in DOMAIN t /\ k = Len(s) + (k - Len(s))
        BY <1>2, <1>3, <2>2
      <4> QED
        BY <4>1
    <3>2. u[k] = t[m]
      BY <1>1, <1>2, <1>3, <2>2, <3>1
    <3> QED
      BY <3>1, <3>2
  <2> QED
    BY <1>2, <1>3, <2>1, <2>2
<1>6. ASSUME NEW m \in DOMAIN t PROVE t[m] \in ToSet(u)
  <2>1. Len(s) + m \in DOMAIN u /\ ~(Len(s) + m <= Len(s)) /\ (Len(s) + m) - Len(s) = m
    BY <1>2, <1>3
  <2>2. u[Len(s) + m] = t[m]
    BY <1>1, <1>3, <2>1
  <2> QED
    BY <2>1, <2>2 DEF ToSet
<1>7. ToSet(s) \subseteq ToSet(u)
  BY <1>4 DEF ToSet
<1>8. ToSet(t) \subseteq ToSet(u)
  BY <1>6 DEF ToSet
<1>9. ToSet(u) \subseteq ToSet(s) \cup ToSet(t)
  BY <1>5 DEF ToSet
<1> QED
  BY <1>1, <1>3, <1>4, <1>5, <1>7, <1>8, <1>9 DEF u

\* What is written after a page.
LEMMA FreshIs ==
  ASSUME Intact, collect.pc = "pages", collect.leaves # <<>>
  PROVE  LET new == collect.written \o Fresh(Answer) IN
         /\ new \in Seq(Rec) /\ Len(new) \in Nat /\ Len(collect.written) <= Len(new)
         /\ DOMAIN new = 1..Len(new)
         /\ ToSet(new) = ToSet(collect.written) \cup ToSet(Answer)
         /\ \A k \in DOMAIN new :
              \/ k \in DOMAIN collect.written /\ new[k] = collect.written[k]
              \/ k > Len(collect.written) /\ new[k] \in ToSet(Answer)
         /\ api.dedup => \A j, k \in DOMAIN new : new[j] = new[k] => j = k
<1>1. ApiShape /\ WrittenInv
  BY DEF Intact, ApiIInv
<1> DEFINE old == collect.written
<1> DEFINE fresh == Fresh(Answer)
<1> DEFINE new == old \o fresh
<1>2. old \in Seq(Rec) /\ Len(old) \in Nat /\ DOMAIN old = 1..Len(old)
  BY <1>1, CollectionIs
<1>3. /\ Answer \in Seq(Rec) /\ DOMAIN Answer = 1..Len(Answer)
      /\ \A j, k \in DOMAIN Answer : Answer[j] = Answer[k] => j = k
  BY AnswerIs
<1>4. ToSet(Answer) \in SUBSET Rec
  BY <1>3 DEF ToSet
<1> DEFINE rest == ToSet(Answer) \ ToSet(old)
<1>5. rest \in SUBSET Rec
  BY <1>4
<1>6. /\ fresh \in Seq(Rec) /\ ToSet(old) \cup ToSet(fresh) = ToSet(old) \cup ToSet(Answer)
      /\ ToSet(fresh) \subseteq ToSet(Answer)
      /\ api.dedup => /\ \A j, k \in DOMAIN fresh : fresh[j] = fresh[k] => j = k
                      /\ ToSet(fresh) \cap ToSet(old) = {}
  <2>1. CASE api.dedup
    <3>1. fresh = InOrder(rest)
      BY <2>1 DEF Fresh
    <3> HIDE DEF fresh, rest
    <3>2. /\ InOrder(rest) \in Seq(rest) /\ DOMAIN InOrder(rest) = 1..Cardinality(rest)
          /\ ToSet(InOrder(rest)) = rest
          /\ \A j, k \in 1..Cardinality(rest) : InOrder(rest)[j] = InOrder(rest)[k] => j = k
      BY <1>5, InOrderIs
    <3>3. fresh \in Seq(Rec)
      BY <1>5, <3>1, <3>2
    <3>4. \A j, k \in DOMAIN fresh : fresh[j] = fresh[k] => j = k
      BY <3>1, <3>2
    <3>5. ToSet(fresh) = ToSet(Answer) \ ToSet(old)
      BY <3>1, <3>2 DEF rest
    <3> QED
      BY <3>3, <3>4, <3>5
  <2>2. CASE ~api.dedup
    <3>1. fresh = Answer
      BY <2>2 DEF Fresh
    <3> HIDE DEF fresh
    <3> QED
      BY <1>3, <2>2, <3>1
  <2> QED
    BY <2>1, <2>2
<1> HIDE DEF fresh
<1>7. /\ new \in Seq(Rec) /\ ToSet(new) = ToSet(old) \cup ToSet(fresh)
      /\ Len(new) = Len(old) + Len(fresh) /\ DOMAIN new = 1..Len(old) + Len(fresh)
      /\ \A k \in DOMAIN new :
           \/ k \in DOMAIN old /\ new[k] = old[k]
           \/ \E m \in DOMAIN fresh : k = Len(old) + m /\ new[k] = fresh[m]
  BY <1>2, <1>6, MembersConcat
<1>8. Len(fresh) \in Nat /\ DOMAIN fresh = 1..Len(fresh)
  BY <1>6
<1> HIDE DEF new
<1>9. Len(new) \in Nat /\ Len(old) <= Len(new) /\ DOMAIN new = 1..Len(new)
  BY <1>2, <1>7, <1>8
<1>10. ASSUME NEW k \in DOMAIN new
       PROVE  \/ k \in DOMAIN old /\ new[k] = old[k]
              \/ k > Len(old) /\ new[k] \in ToSet(Answer)
  <2>1. CASE k \in DOMAIN old /\ new[k] = old[k]
    BY <2>1
  <2>2. ASSUME NEW m \in DOMAIN fresh, k = Len(old) + m, new[k] = fresh[m]
        PROVE  k > Len(old) /\ new[k] \in ToSet(Answer)
    <3>1. k > Len(old)
      BY <1>2, <1>8, <2>2
    <3>2. fresh[m] \in ToSet(fresh)
      BY DEF ToSet
    <3> QED
      BY <1>6, <2>2, <3>1, <3>2
  <2> QED
    BY <1>7, <2>1, <2>2
<1>11. ASSUME api.dedup, NEW j \in DOMAIN new, NEW k \in DOMAIN new, new[j] = new[k]
       PROVE  j = k
  <2>1. \A a, b \in DOMAIN old : old[a] = old[b] => a = b
    BY <1>1, <1>11 DEF WrittenInv
  <2>2. \A a \in DOMAIN old, m \in DOMAIN fresh : old[a] # fresh[m]
    BY <1>6, <1>11 DEF ToSet
  <2>3. CASE j \in DOMAIN old /\ new[j] = old[j] /\ k \in DOMAIN old /\ new[k] = old[k]
    BY <1>11, <2>1, <2>3
  <2>4. ASSUME j \in DOMAIN old, new[j] = old[j], NEW m \in DOMAIN fresh, new[k] = fresh[m]
        PROVE  FALSE
    BY <1>11, <2>2, <2>4
  <2>5. ASSUME k \in DOMAIN old, new[k] = old[k], NEW m \in DOMAIN fresh, new[j] = fresh[m]
        PROVE  FALSE
    BY <1>11, <2>2, <2>5
  <2>6. ASSUME NEW a \in DOMAIN fresh, NEW b \in DOMAIN fresh, j = Len(old) + a, k = Len(old) + b,
               new[j] = fresh[a], new[k] = fresh[b]
        PROVE  j = k
    BY <1>6, <1>11, <2>6
  <2> QED
    BY <1>7, <2>3, <2>4, <2>5, <2>6
<1> QED
  BY <1>6, <1>7, <1>9, <1>10, <1>11 DEF new, fresh

\* One change does not bring a record from one endpoint to another.
LEMMA EverApart ==
  ASSUME Intact, OneChange, NEW f \in Endpoints, NEW g \in Endpoints, f # g
  PROVE  /\ Ever(f) \cap Ever(g) = {}
         /\ First[f] = feed[f] \/ First[g] = feed[g]
<1>1. ApiShape /\ ApiTypeOK /\ PastInv
  BY DEF Intact, ApiIInv
<1>2. /\ Apart(First) /\ Apart(feed) /\ First \in [Endpoints -> SUBSET Rec]
      /\ Len(past.feeds) \in Nat /\ Len(past.feeds) >= 1
      /\ Len(past.feeds) = 1 => First = feed
  BY <1>1, PastIs DEF PastInv
<1>3. First[f] \cap First[g] = {} /\ feed[f] \cap feed[g] = {}
  BY <1>2 DEF Apart
<1>4. CASE First = feed
  BY <1>3, <1>4 DEF Ever
<1>5. CASE First # feed
  <2>1. Len(past.feeds) = 2
    <3>1. PICK n \in Nat : n = Len(past.feeds)
      BY <1>2
    <3>2. n <= 2 /\ n >= 1 /\ n # 1
      BY <1>2, <1>5, <3>1 DEF OneChange
    <3>3. n \in Nat
      BY <3>1
    <3>4. n = 2
      BY <3>2, <3>3
    <3> QED
      BY <3>1, <3>4
  <2>2. PICK e \in Endpoints, x \in Rec :
          /\ \A h \in Endpoints \ {e} : x \notin First[h]
          /\ feed = [First EXCEPT ![e] = IF x \in @ THEN @ \ {x} ELSE @ \cup {x}]
    BY <1>1, <2>1 DEF PastInv
  <2>3. /\ feed[e] \subseteq First[e] \cup {x}
        /\ \A h \in Endpoints \ {e} : feed[h] = First[h] /\ x \notin First[h]
    BY <1>2, <2>2
  <2> QED
    BY <1>3, <2>3 DEF Ever
<1> QED
  BY <1>4, <1>5

LEMMA CollectPageStep ==
  ASSUME Intact, CollectPage
  PROVE  Intact'
<1>1. ApiShape /\ ApiTypeOK /\ PastInv /\ PlanInv /\ WholeInv /\ PageInv /\ WrittenInv /\ ProbeInv
      /\ CompletedInv
  BY DEF Intact, ApiIInv
<1> DEFINE e == collect.endpoint
<1> DEFINE items == Answer
<1> DEFINE old == collect.written
<1> DEFINE new == old \o Fresh(items)
<1> DEFINE last == LastPage(items)
<1> DEFINE S == Slice(feed[e], collect.leaves[1])
<1> DEFINE failed == Strict /\ ToSet(items) \cap ToSet(SubSeq(old, 1, collect.before)) # {}
<1>2. /\ collect.pc = "pages" /\ collect.leaves # <<>>
      /\ UNCHANGED <<api, feed, moment, members, date, past>>
      /\ collect' =
           IF failed THEN Quiet
           ELSE IF last
           THEN [collect EXCEPT !.written = @ \o Fresh(items), !.leaves = Tail(@),
                                !.page = 1, !.fetched = 0]
           ELSE [collect EXCEPT !.written = @ \o Fresh(items), !.page = @ + 1,
                                !.fetched = @ + Len(items)]
  BY DEF CollectPage
<1>3. CASE failed
  <2>1. collect' = Quiet
    BY <1>2, <1>3
  <2>2. members' \in Profiles
    BY <1>1, <1>2 DEF ApiTypeOK, Profiles
  <2> QED
    BY <1>2, <2>1, <2>2, EndedStep
<1>4. CASE ~failed
  <2>1. /\ S \in SUBSET Rec /\ Len(items) \in Nat /\ ToSet(items) \subseteq S
        /\ api.paging # "none" => Len(items) <= ApiPageSize
        /\ ~Faceted \/ Cardinality(S) <= Cap =>
             \A x \in S : x \notin ToSet(items) /\ Rank(S, x) >= From =>
               /\ api.paging # "none" /\ Len(items) = ApiPageSize
               /\ Rank(S, x) >= From + ApiPageSize
    BY <1>2, AnswerIs
  <2>2. /\ new \in Seq(Rec) /\ Len(new) \in Nat /\ Len(old) <= Len(new) /\ DOMAIN new = 1..Len(new)
        /\ ToSet(new) = ToSet(old) \cup ToSet(items)
        /\ \A k \in DOMAIN new :
             \/ k \in DOMAIN old /\ new[k] = old[k]
             \/ k > Len(old) /\ new[k] \in ToSet(items)
        /\ api.dedup => \A j, k \in DOMAIN new : new[j] = new[k] => j = k
    BY <1>2, FreshIs
  <2>3. /\ collect \in Collection /\ collect.leaves \in Seq(Query) /\ collect.page \in Nat \ {0}
        /\ collect.fetched \in Nat /\ old \in Seq(Rec) /\ Len(old) \in Nat
        /\ DOMAIN old = 1..Len(old)
    BY <1>1, CollectionIs
  <2>4. /\ From \in Nat /\ ApiPageSize \in Nat \ {0}
        /\ \A p : p = collect.page + 1 => (p - 1) * ApiPageSize = From + ApiPageSize
    BY <1>1, FromIs
  <2>5. /\ feed \in [Endpoints -> SUBSET Rec] /\ First \in [Endpoints -> SUBSET Rec]
        /\ e \in Endpoints /\ Endpoints \subseteq Nat /\ S \subseteq feed[e]
    <3>1. feed[e] \in SUBSET Rec /\ e \in Endpoints /\ Endpoints = 1..api.endpoints
      BY <1>1, SetupIs
    <3> QED
      BY <1>1, <3>1, SetupIs, PastIs, Finite
  <2> DEFINE leaves == IF last THEN Tail(collect.leaves) ELSE collect.leaves
  <2> DEFINE page == IF last THEN 1 ELSE collect.page + 1
  <2> DEFINE fetched == IF last THEN 0 ELSE collect.fetched + Len(items)
  <2>6. /\ leaves \in Seq(Query) /\ page \in Nat \ {0} /\ fetched \in Nat
    BY <1>2, <2>1, <2>3
  <2>7. collect' = [collect EXCEPT !.written = new, !.leaves = leaves, !.page = page,
                                   !.fetched = fetched]
    BY <1>2, <1>4, <2>3 DEF Collection
  <2> HIDE DEF new, leaves, page, fetched
  <2>8. /\ collect' \in Collection /\ collect'.pc = "pages" /\ collect'.endpoint = e
        /\ collect'.expected = collect.expected /\ collect'.plan = collect.plan
        /\ collect'.before = collect.before /\ collect'.own = collect.own
    BY <1>2, <2>2, <2>3, <2>6, <2>7 DEF Collection
  <2>9. /\ collect'.leaves = leaves /\ collect'.page = page /\ collect'.fetched = fetched
        /\ collect'.written = new
    BY <2>3, <2>7 DEF Collection
  <2>10. /\ First' = First /\ (OneChange' <=> OneChange) /\ (Strict' <=> Strict)
         /\ (Faceted' <=> Faceted) /\ Endpoints' = Endpoints
    BY <1>2 DEF First, OneChange, Strict, Faceted, Endpoints
  <2>11. ApiTypeOK' /\ ApiShape'
    <3>1. ApiShape'
      BY <1>1, <1>2, <2>8, <2>10 DEF ApiShape
    <3>2. /\ collect.expected \in 0..Cardinality(Rec) /\ collect.own \in [Rec -> State \cup {NoProfile}]
          /\ e \in Endpoints
      BY <1>1 DEF ApiTypeOK
    <3>3. /\ collect'.expected \in 0..Cardinality(Rec)
          /\ collect'.own \in [Rec -> State \cup {NoProfile}]
          /\ collect'.endpoint \in Endpoints' /\ collect'.written \in Seq(Rec)
          /\ collect'.pc \in {"idle", "plan", "pages", "profiles"}
      BY <2>2, <2>8, <2>9, <2>10, <3>2
    <3>4. ApiTypeOK'
      BY <1>1, <1>2, <2>10, <3>3 DEF ApiTypeOK
    <3> QED
      BY <3>1, <3>4
  <2>12. PastInv'
    BY <1>1, <1>2, <2>10 DEF PastInv, Apart
  <2>13. PlanInv'
    BY <2>8 DEF PlanInv
  <2> HIDE DEF e, items, old, last, S, failed
  <2>14. /\ Len(collect.leaves) \in Nat /\ DOMAIN collect.leaves = 1..Len(collect.leaves)
         /\ last => /\ Len(leaves) = Len(collect.leaves) - 1
                    /\ DOMAIN leaves = 1..Len(collect.leaves) - 1
                    /\ \A k \in 1..Len(collect.leaves) - 1 : leaves[k] = collect.leaves[k + 1]
         /\ ~last => leaves = collect.leaves
    BY <1>2, <2>3 DEF leaves
  <2>15. PageInv'
    <3>1. collect.plan = NewPlan /\ collect.fetched <= From
      BY <1>1, <1>2 DEF PageInv, From
    <3>2. fetched <= (page - 1) * ApiPageSize
      <4>1. CASE last
        BY <2>4, <4>1 DEF fetched, page
      <4>2. CASE ~last
        <5>1. api.paging # "none"
          BY <4>2 DEF last, LastPage
        <5>2. collect.fetched + Len(items) <= From + ApiPageSize
          BY <2>1, <2>3, <2>4, <3>1, <5>1
        <5>3. page = collect.page + 1 /\ fetched = collect.fetched + Len(items)
          BY <4>2 DEF fetched, page
        <5>4. (page - 1) * ApiPageSize = From + ApiPageSize
          BY <2>4, <5>3, Zenon
        <5> QED
          BY <5>2, <5>3, <5>4
      <4> QED
        BY <4>1, <4>2
    <3>3. ASSUME OneChange, Faceted, NEW k \in DOMAIN leaves
          PROVE  \E m \in DOMAIN collect.leaves : leaves[k] = collect.leaves[m]
      <4>1. CASE last
        <5>1. k + 1 \in DOMAIN collect.leaves /\ leaves[k] = collect.leaves[k + 1]
          BY <2>14, <3>3, <4>1
        <5> QED
          BY <5>1
      <4>2. CASE ~last
        BY <2>14, <3>3, <4>2
      <4> QED
        BY <4>1, <4>2
    <3>4. ASSUME OneChange, Faceted, NEW m \in DOMAIN collect.leaves
          PROVE  Fits(collect.leaves[m])
      BY <1>1, <1>2, <3>4 DEF PageInv
    <3>5. ASSUME NEW q, Fits(q) PROVE (Fits(q))'
      BY <1>2, <2>8, <3>5 DEF Fits, e
    <3>6. ASSUME OneChange, Faceted, NEW k \in DOMAIN leaves
          PROVE  /\ Len(past.feeds) = 1 \/ ~past.full =>
                      Cardinality(Slice(feed[e], leaves[k])) <= Cap
                 /\ Len(past.feeds) = 1 /\ ~past.full =>
                      Cardinality(Slice(feed[e], leaves[k])) < Cap
      <4>1. PICK m \in DOMAIN collect.leaves : leaves[k] = collect.leaves[m]
        BY <3>3, <3>6
      <4>2. Fits(collect.leaves[m])
        BY <3>4, <3>6
      <4> QED
        BY <4>1, <4>2 DEF Fits, e
    <3>7. (\A k \in DOMAIN collect.leaves : Fits(collect.leaves[k]))' <=>
            \A k \in DOMAIN leaves :
                 /\ Len(past.feeds) = 1 \/ ~past.full =>
                      Cardinality(Slice(feed[e], leaves[k])) <= Cap
                 /\ Len(past.feeds) = 1 /\ ~past.full =>
                      Cardinality(Slice(feed[e], leaves[k])) < Cap
      BY <1>2, <2>8, <2>9 DEF Fits
    <3> QED
      BY <2>8, <2>9, <2>10, <3>1, <3>2, <3>6, <3>7 DEF PageInv
  <2>16. WholeInv'
    <3> SUFFICES ASSUME Additions, NEW x \in First[e]
                 PROVE  x \in ToSet(new) \/ (Ahead(x))'
      BY <1>2, <2>8, <2>9, <2>10 DEF WholeInv, Additions, e
    <3>1. x \in ToSet(old) \/ Ahead(x)
      BY <1>1, <1>2 DEF WholeInv, Additions, e, old
    <3>2. x \in feed[e] /\ (Faceted => Cardinality(S) <= Cap)
      <4>1. 1 \in DOMAIN collect.leaves
        BY <1>2, <2>3
      <4>2. Faceted => Fits(collect.leaves[1])
        BY <1>1, <1>2, <4>1 DEF PageInv, Additions
      <4> QED
        BY <4>2 DEF Additions, Fits, S, e
    <3>3. (Ahead(x))' <=>
            \/ \E k \in 2..Len(leaves) : Matches(x, leaves[k])
            \/ /\ leaves # <<>> /\ Matches(x, leaves[1])
               /\ Rank(Slice(feed[e], leaves[1]), x) >= (page - 1) * ApiPageSize
      BY <1>2, <2>8, <2>9 DEF Ahead
    <3>4. CASE x \in ToSet(old)
      BY <2>2, <3>4
    <3>5. ASSUME NEW k \in 2..Len(collect.leaves), Matches(x, collect.leaves[k])
          PROVE  (Ahead(x))'
      <4>1. CASE last
        <5>1. PICK m \in 1..Len(collect.leaves) - 1 : k = m + 1
          <6>1. k - 1 \in 1..Len(collect.leaves) - 1 /\ k = (k - 1) + 1
            BY <2>14, <3>5
          <6> QED
            BY <6>1
        <5>2. leaves[m] = collect.leaves[k] /\ m \in 1..Len(leaves)
          BY <2>14, <4>1, <5>1
        <5>3. CASE m = 1
          <6>1. leaves # <<>> /\ Matches(x, leaves[1])
            BY <2>14, <3>5, <4>1, <5>2, <5>3
          <6>2. Rank(Slice(feed[e], leaves[1]), x) \in Nat
            <7>1. feed[e] \in SUBSET Rec
              BY <2>5
            <7>2. Slice(feed[e], leaves[1]) \in SUBSET Rec
              BY <7>1, Finite
            <7> QED
              BY <7>2, RankIs
          <6>3. (page - 1) * ApiPageSize = 0
            BY <2>4, <4>1 DEF page
          <6> QED
            BY <3>3, <6>1, <6>2, <6>3
        <5>4. CASE m # 1
          <6>1. m \in 2..Len(leaves)
            BY <2>14, <4>1, <5>1, <5>2, <5>4
          <6> QED
            BY <3>3, <3>5, <5>2, <6>1
        <5> QED
          BY <5>3, <5>4
      <4>2. CASE ~last
        BY <2>14, <3>3, <3>5, <4>2
      <4> QED
        BY <4>1, <4>2
    <3>6. ASSUME Matches(x, collect.leaves[1]), Rank(S, x) >= From, x \notin ToSet(items)
          PROVE  (Ahead(x))'
      <4>1. x \in S
        BY <3>2, <3>6 DEF S, Slice
      <4>2. /\ api.paging # "none" /\ Len(items) = ApiPageSize
            /\ Rank(S, x) >= From + ApiPageSize
        BY <2>1, <3>2, <3>6, <4>1
      <4>3. Faceted => collect.fetched + Len(items) < Cap
        <5>1. Rank(S, x) < Cardinality(S) /\ Rank(S, x) \in Nat /\ Cardinality(S) \in Nat
          BY <2>1, <4>1, RankIs
        <5>2. collect.fetched <= From
          BY <1>1, <1>2 DEF PageInv, From
        <5> QED
          BY <2>1, <2>3, <2>4, <3>2, <4>2, <5>1, <5>2, CapIs
      <4>4. ~last
        <5>1. items # <<>>
          BY <2>4, <4>2
        <5> QED
          BY <2>1, <2>3, <2>4, <4>2, <4>3, <5>1, CapIs DEF last, LastPage, items
      <4>5. page = collect.page + 1
        BY <4>4 DEF page
      <4>6. (page - 1) * ApiPageSize = From + ApiPageSize
        BY <2>4, <4>5, Zenon
      <4>7. leaves = collect.leaves
        BY <2>14, <4>4
      <4>8. Rank(Slice(feed[e], leaves[1]), x) >= (page - 1) * ApiPageSize
        BY <4>2, <4>6, <4>7 DEF S
      <4> QED
        BY <1>2, <3>3, <3>6, <4>7, <4>8
    <3> QED
      BY <2>2, <3>1, <3>4, <3>5, <3>6 DEF Ahead, From, S, e
  <2>17. WrittenInv'
    <3>1. OneChange => collect.before \in 0..Len(new)
      BY <1>1, <1>2, <2>2, <2>3 DEF WrittenInv, old
    <3>2. ASSUME OneChange, NEW k \in DOMAIN new
          PROVE  IF k <= collect.before
                 THEN \E f \in Endpoints : f < e /\ new[k] \in Ever(f)
                 ELSE new[k] \in Ever(e)
      <4>1. /\ collect.before \in 0..Len(old)
            /\ \A m \in DOMAIN old :
                 IF m <= collect.before
                 THEN \E f \in Endpoints : f < e /\ old[m] \in Ever(f)
                 ELSE old[m] \in Ever(e)
        BY <1>1, <1>2, <3>2 DEF WrittenInv, FromEarlier, old, e
      <4>2. CASE k \in DOMAIN old /\ new[k] = old[k]
        BY <4>1, <4>2
      <4>3. CASE k > Len(old) /\ new[k] \in ToSet(items)
        <5>1. ~(k <= collect.before)
          BY <2>2, <2>3, <4>1, <4>3
        <5>2. new[k] \in Ever(e)
          BY <2>1, <2>5, <4>3 DEF Ever
        <5> QED
          BY <5>1, <5>2
      <4> QED
        BY <2>2, <4>2, <4>3
    <3>3. \A f \in Endpoints : (Ever(f))' = Ever(f)
      BY <1>2, <2>10 DEF Ever
    <3>4. (Ever(collect.endpoint))' = Ever(e)
      BY <1>2, <2>8, <2>10 DEF Ever
    <3>5. \A k : (FromEarlier(k))' <=> \E f \in Endpoints : f < e /\ new[k] \in Ever(f)
      BY <2>8, <2>9, <2>10, <3>3 DEF FromEarlier
    <3>6. (OneChange => collect.before \in 0..Len(collect.written))'
      BY <2>8, <2>9, <2>10, <3>1
    <3>7. (OneChange => \A k \in DOMAIN collect.written :
             IF k <= collect.before THEN FromEarlier(k)
             ELSE collect.written[k] \in Ever(collect.endpoint))'
      BY <2>8, <2>9, <2>10, <3>2, <3>4, <3>5
    <3>8. (api.dedup => \A j, k \in DOMAIN collect.written :
             collect.written[j] = collect.written[k] => j = k)'
      <4>1. api.dedup => \A j, k \in DOMAIN new : new[j] = new[k] => j = k
        BY <2>2
      <4>2. api' = api /\ collect'.written = new
        BY <1>2, <2>9
      <4> QED
        BY <4>1, <4>2, Zenon
    <3> QED
      BY <2>8, <3>6, <3>7, <3>8 DEF WrittenInv
  <2>18. ProbeInv'
    <3> SUFFICES ASSUME OneChange, Strict
                 PROVE  \/ collect.expected = Cardinality(First[e])
                        \/ /\ collect.expected = Cardinality(feed[e])
                           /\ \A k \in DOMAIN new : k > collect.before => new[k] \in feed[e]
      BY <1>2, <2>8, <2>9, <2>10 DEF ProbeInv
    <3>1. \/ collect.expected = Cardinality(First[e])
          \/ /\ collect.expected = Cardinality(feed[e])
             /\ \A k \in DOMAIN old : k > collect.before => old[k] \in feed[e]
      BY <1>1, <1>2 DEF ProbeInv, e, old
    <3> QED
      BY <2>1, <2>2, <2>5, <3>1
  <2>19. CompletedInv'
    <3>1. ASSUME OneChange, NEW f \in Endpoints, f < e
          PROVE  ToSet(items) \cap Ever(f) = {}
      <4>1. f # e
        BY <2>5, <3>1
      <4>2. Ever(f) \cap Ever(e) = {}
        BY <2>5, <3>1, <4>1, EverApart
      <4> QED
        BY <2>1, <2>5, <4>2 DEF Ever
    <3>2. ASSUME OneChange, NEW f \in Endpoints, f < e
          PROVE  /\ Strict /\ ~past.full /\ ~past.counting =>
                      ToSet(old) \cap Ever(f) \in {First[f], feed[f]}
                 /\ Len(past.feeds) = 1 => First[f] \subseteq ToSet(old)
      <4>1. Completed(f)
        BY <1>2, <3>2 DEF Completed, e
      <4> QED
        BY <1>1, <3>2, <4>1 DEF CompletedInv, old
    <3>3. ASSUME OneChange, NEW f \in Endpoints, f < e
          PROVE  /\ Strict /\ ~past.full /\ ~past.counting =>
                      ToSet(new) \cap Ever(f) \in {First[f], feed[f]}
                 /\ Len(past.feeds) = 1 => First[f] \subseteq ToSet(new)
      BY <2>2, <3>1, <3>2, <3>3
    <3>4. \A f \in Endpoints : (Ever(f))' = Ever(f) /\ ((Completed(f))' <=> f < e)
      BY <1>2, <2>8, <2>10 DEF Ever, Completed
    <3> QED
      BY <1>2, <2>9, <2>10, <3>3, <3>4 DEF CompletedInv
  <2> QED
    BY <2>11, <2>12, <2>13, <2>15, <2>16, <2>17, <2>18, <2>19 DEF Intact, ApiIInv
<1> QED
  BY <1>3, <1>4

\* The members of the last part of a sequence without repetitions are as many as it is long.
LEMMA CountedPart ==
  ASSUME NEW S, NEW s \in Seq(S), NEW b \in 0..Len(s), NEW W,
         \A j, k \in DOMAIN s : s[j] = s[k] => j = k,
         W = {s[k] : k \in b + 1..Len(s)}
  PROVE  IsFiniteSet(W) /\ Cardinality(W) = Len(s) - b
<1>1. Len(s) \in Nat /\ DOMAIN s = 1..Len(s) /\ b \in Nat /\ b <= Len(s)
  OBVIOUS
<1> DEFINE D == b + 1..Len(s)
<1> DEFINE f == [k \in D |-> s[k]]
<1>2. D \in SUBSET DOMAIN s
  BY <1>1
<1>3. IsFiniteSet(D) /\ Cardinality(D) = Len(s) - b
  <2>1. b + 1 \in Int /\ Len(s) \in Int
    BY <1>1
  <2>2. IsFiniteSet(D) /\ Cardinality(D) = IF b + 1 > Len(s) THEN 0 ELSE Len(s) - (b + 1) + 1
    BY <2>1, FS_Interval
  <2> HIDE DEF D
  <2>3. PICK n \in Nat : n = Len(s)
    BY <1>1
  <2>4. n \in Nat /\ b \in Nat /\ b <= n
    BY <1>1, <2>3
  <2>5. (IF b + 1 > n THEN 0 ELSE n - (b + 1) + 1) = n - b
    BY <2>4
  <2>6. Cardinality(D) = IF b + 1 > n THEN 0 ELSE n - (b + 1) + 1
    BY <2>2, <2>3
  <2> QED
    BY <2>2, <2>3, <2>5, <2>6
<1> HIDE DEF D
<1>4. W = {s[k] : k \in D}
  BY DEF D
<1>5. f \in [D -> W] /\ \A k \in D : f[k] = s[k]
  BY <1>4
<1> HIDE DEF f
<1>6. \A j, k \in D : f[j] = f[k] => j = k
  BY <1>2, <1>5
<1>7. \A w \in W : \E k \in D : f[k] = w
  BY <1>4, <1>5
<1>8. f \in Bijection(D, W)
  <2>1. DOMAIN f = D
    BY <1>5
  <2>2. IsInjective(f)
    BY <1>6, <2>1 DEF IsInjective
  <2> QED
    BY <1>5, <1>7, <2>2 DEF Bijection, Injection, Surjection
<1>9. ExistsBijection(D, W)
  BY <1>8 DEF ExistsBijection
<1> QED
  BY <1>3, <1>9, FS_Bijection

\* An endpoint whose count agrees with its probe is there as it was at one moment.
LEMMA EndpointIs ==
  ASSUME Intact, collect.pc = "pages", collect.leaves = <<>>, OneChange,
         Strict => Len(collect.written) - collect.before = collect.expected
  PROVE  LET e == collect.endpoint IN
         /\ Strict /\ ~past.full /\ ~past.counting =>
              ToSet(collect.written) \cap Ever(e) \in {First[e], feed[e]}
         /\ Len(past.feeds) = 1 => First[e] \subseteq ToSet(collect.written)
<1>1. ApiShape /\ ApiTypeOK /\ PastInv /\ WholeInv /\ WrittenInv /\ ProbeInv
  BY DEF Intact, ApiIInv
<1> DEFINE e == collect.endpoint
<1> DEFINE s == collect.written
<1> DEFINE b == collect.before
<1>2. /\ e \in Endpoints /\ feed \in [Endpoints -> SUBSET Rec] /\ First \in [Endpoints -> SUBSET Rec]
      /\ Endpoints = 1..api.endpoints /\ (Strict => api.dedup)
      /\ Len(past.feeds) = 1 => First = feed /\ ~past.counting
  BY <1>1, SetupIs, PastIs
<1>3. /\ s \in Seq(Rec) /\ Len(s) \in Nat /\ DOMAIN s = 1..Len(s)
  BY <1>1, CollectionIs
<1>4. ~(\E x : Ahead(x))
  <2>1. Len(collect.leaves) = 0 /\ 2..0 = {}
    OBVIOUS
  <2> QED
    BY <2>1 DEF Ahead
<1>5. ASSUME Additions PROVE First[e] \subseteq ToSet(s)
  BY <1>1, <1>4, <1>5 DEF WholeInv, Additions
<1>6. Len(past.feeds) = 1 => First[e] \subseteq ToSet(s)
  <2> SUFFICES ASSUME Len(past.feeds) = 1 PROVE First[e] \subseteq ToSet(s)
    OBVIOUS
  <2>1. Additions
    BY <1>2 DEF Additions
  <2> QED
    BY <1>5, <2>1
<1>7. ASSUME Strict, ~past.full, ~past.counting
      PROVE  ToSet(s) \cap Ever(e) \in {First[e], feed[e]}
  <2>1. CASE First[e] \subseteq feed[e]
    <3>1. Additions
      BY <1>7, <2>1 DEF Additions
    <3>2. First[e] \subseteq ToSet(s)
      BY <1>5, <3>1
    <3>3. feed[e] = First[e] \/ \E x : feed[e] = First[e] \cup {x}
      <4>1. CASE First = feed
        BY <4>1
      <4>2. CASE First # feed
        <5>1. PICK n \in Nat : n = Len(past.feeds)
          BY <1>1, PastIs
        <5>2. n <= 2 /\ n >= 1 /\ n # 1
          BY <1>1, <1>2, <4>2, <5>1, PastIs DEF OneChange
        <5>3. n \in Nat
          BY <5>1
        <5>4. n = 2
          BY <5>2, <5>3
        <5>5. PICK a \in Endpoints, x \in Rec :
                 feed = [First EXCEPT ![a] = IF x \in @ THEN @ \ {x} ELSE @ \cup {x}]
          BY <1>1, <5>1, <5>4 DEF PastInv
        <5>6. feed[e] = First[e] \/ feed[e] = First[e] \ {x} \/ feed[e] = First[e] \cup {x}
          BY <1>2, <5>5
        <5> QED
          BY <2>1, <5>6
      <4> QED
        BY <4>1, <4>2
    <3> QED
      BY <3>2, <3>3 DEF Ever
  <2>2. CASE ~(First[e] \subseteq feed[e])
    <3>1. feed[e] \subseteq First[e]
      <4>1. First # feed
        BY <2>2
      <4>2. PICK n \in Nat : n = Len(past.feeds)
        BY <1>1, PastIs
      <4>3. n <= 2 /\ n >= 1 /\ n # 1
        BY <1>1, <1>2, <4>1, <4>2, PastIs DEF OneChange
      <4>4. n \in Nat
        BY <4>2
      <4>5. n = 2
        BY <4>3, <4>4
      <4>6. PICK a \in Endpoints, x \in Rec :
               feed = [First EXCEPT ![a] = IF x \in @ THEN @ \ {x} ELSE @ \cup {x}]
        BY <1>1, <4>2, <4>5 DEF PastInv
      <4>7. feed[e] = First[e] \/ feed[e] = First[e] \ {x} \/ feed[e] = First[e] \cup {x}
        BY <1>2, <4>6
      <4> QED
        BY <2>2, <4>7
    <3> DEFINE W == {s[k] : k \in b + 1..Len(s)}
    <3>2. /\ b \in 0..Len(s)
          /\ \A k \in DOMAIN s :
               IF k <= b THEN \E f \in Endpoints : f < e /\ s[k] \in Ever(f) ELSE s[k] \in Ever(e)
          /\ \A j, k \in DOMAIN s : s[j] = s[k] => j = k
      BY <1>1, <1>2, <1>7 DEF WrittenInv, FromEarlier
    <3>3. IsFiniteSet(W) /\ Cardinality(W) = Len(s) - b
      BY <1>3, <3>2, CountedPart
    <3>4. Ever(e) = First[e] /\ W \subseteq First[e]
      <4>1. Ever(e) = First[e]
        BY <3>1 DEF Ever
      <4>2. ASSUME NEW k \in b + 1..Len(s) PROVE s[k] \in Ever(e)
        <5>1. k \in DOMAIN s /\ ~(k <= b)
          BY <1>3, <3>2
        <5> QED
          BY <3>2, <5>1
      <4> QED
        BY <4>1, <4>2
    <3>5. ToSet(s) \cap Ever(e) = W
      <4>1. ASSUME NEW k \in DOMAIN s, s[k] \in Ever(e)
            PROVE  s[k] \in W
        <5>1. ~(k <= b)
          <6>1. SUFFICES ASSUME NEW f \in Endpoints, f < e, s[k] \in Ever(f) PROVE FALSE
            BY <3>2
          <6>2. f # e
            BY <1>2, <6>1
          <6> QED
            BY <1>2, <4>1, <6>1, <6>2, EverApart
        <5>2. k \in b + 1..Len(s)
          BY <1>3, <3>2, <5>1
        <5> QED
          BY <5>2
      <4>2. ASSUME NEW k \in b + 1..Len(s) PROVE s[k] \in ToSet(s)
        <5>1. k \in DOMAIN s
          BY <1>3, <3>2
        <5> QED
          BY <5>1 DEF ToSet
      <4>3. ToSet(s) \cap Ever(e) \subseteq W
        BY <4>1 DEF ToSet
      <4> QED
        BY <3>4, <4>2, <4>3
    <3>6. Cardinality(W) = collect.expected
      BY <1>7, <3>3
    <3>7. /\ IsFiniteSet(First[e]) /\ IsFiniteSet(feed[e])
      BY <1>2, Finite
    <3>8. \/ collect.expected = Cardinality(First[e])
          \/ /\ collect.expected = Cardinality(feed[e])
             /\ \A k \in DOMAIN s : k > b => s[k] \in feed[e]
      BY <1>1, <1>7 DEF ProbeInv
    <3>9. CASE collect.expected = Cardinality(First[e])
      <4>1. Cardinality(First[e]) = Cardinality(W)
        BY <3>6, <3>9
      <4>2. First[e] = W
        BY <3>4, <3>7, <4>1, FS_Subset
      <4> QED
        BY <3>5, <4>2
    <3>10. CASE /\ collect.expected = Cardinality(feed[e])
                /\ \A k \in DOMAIN s : k > b => s[k] \in feed[e]
      <4>1. W \subseteq feed[e]
        <5>1. ASSUME NEW k \in b + 1..Len(s) PROVE s[k] \in feed[e]
          <6>1. k \in DOMAIN s /\ k > b
            BY <1>3, <3>2
          <6> QED
            BY <3>10, <6>1
        <5> QED
          BY <5>1
      <4>2. Cardinality(feed[e]) = Cardinality(W)
        BY <3>6, <3>10
      <4>3. feed[e] = W
        BY <3>7, <4>1, <4>2, FS_Subset
      <4> QED
        BY <3>5, <4>3
    <3> QED
      BY <3>8, <3>9, <3>10
  <2> QED
    BY <2>1, <2>2
<1> QED
  BY <1>6, <1>7

\* What the invariant says when all pages of an endpoint were read.
LEMMA PagesReadIs ==
  ASSUME Intact, collect.pc = "pages", collect.leaves = <<>>, OneChange,
         Strict => Len(collect.written) - collect.before = collect.expected,
         NEW f \in Endpoints, f <= collect.endpoint
  PROVE  /\ Strict /\ ~past.full /\ ~past.counting =>
              ToSet(collect.written) \cap Ever(f) \in {First[f], feed[f]}
         /\ Len(past.feeds) = 1 => First[f] \subseteq ToSet(collect.written)
<1>1. collect.endpoint \in Nat /\ f \in Nat
  <2>1. ApiTypeOK /\ ApiShape
    BY DEF Intact, ApiIInv
  <2> QED
    BY <2>1, SetupIs, CollectionIs
<1>2. CASE f = collect.endpoint
  BY <1>2, EndpointIs
<1>3. CASE f < collect.endpoint
  <2>1. Completed(f) /\ CompletedInv
    BY <1>3 DEF Completed, Intact, ApiIInv
  <2> QED
    BY <2>1 DEF CompletedInv
<1> QED
  BY <1>1, <1>2, <1>3

LEMMA EndpointDoneStep ==
  ASSUME Intact, EndpointDone
  PROVE  Intact'
<1>1. ApiShape /\ ApiTypeOK /\ PastInv /\ PlanInv /\ WholeInv /\ PageInv /\ WrittenInv /\ ProbeInv
      /\ CompletedInv
  BY DEF Intact, ApiIInv
<1> DEFINE e == collect.endpoint
<1> DEFINE failed == Strict /\ Len(collect.written) - collect.before # collect.expected
<1>2. /\ collect.pc = "pages" /\ collect.leaves = <<>>
      /\ UNCHANGED <<api, feed, moment, members, date, past>>
      /\ collect' =
           IF failed THEN Quiet
           ELSE IF e < api.endpoints
           THEN [collect EXCEPT !.pc = "plan", !.endpoint = @ + 1,
                                !.expected = Cardinality(feed[e + 1])]
           ELSE [collect EXCEPT !.pc = "profiles"]
  BY DEF EndpointDone
<1>3. /\ First' = First /\ (OneChange' <=> OneChange) /\ (Strict' <=> Strict)
      /\ (Faceted' <=> Faceted) /\ Endpoints' = Endpoints /\ \A f \in Endpoints : (Ever(f))' = Ever(f)
  BY <1>2 DEF First, OneChange, Strict, Faceted, Endpoints, Ever
<1>4. /\ collect \in Collection /\ collect.written \in Seq(Rec) /\ e \in Nat
      /\ DOMAIN collect.written = 1..Len(collect.written)
  BY <1>1, CollectionIs
<1>5. /\ api.endpoints \in Nat /\ Endpoints = 1..api.endpoints /\ e \in Endpoints
      /\ feed \in [Endpoints -> SUBSET Rec] /\ api.facets \in Seq(Facet)
  BY <1>1, SetupIs
<1>6. PastInv'
  BY <1>1, <1>2, <1>3 DEF PastInv, Apart
<1>7. ASSUME OneChange
      PROVE  \A k \in DOMAIN collect.written :
               \E f \in Endpoints : f <= e /\ collect.written[k] \in Ever(f)
  <2>1. \A k \in DOMAIN collect.written :
          \/ \E f \in Endpoints : f < e /\ collect.written[k] \in Ever(f)
          \/ collect.written[k] \in Ever(e)
    BY <1>1, <1>2, <1>7 DEF WrittenInv, FromEarlier
  <2>2. e <= e /\ \A f \in Endpoints : f < e => f <= e
    BY <1>4, <1>5
  <2> QED
    BY <1>5, <2>1, <2>2
<1>8. api.dedup => \A j, k \in DOMAIN collect.written :
                     collect.written[j] = collect.written[k] => j = k
  BY <1>1 DEF WrittenInv
<1>9. CASE failed
  <2>1. collect' = Quiet
    BY <1>2, <1>9
  <2>2. members' \in Profiles
    BY <1>1, <1>2 DEF ApiTypeOK, Profiles
  <2> QED
    BY <1>2, <2>1, <2>2, EndedStep
<1>10. ASSUME ~failed, OneChange, NEW f \in Endpoints, f <= e
       PROVE  /\ Strict /\ ~past.full /\ ~past.counting =>
                   ToSet(collect.written) \cap Ever(f) \in {First[f], feed[f]}
              /\ Len(past.feeds) = 1 => First[f] \subseteq ToSet(collect.written)
  BY <1>2, <1>10, PagesReadIs
<1>11. CASE ~failed /\ e < api.endpoints
  <2> DEFINE n == Cardinality(feed[e + 1])
  <2>1. e + 1 \in Endpoints /\ e + 1 \in Nat /\ e < e + 1
    BY <1>4, <1>5, <1>11
  <2>2. feed[e + 1] \in SUBSET Rec
    BY <1>5, <2>1
  <2>3. n \in Nat /\ n \in 0..Cardinality(Rec)
    <3>1. n \in Nat /\ n <= Cardinality(Rec) /\ Cardinality(Rec) \in Nat
      BY <2>2, Finite, FS_Subset, FS_CardinalityType
    <3> QED
      BY <3>1
  <2>4. collect' = [collect EXCEPT !.pc = "plan", !.endpoint = e + 1, !.expected = n]
    BY <1>2, <1>4, <1>11 DEF Collection
  <2> HIDE DEF n
  <2>5. /\ collect' \in Collection /\ collect'.pc = "plan" /\ collect'.endpoint = e + 1
        /\ collect'.expected = n /\ collect'.plan = collect.plan
        /\ collect'.written = collect.written /\ collect'.own = collect.own
    BY <1>4, <2>1, <2>3, <2>4 DEF Collection
  <2>6. collect.plan = NewPlan
    BY <1>1, <1>2 DEF PageInv
  <2>7. ApiShape'
    BY <1>1, <1>2, <1>3, <2>5 DEF ApiShape
  <2>8. ApiTypeOK'
    <3>1. /\ collect'.pc \in {"idle", "plan", "pages", "profiles"} /\ collect'.endpoint \in Endpoints'
          /\ collect'.expected \in 0..Cardinality(Rec) /\ collect'.written \in Seq(Rec)
          /\ collect'.own \in [Rec -> State \cup {NoProfile}]
      BY <1>3, <1>4, <2>1, <2>3, <2>5 DEF Collection
    <3> QED
      BY <1>1, <1>2, <1>3, <3>1 DEF ApiTypeOK
  <2>9. /\ \A k \in DOMAIN NewPlan.stack :
             /\ FrameOK(api.facets, NewPlan.stack[k])
             /\ CountOK(api.facets, NewPlan.stack[k], feed[e + 1])
        /\ \A k \in DOMAIN NewPlan.leaves : FALSE
        /\ \A x : Sought(NewPlan, api.facets, x)
    <3>1. /\ FramesOK(api.facets, NewPlan) /\ ToSet(NewPlan.leaves) = {}
          /\ \A all : Counted(api.facets, NewPlan, all) /\ \A x : Sought(NewPlan, api.facets, x)
      BY <1>5, NewPlanIs
    <3> QED
      BY <3>1 DEF FramesOK, Counted, ToSet
  <2>10. PlanInv'
    <3>1. collect'.plan = NewPlan /\ feed'[collect'.endpoint] = feed[e + 1] /\ api' = api
      BY <1>2, <2>5, <2>6
    <3> QED
      BY <2>9, <3>1 DEF PlanInv
  <2>11. WholeInv'
    BY <1>2, <2>5, <2>6, <2>9 DEF WholeInv
  <2>12. PageInv'
    BY <2>5 DEF PageInv
  <2>13. WrittenInv'
    <3>1. ASSUME OneChange, NEW k \in DOMAIN collect.written
          PROVE  (FromEarlier(k))'
      <4>1. PICK f \in Endpoints : f <= e /\ collect.written[k] \in Ever(f)
        BY <1>7, <3>1
      <4>2. f < e + 1
        BY <1>4, <1>5, <4>1
      <4> QED
        BY <1>3, <2>5, <4>1, <4>2 DEF FromEarlier
    <3> QED
      BY <1>2, <1>3, <1>8, <2>5, <3>1 DEF WrittenInv
  <2>14. ProbeInv'
    BY <1>2, <2>5 DEF ProbeInv, n
  <2>15. CompletedInv'
    <3>1. \A f \in Endpoints : (Completed(f))' => f <= e
      BY <1>4, <1>5, <2>5 DEF Completed
    <3> QED
      BY <1>2, <1>3, <1>10, <1>11, <2>5, <3>1 DEF CompletedInv
  <2> QED
    BY <1>6, <2>7, <2>8, <2>10, <2>11, <2>12, <2>13, <2>14, <2>15 DEF Intact, ApiIInv
<1>12. CASE ~failed /\ ~(e < api.endpoints)
  <2>1. collect' = [collect EXCEPT !.pc = "profiles"]
    BY <1>2, <1>12
  <2>2. /\ collect' \in Collection /\ collect'.pc = "profiles" /\ collect'.endpoint = e
        /\ collect'.expected = collect.expected
        /\ collect'.written = collect.written /\ collect'.own = collect.own
    BY <1>4, <2>1 DEF Collection
  <2>3. ApiShape' /\ ApiTypeOK'
    BY <1>1, <1>2, <1>3, <2>2 DEF ApiShape, ApiTypeOK
  <2>4. PlanInv' /\ WholeInv' /\ PageInv' /\ ProbeInv'
    BY <2>2 DEF PlanInv, WholeInv, PageInv, ProbeInv
  <2>5. WrittenInv'
    <3>1. (OneChange => \A k \in DOMAIN collect.written :
             \E f \in Endpoints : collect.written[k] \in Ever(f))'
      BY <1>3, <1>7, <2>2
    <3> QED
      BY <1>2, <1>8, <2>2, <3>1 DEF WrittenInv
  <2>6. CompletedInv'
    <3>1. \A f \in Endpoints : f <= e
      BY <1>4, <1>5, <1>12
    <3> QED
      BY <1>2, <1>3, <1>10, <1>12, <2>2, <3>1 DEF CompletedInv
  <2> QED
    BY <1>6, <2>3, <2>4, <2>5, <2>6 DEF Intact, ApiIInv
<1> QED
  BY <1>9, <1>11, <1>12

\* A profile is fetched.
LEMMA FetchProfileStep ==
  ASSUME Intact, FetchProfile
  PROVE  Intact'
<1>1. ApiShape /\ ApiTypeOK /\ PastInv /\ PlanInv /\ WholeInv /\ PageInv /\ WrittenInv /\ ProbeInv
      /\ CompletedInv
  BY DEF Intact, ApiIInv
<1> DEFINE state == IF Saved(Wanted) # NoProfile THEN Saved(Wanted) ELSE moment
<1>2. /\ collect.pc = "profiles" /\ collect.next <= Len(collect.written)
      /\ members' = IF Strict THEN members ELSE [members EXCEPT ![date][Wanted] = state]
      /\ collect' = [collect EXCEPT !.own[Wanted] = state, !.next = @ + 1]
      /\ UNCHANGED <<api, feed, moment, date, past>>
  BY DEF FetchProfile
<1>3. /\ collect \in Collection /\ collect.written \in Seq(Rec) /\ collect.next \in Nat \ {0}
      /\ collect.own \in [Rec -> State \cup {NoProfile}]
      /\ DOMAIN collect.written = 1..Len(collect.written) /\ Len(collect.written) \in Nat
  BY <1>1, CollectionIs
<1>4. Wanted \in Rec
  <2>1. collect.next \in DOMAIN collect.written
    BY <1>2, <1>3
  <2> QED
    BY <1>3, <2>1 DEF Wanted
<1>5. members \in Profiles /\ moment \in State /\ date \in ApiDay
  BY <1>1 DEF ApiTypeOK, Profiles
<1>6. state \in State \cup {NoProfile}
  BY <1>3, <1>4, <1>5 DEF Saved, Profiles
<1> HIDE DEF state
<1>7. members' \in Profiles
  BY <1>2, <1>4, <1>5, <1>6 DEF Profiles
<1> DEFINE own == [collect.own EXCEPT ![Wanted] = state]
<1> DEFINE next == collect.next + 1
<1>8. own \in [Rec -> State \cup {NoProfile}] /\ next \in Nat \ {0}
  BY <1>3, <1>4, <1>6
<1>9. collect' = [collect EXCEPT !.own = own, !.next = next]
  BY <1>2, <1>3 DEF Collection
<1> HIDE DEF own, next
<1>10. /\ collect' \in Collection /\ collect'.pc = "profiles" /\ collect'.endpoint = collect.endpoint
       /\ collect'.expected = collect.expected
       /\ collect'.written = collect.written /\ collect'.own = own
  BY <1>2, <1>3, <1>8, <1>9 DEF Collection
<1>11. /\ First' = First /\ (OneChange' <=> OneChange) /\ (Strict' <=> Strict)
       /\ Endpoints' = Endpoints /\ \A f \in Endpoints : (Ever(f))' = Ever(f)
  BY <1>2 DEF First, OneChange, Strict, Endpoints, Ever
<1>12. ApiShape'
  BY <1>1, <1>2, <1>10, <1>11 DEF ApiShape
<1>13. ApiTypeOK'
  <2>1. collect.expected \in 0..Cardinality(Rec) /\ collect.endpoint \in Endpoints
    BY <1>1 DEF ApiTypeOK
  <2>2. /\ collect'.pc \in {"idle", "plan", "pages", "profiles"} /\ collect'.endpoint \in Endpoints'
        /\ collect'.expected \in 0..Cardinality(Rec) /\ collect'.written \in Seq(Rec)
        /\ collect'.own \in [Rec -> State \cup {NoProfile}]
    BY <1>3, <1>8, <1>10, <1>11, <2>1
  <2> QED
    BY <1>1, <1>2, <1>7, <1>11, <2>2 DEF ApiTypeOK, Profiles
<1>14. PastInv'
  BY <1>1, <1>2, <1>11 DEF PastInv, Apart
<1>15. PlanInv' /\ WholeInv' /\ PageInv' /\ ProbeInv'
  BY <1>10 DEF PlanInv, WholeInv, PageInv, ProbeInv
<1>16. WrittenInv'
  BY <1>1, <1>2, <1>10, <1>11 DEF WrittenInv
<1>17. CompletedInv'
  BY <1>1, <1>2, <1>10, <1>11 DEF CompletedInv, Completed
<1> QED
  BY <1>12, <1>13, <1>14, <1>15, <1>16, <1>17 DEF Intact, ApiIInv

\* The other steps leave the lists alone; a collection that ends leaves nothing behind.
LEMMA OtherSteps ==
  ASSUME Intact,
         ChangeProfiles \/ ApiNextDay \/ ReturnSnapshot \/ RaiseCollect \/ UNCHANGED apiVars
  PROVE  Intact'
<1>1. ApiTypeOK /\ members \in Profiles /\ moment \in State /\ date \in ApiDay
      /\ State = 1..MaxState /\ ApiDay = 1..MaxApiDay
  BY DEF Intact, ApiIInv, ApiTypeOK, Profiles, State, ApiDay
<1>2. CASE ChangeProfiles
  <2>1. moment' \in State
    BY <1>1, <1>2, ApiAssumption DEF ChangeProfiles
  <2> QED
    BY <1>1, <1>2, <2>1, SameStep DEF ChangeProfiles
<1>3. CASE ApiNextDay
  <2>1. date' \in ApiDay
    BY <1>1, <1>3, ApiAssumption DEF ApiNextDay
  <2> QED
    BY <1>1, <1>3, <2>1, SameStep DEF ApiNextDay
<1>4. CASE ReturnSnapshot
  BY <1>1, <1>4, EndedStep DEF ReturnSnapshot, Ended
<1>5. CASE RaiseCollect
  BY <1>1, <1>5, EndedStep DEF RaiseCollect, Ended
<1>6. CASE UNCHANGED apiVars
  BY <1>1, <1>6, SameStep DEF apiVars
<1> QED
  BY <1>2, <1>3, <1>4, <1>5, <1>6

LEMMA ApiStep ==
  ASSUME Intact, [ApiNext]_apiVars
  PROVE  Intact'
<1>1. ASSUME NEW e \in {1, 2}, NEW x \in Rec, ChangeFeed(e, x) PROVE Intact'
  BY <1>1, ChangeFeedStep
<1>2. CASE StartCollect BY <1>2, StartCollectStep
<1>3. CASE AskTotal BY <1>3, AskTotalStep
<1>4. CASE LeaveFacet BY <1>4, LeaveFacetStep
<1>5. CASE Planned BY <1>5, PlannedStep
<1>6. CASE CollectPage BY <1>6, CollectPageStep
<1>7. CASE EndpointDone BY <1>7, EndpointDoneStep
<1>8. CASE FetchProfile BY <1>8, FetchProfileStep
<1>9. CASE ChangeProfiles \/ ApiNextDay \/ ReturnSnapshot \/ RaiseCollect \/ UNCHANGED apiVars
  BY <1>9, OtherSteps
<1> QED
  BY <1>1, <1>2, <1>3, <1>4, <1>5, <1>6, <1>7, <1>8, <1>9 DEF ApiNext, ApiSource, ApiRun

LEMMA ApiStarts ==
  ASSUME ApiInit
  PROVE  Intact
<1>1. /\ api \in ApiSetups /\ feed \in [Endpoints -> SUBSET Rec] /\ moment = 1
      /\ \A x \in Rec, e, f \in Endpoints : x \in feed[e] \cap feed[f] => e = f
      /\ members = [d \in ApiDay |-> [x \in Rec |-> NoProfile]]
      /\ collect = Quiet /\ date = 1 /\ past = Since(feed)
  BY DEF ApiInit
<1>2. /\ api.facets \in Seq(Facet) /\ 1 \in Endpoints
  <2>1. api \in ApiSetup
    BY <1>1, ApiSetupAssumption
  <2> QED
    BY <2>1 DEF ApiSetup, Endpoints
<1>3. /\ collect \in Collection /\ collect.pc = "idle" /\ collect.endpoint = 1
      /\ collect.expected = 0 /\ collect.written = <<>>
      /\ collect.own \in [Rec -> State \cup {NoProfile}]
  BY <1>1, QuietIs
<1>4. moment \in State /\ date \in ApiDay /\ members \in [ApiDay -> [Rec -> State \cup {NoProfile}]]
  BY <1>1, ApiAssumption DEF State, ApiDay
<1>5. ApiTypeOK
  <2>1. 0 \in 0..Cardinality(Rec) /\ <<>> \in Seq(Rec)
    BY Finite, FS_CardinalityType, EmptySeq
  <2> QED
    BY <1>1, <1>2, <1>3, <1>4, <2>1 DEF ApiTypeOK
<1>6. Apart(feed)
  BY <1>1 DEF Apart
<1>7. /\ past \in [feeds : Seq([Endpoints -> SUBSET Rec]), full : BOOLEAN, counting : BOOLEAN]
      /\ Len(past.feeds) = 1 /\ past.feeds[1] = feed /\ ~past.counting /\ past.feeds # <<>>
  BY <1>1, <1>5, <1>6, SinceIs
<1>8. PastInv
  BY <1>6, <1>7 DEF PastInv, First
<1>9. ApiShape
  BY <1>3, <1>7 DEF ApiShape
<1>10. WrittenInv
  <2>1. DOMAIN collect.written = {}
    BY <1>3
  <2> QED
    BY <1>3, <2>1 DEF WrittenInv
<1>11. PlanInv /\ WholeInv /\ PageInv /\ ProbeInv /\ CompletedInv
  BY <1>3 DEF PlanInv, WholeInv, PageInv, ProbeInv, CompletedInv, Completed
<1> QED
  BY <1>5, <1>8, <1>9, <1>10, <1>11 DEF Intact, ApiIInv

LEMMA ApiKept == ApiSpec => []Intact
<1>1. ApiInit => Intact
  BY ApiStarts
<1>2. Intact /\ [ApiNext]_apiVars => Intact'
  BY ApiStep
<1> QED
  BY <1>1, <1>2, PTL DEF ApiSpec

\* The invariant behind what a collection of an API returns: the plan still seeks, or the
\* pages to read still hold, every record that was listed at first, as long as the one
\* change only adds a record; and an endpoint that was read is there as it was at one moment.
THEOREM ApiInductive == ApiSpec => []ApiIInv
<1>1. Intact => ApiIInv
  BY DEF Intact
<1> QED
  BY <1>1, ApiKept, PTL

\* What is written when a collection ends.
LEMMA ReturnedIs ==
  ASSUME Intact, ReturnSnapshot, OneChange
  PROVE  /\ \A f \in Endpoints :
              /\ Strict /\ ~past.full /\ ~past.counting =>
                   ToSet(collect.written) \cap Ever(f) \in {First[f], feed[f]}
              /\ Len(past.feeds) = 1 => First[f] \subseteq ToSet(collect.written)
         /\ \A x \in ToSet(collect.written) : \E f \in Endpoints : x \in Ever(f)
         /\ DOMAIN feed = Endpoints /\ DOMAIN First = Endpoints
<1>1. ApiShape /\ ApiTypeOK /\ PastInv /\ WrittenInv /\ CompletedInv /\ collect.pc = "profiles"
  BY DEF Intact, ApiIInv, ReturnSnapshot
<1>2. \A f \in Endpoints : Completed(f)
  BY <1>1 DEF Completed
<1>3. \A x \in ToSet(collect.written) : \E f \in Endpoints : x \in Ever(f)
  BY <1>1 DEF WrittenInv, ToSet
<1>4. DOMAIN feed = Endpoints /\ DOMAIN First = Endpoints
  BY <1>1, SetupIs, PastIs
<1> QED
  BY <1>1, <1>2, <1>3, <1>4 DEF CompletedInv

\* A source that does not change while it is read is read as a whole, for every plan of
\* facets that the configuration allows (_collect, collector.py), every cap and page size;
\* and every record once where the configuration names the key.
THEOREM StableIsWhole == ApiSpec => StableSourceIsWhole
<1>1. ASSUME Intact, ReturnSnapshot, Len(past.feeds) = 1
      PROVE  /\ ToSet(collect.written) = All(feed)
             /\ api.dedup => Len(collect.written) = Cardinality(All(feed))
  <2>1. ApiShape /\ ApiTypeOK /\ PastInv /\ WrittenInv
    BY <1>1 DEF Intact, ApiIInv
  <2>2. OneChange
    BY <1>1 DEF OneChange
  <2>3. First = feed
    BY <1>1, <2>1, PastIs
  <2>4. /\ \A f \in Endpoints : feed[f] \subseteq ToSet(collect.written)
        /\ \A x \in ToSet(collect.written) : \E f \in Endpoints : x \in feed[f]
        /\ DOMAIN feed = Endpoints
    BY <1>1, <2>2, <2>3, ReturnedIs DEF Ever
  <2>5. ToSet(collect.written) = All(feed)
    BY <2>4 DEF All
  <2> DEFINE s == collect.written
  <2> DEFINE W == {s[k] : k \in 0 + 1..Len(s)}
  <2>6. ASSUME api.dedup PROVE Len(s) = Cardinality(All(feed))
    <3>1. s \in Seq(Rec) /\ Len(s) \in Nat /\ DOMAIN s = 1..Len(s) /\ 0 \in 0..Len(s)
      BY <2>1, CollectionIs
    <3>2. \A j, k \in DOMAIN s : s[j] = s[k] => j = k
      BY <2>1, <2>6 DEF WrittenInv
    <3>3. W = ToSet(s)
      BY <3>1 DEF ToSet
    <3>4. Cardinality(W) = Len(s) - 0
      BY <3>1, <3>2, CountedPart
    <3>5. Len(s) - 0 = Len(s)
      BY <3>1
    <3> HIDE DEF W, s
    <3> QED
      BY <2>5, <3>3, <3>4, <3>5 DEF s
  <2> QED
    BY <2>5, <2>6
<1>2. Intact /\ [ApiNext]_apiVars =>
        [ReturnSnapshot /\ Len(past.feeds) = 1 =>
           /\ ToSet(collect.written) = All(feed)
           /\ api.dedup => Len(collect.written) = Cardinality(All(feed))]_apiVars
  BY <1>1
<1> QED
  BY <1>2, ApiKept, PTL DEF ApiSpec, StableSourceIsWhole

\* A list of several endpoints is returned as it was at one moment when at most one record
\* changed while it was read, no query was full and no total was out of date: an endpoint
\* that lost a record, before or behind the page being read, agrees with its probe only if
\* the record was seen, or not seen, throughout (the count of EndpointDone).
THEOREM EndpointsAreOneMoment == ApiSpec => EndpointSnapshotIsOneMoment
<1>1. ASSUME Intact, ReturnSnapshot, Strict, Len(past.feeds) <= 2, ~past.full, ~past.counting
      PROVE  \E i \in DOMAIN past.feeds : ToSet(collect.written) = All(past.feeds[i])
  <2>1. ApiShape /\ ApiTypeOK /\ PastInv
    BY <1>1 DEF Intact, ApiIInv
  <2>2. OneChange
    BY <1>1 DEF OneChange
  <2> DEFINE W == ToSet(collect.written)
  <2>3. /\ \A f \in Endpoints : W \cap Ever(f) \in {First[f], feed[f]}
        /\ \A x \in W : \E f \in Endpoints : x \in Ever(f)
        /\ DOMAIN feed = Endpoints /\ DOMAIN First = Endpoints
    BY <1>1, <2>2, ReturnedIs
  <2> HIDE DEF W
  <2>4. ASSUME NEW feeds, DOMAIN feeds = Endpoints, \A f \in Endpoints : W \cap Ever(f) = feeds[f]
        PROVE  W = All(feeds)
    BY <2>3, <2>4 DEF All
  <2>5. CASE \A f \in Endpoints : W \cap Ever(f) = First[f]
    <3>1. W = All(First)
      BY <2>3, <2>4, <2>5
    <3>2. 1 \in DOMAIN past.feeds
      <4>1. DOMAIN past.feeds = 1..Len(past.feeds) /\ Len(past.feeds) \in Nat /\ Len(past.feeds) >= 1
        BY <2>1, PastIs
      <4> QED
        BY <4>1
    <3> QED
      BY <3>1, <3>2 DEF First, W
  <2>6. ASSUME NEW f \in Endpoints, W \cap Ever(f) # First[f]
        PROVE  \E i \in DOMAIN past.feeds : W = All(past.feeds[i])
    <3>1. W \cap Ever(f) = feed[f] /\ First[f] # feed[f]
      BY <2>3, <2>6
    <3>2. \A g \in Endpoints : g # f => First[g] = feed[g]
      BY <1>1, <2>2, <3>1, EverApart
    <3>3. \A g \in Endpoints : W \cap Ever(g) = feed[g]
      BY <2>3, <3>1, <3>2
    <3>4. W = All(feed)
      BY <2>3, <2>4, <3>3
    <3>5. Len(past.feeds) \in DOMAIN past.feeds
      <4>1. DOMAIN past.feeds = 1..Len(past.feeds) /\ Len(past.feeds) \in Nat /\ Len(past.feeds) >= 1
        BY <2>1, PastIs
      <4> QED
        BY <4>1
    <3>6. past.feeds[Len(past.feeds)] = feed
      BY <2>1 DEF PastInv
    <3> QED
      BY <3>4, <3>5, <3>6
  <2> QED
    BY <2>5, <2>6 DEF W
<1>2. Intact /\ [ApiNext]_apiVars =>
        [ReturnSnapshot /\ Strict /\ Len(past.feeds) <= 2 /\ ~past.full /\ ~past.counting =>
           \E i \in DOMAIN past.feeds : ToSet(collect.written) = All(past.feeds[i])]_apiVars
  BY <1>1
<1> QED
  BY <1>2, ApiKept, PTL DEF ApiSpec, EndpointSnapshotIsOneMoment

(***************************************************************************)
(* Acquisition: every method keeps its promises                            *)
(***************************************************************************)
LEMMA EachMethod ==
  Spec => CrawlSpec /\ ApiSpec /\ BypassSpec /\ DownloadSpec
<1>1. Init => CrawlInit /\ ApiInit /\ BypassInit /\ DownloadInit
  BY DEF Init, CrawlUnused, ApiUnused, BypassUnused, DownloadUnused
<1>2. [Next]_vars => /\ [CrawlNext]_crawlVars /\ [ApiNext]_apiVars
                     /\ [BypassNext]_bypassVars /\ [DownloadNext]_downloadVars
  BY DEF Next, vars
<1> QED
  BY <1>1, <1>2, PTL DEF Spec, CrawlSpec, ApiSpec, BypassSpec, DownloadSpec

\* Whatever the method of a list (acquire_source), the promises of all methods hold: a
\* crawl that lists only is justified and the collection of a site is one step, a file
\* handed over or published is whole, a download is one answer, and a list of an API is
\* what the source listed.
THEOREM EveryMethodKeepsItsPromise ==
  Spec => /\ []ListOnlyIsJustified /\ ImplementsAtomicCrawl
          /\ []HandedIsWhole /\ []PublishedIsWhole /\ []DownloadIsOneAnswer
          /\ StableSourceIsWhole /\ EndpointSnapshotIsOneMoment
BY EachMethod, MissingPagesAreGone, CrawlIsAtomic, HandedFileIsWhole, PublishedFilesAreWhole,
   HandedDownloadIsWhole, StableIsWhole, EndpointsAreOneMoment, PTL

\* The types of all methods.
THEOREM AcquisitionTypes == Spec => []TypeOK
<1>1. CrawlIInv => CrawlTypeOK
  BY DEF CrawlIInv
<1>2. ApiIInv => ApiTypeOK
  BY DEF ApiIInv
<1>3. BypassIInv => BypassTypeOK
  BY DEF BypassIInv
<1>4. DownloadIInv => DownloadTypeOK
  BY DEF DownloadIInv
<1>5. Init => method \in Methods
  BY DEF Init
<1>6. method \in Methods /\ [Next]_vars => (method \in Methods)'
  BY DEF Next, vars
<1>7. Spec => [](method \in Methods)
  BY <1>5, <1>6, PTL DEF Spec
<1>8. method \in Methods /\ CrawlTypeOK /\ ApiTypeOK /\ BypassTypeOK /\ DownloadTypeOK => TypeOK
  BY DEF TypeOK
<1> QED
  BY <1>1, <1>2, <1>3, <1>4, <1>7, <1>8, EachMethod, CrawlInductive, ApiInductive,
     BypassInductive, DownloadInductive, PTL
=============================================================================
