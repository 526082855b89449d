------------------------------ MODULE ApiCollect ------------------------------
(***************************************************************************)
(* The collection of a list from a JSON API: the plan of the queries, the  *)
(* pages of each query, the overview, and a profile per record. The source *)
(* may change between any two requests.                                    *)
(***************************************************************************)
EXTENDS FanOut, SequencesExt

CONSTANTS
  Rec,          \* the records the source may hold, numbered in its order
  ApiSetups,    \* the configurations to consider
  ApiPageSize,  \* records on a page
  MaxChange,    \* bound: changes of the lists during a collection
  MaxState, MaxApiDay  \* bounds: moments, days

ASSUME ApiAssumption ==
  /\ Rec \subseteq Nat /\ IsFiniteSet(Rec) /\ ApiPageSize \in Nat \ {0}
  /\ MaxState \in Nat \ {0} /\ MaxApiDay \in Nat \ {0}

VARIABLES
  api,      \* the configuration: write mode, paging, endpoints, facets, dedup
  feed,     \* feed[e]: the records endpoint e holds now
  moment,   \* the time, as far as profiles at the source change with it
  members,  \* members[d][x]: moment of x's profile saved on day d, 0 if none
  collect,  \* local state of the running collection
  date,
  past      \* history: the feeds since the collection began, whether a planned
            \* query was as large as the cap, and whether a feed changed while
            \* a total was still in use

apiVars == <<api, feed, moment, members, collect, date, past>>

NoProfile == 0
State  == 1..MaxState
ApiDay == 1..MaxApiDay

\* An endpoint configuration keeps its profiles in a directory of the run.
ApiSetup ==
  [mode : {"single_jsonl", "list_detail"}, paging : {"page", "offset", "none"},
   endpoints : 1..2, facets : Seq(Facet), dedup : BOOLEAN]

\* A configuration with several endpoints has to name the key of a record; a facet
\* has parameters of its own.
ASSUME ApiSetupAssumption ==
  \A s \in ApiSetups :
    /\ s \in ApiSetup
    /\ s.endpoints > 1 => s.dedup
    /\ \A j, k \in DOMAIN s.facets : s.facets[j].param = s.facets[k].param => j = k
    /\ \A k \in DOMAIN s.facets : Promised(s.facets[k], Rec)

Endpoints == 1..api.endpoints
Strict    == api.endpoints > 1
Faceted   == api.facets # <<>>

Quiet == [pc |-> "idle", endpoint |-> 1, expected |-> 0, plan |-> NewPlan, leaves |-> <<>>,
          page |-> 1, fetched |-> 0, before |-> 0, written |-> <<>>,
          own |-> [x \in Rec |-> NoProfile], next |-> 1]

Since(f) == [feeds |-> <<f>>, full |-> FALSE, counting |-> FALSE]

ApiTypeOK ==
  /\ api \in ApiSetups /\ api.facets \in Seq(Facet)
  /\ feed \in [Endpoints -> SUBSET Rec]
  /\ moment \in State
  /\ members \in [ApiDay -> [Rec -> State \cup {NoProfile}]]
  /\ collect.pc \in {"idle", "plan", "pages", "profiles"}
  /\ collect.endpoint \in Endpoints /\ collect.expected \in 0..Cardinality(Rec)
  /\ collect.written \in Seq(Rec) /\ collect.own \in [Rec -> State \cup {NoProfile}]
  /\ date \in ApiDay

ApiInit ==
  /\ api \in ApiSetups
  /\ feed \in [Endpoints -> SUBSET Rec]
  /\ \A x \in Rec, e, f \in Endpoints : x \in feed[e] \cap feed[f] => e = f
  /\ moment = 1
  /\ members = [d \in ApiDay |-> [x \in Rec |-> NoProfile]]
  /\ collect = Quiet
  /\ date = 1
  /\ past = Since(feed)

(***************************************************************************)
(* The source                                                              *)
(***************************************************************************)
\* A total that was told is used again: the values of a disjoint facet are counted
\* down from it, or a catch-all is to be split without asking for it once more.
Counting ==
  /\ collect.pc = "plan"
  /\ \E k \in DOMAIN collect.plan.stack :
       LET frame == collect.plan.stack[k]
       IN  \/ Counts(api.facets, frame) /\ frame.ask # <<>>
           \/ frame.facet # 0 /\ CatchAll(frame.query, api.facets[frame.facet])

\* A record is listed or taken down, anywhere in the order of the list.
ChangeFeed(e, x) ==
  /\ e \in Endpoints /\ \A f \in Endpoints \ {e} : x \notin feed[f]
  /\ collect.pc \in {"plan", "pages"} /\ Len(past.feeds) <= MaxChange
  /\ feed' = [feed EXCEPT ![e] = IF x \in @ THEN @ \ {x} ELSE @ \cup {x}]
  /\ past' = [past EXCEPT !.feeds = Append(@, feed'),
                          !.counting = @ \/ (e = collect.endpoint /\ Counting)]
  /\ UNCHANGED <<api, moment, members, collect, date>>

ChangeProfiles ==
  /\ collect = Quiet /\ api.mode = "list_detail" /\ moment < MaxState
  /\ moment' = moment + 1
  /\ UNCHANGED <<api, feed, members, collect, date, past>>

ApiNextDay ==
  /\ collect = Quiet /\ api.mode = "list_detail" /\ date < MaxApiDay
  /\ date' = date + 1
  /\ UNCHANGED <<api, feed, moment, members, collect, past>>

(***************************************************************************)
(* Queries and their pages                                                 *)
(***************************************************************************)
\* collect_source: the output path, then the probe for the number of records.
\* Only endpoints are held to that number.
StartCollect ==
  /\ collect = Quiet
  /\ collect' = [Quiet EXCEPT !.pc = "plan", !.expected = Cardinality(feed[1])]
  /\ past' = Since(feed)
  /\ UNCHANGED <<api, feed, moment, members, date>>

\* get_total: one query of the plan is asked for its number of records.
AskTotal ==
  /\ collect.pc = "plan" /\ Faceted
  /\ collect.plan.stack # <<>> /\ Head(collect.plan.stack).ask # <<>>
  /\ LET child == Head(Head(collect.plan.stack).ask)
         total == Cardinality(Slice(feed[collect.endpoint], child))
     IN  /\ collect' = [collect EXCEPT !.plan = Told(@, api.facets, total)]
         /\ past' = [past EXCEPT !.full = @ \/ total = Cap]
  /\ UNCHANGED <<api, feed, moment, members, date>>

\* The innermost facet is done, no request is needed.
LeaveFacet ==
  /\ collect.pc = "plan" /\ Faceted
  /\ collect.plan.stack # <<>> /\ Head(collect.plan.stack).ask = <<>>
  /\ collect' = [collect EXCEPT !.plan = AllTold(@, api.facets)]
  /\ UNCHANGED <<api, feed, moment, members, date, past>>

\* _adaptive_variants: a slice over the cap after all facets ends the collection.
\* Without facets there is one query (configured param_variants are left out).
Planned ==
  /\ collect.pc = "plan" /\ (Faceted => collect.plan.stack = <<>>)
  /\ collect' =
       IF collect.plan.over THEN Quiet
       ELSE [collect EXCEPT !.pc = "pages", !.plan = NewPlan,
               !.leaves = IF Faceted THEN collect.plan.leaves ELSE <<NoParams>>,
               !.page = 1, !.fetched = 0, !.before = Len(collect.written)]
  /\ UNCHANGED <<api, feed, moment, members, date, past>>

\* The records in the order of the list.
Rank(records, x) == Cardinality({y \in records : y < x})
InOrder(records) ==
  [k \in 1..Cardinality(records) |-> CHOOSE x \in records : Rank(records, x) = k - 1]

\* What the API answers: the records of the query in its order, cut at the cap
\* of the source and into pages.
Answer ==
  LET hits == InOrder(Slice(feed[collect.endpoint], Head(collect.leaves)))
      top  == IF Faceted /\ Len(hits) > Cap THEN SubSeq(hits, 1, Cap) ELSE hits
      from == (collect.page - 1) * ApiPageSize
  IN  IF api.paging = "none" THEN top
      ELSE SubSeq(top, from + 1, IF from + ApiPageSize < Len(top) THEN from + ApiPageSize
                                 ELSE Len(top))

\* should_stop, type "none" and no_more_pages.
LastPage(items) ==
  \/ items = <<>> \/ api.paging = "none"
  \/ /\ api.paging = "page"
     /\ \/ Faceted /\ collect.fetched + Len(items) >= Cap
        \/ Len(items) < ApiPageSize

\* Records already written are dropped when the configuration names their key; what
\* is left of a page is in the order of the list, as the page was.
Fresh(items) ==
  IF api.dedup THEN InOrder(ToSet(items) \ ToSet(collect.written)) ELSE items

\* One page. With several endpoints a record that another endpoint gave ends the
\* collection.
CollectPage ==
  /\ collect.pc = "pages" /\ collect.leaves # <<>>
  /\ LET items   == Answer
         earlier == ToSet(SubSeq(collect.written, 1, collect.before))
         fresh   == Fresh(items)
     IN  collect' =
           IF Strict /\ ToSet(items) \cap earlier # {} THEN Quiet
           ELSE IF LastPage(items)
           THEN [collect EXCEPT !.written = @ \o fresh, !.leaves = Tail(@),
                                !.page = 1, !.fetched = 0]
           ELSE [collect EXCEPT !.written = @ \o fresh, !.page = @ + 1,
                                !.fetched = @ + Len(items)]
  /\ UNCHANGED <<api, feed, moment, members, date, past>>

\* Mutant: a count that differs from the probe is only logged.
EndpointDoneUnchecked ==
  /\ collect.pc = "pages" /\ collect.leaves = <<>>
  /\ collect' =
       IF collect.endpoint < api.endpoints
       THEN [collect EXCEPT !.pc = "plan", !.endpoint = @ + 1,
               !.expected = Cardinality(feed[collect.endpoint + 1])]
       ELSE [collect EXCEPT !.pc = "profiles"]
  /\ UNCHANGED <<api, feed, moment, members, date, past>>

\* The last page of an endpoint: its records are counted against the probe.
EndpointDone ==
  /\ collect.pc = "pages" /\ collect.leaves = <<>>
  /\ collect' =
       IF Strict /\ Len(collect.written) - collect.before # collect.expected THEN Quiet
       ELSE IF collect.endpoint < api.endpoints
       THEN [collect EXCEPT !.pc = "plan", !.endpoint = @ + 1,
               !.expected = Cardinality(feed[collect.endpoint + 1])]
       ELSE [collect EXCEPT !.pc = "profiles"]
  /\ UNCHANGED <<api, feed, moment, members, date, past>>

(***************************************************************************)
(* Profiles and the result                                                 *)
(***************************************************************************)
Wanted == collect.written[collect.next]

\* The profile in the directory that this collection writes to.
Saved(x) == IF Strict THEN collect.own[x] ELSE members[date][x]

\* The profile of the next record: the file of this day or run, else a request.
\* The write is one moment; a kill inside it would leave a cut file to be reused.
FetchProfile ==
  /\ collect.pc = "profiles" /\ collect.next <= Len(collect.written)
  /\ api.mode = "list_detail"
  /\ LET state == IF Saved(Wanted) # NoProfile THEN Saved(Wanted) ELSE moment
     IN  /\ members' = IF Strict THEN members ELSE [members EXCEPT ![date][Wanted] = state]
         /\ collect' = [collect EXCEPT !.own[Wanted] = state, !.next = @ + 1]
  /\ UNCHANGED <<api, feed, moment, date, past>>

Ended == Since(feed)

\* The overview gets its final name and the path is returned.
ReturnSnapshot ==
  /\ collect.pc = "profiles"
  /\ api.mode = "single_jsonl" \/ collect.next > Len(collect.written)
  /\ collect' = Quiet /\ past' = Ended
  /\ UNCHANGED <<api, feed, moment, members, date>>

\* A request fails after its retries, access is denied, a profile answers with
\* another id, the process is killed: no path is returned, and the profiles
\* saved so far stay.
RaiseCollect ==
  /\ collect # Quiet
  /\ collect' = Quiet /\ past' = Ended
  /\ UNCHANGED <<api, feed, moment, members, date>>

ApiSource ==
  \/ \E e \in {1, 2}, x \in Rec : ChangeFeed(e, x)
  \/ ChangeProfiles \/ ApiNextDay

ApiRun ==
  \/ StartCollect \/ AskTotal \/ LeaveFacet \/ Planned
  \/ CollectPage \/ EndpointDone \/ FetchProfile
  \/ ReturnSnapshot \/ RaiseCollect

ApiNext == ApiSource \/ ApiRun

ApiSpec == ApiInit /\ [][ApiNext]_apiVars

(***************************************************************************)
(* Properties                                                              *)
(***************************************************************************)
All(feeds) == UNION {feeds[e] : e \in DOMAIN feeds}

\* A source that does not change while it is read is read as a whole, although
\* queries are capped, split by overlapping facets and read page by page; and
\* every record once where the configuration names the key.
StableSourceIsWhole ==
  [][ReturnSnapshot /\ Len(past.feeds) = 1 =>
       /\ ToSet(collect.written) = All(feed)
       /\ api.dedup => Len(collect.written) = Cardinality(All(feed))]_apiVars

\* The endpoints of one list are read one after the other, while records come
\* and go; the overview shows the list as it was at one moment when at most one
\* record changed meanwhile, no query was full, and no total was out of date when
\* it was counted down: a full query loses its last record to a new one, a
\* disjoint facet those of the values that seem no longer needed, and the count
\* of the endpoint agrees.
EndpointSnapshotIsOneMoment ==
  [][ReturnSnapshot /\ Strict /\ Len(past.feeds) <= 2 /\ ~past.full /\ ~past.counting =>
       \E i \in DOMAIN past.feeds : ToSet(collect.written) = All(past.feeds[i])]_apiVars

(***************************************************************************)
(* The inductive invariant behind them                                     *)
(***************************************************************************)
First     == past.feeds[1]
OneChange == Len(past.feeds) <= 2
Ever(e)   == First[e] \cup feed[e]

\* The history ends with what is listed now; one change concerns one record of one
\* endpoint, and no record has two.
Apart(feeds) == \A a, b \in Endpoints : \A x \in feeds[a] \cap feeds[b] : a = b

PastInv ==
  /\ past.feeds # <<>> /\ past.feeds[Len(past.feeds)] = feed
  /\ Apart(First) /\ Apart(feed)
  /\ Len(past.feeds) = 2 =>
       \E e \in Endpoints, x \in Rec :
         /\ \A f \in Endpoints \ {e} : x \notin First[f]
         /\ feed = [First EXCEPT ![e] = IF x \in @ THEN @ \ {x} ELSE @ \cup {x}]
  /\ past.counting => Len(past.feeds) > 1

\* A slice that can be fetched as a whole, with one more record too unless it was
\* full when it was planned.
Fits(query) ==
  LET n == Cardinality(Slice(feed[collect.endpoint], query))
  IN  /\ Len(past.feeds) = 1 \/ ~past.full => n <= Cap
      /\ Len(past.feeds) = 1 /\ ~past.full => n < Cap

PlanInv ==
  collect.pc = "plan" =>
    /\ \A k \in DOMAIN collect.plan.stack : FrameOK(api.facets, collect.plan.stack[k])
    /\ ~past.counting => \A k \in DOMAIN collect.plan.stack :
         CountOK(api.facets, collect.plan.stack[k], feed[collect.endpoint])
    /\ OneChange /\ ~collect.plan.over =>
         \A k \in DOMAIN collect.plan.leaves : Fits(collect.plan.leaves[k])

\* A record on a page that is still to be read.
Ahead(x) ==
  \/ \E k \in 2..Len(collect.leaves) : Matches(x, collect.leaves[k])
  \/ /\ collect.leaves # <<>> /\ Matches(x, collect.leaves[1])
     /\ Rank(Slice(feed[collect.endpoint], collect.leaves[1]), x)
          >= (collect.page - 1) * ApiPageSize

\* While records are only added, and no total is out of date, every record that
\* was listed at first is written or still to come.
WholeInv ==
  LET e == collect.endpoint IN
  OneChange /\ First[e] \subseteq feed[e] /\ ~past.counting /\ (Len(past.feeds) = 1 \/ ~past.full) =>
    /\ collect.pc = "plan" /\ Faceted => \A x \in First[e] : Sought(collect.plan, api.facets, x)
    /\ collect.pc = "pages" =>
         \A x \in First[e] : x \in ToSet(collect.written) \/ Ahead(x)

\* Pages are read in slices that fit, and a page holds no more than its size.
PageInv ==
  collect.pc = "pages" =>
    /\ collect.plan = NewPlan
    /\ collect.fetched <= (collect.page - 1) * ApiPageSize
    /\ OneChange /\ Faceted =>
         \A k \in DOMAIN collect.leaves : Fits(collect.leaves[k])

\* What is written comes from the endpoints read so far, in their order.
FromEarlier(k) == \E e \in Endpoints : e < collect.endpoint /\ collect.written[k] \in Ever(e)

WrittenInv ==
  /\ api.dedup => \A j, k \in DOMAIN collect.written :
                    collect.written[j] = collect.written[k] => j = k
  /\ OneChange =>
       /\ collect.pc = "plan" => \A k \in DOMAIN collect.written : FromEarlier(k)
       /\ collect.pc = "pages" =>
            /\ collect.before \in 0..Len(collect.written)
            /\ \A k \in DOMAIN collect.written :
                 IF k <= collect.before THEN FromEarlier(k)
                 ELSE collect.written[k] \in Ever(collect.endpoint)
       /\ collect.pc = "profiles" =>
            \A k \in DOMAIN collect.written : \E e \in Endpoints : collect.written[k] \in Ever(e)

\* The probe of an endpoint was taken at first, or of what is listed now and is
\* all that was read since.
ProbeInv ==
  LET e == collect.endpoint IN
  OneChange /\ Strict /\ collect.pc \in {"plan", "pages"} =>
    \/ collect.expected = Cardinality(First[e])
    \/ /\ collect.expected = Cardinality(feed[e])
       /\ collect.pc = "pages" => \A k \in DOMAIN collect.written :
            k > collect.before => collect.written[k] \in feed[e]

\* An endpoint that was read is there as it was at one moment.
Completed(e) == collect.pc # "idle" /\ (e < collect.endpoint \/ collect.pc = "profiles")

CompletedInv ==
  OneChange => \A e \in Endpoints : Completed(e) =>
    /\ Strict /\ ~past.full /\ ~past.counting =>
         ToSet(collect.written) \cap Ever(e) \in {First[e], feed[e]}
    /\ Len(past.feeds) = 1 => First[e] \subseteq ToSet(collect.written)

ApiIInv ==
  /\ ApiTypeOK /\ PastInv /\ PlanInv /\ WholeInv /\ PageInv /\ WrittenInv /\ ProbeInv
  /\ CompletedInv
=============================================================================
