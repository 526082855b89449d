-------------------------------- MODULE FanOut --------------------------------
(***************************************************************************)
(* The planner for list APIs that answer at most Cap records to a query    *)
(* but tell how many there are: a query over the cap is split along the    *)
(* facets of the source until every slice fits. Pure definitions: the      *)
(* recursion of the code is a stack of the facets being asked.             *)
(***************************************************************************)
EXTENDS Integers, Sequences, FiniteSets

CONSTANTS
  Cap,             \* records the API returns for one query
  Answers(_, _, _) \* Answers(x, param, value): the API finds record x when it
                   \* filters by this value of the parameter

ASSUME CapAssumption == Cap \in Nat \ {0}

\* A facet of the configuration. disjoint: no record has two of the values;
\* complete: every record has one.
Facet ==
  [type : {"enum"}, param : STRING, values : Seq(STRING), disjoint : BOOLEAN, complete : BOOLEAN]
  \cup [type : {"range"}, param : STRING, low : Int, high : Int, complete : BOOLEAN]
  \cup [type : {"substring"}, param : STRING, alphabet : Seq(STRING), depth : Nat,
        complete : BOOLEAN]

\* A query is the function from its parameters to their values: a value, a pair
\* of bounds or a word.
Matches(x, query) == \A p \in DOMAIN query : Answers(x, p, query[p])
Slice(all, query) == {x \in all : Matches(x, query)}

NoParams == [p \in {} |-> ""]

With(query, p, value) ==
  [q \in DOMAIN query \cup {p} |-> IF q = p THEN value ELSE query[q]]

\* The queries that a facet splits a query into, if it can.
RangeChildren(facet, query) ==
  IF facet.param \notin DOMAIN query
  THEN << With(query, facet.param, <<facet.low, facet.high>>) >>
  ELSE LET low  == query[facet.param][1]
           high == query[facet.param][2]
           mid  == (low + high) \div 2
       IN  << With(query, facet.param, <<low, mid>>),
              With(query, facet.param, <<mid + 1, high>>) >>

Prefix(facet, query) == IF facet.param \in DOMAIN query THEN query[facet.param] ELSE <<>>

SubstringChildren(facet, query) ==
  [k \in DOMAIN facet.alphabet |->
     With(query, facet.param, Append(Prefix(facet, query), facet.alphabet[k]))]

EnumChildren(facet, query) ==
  [k \in DOMAIN facet.values |-> With(query, facet.param, facet.values[k])]

Children(query, facet) ==
  CASE facet.type = "enum"      -> EnumChildren(facet, query)
    [] facet.type = "range"     -> RangeChildren(facet, query)
    [] facet.type = "substring" -> SubstringChildren(facet, query)

\* A range of one value and a word of full length are not split any further.
Splits(query, facet) ==
  CASE facet.type = "enum"      -> TRUE
    [] facet.type = "range"     -> facet.param \in DOMAIN query =>
                                     query[facet.param][1] < query[facet.param][2]
    [] facet.type = "substring" -> Len(Prefix(facet, query)) < facet.depth

\* Mutant: the catch-all of a facet is not asked for.
CatchAllNever(query, facet) == FALSE

\* Records without a value for the facet are left to the next one.
CatchAll(query, facet) ==
  ~facet.complete /\ (facet.type = "range" => facet.param \notin DOMAIN query)

\* The first facet from the i-th on that can split a query, 0 when none can.
NextFacet(facets, query, i) ==
  LET able == {j \in i..Len(facets) : Splits(query, facets[j])}
  IN  IF able = {} THEN 0 ELSE CHOOSE j \in able : \A k \in able : j <= k

\* A plan under way: the facets being asked, the innermost first, the slices to
\* fetch, and whether one of them is still over the cap. A facet is being asked
\* with the queries that it still splits one into, and the records not found yet.
Root == [query |-> NoParams, facet |-> 0, total |-> 0, ask |-> <<NoParams>>, left |-> 0]
NewPlan == [stack |-> <<Root>>, leaves |-> <<>>, over |-> FALSE]

\* _collect: what is done with a query whose total is known.
Collect(plan, facets, query, total, i) ==
  LET j     == NextFacet(facets, query, i)
      frame == [query |-> query, facet |-> j, total |-> total,
                ask |-> Children(query, facets[j]), left |-> total]
  IN  CASE total = 0             -> plan
        [] total \in 1..Cap      -> [plan EXCEPT !.leaves = Append(@, query)]
        [] total > Cap /\ j = 0  -> [plan EXCEPT !.leaves = Append(@, query), !.over = TRUE]
        [] total > Cap /\ j # 0  -> [plan EXCEPT !.stack = <<frame>> \o @]

\* The records of a disjoint enum are counted down.
Counts(facets, frame) ==
  frame.facet # 0 /\ facets[frame.facet].type = "enum" /\ facets[frame.facet].disjoint

\* The facet that splits the children further: an enum splits once.
Onward(facets, frame) ==
  IF frame.facet = 0 \/ facets[frame.facet].type = "enum" THEN frame.facet + 1 ELSE frame.facet

\* The next query of the innermost facet has this total. The values of a disjoint
\* enum are asked for until they add up to the total of the query it splits.
Told(plan, facets, total) ==
  LET top  == Head(plan.stack)
      left == top.left - total
      rest == [top EXCEPT !.left = left,
                 !.ask = IF Counts(facets, top) /\ left <= 0 THEN <<>> ELSE Tail(@)]
  IN  Collect([plan EXCEPT !.stack = <<rest>> \o Tail(@)],
              facets, Head(top.ask), total, Onward(facets, top))

\* All queries of the innermost facet are asked.
AllTold(plan, facets) ==
  LET top == Head(plan.stack)
      up  == [plan EXCEPT !.stack = Tail(@)]
  IN  IF top.facet # 0 /\ CatchAll(top.query, facets[top.facet])
      THEN Collect(up, facets, top.query, top.total, top.facet + 1)
      ELSE up

(***************************************************************************)
(* What a configuration promises of its facets, and what a plan keeps      *)
(***************************************************************************)
Letters(facet) == {facet.alphabet[k] : k \in DOMAIN facet.alphabet}

\* A disjoint enum gives no record two of its values, a complete facet gives every
\* record one; a record between two bounds is in one of the halves.
Promised(facet, records) ==
  LET p == facet.param IN \A x \in records :
    CASE facet.type = "enum" ->
           /\ facet.disjoint => \A j, k \in DOMAIN facet.values :
                Answers(x, p, facet.values[j]) /\ Answers(x, p, facet.values[k]) => j = k
           /\ facet.complete => \E k \in DOMAIN facet.values : Answers(x, p, facet.values[k])
      [] facet.type = "range" ->
           /\ \A low, high \in facet.low..facet.high :
                low < high /\ Answers(x, p, <<low, high>>) =>
                  \/ Answers(x, p, <<low, (low + high) \div 2>>)
                  \/ Answers(x, p, <<(low + high) \div 2 + 1, high>>)
           /\ facet.complete => Answers(x, p, <<facet.low, facet.high>>)
      [] facet.type = "substring" ->
           facet.complete => \A n \in 0..facet.depth - 1 : \A word \in [1..n -> Letters(facet)] :
             n = 0 \/ Answers(x, p, word) =>
               \E k \in DOMAIN facet.alphabet : Answers(x, p, Append(word, facet.alphabet[k]))

\* A query that the facets before the i-th, and the i-th if it splits on, have
\* narrowed within their bounds.
QueryOK(facets, query, i) ==
  \A k \in DOMAIN facets : LET facet == facets[k] IN
    facet.param \in DOMAIN query =>
      /\ k <= i /\ (facet.type = "enum" => k < i)
      /\ facet.type = "range" =>
           /\ query[facet.param] \in Int \X Int
           /\ facet.low <= query[facet.param][1] /\ query[facet.param][2] <= facet.high
      /\ facet.type = "substring" => query[facet.param] \in Seq(Letters(facet))

\* A facet that is being asked splits a slice over the cap; the values of a
\* disjoint one are asked for in their order.
FrameOK(facets, frame) ==
  /\ frame.facet \in 0..Len(facets)
  /\ QueryOK(facets, frame.query, frame.facet)
  /\ \A k \in DOMAIN frame.ask : QueryOK(facets, frame.ask[k], Onward(facets, frame))
  /\ frame.facet # 0 => frame.total > Cap
  /\ Counts(facets, frame) =>
       LET facet == facets[frame.facet]
           n     == Len(facet.values) - Len(frame.ask)
       IN  /\ n >= 0
           /\ \A k \in DOMAIN frame.ask :
                frame.ask[k] = With(frame.query, facet.param, facet.values[n + k])

\* The records of a query that no value asked for so far has found.
NotFound(facet, frame, all) ==
  {x \in Slice(all, frame.query) :
     \A k \in 1..Len(facet.values) - Len(frame.ask) : ~Answers(x, facet.param, facet.values[k])}

\* The totals that are used again are those of the records listed now.
CountOK(facets, frame, all) ==
  frame.facet # 0 =>
    LET facet == facets[frame.facet]
    IN  /\ Counts(facets, frame) /\ frame.ask # <<>> =>
             frame.left = Cardinality(NotFound(facet, frame, all))
        /\ CatchAll(frame.query, facet) => frame.total = Cardinality(Slice(all, frame.query))

\* A record that some slice or some facet of the plan has to find.
SoughtBy(facets, frame, x) ==
  \/ \E j \in DOMAIN frame.ask : Matches(x, frame.ask[j])
  \/ /\ frame.facet # 0 /\ CatchAll(frame.query, facets[frame.facet])
     /\ Matches(x, frame.query)

Sought(plan, facets, x) ==
  \/ \E k \in DOMAIN plan.leaves : Matches(x, plan.leaves[k])
  \/ \E k \in DOMAIN plan.stack : SoughtBy(facets, plan.stack[k], x)
=============================================================================
