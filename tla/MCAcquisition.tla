----------------------------- MODULE MCAcquisition -----------------------------
(***************************************************************************)
(* An instance of Acquisition for TLC.                                     *)
(***************************************************************************)
EXTENDS Acquisition

CONSTANTS r1, r2, r3, k1, k2

\* The crawled source: r2 links to the page of r1, r3 has no link.
MCAddress(r) == IF r = r2 THEN r1 ELSE r
MCListings == {<<r1, r2, r3>>, <<r2, r1>>}
MCSetups == Setup

\* The API: one facet overlaps and misses record 4, one is a range, one a word,
\* one has a value for two records and one for each.
MCNation(x) == IF x <= 2 THEN {"m"} ELSE IF x = 3 THEN {"m", "f"} ELSE {}
MCAge(x)    == IF x = 4 THEN 2 ELSE 1
MCName(x)   == IF x = 1 THEN {"a"} ELSE IF x = 3 THEN {"a", "b"} ELSE {"b"}
MCAnswers(x, p, v) ==
  CASE p = "feed"        -> v = IF x <= 2 THEN "u" ELSE "v"
    [] p = "kind"        -> v = <<"q", "r", "s", "t">>[x]
    [] p = "nationality" -> v \in MCNation(x)
    [] p = "age"         -> v[1] <= MCAge(x) /\ MCAge(x) <= v[2]
    [] p = "name"        -> ToSet(v) \cap MCName(x) # {}

Enum(p, values, disjoint) ==
  [type |-> "enum", param |-> p, values |-> values, disjoint |-> disjoint, complete |-> disjoint]
ByFeed   == Enum("feed", <<"u", "v">>, TRUE)
ByKind   == Enum("kind", <<"q", "r", "s", "t">>, TRUE)
ByNation == Enum("nationality", <<"m", "f">>, FALSE)
ByAge    == [type |-> "range", param |-> "age", low |-> 1, high |-> 2, complete |-> TRUE]
ByName   == [type |-> "substring", param |-> "name", alphabet |-> <<"a", "b">>, depth |-> 1,
             complete |-> TRUE]

Api(mode, paging, endpoints, facets, dedup) ==
  [mode |-> mode, paging |-> paging, endpoints |-> endpoints, facets |-> facets, dedup |-> dedup]
MCApiSetups ==
  {Api("single_jsonl", "page", 1, <<ByNation, ByAge, ByName>>, TRUE),
   Api("single_jsonl", "page", 1, <<ByNation>>, TRUE),
   Api("list_detail", "none", 1, <<>>, TRUE),
   Api("list_detail", "page", 2, <<ByFeed, ByAge, ByNation>>, TRUE),
   Api("list_detail", "page", 2, <<ByKind>>, TRUE),
   Api("list_detail", "page", 2, <<>>, TRUE),
   Api("single_jsonl", "offset", 1, <<>>, TRUE),
   Api("single_jsonl", "none", 1, <<>>, FALSE)}

Steps(actions, mode) == [actions |-> actions, mode |-> mode]
MCRecipes ==
  {Steps(<<"collect_popup_profiles", "save_html">>, "uc_open"),
   Steps(<<"wait", "execute_js", "save_html">>, "uc_open"),
   Steps(<<"await_js", "save_html">>, "uc_open"),
   Steps(<<"await_js", "save_json">>, "safe_get"),
   Steps(<<"save_paginated_html">>, "safe_get"),
   Steps(<<"navigate", "save_pdf">>, "uc_open"),
   Steps(<<"embed_images">>, "safe_get"),
   Steps(<<"save_image">>, "safe_get")}
=============================================================================
