-------------------------- MODULE MCMediaPipeline --------------------------
(***************************************************************************)
(* An instance of MediaPipeline for TLC: two articles that never change,   *)
(* for what a run may forget, and one that changes from day to day, with   *)
(* the mapping rules, for its versions.                                    *)
(***************************************************************************)
EXTENDS MediaPipeline

CONSTANTS a1, a2

Unchanging == [articles |-> {a1, a2}, edits |-> 1, releases |-> 1, days |-> 1, versions |-> 1]
Edited     == [articles |-> {a1}, edits |-> 2, releases |-> 2, days |-> 2, versions |-> 3]

MCSources ==
  {<<s, "stop_after_known", Unchanging>> : s \in {"list_detail", "json_manifest", "api"}}
    \union {<<s, "stop_after_known", Edited>> : s \in Strategies \ {"list_only"}}
    \union {<<s, "full_scan", Edited>> : s \in {"list_only", "api"}}
=============================================================================
