----------------------------- MODULE MCCoreSearch -----------------------------
(***************************************************************************)
(* Instances for TLC of the two protocols around core.watchlist_member: the *)
(* transactions that write it, and the search synchronization that reads it *)
(* while they commit. They share no state (SearchSync has its own, shorter  *)
(* account of a commit), so each is explored with the other one at rest.    *)
(***************************************************************************)
EXTENDS CoreSync, SearchSync, TLC

CONSTANTS m1, p1

VARIABLE part  \* the one that runs

\* Members, contents and processes of a synchronization play no role by their
\* order: batches go by id.
SearchSymmetry ==
  Permutations(SearchMember) \union Permutations(Hash) \union Permutations(Syncer)

BothInit ==
  /\ part \in {"core", "search"} /\ Init /\ SearchInit
  /\ part = "search" => table = {} /\ \A t \in Txn : input[t] = << [member |-> m1, payload |-> p1] >>

BothNext ==
  \/ part = "core" /\ Next /\ UNCHANGED <<part, searchVars>>
  \/ part = "search" /\ SearchNext /\ UNCHANGED <<part, vars>>

BothSpec == BothInit /\ [][BothNext]_<<part, vars, searchVars>>
===============================================================================
