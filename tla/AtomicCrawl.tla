----------------------------- MODULE AtomicCrawl -----------------------------
(***************************************************************************)
(* What the ingestion of a crawled list relies on: a crawl reads the       *)
(* listing as a whole and answers with the records it got and the detail   *)
(* pages it still owes; a later call is given the owed pages and moves     *)
(* some of them over. A crawl that cannot promise this returns nothing.    *)
(***************************************************************************)
CONSTANT
  Item         \* what a listing may name

VARIABLES
  listed,      \* the items the source lists now
  shown,       \* the items listed since the running call began and whether the
               \* source stayed as it was, <<>> between calls
  lossy,       \* a row that cannot be read ends the reading of this source
  got, owed    \* what the caller holds of the last crawl of the whole listing

vars == <<listed, shown, lossy, got, owed>>

Between == <<>>

Init ==
  /\ listed \in SUBSET Item /\ lossy \in BOOLEAN
  /\ shown = Between /\ got = {} /\ owed = {}

\* The source shows another listing.
Relist ==
  /\ listed' \in SUBSET Item
  /\ shown' = IF shown = Between THEN Between
              ELSE [items |-> shown.items \cup listed', steady |-> FALSE]
  /\ UNCHANGED <<lossy, got, owed>>

Call ==
  /\ shown = Between /\ shown' = [items |-> listed, steady |-> TRUE]
  /\ UNCHANGED <<listed, lossy, got, owed>>

\* The source did not change during the call: every item it lists is there.
Return ==
  /\ shown # Between /\ shown' = Between
  /\ got' \cap owed' = {} /\ got' \cup owed' \subseteq shown.items
  /\ ~lossy /\ shown.steady => got' \cup owed' = listed
  /\ UNCHANGED <<listed, lossy>>

\* A call for owed pages: what is held is never given up.
ReturnOwed ==
  /\ shown # Between /\ shown' = Between
  /\ got \subseteq got' /\ got' \cap owed' = {} /\ got' \cup owed' = got \cup owed
  /\ UNCHANGED <<listed, lossy>>

Raise == shown # Between /\ shown' = Between /\ UNCHANGED <<listed, lossy, got, owed>>

Next == Relist \/ Call \/ Return \/ ReturnOwed \/ Raise

Spec == Init /\ [][Next]_vars
=============================================================================
