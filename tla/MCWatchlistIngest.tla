-------------------------- MODULE MCWatchlistIngest --------------------------
(***************************************************************************)
(* Instances of WatchlistIngest for TLC.                                   *)
(***************************************************************************)
EXTENDS WatchlistIngest

CONSTANTS m1, m2, l1, l2, l3, d1, d2, h1, h2, bare

\* l2 drops m1, l3 names nobody (a page whose rows the parser cannot find).
MCRoster ==
  [l \in Listing |-> IF l = l1 THEN Member ELSE IF l = l2 THEN {m2} ELSE {}]

\* m2 changes between the listings and with its detail page.
MCData ==
  [l \in Listing |-> [d \in Detail |-> [m \in Member |->
     IF m = m2 /\ (l = l2 \/ d = d2) THEN h2 ELSE h1]]]

\* Two registered files, of any two of the three listings.
TwoFiles == Len(files) <= 2

=============================================================================
