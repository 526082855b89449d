------------------------------ MODULE ListMirror ------------------------------
(***************************************************************************)
(* What the ingestion of one continuous list promises to its readers, with *)
(* the pipeline and its failures left out: listings are registered in the  *)
(* order they were first seen, and the current members are the roster of   *)
(* one of them; they change in one step, only forward, and always to the   *)
(* newest registered listing.                                              *)
(***************************************************************************)
EXTENDS Naturals, Sequences

CONSTANTS
  Listing,   \* the different bytes a listing can have
  Member,    \* external ids
  Roster     \* [Listing -> SUBSET Member]

VARIABLES
  registered,  \* the listings in registration order
  shown,       \* the position of the listing whose members are current, or 0
  view         \* the current members

Init == registered = <<>> /\ shown = 0 /\ view = {}

Register(l) ==
  /\ \A i \in 1..Len(registered) : registered[i] # l
  /\ registered' = Append(registered, l)
  /\ UNCHANGED <<shown, view>>

Show ==
  /\ shown < Len(registered)
  /\ shown' = Len(registered)
  /\ view' = Roster[registered[Len(registered)]]
  /\ UNCHANGED registered

Next == (\E l \in Listing : Register(l)) \/ Show

Spec == Init /\ [][Next]_<<registered, shown, view>>

=============================================================================
