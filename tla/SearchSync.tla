------------------------------ MODULE SearchSync ------------------------------
(***************************************************************************)
(* The reconciliation of the search index with core.watchlist_member       *)
(* (run_sync): ids of all documents first, then the current members batch  *)
(* by batch in id order, each batch a statement of its own, then the       *)
(* removal of the documents no batch named, and the alias last. Core       *)
(* commits meanwhile, and no lock keeps two synchronizations apart.        *)
(*                                                                         *)
(* The index is that of one schema version: a release with a new mapping   *)
(* fills another index, empty at first. A dry run writes nothing and is    *)
(* left out.                                                               *)
(***************************************************************************)
EXTENDS Integers, FiniteSets, FiniteSetsExt

CONSTANTS
  SearchMember, \* vv_member_id
  Hash,         \* record_hash of a member's content
  Syncer,       \* processes that synchronize
  BatchSize,    \* members of a batch
  NoDoc,        \* there is no such row, document or index
  MaxId,        \* bound: rows inserted
  MaxSync       \* bound: synchronizations

ASSUME BatchAssumption == BatchSize \in Nat \ {0}
\* A row or a document is not the absence of one; an index is not the absence of one.
ASSUME NoDocAssumption ==
  NoDoc \notin Hash \union [id : Int, hash : Hash, deleted : BOOLEAN]
\* A table has finitely many rows; without a member there is nothing to do.
ASSUME MemberAssumption == IsFiniteSet(SearchMember) /\ SearchMember # {}
ASSUME BoundAssumption == MaxId \in Nat /\ MaxSync \in Nat

VARIABLES
  member,   \* [SearchMember -> its current row as committed, or NoDoc]
  writing,  \* [SearchMember -> the row a transaction has inserted, or NoDoc]
  nextId,   \* the sequence of watchlist_member.id
  index,    \* [SearchMember -> hash of its document, or NoDoc], NoIndex before it is created
  alias,    \* the alias points to the index
  sync,     \* [Syncer -> its progress]
  syncs     \* synchronizations started

searchVars == <<member, writing, nextId, index, alias, sync, syncs>>

NoIndex == <<>>
CurrentRow == [id : 1..MaxId, hash : Hash, deleted : BOOLEAN]

Listed(m) == member[m] # NoDoc /\ ~member[m].deleted

\* unlisted and touched are history: the members that were unlisted at some
\* time, and that changed, since the synchronization began; alone: no other was
\* under way.
NotSyncing ==
  [step |-> "idle", unseen |-> {}, last |-> 0, batch |-> {},
   writes |-> {}, failed |-> FALSE, none |-> TRUE, had |-> FALSE,
   unlisted |-> {}, touched |-> {}, alone |-> TRUE]

\* A row of a batch as the statement returned it.
ReadRow == [member : SearchMember, row : CurrentRow]

SyncState ==
  [step : {"idle", "scan", "read", "compare", "write", "remove"},
   unseen : SUBSET SearchMember, last : 0..MaxId, batch : SUBSET ReadRow,
   writes : SUBSET ReadRow, failed : BOOLEAN, none : BOOLEAN, had : BOOLEAN,
   unlisted : SUBSET SearchMember, touched : SUBSET SearchMember, alone : BOOLEAN]

SearchTypeOK ==
  /\ member \in [SearchMember -> CurrentRow \union {NoDoc}]
  /\ writing \in [SearchMember -> CurrentRow \union {NoDoc}]
  /\ nextId \in 1..(MaxId + 1)
  /\ index \in [SearchMember -> Hash \union {NoDoc}] \union {NoIndex}
  /\ alias \in BOOLEAN
  /\ syncs \in 0..MaxSync
  /\ sync \in [Syncer -> SyncState]
  /\ \A s \in Syncer :
       /\ Cardinality(sync[s].batch) <= BatchSize
       /\ sync[s].step # "idle" => index # NoIndex

------------------------------------------------------------------------------
\* Core: a version of a member is inserted, then committed; ids are given out
\* by the sequence when a row is inserted.

InsertVersion(m, hash, deleted) ==
  /\ writing[m] = NoDoc /\ nextId <= MaxId
  /\ deleted => Listed(m) /\ hash = member[m].hash
  /\ ~deleted /\ Listed(m) => hash # member[m].hash
  /\ writing' = [writing EXCEPT ![m] = [id |-> nextId, hash |-> hash, deleted |-> deleted]]
  /\ nextId' = nextId + 1
  /\ UNCHANGED <<member, index, alias, sync, syncs>>

CommitVersion(m) ==
  /\ writing[m] # NoDoc
  /\ member' = [member EXCEPT ![m] = writing[m]]
  /\ writing' = [writing EXCEPT ![m] = NoDoc]
  /\ sync' = [s \in Syncer |->
                IF sync[s].step = "idle" THEN sync[s]
                ELSE [sync[s] EXCEPT !.touched = @ \union {m},
                                     !.unlisted = @ \union IF writing[m].deleted THEN {m} ELSE {}]]
  /\ UNCHANGED <<nextId, index, alias, syncs>>

------------------------------------------------------------------------------
\* The synchronization.

NoDocuments == [m \in SearchMember |-> NoDoc]

\* ensure_index creates the index that the schema names.
Begin(s) ==
  /\ sync[s].step = "idle" /\ syncs < MaxSync /\ syncs' = syncs + 1
  /\ index' = IF index = NoIndex THEN NoDocuments ELSE index
  /\ LET others == {o \in Syncer : sync[o].step # "idle"}
     IN  sync' = [o \in Syncer |->
           IF o = s THEN [NotSyncing EXCEPT !.step = "scan", !.alone = others = {}, !.unlisted = {m \in SearchMember : ~Listed(m)}]
           ELSE IF o \in others THEN [sync[o] EXCEPT !.alone = FALSE] ELSE sync[o]]
  /\ UNCHANGED <<member, writing, nextId, alias>>

Documents(s) == {m \in SearchMember : index[m] # NoDoc}

\* The scan sees every document written so far. Elasticsearch shows a document only
\* after its refresh interval, which nothing here waits for: a scan that begins
\* within that second of another sync's last write is left out.
ScanIndex(s) ==
  /\ sync[s].step = "scan"
  /\ sync' = [sync EXCEPT ![s].step = "read", ![s].unseen = Documents(s),
                          ![s].had = Documents(s) # {}]
  /\ UNCHANGED <<member, writing, nextId, index, alias, syncs>>

\* id > last_member_id
After(m, s) == member[m].id > sync[s].last

\* find_current_members_batch: the first BatchSize rows behind the last id. One
\* statement, so one snapshot.
NextBatch(s) ==
  LET rows == {m \in SearchMember : Listed(m) /\ After(m, s)}
  IN  {m \in rows : Cardinality({o \in rows : member[o].id <= member[m].id}) <= BatchSize}

\* Mutant: a member whose document has its hash already is not taken off.
ReadBatchKeepsUnchanged(s) ==
  /\ sync[s].step = "read" /\ NextBatch(s) # {}
  /\ sync' = [sync EXCEPT
       ![s].step = "compare", ![s].none = FALSE,
       ![s].unseen = @ \ {m \in NextBatch(s) : index[m] # member[m].hash},
       ![s].batch = {[member |-> m, row |-> member[m]] : m \in NextBatch(s)}]
  /\ UNCHANGED <<member, writing, nextId, index, alias, syncs>>

ReadBatch(s) ==
  /\ sync[s].step = "read" /\ NextBatch(s) # {}
  /\ sync' = [sync EXCEPT
       ![s].step = "compare", ![s].none = FALSE,
       ![s].unseen = @ \ NextBatch(s),
       ![s].batch = {[member |-> m, row |-> member[m]] : m \in NextBatch(s)}]
  /\ UNCHANGED <<member, writing, nextId, index, alias, syncs>>

\* Mutant: a document is left alone when there is one.
StaleIfMissing(doc, row) == doc = NoDoc

\* Added, or its hash is another one.
Stale(doc, row) == doc # row.hash

\* The hashes of the batch's documents are read and compared.
Compare(s) ==
  /\ sync[s].step = "compare"
  /\ sync' = [sync EXCEPT
       ![s].step = "write",
       ![s].writes = {r \in sync[s].batch : Stale(index[r.member], r.row)}]
  /\ UNCHANGED <<member, writing, nextId, index, alias, syncs>>

\* One document of the bulk request, which lists them in the order of their ids,
\* is indexed, or refused after the retries; the others are sent all the same.
First(rows) == CHOOSE r \in rows : \A o \in rows : r.row.id <= o.row.id

Write(s) ==
  /\ sync[s].step = "write" /\ sync[s].writes # {}
  /\ LET r == First(sync[s].writes)
     IN  \/ /\ index' = [index EXCEPT ![r.member] = r.row.hash]
            /\ sync' = [sync EXCEPT ![s].writes = @ \ {r}]
         \/ /\ sync' = [sync EXCEPT ![s].writes = @ \ {r}, ![s].failed = TRUE]
            /\ UNCHANGED index
  /\ UNCHANGED <<member, writing, nextId, alias, syncs>>

\* The batch is through: the next one starts after its last id.
Written(s) ==
  /\ sync[s].step = "write" /\ sync[s].writes = {}
  /\ sync' = [sync EXCEPT ![s] =
       IF sync[s].failed THEN NotSyncing
       ELSE [@ EXCEPT !.step = "read", !.last = Max({r.row.id : r \in sync[s].batch}),
                      !.batch = {}]]
  /\ UNCHANGED <<member, writing, nextId, index, alias, syncs>>

\* No batch is left. Without a single member the index is not emptied.
AllRead(s) ==
  /\ sync[s].step = "read" /\ NextBatch(s) = {}
  /\ sync' = [sync EXCEPT ![s] = IF sync[s].none /\ sync[s].had THEN NotSyncing
                                 ELSE [@ EXCEPT !.step = "remove"]]
  /\ UNCHANGED <<member, writing, nextId, index, alias, syncs>>

\* The documents no batch named are deleted, in some order; one that is gone
\* already is an error.
RemoveDocument(s, m) ==
  /\ sync[s].step = "remove" /\ m \in sync[s].unseen
  /\ sync' = [sync EXCEPT ![s].unseen = @ \ {m},
                          ![s].failed = @ \/ index[m] = NoDoc]
  /\ index' = [index EXCEPT ![m] = NoDoc]
  /\ UNCHANGED <<member, writing, nextId, alias, syncs>>

\* switch_alias, when every document was written and deleted.
Switch(s) ==
  /\ sync[s].step = "remove" /\ sync[s].unseen = {}
  /\ alias' = (alias \/ ~sync[s].failed)
  /\ sync' = [sync EXCEPT ![s] = NotSyncing]
  /\ UNCHANGED <<member, writing, nextId, index, syncs>>

\* A request fails for good, or the process dies.
Stops(s) ==
  /\ sync[s].step # "idle"
  /\ sync' = [sync EXCEPT ![s] = NotSyncing]
  /\ UNCHANGED <<member, writing, nextId, index, alias, syncs>>

------------------------------------------------------------------------------
SearchInit ==
  /\ member = NoDocuments /\ writing = NoDocuments /\ nextId = 1
  /\ index = NoIndex /\ alias = FALSE
  /\ sync = [s \in Syncer |-> NotSyncing] /\ syncs = 0

SearchNext ==
  \/ \E m \in SearchMember :
       (\E h \in Hash, deleted \in BOOLEAN : InsertVersion(m, h, deleted)) \/ CommitVersion(m)
  \/ \E s \in Syncer :
       \/ Begin(s) \/ ScanIndex(s) \/ ReadBatch(s) \/ Compare(s) \/ Write(s) \/ Written(s) \/ AllRead(s)
       \/ (\E m \in SearchMember : RemoveDocument(s, m)) \/ Switch(s) \/ Stops(s)

SearchSpec == SearchInit /\ [][SearchNext]_searchVars

------------------------------------------------------------------------------
\* Properties.

\* A document is only removed by a synchronization during which its member was
\* unlisted at some time: neither the batches, nor rows that get their id early
\* and become visible late, nor a member that moves behind the last id while
\* the members are read make a listed member look gone.
ListedIsNeverRemoved ==
  [][\A s \in Syncer, m \in SearchMember :
       (m \in sync[s].unseen /\ m \notin sync'[s].unseen /\ sync'[s].step = "remove")
         => m \in sync[s].unlisted]_searchVars

\* When a synchronization no other overlapped is about to switch the alias, its
\* index holds exactly the content of the members that did not change since it
\* began, whatever earlier ones left half done.
SyncedIsCurrent ==
  \A s \in Syncer :
    sync[s].step = "remove" /\ sync[s].unseen = {} /\ ~sync[s].failed /\ sync[s].alone =>
    \A m \in SearchMember \ sync[s].touched :
      index[m] = IF Listed(m) THEN member[m].hash ELSE NoDoc

------------------------------------------------------------------------------
\* The inductive invariant behind the two.

\* An id is given out once, and a later version of a member has a greater one.
IdInv ==
  /\ \A m \in SearchMember :
       /\ member[m] # NoDoc => member[m].id < nextId
       /\ writing[m] # NoDoc => writing[m].id < nextId
       /\ member[m] # NoDoc /\ writing[m] # NoDoc => member[m].id < writing[m].id
  /\ \A m, o \in SearchMember : m # o /\ member[m] # NoDoc =>
       /\ member[o] # NoDoc => member[m].id # member[o].id
       /\ writing[o] # NoDoc => member[m].id # writing[o].id
  /\ \A m, o \in SearchMember :
       m # o /\ writing[m] # NoDoc /\ writing[o] # NoDoc => writing[m].id # writing[o].id

\* A row of the batch is the member's current one until the member changes.
BatchInv(s) ==
  /\ sync[s].step = "idle" => sync[s] = NotSyncing
  /\ sync[s].step = "scan" => sync[s].unseen = {} /\ sync[s].last = 0
  /\ sync[s].batch = {} <=> sync[s].step \notin {"compare", "write"}
  /\ sync[s].writes \subseteq sync[s].batch
  /\ sync[s].step # "write" => sync[s].writes = {}
  /\ \A r \in sync[s].batch : r.member \notin sync[s].touched =>
       Listed(r.member) /\ r.row = member[r.member]

\* The current row of m lies behind every row that was read so far.
Ahead(m, s) == After(m, s) /\ \A r \in sync[s].batch : r.row.id < member[m].id

\* A member that was listed all the time and not named yet is still to be read.
UnseenInv(s) ==
  /\ sync[s].step # "idle" => \A m \in SearchMember : Listed(m) \/ m \in sync[s].unlisted
  /\ sync[s].step \in {"read", "compare", "write"} =>
       \A m \in sync[s].unseen \ sync[s].unlisted : Ahead(m, s)
  /\ sync[s].step = "remove" => sync[s].unseen \subseteq sync[s].unlisted

\* The document of an unchanged listed member is right, waits in the batch, or
\* is still to come; that of an unchanged unlisted member is gone or unseen.
FreshInv(s) ==
  sync[s].step # "idle" /\ sync[s].alone =>
    /\ \A o \in Syncer \ {s} : sync[o].step = "idle"
    /\ \A m \in SearchMember \ sync[s].touched :
         /\ Listed(m) => m \notin sync[s].unlisted
         /\ Listed(m) /\ sync[s].step # "scan" /\ ~sync[s].failed =>
              \/ index[m] = member[m].hash
              \/ sync[s].step # "remove" /\ Ahead(m, s)
              \/ \E r \in IF sync[s].step = "write" THEN sync[s].writes ELSE sync[s].batch :
                   r.member = m
         /\ ~Listed(m) /\ sync[s].step # "scan" => index[m] = NoDoc \/ m \in sync[s].unseen

SearchInv ==
  /\ SearchTypeOK /\ IdInv
  /\ \A s \in Syncer : BatchInv(s) /\ UnseenInv(s) /\ FreshInv(s)
==============================================================================
