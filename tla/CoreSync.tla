------------------------------- MODULE CoreSync -------------------------------
(***************************************************************************)
(* The Core transaction of the watchlist pipeline at the grain of its SQL  *)
(* statements (process_watchlist_file and coreMemberRepository), run by    *)
(* several processes at once under READ COMMITTED: the job lock normally   *)
(* keeps them apart, but a child that outlives its parent, or the          *)
(* pipeline started by hand, takes no lock.  What is left to keep the      *)
(* history of a member whole is SELECT ... FOR UPDATE and the unique index *)
(* on (list_type_id, external_id, version_no).                             *)
(*                                                                         *)
(* A definition marked as a mutant is a plausible bug in the definition    *)
(* that follows it; no specification uses one.  It shows what the property *)
(* that notices the bug is worth.                                          *)
(***************************************************************************)
EXTENDS Integers, Sequences, FiniteSets

CONSTANTS
  Txn,       \* processes normalizing a file of the same list
  Member,    \* external ids
  Payload,   \* record hashes
  MaxInput,  \* bound: raw rows of a file
  NoRow      \* find_current_member returned None

ASSUME InputAssumption == MaxInput \in Nat \ {0}
ASSUME NoRowAssumption == NoRow \notin [member : Member, version : Nat]

VARIABLES
  table,     \* committed rows of core.watchlist_member
  pc,        \* [Txn -> control state]
  input,     \* [Txn -> the raw rows of its file, in id order]
  pos,       \* [Txn -> index of the raw row being processed]
  found,     \* [Txn -> key of the current row it read, or NoRow]
  todo,      \* [Txn -> keys of the rows the delete scan has still to lock]
  gone,      \* [Txn -> keys of the rows the delete scan returns]
  locks,     \* [Txn -> keys of the rows it has locked]
  closed,    \* [Txn -> keys of the rows it has closed, uncommitted]
  added      \* [Txn -> rows it has inserted, uncommitted]

vars == <<table, pc, input, pos, found, todo, gone, locks, closed, added>>

Key(r) == [member |-> r.member, version |-> r.version]

\* The rows a statement of t sees: committed ones, with its own changes.
Visible(t) ==
  {[r EXCEPT !.current = @ /\ Key(r) \notin closed[t]] : r \in table \union added[t]}

CurrentRows(t, m) == {r \in Visible(t) : r.member = m /\ r.current}

\* ORDER BY version_no DESC LIMIT 1
Newest(rows) == CHOOSE r \in rows : \A o \in rows : o.version <= r.version

RowOf(t, k) == CHOOSE r \in Visible(t) : Key(r) = k

LockedByOther(t, k) == \E o \in Txn \ {t} : k \in locks[o]

NewRow(m, v, p, type) ==
  [member |-> m, version |-> v, current |-> TRUE, payload |-> p, type |-> type]

\* The unique index: a committed (or own) row with the key rejects the insert,
\* an uncommitted one of another transaction makes it wait.
Taken(t, k) == \E r \in table \union added[t] : Key(r) = k

\* Mutant: there is no unique index.
NoUniqueIndex(t, k) == FALSE

InFlight(t, k) == \E o \in Txn \ {t} : \E r \in added[o] : Key(r) = k

\* Mutant: the ids of the first batch only.
NamedFirst(t) == {input[t][1].member}

Named(t) == {input[t][i].member : i \in 1..Len(input[t])}

(***************************************************************************)
(* One raw record                                                          *)
(***************************************************************************)
Record(t) == input[t][pos[t]]

\* find_current_member, the snapshot of the statement.
Read(t) ==
  LET rows == CurrentRows(t, Record(t).member) IN
  /\ pc[t] = "read"
  /\ pos[t] <= Len(input[t])
  /\ IF rows = {}
     THEN /\ found' = [found EXCEPT ![t] = NoRow]
          /\ pc' = [pc EXCEPT ![t] = "apply"]
     ELSE /\ found' = [found EXCEPT ![t] = Key(Newest(rows))]
          /\ pc' = [pc EXCEPT ![t] = "lock"]
  /\ UNCHANGED <<table, input, pos, todo, gone, locks, closed, added>>

\* find_current_member, FOR UPDATE: wait for the row, then look at it again; a
\* row that was closed meanwhile is not returned, nor is its successor.
LockRow(t) ==
  LET k == found[t] IN
  /\ pc[t] = "lock"
  /\ ~LockedByOther(t, k)
  /\ IF RowOf(t, k).current
     THEN /\ locks' = [locks EXCEPT ![t] = @ \union {k}]
          /\ UNCHANGED found
     ELSE /\ found' = [found EXCEPT ![t] = NoRow]
          /\ UNCHANGED locks
  /\ pc' = [pc EXCEPT ![t] = "apply"]
  /\ UNCHANGED <<table, input, pos, todo, gone, closed, added>>

Advance(t) ==
  /\ pos' = [pos EXCEPT ![t] = @ + 1]
  /\ pc' = [pc EXCEPT ![t] = "read"]

\* Mutant: an equal hash is enough.
UnchangedByHash(t) ==
  /\ found[t] # NoRow
  /\ RowOf(t, found[t]).payload = Record(t).payload

\* The record hash did not change and the member is not a tombstone.
Unchanged(t) ==
  /\ found[t] # NoRow
  /\ RowOf(t, found[t]).type # "DELETED"
  /\ RowOf(t, found[t]).payload = Record(t).payload

Skip(t) ==
  /\ pc[t] = "apply"
  /\ Unchanged(t)
  /\ Advance(t)
  /\ UNCHANGED <<table, input, found, todo, gone, locks, closed, added>>

\* insert_new_member
InsertNew(t) ==
  LET k == [member |-> Record(t).member, version |-> 1] IN
  /\ pc[t] = "apply"
  /\ found[t] = NoRow
  /\ ~Taken(t, k) /\ ~InFlight(t, k)
  /\ added' = [added EXCEPT ![t] =
       @ \union {NewRow(Record(t).member, 1, Record(t).payload, "NEW")}]
  /\ Advance(t)
  /\ UNCHANGED <<table, input, found, todo, gone, locks, closed>>

\* close_current_member, then insert_updated_member
Update(t) ==
  LET k == [found[t] EXCEPT !.version = @ + 1] IN
  /\ pc[t] = "apply"
  /\ found[t] # NoRow /\ ~Unchanged(t)
  /\ ~Taken(t, k) /\ ~InFlight(t, k)
  /\ closed' = [closed EXCEPT ![t] = @ \union {found[t]}]
  /\ added' = [added EXCEPT ![t] =
       @ \union {NewRow(k.member, k.version, Record(t).payload, "UPDATED")}]
  /\ Advance(t)
  /\ UNCHANGED <<table, input, found, todo, gone, locks>>

(***************************************************************************)
(* The delete scan                                                         *)
(***************************************************************************)

\* find_deleted_current_members: the snapshot of the statement.
Scan(t) ==
  /\ pc[t] = "read"
  /\ pos[t] > Len(input[t])
  /\ todo' = [todo EXCEPT ![t] =
       {Key(r) : r \in {r \in Visible(t) : /\ r.current
                                           /\ r.type # "DELETED"
                                           /\ r.member \notin Named(t)}}]
  /\ pc' = [pc EXCEPT ![t] = "scan"]
  /\ UNCHANGED <<table, input, pos, found, gone, locks, closed, added>>

\* FOR UPDATE locks its rows one after the other and re-checks each.
LockMissing(t, k) ==
  /\ pc[t] = "scan"
  /\ k \in todo[t]
  /\ ~LockedByOther(t, k)
  /\ todo' = [todo EXCEPT ![t] = @ \ {k}]
  /\ IF RowOf(t, k).current
     THEN /\ locks' = [locks EXCEPT ![t] = @ \union {k}]
          /\ gone' = [gone EXCEPT ![t] = @ \union {k}]
     ELSE UNCHANGED <<locks, gone>>
  /\ UNCHANGED <<table, pc, input, pos, found, closed, added>>

\* close_current_member and insert_deleted_member for one returned row.
Tombstone(t, k) ==
  LET succ == [k EXCEPT !.version = @ + 1] IN
  /\ pc[t] = "scan"
  /\ todo[t] = {}
  /\ k \in gone[t]
  /\ ~Taken(t, succ) /\ ~InFlight(t, succ)
  /\ closed' = [closed EXCEPT ![t] = @ \union {k}]
  /\ added' = [added EXCEPT ![t] =
       @ \union {NewRow(k.member, succ.version, RowOf(t, k).payload, "DELETED")}]
  /\ gone' = [gone EXCEPT ![t] = @ \ {k}]
  /\ UNCHANGED <<table, pc, input, pos, found, todo, locks>>

(***************************************************************************)
(* The end of the transaction                                              *)
(***************************************************************************)
Discard(t) ==
  /\ locks' = [locks EXCEPT ![t] = {}]
  /\ closed' = [closed EXCEPT ![t] = {}]
  /\ added' = [added EXCEPT ![t] = {}]
  /\ found' = [found EXCEPT ![t] = NoRow]
  /\ todo' = [todo EXCEPT ![t] = {}]
  /\ gone' = [gone EXCEPT ![t] = {}]
  /\ pos' = [pos EXCEPT ![t] = 1]

\* The rows and the NORMALIZATION/SUCCESS log become visible together; the file
\* is not normalized again.
Commit(t) ==
  /\ pc[t] = "scan"
  /\ todo[t] = {} /\ gone[t] = {}
  /\ table' = {[r EXCEPT !.current = @ /\ Key(r) \notin closed[t]] :
                 r \in table \union added[t]}
  /\ pc' = [pc EXCEPT ![t] = "done"]
  /\ Discard(t)
  /\ UNCHANGED input

\* A unique violation, a deadlock victim, any other error, or a dead process:
\* nothing is left, and the next attempt resumes the file.
Abort(t) ==
  /\ pc[t] # "done"
  /\ pc' = [pc EXCEPT ![t] = "read"]
  /\ Discard(t)
  /\ UNCHANGED <<table, input>>

(***************************************************************************)
(* Specification.  A history starts as the runs before left it.            *)
(***************************************************************************)
History(m) ==
  {{}} \union
  {{NewRow(m, 1, p, "NEW")} : p \in Payload} \union
  {{[NewRow(m, 1, p, "NEW") EXCEPT !.current = FALSE],
    NewRow(m, 2, p, "DELETED")} : p \in Payload}

Init ==
  /\ \E h \in [Member -> UNION {History(m) : m \in Member}] :
       /\ \A m \in Member : h[m] \in History(m)
       /\ table = UNION {h[m] : m \in Member}
  /\ pc = [t \in Txn |-> "read"]
  /\ input \in [Txn -> UNION {[1..n -> [member : Member, payload : Payload]] :
                               n \in 1..MaxInput}]
  /\ pos = [t \in Txn |-> 1]
  /\ found = [t \in Txn |-> NoRow]
  /\ todo = [t \in Txn |-> {}]
  /\ gone = [t \in Txn |-> {}]
  /\ locks = [t \in Txn |-> {}]
  /\ closed = [t \in Txn |-> {}]
  /\ added = [t \in Txn |-> {}]

Step(t) ==
  \/ Read(t) \/ LockRow(t) \/ Skip(t) \/ InsertNew(t) \/ Update(t)
  \/ Scan(t)
  \/ \E k \in todo[t] : LockMissing(t, k)
  \/ \E k \in gone[t] : Tombstone(t, k)
  \/ Commit(t) \/ Abort(t)

Next == \E t \in Txn : Step(t)

Spec == Init /\ [][Next]_vars

(***************************************************************************)
(* Properties                                                              *)
(***************************************************************************)
RowKey == [member : Member, version : Nat]
MemberRow == [member : Member, version : Nat \ {0}, current : BOOLEAN,
              payload : Payload, type : {"NEW", "UPDATED", "DELETED"}]

\* Type correctness of the table and of the transactions.
TypeOK ==
  /\ table \in SUBSET MemberRow
  /\ pc \in [Txn -> {"read", "lock", "apply", "scan", "done"}]
  /\ input \in [Txn -> Seq([member : Member, payload : Payload])]
  /\ pos \in [Txn -> Nat \ {0}]
  /\ found \in [Txn -> RowKey \union {NoRow}]
  /\ todo \in [Txn -> SUBSET RowKey]
  /\ gone \in [Txn -> SUBSET RowKey]
  /\ locks \in [Txn -> SUBSET RowKey]
  /\ closed \in [Txn -> SUBSET RowKey]
  /\ added \in [Txn -> SUBSET MemberRow]

\* The versions of a member are 1, 2, 3, ... without a gap or a repetition, and
\* only the highest is current.
ContiguousVersions ==
  \A r \in table :
    /\ r.version > 1 => \E o \in table : o.member = r.member /\ o.version = r.version - 1
    /\ \A o \in table : Key(o) = Key(r) => o = r
    /\ r.current <=> \A o \in table : o.member = r.member => o.version <= r.version

LastRecord(t, m) ==
  LET i == CHOOSE i \in 1..Len(input[t]) :
             /\ input[t][i].member = m
             /\ \A j \in 1..Len(input[t]) : input[t][j].member = m => j <= i
  IN input[t][i].payload

\* What a file says of the members it names is what readers see from its commit
\* on: no transaction that ran meanwhile can have replaced it unseen.
CommitPublishesFile ==
  [][\A t \in Txn : Commit(t) =>
       \A m \in Named(t) : \E r \in table' :
         /\ r.member = m /\ r.current
         /\ r.type # "DELETED" /\ r.payload = LastRecord(t, m)]_vars

\* One raw record applied to rows nobody else touches.
Closed(rows, some) == {IF r \in some THEN [r EXCEPT !.current = FALSE] ELSE r : r \in rows}

Applied(rows, rec) ==
  LET old   == {r \in rows : r.member = rec.member /\ r.current}
      stale == {r \in old : r.type = "DELETED" \/ r.payload # rec.payload}
  IN  Closed(rows, stale)
        \union {NewRow(r.member, r.version + 1, rec.payload, "UPDATED") : r \in stale}
        \union (IF old = {} THEN {NewRow(rec.member, 1, rec.payload, "NEW")} ELSE {})

\* The rows after the first n raw records.
Upserted(rows, in, n) ==
  LET after[i \in 0..Len(in)] == IF i = 0 THEN rows ELSE Applied(after[i - 1], in[i])
  IN  after[n]

\* The rows that the raw records do not name, and their tombstones.
Missed(rows, in) ==
  {r \in rows : /\ r.current /\ r.type # "DELETED"
                /\ \A i \in 1..Len(in) : in[i].member # r.member}

Buried(rows, dead) ==
  Closed(rows, dead) \union {NewRow(r.member, r.version + 1, r.payload, "DELETED") : r \in dead}

\* The sequential meaning of the transaction.
Serial(rows, in) ==
  LET all == Upserted(rows, in, Len(in)) IN Buried(all, Missed(all, in))

\* A transaction that no other one committed beside does what its raw records
\* say one after the other, then tombstones what they do not name: those that
\* ran and were rolled back meanwhile leave no trace.
AloneIsSerial ==
  [][\A t \in Txn :
       Commit(t) /\ (\A o \in Txn \ {t} : pc[o] # "done")
         => table' = Serial(table, input[t])]_vars

(***************************************************************************)
(* The inductive invariant behind the properties                           *)
(***************************************************************************)
\* The rows t sees, and whether one is current for it.
Sees(t) == table \union added[t]
IsCurrent(t, r) == r.current /\ Key(r) \notin closed[t]

\* The history a transaction sees is as whole as the committed one.
SeenInv(t) ==
  \A r \in Sees(t) :
    /\ r.version > 1 => \E o \in Sees(t) : o.member = r.member /\ o.version = r.version - 1
    /\ \A o \in Sees(t) : Key(o) = Key(r) => o = r
    /\ IsCurrent(t, r) <=> \A o \in Sees(t) : o.member = r.member => o.version <= r.version

\* A row is locked by one transaction, and as long as it is nobody else closes it.
LockInv(t) ==
  /\ \A o \in Txn \ {t} : locks[t] \intersect locks[o] = {}
  /\ closed[t] \subseteq locks[t]
  /\ \A k \in locks[t] : \E r \in Sees(t) : Key(r) = k /\ r.current

\* A member is changed by one transaction at a time, which either holds its
\* current row or is the first to know it.
ChangeInv(t) ==
  /\ \A k \in closed[t] : \E r \in added[t] : r.member = k.member
  /\ \A r \in added[t] :
       /\ r.current
       /\ \/ \E q \in table : q.member = r.member /\ Key(q) \in closed[t]
          \/ \A q \in table : q.member # r.member
       /\ \A o \in Txn \ {t} : \A q \in added[o] : q.member # r.member

\* What a transaction remembers of rows it has read.
StepInv(t) ==
  /\ pc[t] \in {"lock", "apply"} => pos[t] \in 1..Len(input[t])
  /\ pc[t] = "lock" => found[t] # NoRow
  /\ pc[t] \in {"lock", "apply"} /\ found[t] # NoRow =>
       /\ found[t].member = Record(t).member
       /\ \E r \in Sees(t) : Key(r) = found[t]
  /\ pc[t] = "apply" /\ found[t] # NoRow => found[t] \in locks[t] \ closed[t]
  /\ pc[t] = "scan" => pos[t] > Len(input[t])
  /\ pc[t] # "scan" => todo[t] = {} /\ gone[t] = {}
  /\ \A k \in todo[t] : k.member \notin Named(t) /\ \E r \in Sees(t) : Key(r) = k
  /\ \A k \in gone[t] : k.member \notin Named(t) /\ k \in locks[t] \ closed[t]

\* What the raw records before pos say last of a member is what t shows of it,
\* and nobody else can change it before t commits.
Shown(t, record) ==
  \E r \in Sees(t) :
    /\ r.member = record.member /\ r.payload = record.payload /\ r.type # "DELETED"
    /\ IsCurrent(t, r) /\ (Key(r) \in locks[t] \/ r \in added[t])

ShownInv(t) ==
  \A i \in 1..(pos[t] - 1) :
    /\ i <= Len(input[t])
    /\ (\A j \in (i + 1)..(pos[t] - 1) : input[t][j].member # input[t][i].member)
         => Shown(t, input[t][i])

CoreInv ==
  /\ TypeOK
  /\ ContiguousVersions
  /\ \A t \in Txn : SeenInv(t) /\ LockInv(t) /\ ChangeInv(t) /\ StepInv(t) /\ ShownInv(t)

\* While no other transaction has committed, t sees what the raw records behind
\* it make of the table, and no row it found has been replaced.
All(t, n) == Upserted(table, input[t], n)

Owed(t) == todo[t] \union gone[t]

SerialInv(t) ==
  (\A o \in Txn \ {t} : pc[o] # "done") =>
    /\ pc[t] \in {"read", "lock", "apply"} => Visible(t) = All(t, pos[t] - 1)
    /\ pc[t] = "lock" => RowOf(t, found[t]).current
    /\ pc[t] = "apply" /\ found[t] = NoRow => CurrentRows(t, Record(t).member) = {}
    /\ pc[t] = "scan" =>
         LET missed == Missed(All(t, Len(input[t])), input[t]) IN
         /\ Owed(t) \subseteq {Key(r) : r \in missed}
         /\ Visible(t) = Buried(All(t, Len(input[t])), {r \in missed : Key(r) \notin Owed(t)})

AloneInv == \A t \in Txn : SerialInv(t)

=============================================================================
