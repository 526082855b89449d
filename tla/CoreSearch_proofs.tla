-------------------------- MODULE CoreSearch_proofs --------------------------
(***************************************************************************)
(* Proofs about the two protocols around core.watchlist_member, CoreSync   *)
(* and SearchSync, which MCCoreSearch explores together. They share no     *)
(* state, so each has an inductive invariant of its own.                   *)
(*                                                                         *)
(* CoreSync, for any number of transactions, members and payloads and for  *)
(* files of any length: CoreInv is inductive. Every transaction sees a     *)
(* whole history in its own snapshot; what makes the committed one stay    *)
(* whole is that no two transactions change the same member at a time,     *)
(* since each holds the lock of the row it closes or is the first to       *)
(* insert version 1.                                                       *)
(* AloneInv, on top of it, relates what a transaction sees to what its raw  *)
(* records make of the table while nobody else has committed.              *)
(*                                                                         *)
(* SearchSync, for any number of members, synchronizations and rows and    *)
(* for every batch size: SearchInv is inductive. What makes it so is that  *)
(* ids are given out in order: a member that changes while the batches are *)
(* read moves ahead of the last id, never behind it.                       *)
(***************************************************************************)
EXTENDS CoreSync, SearchSync, Induction_proofs, SequenceTheorems


(***************************************************************************)
(* Rows and keys                                                           *)
(***************************************************************************)
LEMMA KeyType ==
  ASSUME NEW r \in MemberRow
  PROVE  /\ Key(r) \in RowKey /\ Key(r) # NoRow
         /\ Key(r).member = r.member /\ Key(r).version = r.version
BY NoRowAssumption DEF Key, RowKey, MemberRow

LEMMA SameKey ==
  ASSUME NEW r, NEW o
  PROVE  Key(r) = Key(o) <=> r.member = o.member /\ r.version = o.version
BY DEF Key

\* A row as t sees it.
View(t, r) == [r EXCEPT !.current = @ /\ Key(r) \notin closed[t]]

LEMMA ViewRow ==
  ASSUME NEW t \in Txn, NEW r \in MemberRow
  PROVE  /\ View(t, r) \in MemberRow
         /\ View(t, r).member = r.member /\ View(t, r).version = r.version
         /\ View(t, r).payload = r.payload /\ View(t, r).type = r.type
         /\ View(t, r).current <=> IsCurrent(t, r)
         /\ Key(View(t, r)) = Key(r)
BY DEF View, MemberRow, IsCurrent, Key

LEMMA VisibleRows ==
  ASSUME NEW t \in Txn
  PROVE  Visible(t) = {View(t, r) : r \in Sees(t)}
BY DEF Visible, View, Sees

LEMMA SeesType ==
  ASSUME TypeOK, NEW t \in Txn
  PROVE  Sees(t) \in SUBSET MemberRow
BY DEF TypeOK, Sees

\* A key of a row is found again.
LEMMA RowOfKey ==
  ASSUME TypeOK, NEW t \in Txn, SeenInv(t), NEW r \in Sees(t)
  PROVE  RowOf(t, Key(r)) = View(t, r)
<1>1. \A o \in Sees(t) : o \in MemberRow
  BY SeesType
<1>2. View(t, r) \in Visible(t) /\ Key(View(t, r)) = Key(r)
  BY <1>1, VisibleRows, ViewRow
<1>3. ASSUME NEW v \in Visible(t), Key(v) = Key(r) PROVE v = View(t, r)
  <2>1. PICK o \in Sees(t) : v = View(t, o)
    BY VisibleRows
  <2>2. Key(o) = Key(r)
    BY <2>1, <1>1, <1>3, ViewRow
  <2>3. o = r
    BY <2>2 DEF SeenInv
  <2> QED BY <2>1, <2>3
<1> QED BY <1>2, <1>3 DEF RowOf

\* A member that t sees at all has a first version.
LEMMA FirstVersion ==
  ASSUME TypeOK, NEW t \in Txn, SeenInv(t), NEW r \in Sees(t)
  PROVE  \E o \in Sees(t) : o.member = r.member /\ o.version = 1
<1> DEFINE V == {o.version : o \in {q \in Sees(t) : q.member = r.member}}
<1>1. \A o \in Sees(t) : o.version \in Nat \ {0}
  BY SeesType DEF MemberRow
<1>2. V \in SUBSET Nat /\ V # {}
  BY <1>1
<1>3. PICK v \in V : \A w \in V : v <= w
  BY <1>2, LeastNatural
<1>4. PICK o \in Sees(t) : o.member = r.member /\ o.version = v
  OBVIOUS
<1>5. CASE v > 1
  <2>1. PICK q \in Sees(t) : q.member = r.member /\ q.version = v - 1
    BY <1>4, <1>5 DEF SeenInv
  <2>2. v - 1 \in V
    BY <2>1
  <2> HIDE DEF V
  <2>3. v \in Nat /\ v <= v - 1
    BY <2>2, <1>2, <1>3
  <2> QED BY <2>3
<1>6. CASE v <= 1
  BY <1>1, <1>4, <1>6
<1> QED BY <1>5, <1>6, <1>1, <1>4

\* A row that is locked and not closed is the current one of its member.
LEMMA LockedIsCurrent ==
  ASSUME TypeOK, NEW t \in Txn, SeenInv(t), LockInv(t), NEW k \in locks[t] \ closed[t]
  PROVE  \E r \in Sees(t) : /\ Key(r) = k /\ IsCurrent(t, r)
                            /\ \A o \in Sees(t) : o.member = r.member => o.version <= r.version
<1>1. PICK r \in Sees(t) : Key(r) = k /\ r.current
  BY DEF LockInv
<1>2. IsCurrent(t, r)
  BY <1>1 DEF IsCurrent
<1> QED BY <1>1, <1>2 DEF SeenInv

(***************************************************************************)
(* A new row                                                               *)
(***************************************************************************)
\* What inserting a version does, the first one or the successor of a row that
\* is closed with it.
Opens(t, new) ==
  /\ new.version = 1 /\ closed' = closed
  /\ \A r \in Sees(t) : r.member # new.member
  /\ \A o \in Txn \ {t} : \A q \in added[o] : Key(q) # Key(new)

Next1(t, k, new) ==
  /\ k \in locks[t] \ closed[t]
  /\ new.member = k.member /\ new.version = k.version + 1
  /\ closed' = [closed EXCEPT ![t] = @ \union {k}]

Adds(t, new) ==
  /\ new \in MemberRow /\ new.current
  /\ added' = [added EXCEPT ![t] = @ \union {new}]
  /\ UNCHANGED <<table, input, locks>>
  /\ Opens(t, new) \/ \E k \in RowKey : Next1(t, k, new)

LEMMA AddsSees ==
  ASSUME TypeOK, NEW t \in Txn, NEW new, Adds(t, new)
  PROVE  /\ Sees(t)' = Sees(t) \union {new}
         /\ added'[t] = added[t] \union {new}
         /\ \A o \in Txn \ {t} : /\ Sees(o)' = Sees(o) /\ added'[o] = added[o]
                                 /\ closed'[o] = closed[o]
         /\ closed[t] \subseteq closed'[t] /\ closed'[t] \subseteq locks[t] \union closed[t]
BY DEF Adds, TypeOK, Sees, Opens, Next1

LEMMA AddsSeen ==
  ASSUME TypeOK, NEW t \in Txn, SeenInv(t), LockInv(t), NEW new, Adds(t, new)
  PROVE  SeenInv(t)'
<1>1. Sees(t)' = Sees(t) \union {new} /\ new \in MemberRow /\ new.current
  BY AddsSees DEF Adds
<1>2. \A r \in Sees(t) : r \in MemberRow /\ r.version \in Nat \ {0}
  BY SeesType DEF MemberRow
<1>3. closed \in [Txn -> SUBSET RowKey]
  BY DEF TypeOK
<1>4. CASE Opens(t, new)
  <2>1. closed' = closed /\ new.version = 1 /\ \A r \in Sees(t) : r.member # new.member
    BY <1>4 DEF Opens
  <2>2. Key(new) \notin closed[t]
    <3>1. \A k \in closed[t] : \E r \in Sees(t) : Key(r) = k
      BY DEF LockInv
    <3> QED BY <3>1, <2>1, SameKey
  <2>3. IsCurrent(t, new)'
    BY <2>1, <2>2, <1>1 DEF IsCurrent
  <2>4. \A r \in Sees(t) : IsCurrent(t, r)' <=> IsCurrent(t, r)
    BY <2>1 DEF IsCurrent
  <2>5. ASSUME NEW r \in Sees(t)
        PROVE  /\ r.version > 1 => \E o \in Sees(t)' : o.member = r.member /\ o.version = r.version - 1
               /\ \A o \in Sees(t)' : Key(o) = Key(r) => o = r
               /\ IsCurrent(t, r)' <=> \A o \in Sees(t)' : o.member = r.member => o.version <= r.version
    BY <1>1, <2>1, <2>4, SameKey DEF SeenInv
  <2>6. /\ ~(new.version > 1)
        /\ \A o \in Sees(t)' : Key(o) = Key(new) => o = new
        /\ \A o \in Sees(t)' : o.member = new.member => o.version <= new.version
    BY <1>1, <2>1, SameKey
  <2> QED BY <1>1, <2>3, <2>5, <2>6 DEF SeenInv
<1>5. ASSUME NEW k \in RowKey, Next1(t, k, new) PROVE SeenInv(t)'
  <2>1. PICK q \in Sees(t) : /\ Key(q) = k /\ IsCurrent(t, q)
                             /\ \A o \in Sees(t) : o.member = q.member => o.version <= q.version
    BY <1>5, LockedIsCurrent DEF Next1
  <2>2. /\ new.member = q.member /\ new.version = q.version + 1
        /\ closed'[t] = closed[t] \union {Key(q)}
    BY <1>3, <1>5, <2>1, <1>2, KeyType DEF Next1
  <2>3. \A o \in Sees(t) : o.member = new.member => o.version < new.version
    BY <2>1, <2>2, <1>2
  <2>4. \A o \in Sees(t) : Key(o) # Key(new)
    BY <2>3, <1>2, SameKey
  <2>5. Key(new) \notin closed'[t]
    <3>1. \A x \in closed[t] : \E r \in Sees(t) : Key(r) = x
      BY DEF LockInv
    <3> QED BY <3>1, <2>1, <2>2, <2>4
  <2>6. IsCurrent(t, new)'
    BY <2>5, <1>1 DEF IsCurrent
  <2>7. ASSUME NEW r \in Sees(t)
        PROVE  /\ r.version > 1 => \E o \in Sees(t)' : o.member = r.member /\ o.version = r.version - 1
               /\ \A o \in Sees(t)' : Key(o) = Key(r) => o = r
               /\ IsCurrent(t, r)' <=> \A o \in Sees(t)' : o.member = r.member => o.version <= r.version
    <3>1. IsCurrent(t, r)' <=> IsCurrent(t, r) /\ Key(r) # Key(q)
      BY <2>2 DEF IsCurrent
    <3>2. CASE r.member # q.member
      <4>1. IsCurrent(t, r)' <=> IsCurrent(t, r)
        BY <3>1, <3>2, SameKey
      <4> QED BY <4>1, <1>1, <2>2, <2>4, <3>2 DEF SeenInv
    <3>3. CASE r.member = q.member
      <4>1. ~(new.version <= r.version)
        BY <2>2, <2>3, <3>3, <1>1, <1>2
      <4>2. ~ IsCurrent(t, r)'
        <5>1. r.version # q.version => ~(q.version <= r.version)
          BY <2>1, <3>3, <1>2
        <5>2. Key(r) # Key(q) => ~IsCurrent(t, r)
          BY <5>1, <3>3, SameKey DEF SeenInv
        <5> QED BY <3>1, <5>2
      <4> QED BY <4>1, <4>2, <1>1, <2>2, <2>4, <3>3 DEF SeenInv
    <3> QED BY <3>2, <3>3
  <2>8. /\ \E o \in Sees(t)' : o.member = new.member /\ o.version = new.version - 1
        /\ \A o \in Sees(t)' : Key(o) = Key(new) => o = new
        /\ \A o \in Sees(t)' : o.member = new.member => o.version <= new.version
    BY <1>1, <1>2, <2>2, <2>3, <2>4
  <2> QED BY <1>1, <2>6, <2>7, <2>8 DEF SeenInv
<1> QED BY <1>4, <1>5 DEF Adds

LEMMA AddsLock ==
  ASSUME CoreInv, NEW t \in Txn, NEW new, Adds(t, new), NEW o \in Txn
  PROVE  SeenInv(o)' /\ LockInv(o)'
<1>t. TypeOK /\ SeenInv(t) /\ LockInv(t) /\ SeenInv(o) /\ LockInv(o)
  BY DEF CoreInv
<1>s. locks' = locks
  BY DEF Adds
<1>1. CASE o = t
  <2>1. SeenInv(t)'
    BY <1>t, AddsSeen
  <2>2. closed'[t] \subseteq locks'[t]
    BY <1>t, <1>s, AddsSees DEF LockInv
  <2>3. \A k \in locks[t] : \E r \in Sees(t)' : Key(r) = k /\ r.current
    BY <1>t, AddsSees DEF LockInv
  <2> QED BY <1>1, <1>s, <1>t, <2>1, <2>2, <2>3 DEF LockInv
<1>2. CASE o # t
  <2>1. Sees(o)' = Sees(o) /\ closed'[o] = closed[o]
    BY <1>2, <1>t, AddsSees
  <2> QED BY <2>1, <1>s, <1>t DEF SeenInv, LockInv, IsCurrent
<1> QED BY <1>1, <1>2

\* A row another transaction has added is not of the same member.
LEMMA AddsApart ==
  ASSUME CoreInv, NEW t \in Txn, NEW new, Adds(t, new),
         NEW o \in Txn \ {t}, NEW q \in added[o]
  PROVE  q.member # new.member
<1> SUFFICES ASSUME q.member = new.member PROVE FALSE
  OBVIOUS
<1>t. /\ TypeOK /\ ContiguousVersions
      /\ SeenInv(t) /\ LockInv(t) /\ ChangeInv(t) /\ SeenInv(o) /\ LockInv(o) /\ ChangeInv(o)
  BY DEF CoreInv
<1>q. q \in Sees(o) /\ q \in MemberRow
  BY <1>t, SeesType DEF Sees
<1>1. CASE Opens(t, new)
  <2>1. \A r \in table : r.member # q.member
    BY <1>1 DEF Opens, Sees
  <2>2. PICK f \in Sees(o) : f.member = q.member /\ f.version = 1
    BY <1>t, <1>q, FirstVersion
  <2>3. f \in added[o]
    BY <2>1, <2>2 DEF Sees
  <2>4. Key(f) = Key(new)
    BY <2>2, <1>1, SameKey DEF Opens
  <2> QED BY <2>3, <2>4, <1>1 DEF Opens
<1>2. ASSUME NEW k \in RowKey, Next1(t, k, new) PROVE FALSE
  <2>1. PICK r \in Sees(t) : /\ Key(r) = k /\ IsCurrent(t, r)
                             /\ \A x \in Sees(t) : x.member = r.member => x.version <= r.version
    BY <1>2, <1>t, LockedIsCurrent DEF Next1
  <2>2. r \in MemberRow /\ r.member = new.member /\ r.version \in Nat
    BY <2>1, <1>2, <1>t, SeesType, KeyType DEF Next1, MemberRow
  <2>3. CASE r \in added[t]
    BY <2>2, <2>3, <1>t DEF ChangeInv
  <2>4. CASE r \in table
    <3>1. PICK x \in table : x.member = q.member /\ Key(x) \in closed[o]
      BY <1>t, <2>2, <2>4 DEF ChangeInv
    <3>2. Key(x) \in locks[o] /\ x \in Sees(o) /\ x \in MemberRow
      BY <3>1, <1>t, SeesType DEF LockInv, Sees
    <3>3. PICK y \in Sees(o) : Key(y) = Key(x) /\ y.current
      BY <3>2, <1>t DEF LockInv
    <3>4. x.current
      BY <3>2, <3>3, <1>t DEF SeenInv
    <3>5. r.current
      BY <2>1 DEF IsCurrent
    <3>6. x.version <= r.version /\ r.version <= x.version
      BY <3>1, <3>4, <3>5, <2>2, <2>4, <1>t DEF ContiguousVersions
    <3>7. Key(x) = Key(r)
      BY <3>1, <3>2, <3>6, <2>2, SameKey DEF MemberRow
    <3> QED BY <3>2, <3>7, <2>1, <1>2, <1>t DEF LockInv, Next1
  <2> QED BY <2>3, <2>4 DEF Sees
<1> QED BY <1>1, <1>2 DEF Adds

LEMMA AddsChange ==
  ASSUME CoreInv, NEW t \in Txn, NEW new, Adds(t, new), NEW o \in Txn
  PROVE  ChangeInv(o)'
<1>t. /\ TypeOK /\ ChangeInv(t) /\ ChangeInv(o) /\ SeenInv(t) /\ LockInv(t)
  BY DEF CoreInv
<1>s. table' = table /\ new.current
  BY DEF Adds
<1>1. CASE o = t
  <2>1. added'[t] = added[t] \union {new} /\ \A x \in Txn \ {t} : added'[x] = added[x]
    BY <1>t, AddsSees
  <2>2. closed[t] \subseteq closed'[t]
    BY <1>t, AddsSees
  <2>3. \A k \in closed'[t] : \E r \in added'[t] : r.member = k.member
    <3>1. CASE Opens(t, new)
      BY <3>1, <2>1, <1>t DEF Opens, ChangeInv
    <3>2. ASSUME NEW k \in RowKey, Next1(t, k, new) PROVE \A x \in closed'[t] : \E r \in added'[t] : r.member = x.member
      BY <3>2, <2>1, <1>t DEF Next1, ChangeInv, TypeOK
    <3> QED BY <3>1, <3>2 DEF Adds
  <2>4. \/ \E q \in table : q.member = new.member /\ Key(q) \in closed'[t]
        \/ \A q \in table : q.member # new.member
    <3>1. CASE Opens(t, new)
      BY <3>1 DEF Opens, Sees
    <3>2. ASSUME NEW k \in RowKey, Next1(t, k, new) 
          PROVE  \/ \E q \in table : q.member = new.member /\ Key(q) \in closed'[t]
                 \/ \A q \in table : q.member # new.member
      <4>1. PICK r \in Sees(t) : Key(r) = k
        BY <3>2, <1>t, LockedIsCurrent DEF Next1
      <4>2. r.member = new.member
        BY <4>1, <3>2, <1>t, SeesType, KeyType DEF Next1
      <4>3. Key(r) \in closed'[t]
        BY <4>1, <3>2, <1>t DEF Next1, TypeOK
      <4>4. CASE r \in table
        BY <4>2, <4>3, <4>4
      <4>5. CASE r \in added[t]
        BY <4>2, <4>5, <2>2, <1>t DEF ChangeInv
      <4> QED BY <4>4, <4>5 DEF Sees
    <3> QED BY <3>1, <3>2 DEF Adds
  <2>5. \A x \in Txn \ {t} : \A q \in added[x] : q.member # new.member
    BY AddsApart
  <2>6. ASSUME NEW r \in added'[t]
        PROVE  /\ r.current
               /\ \/ \E q \in table : q.member = r.member /\ Key(q) \in closed'[t]
                  \/ \A q \in table : q.member # r.member
               /\ \A x \in Txn \ {t} : \A q \in added'[x] : q.member # r.member
    <3>1. CASE r = new
      BY <3>1, <1>s, <2>1, <2>4, <2>5
    <3>2. CASE r \in added[t]
      BY <3>2, <1>t, <2>1, <2>2 DEF ChangeInv
    <3> QED BY <3>1, <3>2, <2>1
  <2> QED BY <1>1, <1>s, <2>3, <2>6 DEF ChangeInv
<1>2. CASE o # t
  <2>1. /\ added'[o] = added[o] /\ closed'[o] = closed[o]
        /\ added'[t] = added[t] \union {new}
        /\ \A x \in Txn \ {t} : added'[x] = added[x]
    BY <1>2, <1>t, AddsSees
  <2>2. \A r \in added[o] : r.member # new.member
    BY <1>2, AddsApart
  <2>3. \A r \in added[o] : \A x \in Txn \ {o} : \A q \in added'[x] : q.member # r.member
    <3> TAKE r \in added[o]
    <3> TAKE x \in Txn \ {o}
    <3> TAKE q \in added'[x]
    <3>1. CASE x = t /\ q = new
      BY <3>1, <2>2
    <3>2. CASE q \in added[x]
      BY <3>2, <1>t DEF ChangeInv
    <3> QED BY <3>1, <3>2, <2>1
  <2> QED BY <1>s, <1>t, <2>1, <2>3 DEF ChangeInv
<1> QED BY <1>1, <1>2

\* What a transaction shows stays as it is when a row of another member is added.
LEMMA AddsShown ==
  ASSUME TypeOK, NEW t \in Txn, NEW new, Adds(t, new), SeenInv(t), LockInv(t),
         NEW record, Shown(t, record), record.member # new.member
  PROVE  Shown(t, record)'
<1>1. PICK r \in Sees(t) :
         /\ r.member = record.member /\ r.payload = record.payload /\ r.type # "DELETED"
         /\ IsCurrent(t, r) /\ (Key(r) \in locks[t] \/ r \in added[t])
  BY DEF Shown
<1>2. IsCurrent(t, r)'
  <2>1. CASE Opens(t, new)
    BY <1>1, <2>1 DEF Opens, IsCurrent
  <2>2. ASSUME NEW k \in RowKey, Next1(t, k, new) PROVE IsCurrent(t, r)'
    <3>1. closed'[t] = closed[t] \union {k} /\ k.member # r.member
      BY <1>1, <2>2 DEF Next1, TypeOK
    <3>2. Key(r) # k
      BY <3>1, <1>1, SeesType, KeyType
    <3> QED BY <3>1, <3>2, <1>1 DEF IsCurrent
  <2> QED BY <2>1, <2>2 DEF Adds
<1>3. r \in Sees(t)' /\ added[t] \subseteq added'[t] /\ locks' = locks
  BY <1>1, AddsSees DEF Adds
<1> QED BY <1>1, <1>2, <1>3 DEF Shown

\* And the new row is shown itself.
LEMMA AddsShowsNew ==
  ASSUME TypeOK, NEW t \in Txn, NEW new, Adds(t, new), SeenInv(t)', new.type # "DELETED",
         NEW record, record.member = new.member, record.payload = new.payload,
         SeenInv(t), LockInv(t)
  PROVE  Shown(t, record)'
<1>1. new \in Sees(t)' /\ new \in added'[t] /\ Sees(t)' = Sees(t) \union {new}
  BY AddsSees
<1>2. \A o \in Sees(t)' : o.member = new.member => o.version <= new.version
  <2>1. new.version \in Nat
    BY DEF Adds, MemberRow
  <2>2. CASE Opens(t, new)
    BY <2>1, <2>2, <1>1 DEF Opens
  <2>3. ASSUME NEW k \in RowKey, Next1(t, k, new) 
        PROVE  \A o \in Sees(t)' : o.member = new.member => o.version <= new.version
    <3>1. PICK q \in Sees(t) : /\ Key(q) = k
                               /\ \A o \in Sees(t) : o.member = q.member => o.version <= q.version
      BY <2>3, LockedIsCurrent DEF Next1
    <3>2. q \in MemberRow /\ q.member = new.member /\ new.version = q.version + 1
      BY <3>1, <2>3, SeesType, KeyType DEF Next1
    <3>3. \A o \in Sees(t) : o.version \in Nat
      BY SeesType DEF MemberRow
    <3> QED BY <3>1, <3>2, <3>3, <2>1, <1>1
  <2> QED BY <2>2, <2>3 DEF Adds
<1>3. IsCurrent(t, new)'
  BY <1>1, <1>2 DEF SeenInv
<1> QED BY <1>1, <1>3 DEF Shown

(***************************************************************************)
(* The end of a transaction                                                *)
(***************************************************************************)
LEMMA Discarded ==
  ASSUME TypeOK, NEW t \in Txn, Discard(t)
  PROVE  /\ locks'[t] = {} /\ closed'[t] = {} /\ added'[t] = {} /\ found'[t] = NoRow
         /\ todo'[t] = {} /\ gone'[t] = {} /\ pos'[t] = 1
         /\ \A o \in Txn \ {t} :
              /\ locks'[o] = locks[o] /\ closed'[o] = closed[o] /\ added'[o] = added[o]
              /\ found'[o] = found[o] /\ todo'[o] = todo[o] /\ gone'[o] = gone[o]
              /\ pos'[o] = pos[o]
BY DEF Discard, TypeOK

\* A transaction without rows of its own sees the table.
LEMMA SeenTable ==
  ASSUME NEW t \in Txn, added[t] = {}, closed[t] = {}, ContiguousVersions
  PROVE  SeenInv(t)
<1>1. Sees(t) = table
  BY DEF Sees
<1>2. \A r \in table : IsCurrent(t, r) <=> r.current
  BY DEF IsCurrent
<1>3. ASSUME NEW r \in table
      PROVE  /\ r.version > 1 => \E o \in table : o.member = r.member /\ o.version = r.version - 1
             /\ \A o \in table : Key(o) = Key(r) => o = r
             /\ IsCurrent(t, r) <=> \A o \in table : o.member = r.member => o.version <= r.version
  BY <1>2 DEF ContiguousVersions
<1> QED BY <1>1, <1>3 DEF SeenInv

\* The same, for the rows after a step.
LEMMA SeenTableNext ==
  ASSUME NEW t \in Txn, added'[t] = {}, closed'[t] = {}, ContiguousVersions'
  PROVE  SeenInv(t)'
<1>1. Sees(t)' = table'
  BY DEF Sees
<1>2. \A r \in table' : IsCurrent(t, r)' <=> r.current
  BY DEF IsCurrent
<1>3. ASSUME NEW r \in table'
      PROVE  /\ r.version > 1 => \E o \in table' : o.member = r.member /\ o.version = r.version - 1
             /\ \A o \in table' : Key(o) = Key(r) => o = r
             /\ IsCurrent(t, r)' <=> \A o \in table' : o.member = r.member => o.version <= r.version
  BY <1>2 DEF ContiguousVersions, Key
<1> QED BY <1>1, <1>3 DEF SeenInv, Key

LEMMA CommitTable ==
  ASSUME NEW t \in Txn, Commit(t)
  PROVE  table' = {View(t, r) : r \in Sees(t)}
BY DEF Commit, View, Sees

LEMMA CommitContiguous ==
  ASSUME CoreInv, NEW t \in Txn, Commit(t)
  PROVE  ContiguousVersions'
<1>t. TypeOK /\ SeenInv(t) /\ table' = {View(t, r) : r \in Sees(t)}
  BY CommitTable DEF CoreInv
<1>1. \A r \in Sees(t) : r \in MemberRow
  BY <1>t, SeesType
<1>2. ASSUME NEW v \in table'
      PROVE  /\ v.version > 1 => \E o \in table' : o.member = v.member /\ o.version = v.version - 1
             /\ \A o \in table' : Key(o) = Key(v) => o = v
             /\ v.current <=> \A o \in table' : o.member = v.member => o.version <= v.version
  <2>1. PICK r \in Sees(t) : v = View(t, r)
    BY <1>t
  <2>2. /\ v.member = r.member /\ v.version = r.version /\ Key(v) = Key(r)
        /\ v.current <=> IsCurrent(t, r)
    BY <1>1, <2>1, ViewRow
  <2>3. ASSUME v.version > 1
        PROVE  \E o \in table' : o.member = v.member /\ o.version = v.version - 1
    <3>1. PICK q \in Sees(t) : q.member = r.member /\ q.version = r.version - 1
      BY <1>t, <2>2, <2>3 DEF SeenInv
    <3>2. View(t, q) \in table' /\ View(t, q).member = q.member /\ View(t, q).version = q.version
      BY <1>t, <1>1, <3>1, ViewRow
    <3> QED BY <2>2, <3>1, <3>2
  <2>4. ASSUME NEW o \in table', Key(o) = Key(v) PROVE o = v
    <3>1. PICK q \in Sees(t) : o = View(t, q)
      BY <1>t
    <3>2. Key(q) = Key(r)
      BY <1>1, <2>2, <2>4, <3>1, ViewRow
    <3>3. q = r
      BY <1>t, <3>2 DEF SeenInv
    <3> QED BY <2>1, <3>1, <3>3
  <2>5. (\A o \in table' : o.member = v.member => o.version <= v.version)
          <=> (\A q \in Sees(t) : q.member = r.member => q.version <= r.version)
    <3>1. \A o \in table' : \E q \in Sees(t) : q.member = o.member /\ q.version = o.version
      BY <1>t, <1>1, ViewRow
    <3>2. \A q \in Sees(t) : \E o \in table' : q.member = o.member /\ q.version = o.version
      <4> TAKE q \in Sees(t)
      <4>1. View(t, q) \in table' /\ View(t, q).member = q.member /\ View(t, q).version = q.version
        BY <1>t, <1>1, ViewRow
      <4> QED BY <4>1
    <3> QED BY <2>2, <3>1, <3>2
  <2> QED BY <2>2, <2>3, <2>4, <2>5, <1>t DEF SeenInv
<1> QED BY <1>2 DEF ContiguousVersions, Key

\* Rows of a member that t did not change are in the table as before, and rows of
\* one that it did are nobody else's.
LEMMA CommitOthers ==
  ASSUME CoreInv, NEW t \in Txn, Commit(t), NEW o \in Txn \ {t}
  PROVE  /\ added'[o] = added[o] /\ closed'[o] = closed[o] /\ locks'[o] = locks[o]
         /\ \A r \in table : r \in table' \/ \E q \in added[t] : q.member = r.member
         /\ \A r \in table' : r \in table \/ \E q \in added[t] : q.member = r.member
         /\ \A r \in table : Key(r) \in locks[o] => r \in table'
         /\ \A r \in table : \E v \in table' : Key(v) = Key(r)
<1>t. /\ TypeOK /\ LockInv(t) /\ ChangeInv(t) /\ LockInv(o)
      /\ table' = {View(t, r) : r \in Sees(t)}
  BY CommitTable DEF CoreInv
<1>1. \A r \in Sees(t) : r \in MemberRow
  BY <1>t, SeesType
<1>2. ASSUME NEW r \in Sees(t), Key(r) \notin closed[t] PROVE View(t, r) = r
  BY <1>1, <1>2 DEF View, MemberRow
<1>3. ASSUME NEW r \in Sees(t), \A q \in added[t] : q.member # r.member
      PROVE  View(t, r) = r /\ r \in table
  <2>1. Key(r) \notin closed[t]
    BY <1>1, <1>3, <1>t, KeyType DEF ChangeInv
  <2> QED BY <2>1, <1>2, <1>3 DEF Sees
<1>4. \A r \in table : r \in Sees(t)
  BY DEF Sees
<1>5. \A r \in table : r \in table' \/ \E q \in added[t] : q.member = r.member
  BY <1>3, <1>4, <1>t
<1>6. ASSUME NEW v \in table' PROVE v \in table \/ \E q \in added[t] : q.member = v.member
  <2>1. PICK r \in Sees(t) : v = View(t, r)
    BY <1>t
  <2>2. v.member = r.member
    BY <2>1, <1>1, ViewRow
  <2> QED BY <2>1, <2>2, <1>3
<1>7. ASSUME NEW r \in table, Key(r) \in locks[o] PROVE r \in table'
  <2>1. Key(r) \notin closed[t]
    BY <1>7, <1>t DEF LockInv
  <2>2. View(t, r) = r
    BY <2>1, <1>2, <1>4
  <2> QED BY <2>2, <1>4, <1>t
<1>8. ASSUME NEW r \in table PROVE \E v \in table' : Key(v) = Key(r)
  <2>1. View(t, r) \in table' /\ Key(View(t, r)) = Key(r)
    BY <1>1, <1>4, <1>t, ViewRow
  <2> QED BY <2>1
<1>9. added'[o] = added[o] /\ closed'[o] = closed[o] /\ locks'[o] = locks[o]
  BY <1>t, Discarded DEF Commit
<1> QED BY <1>5, <1>6, <1>7, <1>8, <1>9

LEMMA CommitSeen ==
  ASSUME CoreInv, NEW t \in Txn, Commit(t), NEW o \in Txn
  PROVE  SeenInv(o)'
<1>t. TypeOK /\ SeenInv(o) /\ ChangeInv(o) /\ ChangeInv(t) /\ SeenInv(t)
  BY DEF CoreInv
<1>c. ContiguousVersions'
  BY CommitContiguous
<1>1. CASE o = t
  <2>1. added'[t] = {} /\ closed'[t] = {}
    BY <1>t, Discarded DEF Commit
  <2> QED BY <1>1, <1>c, <2>1, SeenTableNext
<1>2. CASE o # t
  <2> DEFINE Theirs(m) == \E q \in added[t] : q.member = m
  <2>1. /\ added'[o] = added[o] /\ closed'[o] = closed[o]
        /\ \A r \in table : r \in table' \/ Theirs(r.member)
        /\ \A r \in table' : r \in table \/ Theirs(r.member)
    BY <1>2, CommitOthers
  <2>2. \A r \in added[o] : ~Theirs(r.member)
    BY <1>2, <1>t DEF ChangeInv
  <2>3. \A x : ~Theirs(x.member) => (x \in Sees(o)' <=> x \in Sees(o))
    BY <2>1, <2>2 DEF Sees
  <2>4. \A x \in Sees(o)' : Theirs(x.member) => x \in table'
    BY <2>1, <2>2 DEF Sees
  <2>5. table' \subseteq Sees(o)'
    BY DEF Sees
  <2>6. ASSUME NEW r \in Sees(o)', ~Theirs(r.member)
        PROVE  /\ r.version > 1 => \E x \in Sees(o)' : x.member = r.member /\ x.version = r.version - 1
               /\ \A x \in Sees(o)' : Key(x) = Key(r) => x = r
               /\ IsCurrent(o, r)' <=> \A x \in Sees(o)' : x.member = r.member => x.version <= r.version
    <3>1. r \in Sees(o)
      BY <2>3, <2>6
    <3>2. IsCurrent(o, r)' <=> IsCurrent(o, r)
      BY <2>1 DEF IsCurrent, Key
    <3>3. \A x \in Sees(o)' : x.member = r.member => x \in Sees(o)
      BY <2>3, <2>6
    <3>4. \A x \in Sees(o) : x.member = r.member => x \in Sees(o)'
      BY <2>3, <2>6
    <3> HIDE DEF Theirs
    <3>5. r.version > 1 => \E x \in Sees(o)' : x.member = r.member /\ x.version = r.version - 1
      BY <3>1, <3>4, <1>t DEF SeenInv
    <3>6. \A x \in Sees(o)' : Key(x) = Key(r) => x = r
      BY <3>1, <3>3, <1>t, SameKey DEF SeenInv
    <3>7. IsCurrent(o, r) <=> \A x \in Sees(o)' : x.member = r.member => x.version <= r.version
      BY <3>1, <3>3, <3>4, <1>t DEF SeenInv
    <3> QED BY <3>2, <3>5, <3>6, <3>7
  <2>7. ASSUME NEW r \in Sees(o)', Theirs(r.member)
        PROVE  /\ r.version > 1 => \E x \in Sees(o)' : x.member = r.member /\ x.version = r.version - 1
               /\ \A x \in Sees(o)' : Key(x) = Key(r) => x = r
               /\ IsCurrent(o, r)' <=> \A x \in Sees(o)' : x.member = r.member => x.version <= r.version
    <3>1. r \in table'
      BY <2>4, <2>7
    <3>2. \A x \in Sees(o)' : x.member = r.member => x \in table'
      BY <2>4, <2>7
    <3>3. Key(r) \notin closed'[o]
      <4>1. \A k \in closed[o] : ~Theirs(k.member)
        BY <2>2, <1>t DEF ChangeInv
      <4> QED BY <4>1, <2>1, <2>7 DEF Key
    <3>4. IsCurrent(o, r)' <=> r.current
      BY <3>3 DEF IsCurrent, Key
    <3> HIDE DEF Theirs
    <3>5. r.version > 1 => \E x \in table' : x.member = r.member /\ x.version = r.version - 1
      BY <3>1, <1>c DEF ContiguousVersions
    <3>6. \A x \in table' : Key(x) = Key(r) => x = r
      BY <3>1, <1>c DEF ContiguousVersions, Key
    <3>7. r.current <=> \A x \in table' : x.member = r.member => x.version <= r.version
      BY <3>1, <1>c DEF ContiguousVersions
    <3> QED BY <2>5, <3>2, <3>4, <3>5, <3>6, <3>7, SameKey
  <2> QED BY <2>6, <2>7 DEF SeenInv, Key
<1> QED BY <1>1, <1>2

LEMMA CommitLock ==
  ASSUME CoreInv, NEW t \in Txn, Commit(t), NEW o \in Txn
  PROVE  LockInv(o)' /\ ChangeInv(o)'
<1>t. /\ TypeOK /\ LockInv(o) /\ ChangeInv(o) /\ LockInv(t) /\ ChangeInv(t)
  BY DEF CoreInv
<1>1. /\ locks'[t] = {} /\ closed'[t] = {} /\ added'[t] = {}
      /\ \A x \in Txn \ {t} : locks'[x] = locks[x] /\ closed'[x] = closed[x] /\ added'[x] = added[x]
  BY <1>t, Discarded DEF Commit
<1>2. CASE o = t
  BY <1>1, <1>2 DEF LockInv, ChangeInv
<1>3. CASE o # t
  <2>1. /\ \A r \in table' : r \in table \/ \E q \in added[t] : q.member = r.member
        /\ \A r \in table : Key(r) \in locks[o] => r \in table'
    BY <1>3, CommitOthers
  <2>2. \A x \in Txn \ {o} : locks'[o] \intersect locks'[x] = {}
    BY <1>1, <1>3, <1>t DEF LockInv
  <2>3. \A k \in locks[o] : \E r \in Sees(o)' : Key(r) = k /\ r.current
    BY <2>1, <1>1, <1>3, <1>t DEF LockInv, Sees
  <2>4. LockInv(o)'
    BY <2>2, <2>3, <1>1, <1>3, <1>t DEF LockInv, Key
  <2>5. ASSUME NEW r \in added[o]
        PROVE  /\ r.current
               /\ \/ \E q \in table' : q.member = r.member /\ Key(q) \in closed[o]
                  \/ \A q \in table' : q.member # r.member
               /\ \A x \in Txn \ {o} : \A q \in added'[x] : q.member # r.member
    <3>1. \A q \in added[t] : q.member # r.member
      BY <1>3, <1>t DEF ChangeInv
    <3>2. CASE \E q \in table : q.member = r.member /\ Key(q) \in closed[o]
      BY <3>2, <2>1, <1>1, <1>3, <1>t DEF ChangeInv, LockInv
    <3>3. CASE \A q \in table : q.member # r.member
      BY <3>1, <3>3, <2>1, <1>1, <1>3, <1>t DEF ChangeInv
    <3> QED BY <3>2, <3>3, <1>t DEF ChangeInv
  <2>6. ChangeInv(o)'
    BY <2>5, <1>1, <1>3, <1>t DEF ChangeInv, Key
  <2> QED BY <2>4, <2>6
<1> QED BY <1>2, <1>3

(***************************************************************************)
(* The transactions that do not move                                       *)
(***************************************************************************)
Apart(t, o) ==
  /\ pc'[o] = pc[o] /\ input'[o] = input[o] /\ pos'[o] = pos[o] /\ found'[o] = found[o]
  /\ todo'[o] = todo[o] /\ gone'[o] = gone[o]
  /\ locks'[o] = locks[o] /\ closed'[o] = closed[o] /\ added'[o] = added[o]

LEMMA StepApart ==
  ASSUME TypeOK, NEW t \in Txn, Step(t), NEW o \in Txn \ {t}
  PROVE  Apart(t, o)
<1>1. CASE Read(t)
  BY <1>1 DEF Apart, TypeOK, Read
<1>2. CASE LockRow(t)
  BY <1>2 DEF Apart, TypeOK, LockRow
<1>3. CASE Skip(t)
  BY <1>3 DEF Apart, TypeOK, Skip, Advance
<1>4. CASE InsertNew(t)
  BY <1>4 DEF Apart, TypeOK, InsertNew, Advance
<1>5. CASE Update(t)
  BY <1>5 DEF Apart, TypeOK, Update, Advance
<1>6. CASE Scan(t)
  BY <1>6 DEF Apart, TypeOK, Scan
<1>7. ASSUME NEW k \in todo[t], LockMissing(t, k) PROVE Apart(t, o)
  BY <1>7 DEF Apart, TypeOK, LockMissing
<1>8. ASSUME NEW k \in gone[t], Tombstone(t, k) PROVE Apart(t, o)
  BY <1>8 DEF Apart, TypeOK, Tombstone
<1>9. CASE Commit(t)
  BY <1>9 DEF Apart, TypeOK, Commit, Discard
<1>10. CASE Abort(t)
  BY <1>10 DEF Apart, TypeOK, Abort, Discard
<1> QED BY <1>1, <1>2, <1>3, <1>4, <1>5, <1>6, <1>7, <1>8, <1>9, <1>10 DEF Step

\* What a transaction remembers and shows does not depend on the steps of others:
\* the rows it has locked or added stay, and a row it only knows stays a row.
LEMMA OthersKeep ==
  ASSUME NEW t \in Txn, NEW o \in Txn \ {t}, Apart(t, o), StepInv(o), ShownInv(o),
         \A r \in table : \E v \in table' : Key(v) = Key(r),
         \A r \in table : Key(r) \in locks[o] => r \in table'
  PROVE  StepInv(o)' /\ ShownInv(o)'
<1>1. Named(o)' = Named(o) /\ Record(o)' = Record(o)
  BY DEF Apart, Named, Record
<1>2. \A k : (\E r \in Sees(o) : Key(r) = k) => \E r \in Sees(o)' : Key(r) = k
  BY DEF Sees, Apart
<1>3. StepInv(o)'
  <2>1. /\ pc[o] \in {"lock", "apply"} => pos[o] \in 1..Len(input[o])
        /\ pc[o] = "lock" => found[o] # NoRow
        /\ pc[o] = "apply" /\ found[o] # NoRow => found[o] \in locks[o] \ closed[o]
        /\ pc[o] = "scan" => pos[o] > Len(input[o])
        /\ pc[o] # "scan" => todo[o] = {} /\ gone[o] = {}
        /\ \A k \in gone[o] : k.member \notin Named(o) /\ k \in locks[o] \ closed[o]
    BY DEF StepInv
  <2>2. pc[o] \in {"lock", "apply"} /\ found[o] # NoRow =>
          /\ found[o].member = Record(o).member
          /\ \E r \in Sees(o)' : Key(r) = found[o]
    BY <1>2 DEF StepInv
  <2>3. \A k \in todo[o] : k.member \notin Named(o) /\ \E r \in Sees(o)' : Key(r) = k
    BY <1>2 DEF StepInv
  <2> QED BY <2>1, <2>2, <2>3, <1>1 DEF StepInv, Apart, Key
<1>4. ASSUME NEW record, Shown(o, record) PROVE Shown(o, record)'
  <2>1. PICK r \in Sees(o) :
         /\ r.member = record.member /\ r.payload = record.payload /\ r.type # "DELETED"
         /\ IsCurrent(o, r) /\ (Key(r) \in locks[o] \/ r \in added[o])
    BY <1>4 DEF Shown
  <2>2. r \in Sees(o)'
    BY <2>1 DEF Sees, Apart
  <2>3. IsCurrent(o, r)'
    BY <2>1 DEF IsCurrent, Apart, Key
  <2> QED BY <2>1, <2>2, <2>3 DEF Shown, Apart, Key
<1>5. ShownInv(o)'
  BY <1>4 DEF ShownInv, Apart
<1> QED BY <1>3, <1>5

(***************************************************************************)
(* Locking                                                                 *)
(***************************************************************************)
Quiet == UNCHANGED <<table, input, closed, added>>

LEMMA QuietKeeps ==
  ASSUME Quiet, NEW o \in Txn
  PROVE  /\ SeenInv(o) => SeenInv(o)'
         /\ ChangeInv(o) => ChangeInv(o)'
         /\ Sees(o)' = Sees(o) /\ Named(o)' = Named(o)
         /\ \A r : IsCurrent(o, r)' <=> IsCurrent(o, r)
         /\ ContiguousVersions => ContiguousVersions'
BY DEF Quiet, SeenInv, ChangeInv, Sees, Named, IsCurrent, Key, ContiguousVersions

\* Locks that nobody else holds, on rows that are current.
Locks(t, keys) ==
  /\ locks' = [locks EXCEPT ![t] = @ \union keys]
  /\ \A k \in keys : /\ ~LockedByOther(t, k)
                     /\ \E r \in Sees(t) : Key(r) = k /\ r.current

LEMMA LocksKeep ==
  ASSUME TypeOK, Quiet, NEW t \in Txn, NEW keys, Locks(t, keys), \A o \in Txn : LockInv(o)
  PROVE  \A o \in Txn : LockInv(o)'
<1>1. locks'[t] = locks[t] \union keys /\ \A o \in Txn \ {t} : locks'[o] = locks[o]
  BY DEF Locks, TypeOK
<1>2. \A o \in Txn \ {t} : locks'[t] \intersect locks[o] = {}
  BY <1>1 DEF Locks, LockedByOther, LockInv
<1> TAKE o \in Txn
<1>3. \A x \in Txn \ {o} : locks'[o] \intersect locks'[x] = {}
  BY <1>1, <1>2 DEF LockInv
<1>4. closed[o] \subseteq locks'[o]
  BY <1>1 DEF LockInv
<1>5. \A k \in locks'[o] : \E r \in Sees(o) : Key(r) = k /\ r.current
  BY <1>1 DEF LockInv, Locks
<1> QED BY <1>3, <1>4, <1>5, QuietKeeps DEF LockInv, Quiet, Key

\* A row that the statement finds current may be locked.
LEMMA FoundCurrent ==
  ASSUME TypeOK, NEW t \in Txn, SeenInv(t), NEW k, \E r \in Sees(t) : Key(r) = k,
         RowOf(t, k).current
  PROVE  k \notin closed[t] /\ \E r \in Sees(t) : Key(r) = k /\ r.current
<1>1. PICK r \in Sees(t) : Key(r) = k
  OBVIOUS
<1>2. r \in MemberRow /\ View(t, r).current
  BY <1>1, SeesType, RowOfKey
<1>3. IsCurrent(t, r)
  BY <1>2, ViewRow
<1> QED BY <1>1, <1>3 DEF IsCurrent

\* What is shown is still shown when t only locks.
LEMMA QuietShown ==
  ASSUME Quiet, NEW t \in Txn, locks[t] \subseteq locks'[t], NEW record, Shown(t, record)
  PROVE  Shown(t, record)'
<1>1. PICK r \in Sees(t) :
       /\ r.member = record.member /\ r.payload = record.payload /\ r.type # "DELETED"
       /\ IsCurrent(t, r) /\ (Key(r) \in locks[t] \/ r \in added[t])
  BY DEF Shown
<1>2. r \in Sees(t)' /\ IsCurrent(t, r)'
  BY <1>1, QuietKeeps
<1> QED BY <1>1, <1>2 DEF Shown, Quiet, Key

\* One more raw record is done.
LEMMA ShownStep ==
  ASSUME TypeOK, NEW t \in Txn, ShownInv(t), input' = input,
         pos[t] \in 1..Len(input[t]), pos'[t] = pos[t] + 1,
         \A record : Shown(t, record) /\ record.member # Record(t).member => Shown(t, record)',
         \A record : record = Record(t) => Shown(t, record)'
  PROVE  ShownInv(t)'
<1>0. pos[t] \in Nat \ {0} /\ Len(input[t]) \in Nat
  BY DEF TypeOK
<1>1. ASSUME NEW i \in 1..pos[t],
             \A j \in (i + 1)..pos[t] : input[t][j].member # input[t][i].member
      PROVE  \A record : record = input[t][i] => Shown(t, record)'
  <2> TAKE record
  <2> HAVE record = input[t][i]
  <2>1. CASE i = pos[t]
    BY <2>1, <1>0 DEF Record
  <2>2. CASE i < pos[t]
    <3>1. i \in 1..(pos[t] - 1) /\ pos[t] \in (i + 1)..pos[t]
      BY <2>2, <1>0
    <3>2. \A j \in (i + 1)..(pos[t] - 1) : input[t][j].member # input[t][i].member
      BY <1>1, <1>0
    <3>3. Shown(t, input[t][i])
      BY <3>1, <3>2 DEF ShownInv
    <3>4. input[t][i].member # Record(t).member
      BY <3>1, <1>1 DEF Record
    <3> QED BY <3>3, <3>4
  <2> QED BY <2>1, <2>2, <1>0
<1>2. pos'[t] - 1 = pos[t]
  BY <1>0
<1>3. ASSUME NEW i \in 1..(pos'[t] - 1)
      PROVE  /\ i <= Len(input'[t])
             /\ (\A j \in (i + 1)..(pos'[t] - 1) : input'[t][j].member # input'[t][i].member)
                  => (Shown(t, input[t][i]))'
  <2>1. i \in 1..pos[t] /\ i <= Len(input[t])
    BY <1>0, <1>2
  <2>2. ASSUME \A j \in (i + 1)..(pos'[t] - 1) : input'[t][j].member # input'[t][i].member
        PROVE  (Shown(t, input[t][i]))'
    <3>1. \A record : record = input[t][i] => Shown(t, record)'
      BY <1>1, <1>2, <2>1, <2>2
    <3> QED BY <3>1 DEF Shown, Sees, IsCurrent, Key
  <2> QED BY <2>1, <2>2
<1> QED BY <1>3 DEF ShownInv

(***************************************************************************)
(* The steps of one transaction                                            *)
(***************************************************************************)
LEMMA RecordType ==
  ASSUME TypeOK, NEW t \in Txn, pos[t] \in 1..Len(input[t])
  PROVE  Record(t) \in [member : Member, payload : Payload]
<1>1. input[t] \in Seq([member : Member, payload : Payload])
  BY DEF TypeOK
<1>2. input[t][pos[t]] \in [member : Member, payload : Payload]
  <2> DEFINE S == [member : Member, payload : Payload]
  <2> HIDE DEF S
  <2> QED BY <1>1, ElementOfSeq DEF S
<1> QED BY <1>2 DEF Record

LEMMA ReadSteps ==
  ASSUME CoreInv, NEW t \in Txn, Read(t)
  PROVE  TypeOK' /\ Quiet /\ locks' = locks /\ StepInv(t)' /\ ShownInv(t)'
<1> DEFINE m == Record(t).member
           rows == CurrentRows(t, m)
<1>t. TypeOK /\ SeenInv(t) /\ StepInv(t) /\ ShownInv(t)
  BY DEF CoreInv
<1>q. Quiet /\ locks' = locks
  BY DEF Read, Quiet
<1>s. ShownInv(t)'
  <2>1. \A record : Shown(t, record) => Shown(t, record)'
    BY <1>q, QuietShown
  <2>2. pos' = pos /\ input' = input
    BY DEF Read
  <2> QED BY <2>1, <2>2, <1>t DEF ShownInv
<1>p. pos[t] \in 1..Len(input[t]) /\ pc[t] = "read"
  BY <1>t DEF Read, TypeOK
<1>u. todo[t] = {} /\ gone[t] = {}
  BY <1>p, <1>t DEF StepInv
<1>1. CASE rows = {}
  <2>1. found' = [found EXCEPT ![t] = NoRow] /\ pc' = [pc EXCEPT ![t] = "apply"]
    BY <1>1 DEF Read
  <2>2. pc'[t] = "apply" /\ found'[t] = NoRow
    BY <2>1, <1>t DEF TypeOK
  <2>3. TypeOK'
    BY <2>1, <1>t DEF TypeOK, Read
  <2>4. StepInv(t)'
    BY <2>2, <1>p, <1>u DEF StepInv, Read
  <2> QED BY <1>q, <1>s, <2>3, <2>4
<1>2. CASE rows # {}
  <2>1. found' = [found EXCEPT ![t] = Key(Newest(rows))] /\ pc' = [pc EXCEPT ![t] = "lock"]
    BY <1>2 DEF Read
  <2>2. \E v \in rows : \A o \in rows : o.version <= v.version
    <3>1. PICK v \in rows : TRUE
      BY <1>2
    <3>2. PICK r \in Sees(t) : v = View(t, r)
      BY <3>1, VisibleRows DEF CurrentRows
    <3>3. v.member = m /\ v.member = r.member /\ v.version = r.version /\ IsCurrent(t, r)
      BY <3>1, <3>2, <1>t, SeesType, ViewRow DEF CurrentRows
    <3>4. ASSUME NEW o \in rows PROVE o.version <= v.version
      <4>1. PICK q \in Sees(t) : o = View(t, q)
        BY VisibleRows DEF CurrentRows
      <4>2. o.member = m /\ o.member = q.member /\ o.version = q.version
        BY <4>1, <1>t, SeesType, ViewRow DEF CurrentRows
      <4> QED BY <3>3, <4>2, <1>t DEF SeenInv
    <3> QED BY <3>1, <3>4
  <2>3. Newest(rows) \in rows
    <3> HIDE DEF rows
    <3> QED BY <2>2 DEF Newest
  <2>4. PICK r \in Sees(t) : Newest(rows) = View(t, r)
    BY <2>3, VisibleRows DEF CurrentRows
  <2>5. r \in MemberRow /\ Key(Newest(rows)) = Key(r) /\ Key(r).member = m
    BY <2>3, <2>4, <1>t, SeesType, ViewRow, KeyType DEF CurrentRows
  <2>6. Key(r) \in RowKey /\ Key(r) # NoRow
    BY <2>5, KeyType
  <2>7. pc'[t] = "lock" /\ found'[t] = Key(r)
    BY <2>1, <2>5, <1>t DEF TypeOK
  <2>8. TypeOK'
    <3> HIDE DEF rows
    <3> QED BY <2>1, <2>5, <2>6, <1>t DEF TypeOK, Read
  <2>9. Record(t)' = Record(t) /\ Sees(t)' = Sees(t)
    BY DEF Record, Read, Sees
  <2>10. \E x \in Sees(t) : Key(x) = found'[t]
    BY <2>7
  <2>11. StepInv(t)'
    <3> HIDE DEF rows, m
    <3>1. found'[t].member = Record(t).member
      BY <2>5, <2>7 DEF m
    <3> QED BY <2>6, <2>7, <2>9, <2>10, <3>1, <1>p, <1>u DEF StepInv, Read, Key
  <2> QED BY <1>q, <1>s, <2>8, <2>11
<1> QED BY <1>1, <1>2

LEMMA LockRowSteps ==
  ASSUME CoreInv, NEW t \in Txn, LockRow(t)
  PROVE  /\ TypeOK' /\ Quiet /\ StepInv(t)' /\ ShownInv(t)'
         /\ \E keys : Locks(t, keys)
<1> DEFINE k == found[t]
<1>t. TypeOK /\ SeenInv(t) /\ StepInv(t) /\ ShownInv(t)
  BY DEF CoreInv
<1>q. Quiet
  BY DEF LockRow, Quiet
<1>k. /\ k # NoRow /\ k \in RowKey /\ k.member = Record(t).member
      /\ \E r \in Sees(t) : Key(r) = k
      /\ pos[t] \in 1..Len(input[t]) /\ todo[t] = {} /\ gone[t] = {}
  BY <1>t DEF LockRow, StepInv, TypeOK
<1>r. Record(t)' = Record(t) /\ Sees(t)' = Sees(t)
  BY DEF Record, LockRow, Sees
<1>1. CASE RowOf(t, k).current
  <2>1. locks' = [locks EXCEPT ![t] = @ \union {k}] /\ found' = found
    BY <1>1 DEF LockRow
  <2>2. k \notin closed[t] /\ \E r \in Sees(t) : Key(r) = k /\ r.current
    BY <1>1, <1>k, <1>t, FoundCurrent
  <2>3. Locks(t, {k})
    BY <2>1, <2>2 DEF Locks, LockRow
  <2>4. TypeOK'
    BY <2>1, <1>k, <1>t DEF TypeOK, LockRow
  <2>5. pc'[t] = "apply" /\ locks'[t] = locks[t] \union {k}
    BY <2>1, <1>t DEF TypeOK, LockRow
  <2>6. StepInv(t)'
    BY <2>1, <2>2, <2>5, <1>k, <1>r DEF StepInv, LockRow, Key
  <2>7. ShownInv(t)'
    <3>1. \A record : Shown(t, record) => Shown(t, record)'
      BY <1>q, <2>5, QuietShown
    <3> QED BY <3>1, <1>t DEF ShownInv, LockRow
  <2> QED BY <1>q, <2>3, <2>4, <2>6, <2>7
<1>2. CASE ~RowOf(t, k).current
  <2>1. found' = [found EXCEPT ![t] = NoRow] /\ locks' = locks
    BY <1>2 DEF LockRow
  <2>2. Locks(t, {})
    BY <2>1, <1>t DEF Locks, TypeOK
  <2>3. TypeOK'
    BY <2>1, <1>t DEF TypeOK, LockRow
  <2>4. pc'[t] = "apply" /\ found'[t] = NoRow
    BY <2>1, <1>t DEF TypeOK, LockRow
  <2>5. StepInv(t)'
    BY <2>4, <1>k DEF StepInv, LockRow
  <2>6. ShownInv(t)'
    <3>1. \A record : Shown(t, record) => Shown(t, record)'
      BY <1>q, <2>1, QuietShown
    <3> QED BY <3>1, <1>t DEF ShownInv, LockRow
  <2> QED BY <1>q, <2>2, <2>3, <2>5, <2>6
<1> QED BY <1>1, <1>2

LEMMA AdvanceType ==
  ASSUME TypeOK, NEW t \in Txn, Advance(t)
  PROVE  /\ pos' \in [Txn -> Nat \ {0}]
         /\ pc' \in [Txn -> {"read", "lock", "apply", "scan", "done"}]
         /\ pos'[t] = pos[t] + 1 /\ pc'[t] = "read"
<1>1. pos \in [Txn -> Nat \ {0}] /\ pos[t] + 1 \in Nat \ {0}
  <2>1. pos \in [Txn -> Nat \ {0}]
    BY DEF TypeOK
  <2> QED BY <2>1
<1>2. pc \in [Txn -> {"read", "lock", "apply", "scan", "done"}]
  BY DEF TypeOK
<1> QED BY <1>1, <1>2 DEF Advance

LEMMA SkipSteps ==
  ASSUME CoreInv, NEW t \in Txn, Skip(t)
  PROVE  TypeOK' /\ Quiet /\ locks' = locks /\ StepInv(t)' /\ ShownInv(t)'
<1>t. TypeOK /\ SeenInv(t) /\ LockInv(t) /\ StepInv(t) /\ ShownInv(t)
  BY DEF CoreInv
<1>q. Quiet /\ locks' = locks
  BY DEF Skip, Quiet
<1>1. TypeOK'
  BY <1>t, AdvanceType DEF TypeOK, Skip
<1>2. StepInv(t)'
  <2>1. pc'[t] = "read" /\ todo'[t] = {} /\ gone'[t] = {}
    BY <1>t DEF StepInv, TypeOK, Skip, Advance
  <2> QED BY <2>1 DEF StepInv
<1>3. /\ found[t] \in locks[t] \ closed[t] /\ found[t].member = Record(t).member
      /\ pos[t] \in 1..Len(input[t])
      /\ RowOf(t, found[t]).type # "DELETED" /\ RowOf(t, found[t]).payload = Record(t).payload
  BY <1>t DEF StepInv, Skip, Unchanged
<1>4. PICK r \in Sees(t) : Key(r) = found[t] /\ IsCurrent(t, r)
  BY <1>3, <1>t, LockedIsCurrent
<1>5. /\ r.member = Record(t).member /\ r.type # "DELETED" /\ r.payload = Record(t).payload
  BY <1>3, <1>4, <1>t, RowOfKey, SeesType, ViewRow, KeyType
<1>6. Shown(t, Record(t))
  BY <1>3, <1>4, <1>5 DEF Shown
<1>7. \A record : Shown(t, record) => Shown(t, record)'
  BY <1>q, QuietShown
<1>8. \A record : record = Record(t) => Shown(t, record)'
  BY <1>6, <1>7
<1>9. input' = input /\ pos'[t] = pos[t] + 1
  BY <1>t DEF Skip, Advance, TypeOK
<1>10. ShownInv(t)'
  BY <1>3, <1>7, <1>8, <1>9, <1>t, ShownStep
<1> QED BY <1>q, <1>1, <1>2, <1>10

LEMMA ScanSteps ==
  ASSUME CoreInv, NEW t \in Txn, Scan(t)
  PROVE  TypeOK' /\ Quiet /\ locks' = locks /\ StepInv(t)' /\ ShownInv(t)'
<1>t. TypeOK /\ StepInv(t) /\ ShownInv(t)
  BY DEF CoreInv
<1>q. Quiet /\ locks' = locks
  BY DEF Scan, Quiet
<1>1. \A k \in todo'[t] : /\ k \in RowKey /\ k.member \notin Named(t)
                          /\ \E r \in Sees(t) : Key(r) = k
  <2> TAKE k \in todo'[t]
  <2>1. PICK v \in Visible(t) : k = Key(v) /\ v.member \notin Named(t)
    BY <1>t DEF Scan, TypeOK
  <2>2. PICK r \in Sees(t) : v = View(t, r)
    BY VisibleRows
  <2>3. r \in MemberRow /\ k = Key(r) /\ r.member = v.member
    BY <2>1, <2>2, <1>t, SeesType, ViewRow
  <2> QED BY <2>1, <2>3, KeyType
<1>2. TypeOK'
  <2>1. todo' \in [Txn -> SUBSET RowKey]
    <3>1. \A o \in Txn \ {t} : todo'[o] = todo[o]
      BY <1>t DEF Scan, TypeOK
    <3>2. todo' = [o \in Txn |-> todo'[o]]
      BY <1>t DEF Scan, TypeOK
    <3>3. \A o \in Txn : todo'[o] \in SUBSET RowKey
      BY <3>1, <1>1, <1>t DEF TypeOK
    <3> QED BY <3>2, <3>3
  <2> QED BY <2>1, <1>t DEF TypeOK, Scan
<1>3. StepInv(t)'
  <2>1. Sees(t)' = Sees(t) /\ Named(t)' = Named(t)
    BY <1>q, QuietKeeps
  <2>2. pc'[t] = "scan" /\ pos'[t] > Len(input'[t]) /\ gone'[t] = {}
    BY <1>t DEF Scan, TypeOK, StepInv
  <2> QED BY <1>1, <2>1, <2>2 DEF StepInv, Key
<1>4. ShownInv(t)'
  <2>1. \A record : Shown(t, record) => Shown(t, record)'
    BY <1>q, QuietShown
  <2> QED BY <2>1, <1>t DEF ShownInv, Scan
<1> QED BY <1>q, <1>2, <1>3, <1>4

LEMMA LockMissingSteps ==
  ASSUME CoreInv, NEW t \in Txn, NEW k \in todo[t], LockMissing(t, k)
  PROVE  /\ TypeOK' /\ Quiet /\ StepInv(t)' /\ ShownInv(t)'
         /\ \E keys : Locks(t, keys)
<1>t. TypeOK /\ SeenInv(t) /\ StepInv(t) /\ ShownInv(t)
  BY DEF CoreInv
<1>q. Quiet
  BY DEF LockMissing, Quiet
<1>k. /\ k \in RowKey /\ k.member \notin Named(t) /\ \E r \in Sees(t) : Key(r) = k
  BY <1>t DEF StepInv, TypeOK
<1>r. Named(t)' = Named(t) /\ Sees(t)' = Sees(t)
  BY <1>q, QuietKeeps
<1>p. /\ pc[t] = "scan" /\ pc' = pc /\ pos' = pos /\ input' = input
      /\ found' = found /\ closed' = closed
      /\ todo'[t] = todo[t] \ {k}
  BY <1>t DEF LockMissing, TypeOK
<1>1. CASE RowOf(t, k).current
  <2>1. /\ locks' = [locks EXCEPT ![t] = @ \union {k}]
        /\ gone' = [gone EXCEPT ![t] = @ \union {k}]
    BY <1>1 DEF LockMissing
  <2>2. k \notin closed[t] /\ \E r \in Sees(t) : Key(r) = k /\ r.current
    BY <1>1, <1>k, <1>t, FoundCurrent
  <2>3. Locks(t, {k})
    BY <2>1, <2>2 DEF Locks, LockMissing
  <2>4. TypeOK'
    BY <2>1, <1>k, <1>t DEF TypeOK, LockMissing
  <2>5. gone'[t] = gone[t] \union {k} /\ locks'[t] = locks[t] \union {k}
    BY <2>1, <1>t DEF TypeOK, LockMissing
  <2>6. StepInv(t)'
    BY <2>2, <2>5, <1>k, <1>r, <1>p, <1>t DEF StepInv, Key
  <2>7. ShownInv(t)'
    <3>1. \A record : Shown(t, record) => Shown(t, record)'
      BY <1>q, <2>5, QuietShown
    <3> QED BY <3>1, <1>t DEF ShownInv, LockMissing
  <2> QED BY <1>q, <2>3, <2>4, <2>6, <2>7
<1>2. CASE ~RowOf(t, k).current
  <2>1. locks' = locks /\ gone' = gone
    BY <1>2 DEF LockMissing
  <2>2. Locks(t, {})
    BY <2>1, <1>t DEF Locks, TypeOK
  <2>3. TypeOK'
    BY <2>1, <1>t DEF TypeOK, LockMissing
  <2>5. StepInv(t)'
    BY <2>1, <1>k, <1>r, <1>p, <1>t DEF StepInv, Key
  <2>6. ShownInv(t)'
    <3>1. \A record : Shown(t, record) => Shown(t, record)'
      BY <1>q, <2>1, QuietShown
    <3> QED BY <3>1, <1>t DEF ShownInv, LockMissing
  <2> QED BY <1>q, <2>2, <2>3, <2>5, <2>6
<1> QED BY <1>1, <1>2

\* A new row of a record is a row of that record.
LEMMA NewRowType ==
  ASSUME NEW m \in Member, NEW v \in Nat \ {0}, NEW p \in Payload,
         NEW type \in {"NEW", "UPDATED", "DELETED"}
  PROVE  /\ NewRow(m, v, p, type) \in MemberRow
         /\ NewRow(m, v, p, type).member = m /\ NewRow(m, v, p, type).version = v
         /\ NewRow(m, v, p, type).payload = p /\ NewRow(m, v, p, type).type = type
         /\ NewRow(m, v, p, type).current
         /\ Key(NewRow(m, v, p, type)) = [member |-> m, version |-> v]
BY DEF NewRow, MemberRow, Key

\* The row that follows one whose lock t holds.
LEMMA Successor ==
  ASSUME TypeOK, NEW t \in Txn, SeenInv(t), LockInv(t), NEW k \in locks[t] \ closed[t]
  PROVE  /\ k \in RowKey /\ k.member \in Member /\ k.version + 1 \in Nat \ {0}
         /\ [k EXCEPT !.version = @ + 1].member = k.member
         /\ [k EXCEPT !.version = @ + 1].version = k.version + 1
         /\ RowOf(t, k).payload \in Payload
<1>1. k \in RowKey
  BY DEF TypeOK
<1>2. PICK r \in Sees(t) : Key(r) = k
  BY LockedIsCurrent
<1>3. r \in MemberRow /\ RowOf(t, k).payload = r.payload
  BY <1>2, SeesType, RowOfKey, ViewRow
<1> QED BY <1>1, <1>3 DEF RowKey, MemberRow

LEMMA InsertAdds ==
  ASSUME CoreInv, NEW t \in Txn, InsertNew(t)
  PROVE  \E new : /\ Adds(t, new) /\ new.member = Record(t).member
                  /\ new.payload = Record(t).payload /\ new.type # "DELETED"
                  /\ new = NewRow(Record(t).member, 1, Record(t).payload, "NEW") /\ Opens(t, new)
<1> DEFINE m == Record(t).member
           new == NewRow(m, 1, Record(t).payload, "NEW")
<1>t. TypeOK /\ SeenInv(t) /\ StepInv(t)
  BY DEF CoreInv
<1>1. Record(t) \in [member : Member, payload : Payload]
  BY <1>t, RecordType DEF StepInv, InsertNew
<1>2. /\ new \in MemberRow /\ new.member = m /\ new.version = 1
      /\ new.payload = Record(t).payload /\ new.type = "NEW" /\ new.current
      /\ Key(new) = [member |-> m, version |-> 1]
  BY <1>1, NewRowType
<1>3. ~Taken(t, Key(new)) /\ ~InFlight(t, Key(new))
  BY <1>2 DEF InsertNew
<1>4. \A r \in Sees(t) : r.member # m
  <2> SUFFICES ASSUME NEW r \in Sees(t), r.member = m PROVE FALSE
    OBVIOUS
  <2>1. PICK o \in Sees(t) : o.member = m /\ o.version = 1
    BY <1>t, FirstVersion
  <2>2. Key(o) = Key(new)
    BY <2>1, <1>2, SameKey
  <2> QED BY <2>1, <2>2, <1>3 DEF Taken, Sees
<1> HIDE DEF m, new
<1>5. Opens(t, new)
  BY <1>2, <1>3, <1>4 DEF Opens, InsertNew, InFlight
<1>6. Adds(t, new)
  <2>1. /\ added' = [added EXCEPT ![t] = @ \union {new}]
        /\ UNCHANGED <<table, input, locks>>
    BY DEF InsertNew, new, m
  <2> QED BY <2>1, <1>2, <1>5 DEF Adds
<1> QED BY <1>2, <1>5, <1>6 DEF m, new

LEMMA UpdateAdds ==
  ASSUME CoreInv, NEW t \in Txn, Update(t)
  PROVE  \E new : /\ Adds(t, new) /\ new.member = Record(t).member
                  /\ new.payload = Record(t).payload /\ new.type # "DELETED"
                  /\ Next1(t, found[t], new) /\ found[t] \in RowKey
                  /\ new = NewRow(found[t].member, found[t].version + 1, Record(t).payload, "UPDATED")
<1> DEFINE k == found[t]
           new == NewRow(k.member, k.version + 1, Record(t).payload, "UPDATED")
<1>t. TypeOK /\ SeenInv(t) /\ StepInv(t) /\ LockInv(t)
  BY DEF CoreInv
<1>1. Record(t) \in [member : Member, payload : Payload]
  BY <1>t, RecordType DEF StepInv, Update
<1>2. k \in locks[t] \ closed[t] /\ k.member = Record(t).member
  BY <1>t DEF StepInv, Update
<1>3. /\ k \in RowKey /\ k.member \in Member /\ k.version + 1 \in Nat \ {0}
      /\ [k EXCEPT !.version = @ + 1].member = k.member
      /\ [k EXCEPT !.version = @ + 1].version = k.version + 1
  BY <1>2, <1>t, Successor
<1>4. /\ new \in MemberRow /\ new.member = k.member /\ new.version = k.version + 1
      /\ new.payload = Record(t).payload /\ new.type = "UPDATED" /\ new.current
  BY <1>1, <1>3, NewRowType
<1>5. Next1(t, k, new)
  BY <1>2, <1>4 DEF Next1, Update
<1>6. Adds(t, new)
  <2>1. /\ added' = [added EXCEPT ![t] = @ \union {new}]
        /\ UNCHANGED <<table, input, locks>>
    BY <1>3 DEF Update
  <2> HIDE DEF k, new
  <2> QED BY <2>1, <1>3, <1>4, <1>5 DEF Adds
<1> HIDE DEF new
<1> QED BY <1>2, <1>3, <1>4, <1>5, <1>6 DEF new

LEMMA TombstoneAdds ==
  ASSUME CoreInv, NEW t \in Txn, NEW k \in gone[t], Tombstone(t, k)
  PROVE  \E new : /\ Adds(t, new) /\ new.member = k.member /\ Next1(t, k, new) /\ k \in RowKey
                  /\ new = NewRow(k.member, k.version + 1, RowOf(t, k).payload, "DELETED")
<1> DEFINE new == NewRow(k.member, k.version + 1, RowOf(t, k).payload, "DELETED")
<1>t. TypeOK /\ SeenInv(t) /\ StepInv(t) /\ LockInv(t)
  BY DEF CoreInv
<1>2. k \in locks[t] \ closed[t]
  BY <1>t DEF StepInv
<1>3. /\ k \in RowKey /\ k.member \in Member /\ k.version + 1 \in Nat \ {0}
      /\ [k EXCEPT !.version = @ + 1].version = k.version + 1
      /\ RowOf(t, k).payload \in Payload
  BY <1>2, <1>t, Successor
<1>4. /\ new \in MemberRow /\ new.member = k.member /\ new.version = k.version + 1 /\ new.current
  BY <1>3, NewRowType
<1>5. Next1(t, k, new)
  BY <1>2, <1>4 DEF Next1, Tombstone
<1>6. Adds(t, new)
  <2>1. /\ added' = [added EXCEPT ![t] = @ \union {new}]
        /\ UNCHANGED <<table, input, locks>>
    BY <1>3 DEF Tombstone
  <2> HIDE DEF new
  <2> QED BY <2>1, <1>3, <1>4, <1>5 DEF Adds
<1> HIDE DEF new
<1> QED BY <1>3, <1>4, <1>5, <1>6 DEF new

LEMMA AddsType ==
  ASSUME TypeOK, NEW t \in Txn, NEW new, Adds(t, new)
  PROVE  /\ added' \in [Txn -> SUBSET MemberRow] /\ closed' \in [Txn -> SUBSET RowKey]
         /\ table' \in SUBSET MemberRow /\ locks' \in [Txn -> SUBSET RowKey]
         /\ input' \in [Txn -> Seq([member : Member, payload : Payload])]
<1>0. closed \in [Txn -> SUBSET RowKey]
  BY DEF TypeOK
<1>1. CASE Opens(t, new)
  BY <1>0, <1>1 DEF TypeOK, Adds, Opens
<1>2. ASSUME NEW k \in RowKey, Next1(t, k, new) PROVE closed' \in [Txn -> SUBSET RowKey]
  BY <1>0, <1>2 DEF Next1
<1>3. closed' \in [Txn -> SUBSET RowKey]
  BY <1>1, <1>2 DEF Adds
<1> QED BY <1>3 DEF TypeOK, Adds

\* insert_new_member and insert_updated_member end the record.
LEMMA ApplySteps ==
  ASSUME CoreInv, NEW t \in Txn, InsertNew(t) \/ Update(t)
  PROVE  TypeOK' /\ StepInv(t)' /\ ShownInv(t)' /\ \E new : Adds(t, new)
<1>t. TypeOK /\ SeenInv(t) /\ StepInv(t) /\ LockInv(t) /\ ShownInv(t)
  BY DEF CoreInv
<1>1. PICK new : /\ Adds(t, new) /\ new.member = Record(t).member
                 /\ new.payload = Record(t).payload /\ new.type # "DELETED"
  BY InsertAdds, UpdateAdds
<1>2. /\ pc[t] = "apply" /\ Advance(t)
      /\ UNCHANGED <<found, todo, gone>>
  BY DEF InsertNew, Update
<1>3. TypeOK'
  BY <1>1, <1>2, <1>t, AddsType, AdvanceType DEF TypeOK
<1>4. StepInv(t)'
  BY <1>2, <1>t, AdvanceType DEF StepInv
<1>5. ShownInv(t)'
  <2>1. SeenInv(t)'
    BY <1>1, <1>t, AddsSeen
  <2>2. \A record : Shown(t, record) /\ record.member # Record(t).member => Shown(t, record)'
    BY <1>1, <1>t, AddsShown
  <2>3. \A record : record = Record(t) => Shown(t, record)'
    BY <1>1, <1>t, <2>1, AddsShowsNew
  <2>4. pos[t] \in 1..Len(input[t])
    BY <1>2, <1>t DEF StepInv
  <2>5. input' = input /\ pos'[t] = pos[t] + 1
    BY <1>1, <1>2, <1>t, AdvanceType DEF Adds
  <2> QED BY <2>2, <2>3, <2>4, <2>5, <1>t, ShownStep
<1> QED BY <1>1, <1>3, <1>4, <1>5

LEMMA TombstoneSteps ==
  ASSUME CoreInv, NEW t \in Txn, NEW k \in gone[t], Tombstone(t, k)
  PROVE  TypeOK' /\ StepInv(t)' /\ ShownInv(t)' /\ \E new : Adds(t, new)
<1>t. TypeOK /\ SeenInv(t) /\ StepInv(t) /\ LockInv(t) /\ ShownInv(t)
  BY DEF CoreInv
<1>1. PICK new : Adds(t, new) /\ new.member = k.member
  BY TombstoneAdds
<1>2. /\ pc[t] = "scan" /\ todo[t] = {} /\ pos[t] > Len(input[t])
      /\ k.member \notin Named(t)
      /\ UNCHANGED <<pc, pos, found, todo, input, locks>>
      /\ gone' = [gone EXCEPT ![t] = @ \ {k}]
      /\ closed' = [closed EXCEPT ![t] = @ \union {k}]
  BY <1>t DEF Tombstone, StepInv
<1>3. TypeOK'
  <2>1. gone' \in [Txn -> SUBSET RowKey]
    BY <1>2, <1>t DEF TypeOK
  <2> QED BY <2>1, <1>1, <1>2, <1>t, AddsType DEF TypeOK
<1>4. gone'[t] = gone[t] \ {k} /\ closed'[t] = closed[t] \union {k}
  BY <1>2, <1>t DEF TypeOK
<1>5. Named(t)' = Named(t)
  BY <1>2 DEF Named
<1>6. StepInv(t)'
  BY <1>2, <1>4, <1>5, <1>t DEF StepInv, Key
<1>7. ShownInv(t)'
  <2>1. ASSUME NEW i \in 1..(pos[t] - 1), Shown(t, input[t][i]) PROVE (Shown(t, input[t][i]))'
    <3>1. i \in 1..Len(input[t])
      <4>1. pos[t] \in Nat /\ i <= Len(input[t])
        BY <1>t DEF TypeOK, ShownInv
      <4> QED BY <4>1
    <3>2. input[t][i].member # new.member
      BY <3>1, <1>1, <1>2 DEF Named
    <3>3. \A record : record = input[t][i] => Shown(t, record)'
      BY <2>1, <3>2, <1>1, <1>t, AddsShown
    <3> QED BY <3>3, <1>2 DEF Shown, Sees, IsCurrent, Key
  <2> QED BY <2>1, <1>2, <1>t DEF ShownInv
<1> QED BY <1>1, <1>3, <1>6, <1>7

LEMMA EndSteps ==
  ASSUME CoreInv, NEW t \in Txn, Commit(t) \/ Abort(t)
  PROVE  TypeOK' /\ StepInv(t)' /\ ShownInv(t)'
<1>t. TypeOK
  BY DEF CoreInv
<1>1. Discard(t) /\ input' = input
  BY DEF Commit, Abort
<1>2. /\ todo'[t] = {} /\ gone'[t] = {} /\ pos'[t] = 1
  BY <1>1, <1>t, Discarded
<1>3. pc'[t] \in {"read", "done"} /\ pc' \in [Txn -> {"read", "lock", "apply", "scan", "done"}]
  BY <1>t DEF TypeOK, Commit, Abort
<1>4. table' \in SUBSET MemberRow
  <2>1. CASE Commit(t)
    BY <2>1, <1>t, CommitTable, SeesType, ViewRow
  <2>2. CASE Abort(t)
    BY <2>2, <1>t DEF Abort, TypeOK
  <2> QED BY <2>1, <2>2
<1>5. TypeOK'
  <2>1. /\ locks' \in [Txn -> SUBSET RowKey] /\ closed' \in [Txn -> SUBSET RowKey]
        /\ todo' \in [Txn -> SUBSET RowKey] /\ gone' \in [Txn -> SUBSET RowKey]
    BY <1>1, <1>t DEF TypeOK, Discard
  <2>2. pos' \in [Txn -> Nat \ {0}]
    BY <1>1, <1>t DEF TypeOK, Discard
  <2>3. found' \in [Txn -> RowKey \union {NoRow}] /\ added' \in [Txn -> SUBSET MemberRow]
    BY <1>1, <1>t DEF TypeOK, Discard
  <2> QED BY <1>1, <1>3, <1>4, <1>t, <2>1, <2>2, <2>3 DEF TypeOK
<1>6. StepInv(t)'
  BY <1>2, <1>3 DEF StepInv
<1>7. ShownInv(t)'
  BY <1>2 DEF ShownInv
<1> QED BY <1>5, <1>6, <1>7

LEMMA AbortKeeps ==
  ASSUME CoreInv, NEW t \in Txn, Abort(t), NEW o \in Txn
  PROVE  ContiguousVersions' /\ SeenInv(o)' /\ LockInv(o)' /\ ChangeInv(o)'
<1>t. /\ TypeOK /\ ContiguousVersions /\ SeenInv(o) /\ LockInv(o) /\ ChangeInv(o)
  BY DEF CoreInv
<1>1. /\ locks'[t] = {} /\ closed'[t] = {} /\ added'[t] = {}
      /\ \A x \in Txn \ {t} : locks'[x] = locks[x] /\ closed'[x] = closed[x] /\ added'[x] = added[x]
      /\ table' = table
  BY <1>t, Discarded DEF Abort
<1>c. ContiguousVersions'
  BY <1>1, <1>t DEF ContiguousVersions, Key
<1>2. CASE o = t
  <2>1. SeenInv(t)'
    BY <1>1, <1>c, SeenTableNext
  <2> QED BY <1>1, <1>2, <1>c, <2>1 DEF LockInv, ChangeInv
<1>3. CASE o # t
  <2>1. /\ locks'[o] = locks[o] /\ closed'[o] = closed[o] /\ added'[o] = added[o]
        /\ \A x \in Txn : locks'[x] \subseteq locks[x] /\ added'[x] \subseteq added[x]
    BY <1>1, <1>3
  <2>2. SeenInv(o)'
    BY <2>1, <1>1, <1>t DEF SeenInv, Sees, IsCurrent, Key
  <2>3. LockInv(o)'
    <3>1. \A x \in Txn \ {o} : locks'[o] \intersect locks'[x] = {}
      BY <2>1, <1>t DEF LockInv
    <3>2. \A k \in locks[o] : \E r \in Sees(o)' : Key(r) = k /\ r.current
      BY <2>1, <1>1, <1>t DEF LockInv, Sees
    <3> QED BY <3>1, <3>2, <2>1, <1>t DEF LockInv, Key
  <2>4. ChangeInv(o)'
    BY <2>1, <1>1, <1>t DEF ChangeInv, Key
  <2> QED BY <1>c, <2>2, <2>3, <2>4
<1> QED BY <1>2, <1>3

(***************************************************************************)
(* The invariant                                                           *)
(***************************************************************************)
LEMMA Whole ==
  ASSUME NEW T \in SUBSET MemberRow,
         \A m \in Member : {r \in T : r.member = m} \in History(m)
  PROVE  \A r \in T :
           /\ r.version > 1 => \E o \in T : o.member = r.member /\ o.version = r.version - 1
           /\ \A o \in T : Key(o) = Key(r) => o = r
           /\ r.current <=> \A o \in T : o.member = r.member => o.version <= r.version
<1> TAKE r \in T
<1> DEFINE m == r.member
           H == {o \in T : o.member = m}
<1>0. m \in Member /\ r \in H /\ H \in History(m)
  BY DEF MemberRow
<1>1. CASE \E p \in Payload : H = {NewRow(m, 1, p, "NEW")}
  <2>1. PICK p \in Payload : H = {NewRow(m, 1, p, "NEW")}
    BY <1>1
  <2>2. r = NewRow(m, 1, p, "NEW")
    BY <1>0, <2>1
  <2>3. r.version = 1 /\ r.current
    BY <2>2 DEF NewRow
  <2>4. \A o \in T : o.member = m => o = r
    BY <2>1, <2>2
  <2> QED BY <2>3, <2>4, SameKey
<1>2. CASE \E p \in Payload : H = {[NewRow(m, 1, p, "NEW") EXCEPT !.current = FALSE],
                                   NewRow(m, 2, p, "DELETED")}
  <2>1. PICK p \in Payload : H = {[NewRow(m, 1, p, "NEW") EXCEPT !.current = FALSE],
                                  NewRow(m, 2, p, "DELETED")}
    BY <1>2
  <2> DEFINE a == [NewRow(m, 1, p, "NEW") EXCEPT !.current = FALSE]
             b == NewRow(m, 2, p, "DELETED")
  <2>2. a.version = 1 /\ ~a.current /\ b.version = 2 /\ b.current /\ a.member = m /\ b.member = m
    BY DEF NewRow
  <2>3. a \in T /\ b \in T /\ (\A o \in T : o.member = m => o = a \/ o = b) /\ (r = a \/ r = b)
    BY <1>0, <2>1
  <2> HIDE DEF a, b, m
  <2>4. \A o \in T : Key(o) = Key(r) => o.member = m /\ o.version = r.version
    BY SameKey DEF m
  <2>5. CASE r = a
    <3>1. \A o \in T : Key(o) = Key(r) => o = r
      BY <2>2, <2>3, <2>4, <2>5
    <3>2. ~(\A o \in T : o.member = r.member => o.version <= r.version)
      BY <2>2, <2>3, <2>5
    <3> QED BY <3>1, <3>2, <2>2, <2>5
  <2>6. CASE r = b
    <3>1. \A o \in T : Key(o) = Key(r) => o = r
      BY <2>2, <2>3, <2>4, <2>6
    <3>2. \A o \in T : o.member = r.member => o.version <= r.version
      BY <2>2, <2>3, <2>6
    <3>3. \E o \in T : o.member = r.member /\ o.version = r.version - 1
      BY <2>2, <2>3, <2>6
    <3> QED BY <3>1, <3>2, <3>3, <2>2, <2>6
  <2> QED BY <2>3, <2>5, <2>6
<1> QED BY <1>0, <1>1, <1>2 DEF History

LEMMA HistoryRows ==
  ASSUME NEW m \in Member, NEW H \in History(m)
  PROVE  H \in SUBSET MemberRow /\ \A r \in H : r.member = m
<1>1. ASSUME NEW p \in Payload
      PROVE  /\ NewRow(m, 1, p, "NEW") \in MemberRow /\ NewRow(m, 1, p, "NEW").member = m
             /\ NewRow(m, 2, p, "DELETED") \in MemberRow /\ NewRow(m, 2, p, "DELETED").member = m
  BY NewRowType
<1>2. ASSUME NEW p \in Payload
      PROVE  /\ [NewRow(m, 1, p, "NEW") EXCEPT !.current = FALSE] \in MemberRow
             /\ [NewRow(m, 1, p, "NEW") EXCEPT !.current = FALSE].member = m
  <2>1. NewRow(m, 1, p, "NEW") \in MemberRow
    BY <1>1
  <2>2. \A r \in MemberRow : [r EXCEPT !.current = FALSE] \in MemberRow
                           /\ [r EXCEPT !.current = FALSE].member = r.member
    BY DEF MemberRow
  <2> QED BY <1>1, <2>1, <2>2
<1>3. \/ H = {}
      \/ \E p \in Payload : H = {NewRow(m, 1, p, "NEW")}
      \/ \E p \in Payload : H = {[NewRow(m, 1, p, "NEW") EXCEPT !.current = FALSE],
                                 NewRow(m, 2, p, "DELETED")}
  BY DEF History
<1> QED BY <1>1, <1>2, <1>3

LEMMA CoreInit ==
  ASSUME Init
  PROVE  CoreInv
<1>1. PICK h \in [Member -> UNION {History(m) : m \in Member}] :
        /\ \A m \in Member : h[m] \in History(m)
        /\ table = UNION {h[m] : m \in Member}
  BY DEF Init
<1>0. \A m \in Member : h[m] \in SUBSET MemberRow /\ \A r \in h[m] : r.member = m
  BY <1>1, HistoryRows
<1>r. \A r : r \in table <=> \E m \in Member : r \in h[m]
  BY <1>1
<1>2. table \in SUBSET MemberRow
  BY <1>0, <1>r
<1>3. ASSUME NEW m \in Member PROVE {r \in table : r.member = m} = h[m]
  BY <1>0, <1>r
<1>4. ContiguousVersions
  <2>1. \A m \in Member : {r \in table : r.member = m} \in History(m)
    BY <1>1, <1>3
  <2>2. \A r \in table :
          /\ r.version > 1 => \E o \in table : o.member = r.member /\ o.version = r.version - 1
          /\ \A o \in table : Key(o) = Key(r) => o = r
          /\ r.current <=> \A o \in table : o.member = r.member => o.version <= r.version
    BY <1>2, <2>1, Whole
  <2> QED BY <2>2 DEF ContiguousVersions
<1>5. input \in [Txn -> Seq([member : Member, payload : Payload])]
  <2> DEFINE S == [member : Member, payload : Payload]
  <2>1. ASSUME NEW n \in Nat, NEW f \in [1..n -> S] PROVE f \in Seq(S)
    <3> HIDE DEF S
    <3> QED OBVIOUS
  <2>2. input \in [Txn -> UNION {[1..n -> S] : n \in 1..MaxInput}]
    BY DEF Init
  <2>3. UNION {[1..n -> S] : n \in 1..MaxInput} \subseteq Seq(S)
    <3> HIDE DEF S
    <3>1. \A n \in 1..MaxInput : n \in Nat
      BY InputAssumption
    <3> QED BY <2>1, <3>1
  <2> HIDE DEF S
  <2> QED BY <2>2, <2>3 DEF S
<1>6. TypeOK
  <2>1. /\ locks \in [Txn -> SUBSET RowKey] /\ closed \in [Txn -> SUBSET RowKey]
        /\ todo \in [Txn -> SUBSET RowKey] /\ gone \in [Txn -> SUBSET RowKey]
        /\ added \in [Txn -> SUBSET MemberRow]
    BY DEF Init
  <2>2. /\ pos \in [Txn -> Nat \ {0}] /\ found \in [Txn -> RowKey \union {NoRow}]
        /\ pc \in [Txn -> {"read", "lock", "apply", "scan", "done"}]
    BY DEF Init
  <2> QED BY <1>2, <1>5, <2>1, <2>2 DEF TypeOK
<1>7. ASSUME NEW t \in Txn PROVE SeenInv(t) /\ LockInv(t) /\ ChangeInv(t) /\ StepInv(t) /\ ShownInv(t)
  <2>1. /\ locks = [o \in Txn |-> {}] /\ closed[t] = {} /\ added[t] = {}
        /\ todo[t] = {} /\ gone[t] = {} /\ pos[t] = 1 /\ pc[t] = "read"
    BY DEF Init
  <2>2. SeenInv(t)
    BY <2>1, <1>4, SeenTable
  <2>3. LockInv(t) /\ ChangeInv(t) /\ StepInv(t) /\ ShownInv(t)
    BY <2>1 DEF LockInv, ChangeInv, StepInv, ShownInv
  <2> QED BY <2>2, <2>3
<1> QED BY <1>4, <1>6, <1>7 DEF CoreInv

\* A step that only reads or locks.
LEMMA QuietInv ==
  ASSUME CoreInv, NEW t \in Txn, Step(t), Quiet, TypeOK', StepInv(t)', ShownInv(t)',
         \E keys : Locks(t, keys)
  PROVE  CoreInv'
<1>t. TypeOK /\ ContiguousVersions
      /\ \A o \in Txn : SeenInv(o) /\ LockInv(o) /\ ChangeInv(o) /\ StepInv(o) /\ ShownInv(o)
  BY DEF CoreInv
<1>1. \A o \in Txn : LockInv(o)'
  BY <1>t, LocksKeep
<1>2. ASSUME NEW o \in Txn PROVE StepInv(o)' /\ ShownInv(o)'
  <2>1. CASE o # t
    <3>1. Apart(t, o)
      BY <2>1, <1>t, StepApart
    <3>2. table' = table
      BY DEF Quiet
    <3> QED BY <2>1, <3>1, <3>2, <1>t, OthersKeep
  <2> QED BY <2>1
<1>3. \A o \in Txn : SeenInv(o)' /\ ChangeInv(o)'
  BY <1>t, QuietKeeps
<1>4. ContiguousVersions'
  BY <1>t DEF ContiguousVersions, Quiet, Key
<1> QED BY <1>1, <1>2, <1>3, <1>4 DEF CoreInv

\* A step that adds a row.
LEMMA AddsInv ==
  ASSUME CoreInv, NEW t \in Txn, Step(t), TypeOK', StepInv(t)', ShownInv(t)',
         \E new : Adds(t, new)
  PROVE  CoreInv'
<1>t. TypeOK /\ ContiguousVersions /\ \A o \in Txn : StepInv(o) /\ ShownInv(o)
  BY DEF CoreInv
<1>1. PICK new : Adds(t, new)
  OBVIOUS
<1>2. table' = table
  BY <1>1 DEF Adds
<1>3. \A o \in Txn : SeenInv(o)' /\ LockInv(o)' /\ ChangeInv(o)'
  BY <1>1, AddsLock, AddsChange
<1>4. ASSUME NEW o \in Txn PROVE StepInv(o)' /\ ShownInv(o)'
  <2>1. CASE o # t
    <3>1. Apart(t, o)
      BY <2>1, <1>t, StepApart
    <3> QED BY <2>1, <3>1, <1>2, <1>t, OthersKeep
  <2> QED BY <2>1
<1>5. ContiguousVersions'
  BY <1>2, <1>t DEF ContiguousVersions, Key
<1> QED BY <1>3, <1>4, <1>5 DEF CoreInv

LEMMA CommitInv ==
  ASSUME CoreInv, NEW t \in Txn, Commit(t)
  PROVE  CoreInv'
<1>t. TypeOK /\ \A o \in Txn : StepInv(o) /\ ShownInv(o)
  BY DEF CoreInv
<1>1. TypeOK' /\ StepInv(t)' /\ ShownInv(t)' /\ ContiguousVersions'
  BY EndSteps, CommitContiguous
<1>2. \A o \in Txn : SeenInv(o)' /\ LockInv(o)' /\ ChangeInv(o)'
  BY CommitSeen, CommitLock
<1>3. ASSUME NEW o \in Txn PROVE StepInv(o)' /\ ShownInv(o)'
  <2>1. CASE o # t
    <3>1. Apart(t, o)
      BY <2>1, <1>t, StepApart DEF Step
    <3>2. /\ \A r \in table : Key(r) \in locks[o] => r \in table'
          /\ \A r \in table : \E v \in table' : Key(v) = Key(r)
      BY <2>1, CommitOthers
    <3> QED BY <2>1, <3>1, <3>2, <1>t, OthersKeep
  <2> QED BY <2>1, <1>1
<1> QED BY <1>1, <1>2, <1>3 DEF CoreInv

LEMMA AbortInv ==
  ASSUME CoreInv, NEW t \in Txn, Abort(t)
  PROVE  CoreInv'
<1>t. TypeOK /\ ContiguousVersions /\ \A o \in Txn : StepInv(o) /\ ShownInv(o)
  BY DEF CoreInv
<1>1. TypeOK' /\ StepInv(t)' /\ ShownInv(t)'
  BY EndSteps
<1>2. \A o \in Txn : ContiguousVersions' /\ SeenInv(o)' /\ LockInv(o)' /\ ChangeInv(o)'
  BY AbortKeeps
<1>3. ASSUME NEW o \in Txn PROVE StepInv(o)' /\ ShownInv(o)'
  <2>1. CASE o # t
    <3>1. Apart(t, o)
      BY <2>1, <1>t, StepApart DEF Step
    <3>2. table' = table
      BY DEF Abort
    <3> QED BY <2>1, <3>1, <3>2, <1>t, OthersKeep
  <2> QED BY <2>1, <1>1
<1> QED BY <1>1, <1>2, <1>3 DEF CoreInv

LEMMA CoreStep ==
  ASSUME CoreInv, [Next]_vars
  PROVE  CoreInv'
<1>1. CASE UNCHANGED vars
  <2>1. TypeOK' /\ ContiguousVersions'
    BY <1>1 DEF CoreInv, vars, TypeOK, ContiguousVersions, Key
  <2>2. ASSUME NEW t \in Txn
        PROVE  SeenInv(t)' /\ LockInv(t)' /\ ChangeInv(t)' /\ StepInv(t)' /\ ShownInv(t)'
    <3>0. SeenInv(t) /\ LockInv(t) /\ ChangeInv(t) /\ StepInv(t) /\ ShownInv(t)
      BY DEF CoreInv
    <3>1. SeenInv(t)' /\ LockInv(t)' /\ ChangeInv(t)'
      BY <1>1, <3>0 DEF vars, SeenInv, LockInv, ChangeInv, Sees, IsCurrent, Key
    <3>2. StepInv(t)'
      BY <1>1, <3>0 DEF vars, StepInv, Sees, Key, Record, Named
    <3>3. ShownInv(t)'
      BY <1>1, <3>0 DEF vars, ShownInv, Shown, Sees, IsCurrent, Key
    <3> QED BY <3>1, <3>2, <3>3
  <2> QED BY <2>1, <2>2 DEF CoreInv
<1>2. ASSUME NEW t \in Txn, Step(t) PROVE CoreInv'
  <2>t. TypeOK
    BY DEF CoreInv
  <2>0. ASSUME locks' = locks PROVE \E keys : Locks(t, keys)
    <3>1. Locks(t, {})
      BY <2>0, <2>t DEF Locks, TypeOK
    <3> QED BY <3>1
  <2>1. CASE Read(t)
    BY <1>2, <2>0, <2>1, ReadSteps, QuietInv
  <2>2. CASE LockRow(t)
    BY <1>2, <2>2, LockRowSteps, QuietInv
  <2>3. CASE Skip(t)
    BY <1>2, <2>0, <2>3, SkipSteps, QuietInv
  <2>4. CASE InsertNew(t) \/ Update(t)
    BY <1>2, <2>4, ApplySteps, AddsInv
  <2>5. CASE Scan(t)
    BY <1>2, <2>0, <2>5, ScanSteps, QuietInv
  <2>6. ASSUME NEW k \in todo[t], LockMissing(t, k) PROVE CoreInv'
    BY <1>2, <2>6, LockMissingSteps, QuietInv
  <2>7. ASSUME NEW k \in gone[t], Tombstone(t, k) PROVE CoreInv'
    BY <1>2, <2>7, TombstoneSteps, AddsInv
  <2>8. CASE Commit(t)
    BY <2>8, CommitInv
  <2>9. CASE Abort(t)
    BY <2>9, AbortInv
  <2> QED BY <1>2, <2>1, <2>2, <2>3, <2>4, <2>5, <2>6, <2>7, <2>8, <2>9 DEF Step
<1> QED BY <1>1, <1>2 DEF Next

\* What the transactions know and hold is consistent: the invariant on which the
\* history of a member rests, for any number of processes normalizing at once.
THEOREM CoreInductive == Spec => []CoreInv
<1>1. Init => CoreInv
  BY CoreInit
<1>2. CoreInv /\ [Next]_vars => CoreInv'
  BY CoreStep
<1> QED BY <1>1, <1>2, PTL DEF Spec

\* The versions of a member stay 1, 2, 3, ... with the highest current, however
\* many processes normalize files of the list at once without the job lock.
THEOREM VersionsStayContiguous == Spec => []ContiguousVersions
<1>1. CoreInv => ContiguousVersions
  BY DEF CoreInv
<1> QED BY <1>1, CoreInductive, PTL

\* The last record of a member is the one behind which no other names it.
LEMMA LastRecordIs ==
  ASSUME TypeOK, NEW t \in Txn, NEW m \in Named(t)
  PROVE  \E i \in 1..Len(input[t]) :
           /\ input[t][i].member = m /\ input[t][i].payload = LastRecord(t, m)
           /\ \A j \in 1..Len(input[t]) : input[t][j].member = m => j <= i
<1> DEFINE I == {i \in 1..Len(input[t]) : input[t][i].member = m}
<1>1. Len(input[t]) \in Nat
  BY DEF TypeOK
<1>2. I \in SUBSET Nat /\ I # {} /\ \A i \in I : i <= Len(input[t])
  BY <1>1 DEF Named
<1>3. PICK i \in I : \A j \in I : j <= i
  <2> HIDE DEF I
  <2> QED BY <1>1, <1>2, GreatestNatural
<1> DEFINE Last(x) == /\ input[t][x].member = m
                      /\ \A j \in 1..Len(input[t]) : input[t][j].member = m => j <= x
           l == CHOOSE x \in 1..Len(input[t]) : Last(x)
<1>4. l \in 1..Len(input[t]) /\ Last(l)
  <2>1. i \in 1..Len(input[t]) /\ Last(i)
    BY <1>3
  <2> HIDE DEF Last
  <2> QED BY <2>1
<1>5. LastRecord(t, m) = input[t][l].payload
  BY DEF LastRecord
<1> QED BY <1>4, <1>5

\* A commit publishes what the file says last of every member that it names.
THEOREM CommitIsWhatTheFileSays == Spec => CommitPublishesFile
<1>1. ASSUME CoreInv, NEW t \in Txn, Commit(t), NEW m \in Named(t)
      PROVE  \E r \in table' : /\ r.member = m /\ r.current
                               /\ r.type # "DELETED" /\ r.payload = LastRecord(t, m)
  <2>t. TypeOK /\ StepInv(t) /\ ShownInv(t)
    BY <1>1 DEF CoreInv
  <2>1. PICK i \in 1..Len(input[t]) :
          /\ input[t][i].member = m /\ input[t][i].payload = LastRecord(t, m)
          /\ \A j \in 1..Len(input[t]) : input[t][j].member = m => j <= i
    BY <2>t, LastRecordIs
  <2>2. pos[t] > Len(input[t]) /\ pos[t] \in Nat /\ Len(input[t]) \in Nat
    BY <1>1, <2>t DEF Commit, StepInv, TypeOK
  <2>3. i \in 1..(pos[t] - 1) /\ \A j \in (i + 1)..(pos[t] - 1) : j <= Len(input[t])
    <3>1. \A j \in 1..(pos[t] - 1) : j <= Len(input[t])
      BY <2>t DEF ShownInv
    <3> QED BY <3>1, <2>2
  <2>4. \A j \in (i + 1)..(pos[t] - 1) : input[t][j].member # input[t][i].member
    BY <2>1, <2>2, <2>3
  <2>5. Shown(t, input[t][i])
    BY <2>3, <2>4, <2>t DEF ShownInv
  <2>6. PICK r \in Sees(t) : /\ r.member = m /\ r.payload = LastRecord(t, m)
                             /\ r.type # "DELETED" /\ IsCurrent(t, r)
    BY <2>1, <2>5 DEF Shown
  <2>7. View(t, r) \in table'
    BY <1>1, CommitTable
  <2> QED BY <2>6, <2>7, <2>t, SeesType, ViewRow
<1>2. CoreInv /\ [Next]_vars =>
        [\A t \in Txn : Commit(t) =>
           \A m \in Named(t) : \E r \in table' :
             /\ r.member = m /\ r.current
             /\ r.type # "DELETED" /\ r.payload = LastRecord(t, m)]_vars
  BY <1>1
<1> QED BY <1>2, CoreInductive, PTL DEF Spec, CommitPublishesFile

(***************************************************************************)
(* What a transaction does alone                                           *)
(***************************************************************************)
RawRows == [member : Member, payload : Payload]

\* The rows that a record may replace.
Old(rows, rec) == {r \in rows : r.member = rec.member /\ r.current}

LEMMA ClosedType ==
  ASSUME NEW rows \in SUBSET MemberRow, NEW some
  PROVE  Closed(rows, some) \in SUBSET MemberRow
<1>1. ASSUME NEW r \in rows PROVE [r EXCEPT !.current = FALSE] \in MemberRow /\ r \in MemberRow
  BY DEF MemberRow
<1> QED BY <1>1 DEF Closed

LEMMA NothingCloses ==
  ASSUME NEW rows
  PROVE  Closed(rows, {}) = rows
BY DEF Closed

\* A record is new, says nothing new, or replaces the current row.
LEMMA AppliedNew ==
  ASSUME NEW rows, NEW rec, Old(rows, rec) = {}
  PROVE  Applied(rows, rec) = rows \union {NewRow(rec.member, 1, rec.payload, "NEW")}
<1>1. Applied(rows, rec) = Closed(rows, {}) \union {} \union {NewRow(rec.member, 1, rec.payload, "NEW")}
  BY DEF Applied, Old
<1> QED BY <1>1, NothingCloses

LEMMA AppliedSame ==
  ASSUME NEW rows, NEW rec, NEW r, Old(rows, rec) = {r},
         r.type # "DELETED", r.payload = rec.payload
  PROVE  Applied(rows, rec) = rows
<1>1. {q \in Old(rows, rec) : q.type = "DELETED" \/ q.payload # rec.payload} = {}
  OBVIOUS
<1>2. Applied(rows, rec) = Closed(rows, {}) \union {} \union {}
  BY <1>1 DEF Applied, Old
<1> QED BY <1>2, NothingCloses

LEMMA AppliedOther ==
  ASSUME NEW rows, NEW rec, NEW r, Old(rows, rec) = {r},
         r.type = "DELETED" \/ r.payload # rec.payload
  PROVE  Applied(rows, rec) =
           Closed(rows, {r}) \union {NewRow(r.member, r.version + 1, rec.payload, "UPDATED")}
<1>1. {q \in Old(rows, rec) : q.type = "DELETED" \/ q.payload # rec.payload} = {r}
  OBVIOUS
<1>2. Applied(rows, rec) = Closed(rows, {r})
        \union {NewRow(q.member, q.version + 1, rec.payload, "UPDATED") : q \in {r}} \union {}
  BY <1>1 DEF Applied, Old
<1> QED BY <1>2

LEMMA AppliedType ==
  ASSUME NEW rows \in SUBSET MemberRow, NEW rec \in RawRows
  PROVE  Applied(rows, rec) \in SUBSET MemberRow
<1> DEFINE stale == {r \in Old(rows, rec) : r.type = "DELETED" \/ r.payload # rec.payload}
<1>1. rec.member \in Member /\ rec.payload \in Payload
  BY DEF RawRows
<1>2. Closed(rows, stale) \in SUBSET MemberRow
  BY ClosedType
<1>3. ASSUME NEW r \in stale
      PROVE  NewRow(r.member, r.version + 1, rec.payload, "UPDATED") \in MemberRow
  <2>1. r.member \in Member /\ r.version + 1 \in Nat \ {0}
    BY DEF Old, MemberRow
  <2> QED BY <1>1, <2>1, NewRowType
<1>4. NewRow(rec.member, 1, rec.payload, "NEW") \in MemberRow
  BY <1>1 DEF NewRow, MemberRow
<1> HIDE DEF stale
<1>5. Applied(rows, rec) \subseteq Closed(rows, stale)
        \union {NewRow(r.member, r.version + 1, rec.payload, "UPDATED") : r \in stale}
        \union {NewRow(rec.member, 1, rec.payload, "NEW")}
  BY DEF Applied, Old, stale
<1> QED BY <1>2, <1>3, <1>4, <1>5

\* The rows after each raw record exist and follow from those before it.
LEMMA UpsertedIs ==
  ASSUME NEW rows \in SUBSET MemberRow, NEW in \in Seq(RawRows)
  PROVE  /\ Upserted(rows, in, 0) = rows
         /\ \A i \in 1..Len(in) : Upserted(rows, in, i) = Applied(Upserted(rows, in, i - 1), in[i])
<1> DEFINE n == Len(in)
           step == [i \in 1..n |-> [q \in SUBSET MemberRow |-> Applied(q, in[i])]]
<1>1. n \in Nat /\ \A i \in 1..n : in[i] \in RawRows
  OBVIOUS
<1> HIDE DEF n
<1>2. step \in StepMaps(SUBSET MemberRow, n)
  BY <1>1, AppliedType DEF StepMaps
<1>3. \A i \in 1..n : \A q \in SUBSET MemberRow : step[i][q] = Applied(q, in[i])
  OBVIOUS
<1> HIDE DEF step
<1>4. PICK f : f \in PassMaps(SUBSET MemberRow, n, rows, step)
  BY <1>1, <1>2, PassExists
<1>5. /\ f \in [0..n -> SUBSET MemberRow] /\ f[0] = rows
      /\ \A i \in 1..n : f[i] = step[i][f[i - 1]]
  BY <1>4 DEF PassMaps
<1>6. \A i \in 1..n : f[i] = Applied(f[i - 1], in[i])
  <2> TAKE i \in 1..n
  <2>1. f[i - 1] \in SUBSET MemberRow
    BY <1>1, <1>5
  <2> QED BY <2>1, <1>3, <1>5
<1> DEFINE IsPass(h) == h = [i \in 0..n |-> IF i = 0 THEN rows ELSE Applied(h[i - 1], in[i])]
           h0 == CHOOSE h : IsPass(h)
<1>7. IsPass(f)
  <2>1. \A i \in 0..n : f[i] = IF i = 0 THEN rows ELSE Applied(f[i - 1], in[i])
    BY <1>1, <1>5, <1>6
  <2> QED BY <1>5, <2>1
<1>8. IsPass(h0)
  BY <1>7
<1>9. \A i : Upserted(rows, in, i) = h0[i]
  BY DEF Upserted, n
<1> HIDE DEF h0
<1>10. h0[0] = rows /\ \A i \in 1..n : h0[i] = Applied(h0[i - 1], in[i])
  BY <1>1, <1>8
<1> HIDE DEF IsPass
<1> QED BY <1>9, <1>10 DEF n

\* A row seen by a transaction that has closed the given keys.
SeenAs(c, r) == [r EXCEPT !.current = @ /\ Key(r) \notin c]

LEMMA SeenAsIs ==
  ASSUME NEW r \in MemberRow, NEW c
  PROVE  /\ SeenAs(c, r) \in MemberRow /\ Key(SeenAs(c, r)) = Key(r)
         /\ SeenAs(c, r).current <=> r.current /\ Key(r) \notin c
         /\ SeenAs(c, r).type = r.type /\ SeenAs(c, r).payload = r.payload
         /\ SeenAs(c, r).member = r.member /\ SeenAs(c, r).version = r.version
BY DEF SeenAs, MemberRow, Key

LEMMA VisibleAs ==
  ASSUME NEW t \in Txn
  PROVE  /\ Visible(t) = {SeenAs(closed[t], r) : r \in Sees(t)}
         /\ Visible(t)' = {SeenAs(closed'[t], r) : r \in Sees(t)'}
BY DEF Visible, SeenAs, Sees, Key

\* A row that is not closed is seen as it is, one that is closed as its closed
\* form.
LEMMA SeenAsOpen ==
  ASSUME NEW r \in MemberRow, NEW c, Key(r) \notin c
  PROVE  SeenAs(c, r) = r
BY DEF SeenAs, MemberRow

LEMMA SeenAsClosed ==
  ASSUME NEW r \in MemberRow, NEW c, NEW d, Key(r) \in d
  PROVE  SeenAs(d, r) = [SeenAs(c, r) EXCEPT !.current = FALSE]
BY DEF SeenAs, MemberRow

LEMMA SeenAsSame ==
  ASSUME NEW r, NEW c, NEW d, Key(r) \in c <=> Key(r) \in d
  PROVE  SeenAs(c, r) = SeenAs(d, r)
<1>1. (r.current /\ Key(r) \notin c) = (r.current /\ Key(r) \notin d)
  OBVIOUS
<1> QED BY <1>1 DEF SeenAs

\* What t sees has one row of a key and one current row of a member.
LEMMA VisibleRow ==
  ASSUME TypeOK, NEW t \in Txn, SeenInv(t)
  PROVE  /\ Visible(t) \in SUBSET MemberRow
         /\ \A v, w \in Visible(t) : Key(v) = Key(w) => v = w
         /\ \A v, w \in Visible(t) : v.current /\ w.current /\ v.member = w.member => v = w
         /\ \A v \in Visible(t) : RowOf(t, Key(v)) = v
<1>1. ASSUME NEW v \in Visible(t)
      PROVE  \E r \in Sees(t) : /\ r \in MemberRow /\ v = View(t, r) /\ v \in MemberRow
                                /\ Key(v) = Key(r) /\ v.member = r.member
                                /\ r.version \in Nat /\ (v.current <=> IsCurrent(t, r))
  <2>1. PICK r \in Sees(t) : v = View(t, r)
    BY VisibleRows
  <2>2. r \in MemberRow /\ r.version \in Nat
    BY SeesType DEF MemberRow
  <2> QED BY <2>1, <2>2, ViewRow
<1>2. ASSUME NEW v \in Visible(t), NEW w \in Visible(t), Key(v) = Key(w) PROVE v = w
  <2>1. PICK r \in Sees(t) : v = View(t, r) /\ Key(v) = Key(r)
    BY <1>1
  <2>2. PICK q \in Sees(t) : w = View(t, q) /\ Key(w) = Key(q)
    BY <1>1
  <2>3. r = q
    BY <1>2, <2>1, <2>2 DEF SeenInv
  <2> QED BY <2>1, <2>2, <2>3
<1>3. ASSUME NEW v \in Visible(t), NEW w \in Visible(t), v.current, w.current,
             v.member = w.member
      PROVE  v = w
  <2>1. PICK r \in Sees(t) : /\ v = View(t, r) /\ v.member = r.member /\ r.version \in Nat
                             /\ IsCurrent(t, r)
    BY <1>1, <1>3
  <2>2. PICK q \in Sees(t) : /\ w = View(t, q) /\ w.member = q.member /\ q.version \in Nat
                             /\ IsCurrent(t, q)
    BY <1>1, <1>3
  <2>3. r.version <= q.version /\ q.version <= r.version
    BY <1>3, <2>1, <2>2 DEF SeenInv
  <2>4. Key(r) = Key(q)
    BY <1>3, <2>1, <2>2, <2>3, SameKey
  <2>5. r = q
    BY <2>4 DEF SeenInv
  <2> QED BY <2>1, <2>2, <2>5
<1>4. ASSUME NEW v \in Visible(t) PROVE RowOf(t, Key(v)) = v
  <2>1. \A w \in Visible(t) : Key(w) = Key(v) => w = v
    BY <1>2
  <2> QED BY <2>1 DEF RowOf
<1>5. Visible(t) \in SUBSET MemberRow
  BY <1>1
<1> QED BY <1>2, <1>3, <1>4, <1>5

\* What t sees once it has opened the history of a member.
LEMMA VisibleOpens ==
  ASSUME TypeOK, NEW t \in Txn, SeenInv(t), LockInv(t), NEW new, Adds(t, new), Opens(t, new)
  PROVE  Visible(t)' = Visible(t) \union {new}
<1>1. Sees(t)' = Sees(t) \union {new} /\ new \in MemberRow
  BY AddsSees DEF Adds
<1>2. closed' = closed /\ \A r \in Sees(t) : r.member # new.member
  BY DEF Opens
<1>3. Key(new) \notin closed[t]
  <2>1. \A k \in closed[t] : \E r \in Sees(t) : Key(r) = k
    BY DEF LockInv
  <2> QED BY <2>1, <1>2, SameKey
<1>4. SeenAs(closed[t], new) = new
  BY <1>1, <1>3, SeenAsOpen
<1>5. Visible(t)' = {SeenAs(closed[t], r) : r \in Sees(t) \union {new}}
  BY <1>1, <1>2, VisibleAs
<1> QED BY <1>4, <1>5, VisibleAs

\* What t sees once it has closed a row and added its successor.
LEMMA VisibleNext ==
  ASSUME TypeOK, NEW t \in Txn, SeenInv(t), LockInv(t), NEW new, Adds(t, new),
         NEW k \in RowKey, Next1(t, k, new)
  PROVE  \E r \in Visible(t) : /\ Key(r) = k /\ r.current /\ r.member = k.member
                               /\ r.version = k.version /\ RowOf(t, k) = r
                               /\ Visible(t)' = Closed(Visible(t), {r}) \union {new}
<1>1. Sees(t)' = Sees(t) \union {new} /\ new \in MemberRow /\ Sees(t) \in SUBSET MemberRow
  BY AddsSees, SeesType DEF Adds
<1>2. PICK q \in Sees(t) : /\ Key(q) = k /\ IsCurrent(t, q)
                           /\ \A o \in Sees(t) : o.member = q.member => o.version <= q.version
  BY LockedIsCurrent DEF Next1
<1>3. q \in MemberRow /\ q.version \in Nat /\ q.member = k.member /\ q.version = k.version
  BY <1>1, <1>2, KeyType DEF MemberRow
<1> DEFINE r == SeenAs(closed[t], q)
<1>4. /\ r \in Visible(t) /\ Key(r) = k /\ r.current /\ r.member = k.member
      /\ r.version = k.version
  BY <1>2, <1>3, SeenAsIs, VisibleAs DEF IsCurrent
<1>5. closed'[t] = closed[t] \union {k}
  BY DEF Next1, TypeOK
<1>6. Key(new) \notin closed'[t]
  <2>1. \A x \in closed[t] : \E o \in Sees(t) : Key(o) = x
    BY DEF LockInv
  <2>2. new.member = q.member /\ new.version = q.version + 1
    BY <1>3 DEF Next1
  <2>3. \A o \in Sees(t) : Key(o) # Key(new)
    <3>1. \A o \in Sees(t) : o.version \in Nat
      BY <1>1 DEF MemberRow
    <3> QED BY <3>1, <1>2, <1>3, <2>2, SameKey
  <2> QED BY <2>1, <2>3, <1>2, <1>5
<1>7. SeenAs(closed'[t], new) = new
  BY <1>1, <1>6, SeenAsOpen
<1>8. ASSUME NEW o \in Sees(t)
      PROVE  SeenAs(closed'[t], o) =
               IF SeenAs(closed[t], o) \in {r} THEN [SeenAs(closed[t], o) EXCEPT !.current = FALSE]
               ELSE SeenAs(closed[t], o)
  <2>1. CASE o = q
    BY <2>1, <1>2, <1>3, <1>5, SeenAsClosed
  <2>2. CASE o # q
    <3>1. Key(o) # k
      BY <2>2, <1>2 DEF SeenInv
    <3>2. SeenAs(closed[t], o) # r
      BY <3>1, <1>1, <1>4, SeenAsIs
    <3>3. SeenAs(closed'[t], o) = SeenAs(closed[t], o)
      BY <3>1, <1>5, SeenAsSame
    <3> QED BY <3>2, <3>3
  <2> QED BY <2>1, <2>2
<1> HIDE DEF r
<1>9. Visible(t)' = {SeenAs(closed'[t], o) : o \in Sees(t)} \union {new}
  BY <1>1, <1>7, VisibleAs
<1>10. {SeenAs(closed'[t], o) : o \in Sees(t)} = Closed(Visible(t), {r})
  <2>1. ASSUME NEW o \in Sees(t) PROVE SeenAs(closed'[t], o) \in Closed(Visible(t), {r})
    <3>1. SeenAs(closed[t], o) \in Visible(t)
      BY VisibleAs
    <3> QED BY <3>1, <1>8 DEF Closed
  <2>2. ASSUME NEW w \in Closed(Visible(t), {r})
        PROVE  \E o \in Sees(t) : w = SeenAs(closed'[t], o)
    <3>1. PICK v \in Visible(t) : w = IF v \in {r} THEN [v EXCEPT !.current = FALSE] ELSE v
      BY DEF Closed
    <3>2. PICK o \in Sees(t) : v = SeenAs(closed[t], o)
      BY VisibleAs
    <3> QED BY <3>1, <3>2, <1>8
  <2> QED BY <2>1, <2>2
<1>11. RowOf(t, k) = r
  BY <1>4, VisibleRow
<1> QED BY <1>4, <1>9, <1>10, <1>11

LEMMA AllIs ==
  ASSUME TypeOK, NEW t \in Txn
  PROVE  /\ Upserted(table, input[t], 0) = table
         /\ \A i \in 1..Len(input[t]) :
              Upserted(table, input[t], i) = Applied(Upserted(table, input[t], i - 1), input[t][i])
<1>1. table \in SUBSET MemberRow /\ input[t] \in Seq(RawRows)
  BY DEF TypeOK, RawRows
<1> QED BY <1>1, UpsertedIs

\* While another transaction steps and does not commit, all stays as it is.
LEMMA SerialStays ==
  ASSUME NEW t \in Txn, SerialInv(t), table' = table, input' = input,
         pc'[t] = pc[t], pos'[t] = pos[t], found'[t] = found[t], todo'[t] = todo[t],
         gone'[t] = gone[t], closed'[t] = closed[t], added'[t] = added[t],
         \A o \in Txn \ {t} : pc[o] = "done" => pc'[o] = "done"
  PROVE  SerialInv(t)'
<1>1. Visible(t)' = Visible(t)
  BY DEF Visible, Key
<1>2. /\ Record(t)' = Record(t) /\ Owed(t)' = Owed(t)
      /\ \A k : RowOf(t, k)' = RowOf(t, k)
      /\ \A m : CurrentRows(t, m)' = CurrentRows(t, m)
  BY <1>1 DEF Record, Owed, RowOf, CurrentRows, Key
<1>3. \A n : All(t, n)' = All(t, n)
  BY DEF All
<1> QED BY <1>1, <1>2, <1>3 DEF SerialInv, All, Key

\* The reading of a record: nobody has replaced what it finds.
LEMMA SerialRead ==
  ASSUME CoreInv, NEW t \in Txn, SerialInv(t), Read(t)
  PROVE  SerialInv(t)'
<1> SUFFICES ASSUME \A o \in Txn \ {t} : pc'[o] # "done" PROVE SerialInv(t)'
  BY DEF SerialInv
<1>t. TypeOK /\ SeenInv(t)
  BY DEF CoreInv
<1>1. /\ table' = table /\ input' = input /\ pos' = pos /\ closed' = closed /\ added' = added
      /\ pc[t] = "read" /\ \A o \in Txn \ {t} : pc[o] # "done"
  BY <1>t DEF Read, TypeOK
<1>2. Visible(t)' = Visible(t) /\ Record(t)' = Record(t)
  BY <1>1 DEF Visible, Record, Key
<1>3. Visible(t) = Upserted(table, input[t], pos[t] - 1)
  BY <1>1 DEF SerialInv, All
<1> DEFINE rows == CurrentRows(t, Record(t).member)
<1>4. CASE rows = {}
  <2>1. pc'[t] = "apply"
    BY <1>4, <1>t DEF Read, TypeOK
  <2>2. CurrentRows(t, Record(t).member)' = {}
    BY <1>2, <1>4 DEF CurrentRows
  <2> QED BY <2>1, <2>2, <1>1, <1>2, <1>3 DEF SerialInv, All
<1>5. CASE rows # {}
  <2>1. PICK v \in rows : TRUE
    BY <1>5
  <2>2. v \in Visible(t) /\ v.current /\ v \in MemberRow
    BY <2>1, <1>t, VisibleRow DEF CurrentRows
  <2>3. \A o \in rows : o = v
    BY <2>1, <1>t, VisibleRow DEF CurrentRows
  <2>4. Newest(rows) = v
    <3>1. v.version <= v.version
      BY <2>2 DEF MemberRow
    <3> HIDE DEF rows
    <3>2. \E r \in rows : \A o \in rows : o.version <= r.version
      BY <2>1, <2>3, <3>1
    <3>3. Newest(rows) \in rows
      BY <3>2 DEF Newest
    <3> QED BY <2>3, <3>3
  <2>5. pc'[t] = "lock" /\ found'[t] = Key(v)
    BY <2>4, <1>5, <1>t DEF Read, TypeOK
  <2>6. RowOf(t, Key(v)) = v
    BY <2>2, <1>t, VisibleRow
  <2>7. RowOf(t, found[t])' = v
    BY <2>5, <2>6, <1>2 DEF RowOf, Key
  <2> HIDE DEF rows
  <2> QED BY <2>2, <2>5, <2>7, <1>1, <1>2, <1>3 DEF SerialInv, All
<1> QED BY <1>4, <1>5

\* The lock: the row is still the current one.
LEMMA SerialLock ==
  ASSUME CoreInv, NEW t \in Txn, SerialInv(t), LockRow(t)
  PROVE  SerialInv(t)'
<1> SUFFICES ASSUME \A o \in Txn \ {t} : pc'[o] # "done" PROVE SerialInv(t)'
  BY DEF SerialInv
<1>t. TypeOK /\ StepInv(t)
  BY DEF CoreInv
<1>1. /\ table' = table /\ input' = input /\ pos' = pos /\ closed' = closed /\ added' = added
      /\ pc[t] = "lock" /\ pc'[t] = "apply" /\ \A o \in Txn \ {t} : pc[o] # "done"
  BY <1>t DEF LockRow, TypeOK
<1>2. Visible(t)' = Visible(t)
  BY <1>1 DEF Visible, Key
<1>3. Visible(t) = Upserted(table, input[t], pos[t] - 1) /\ RowOf(t, found[t]).current
  BY <1>1 DEF SerialInv, All
<1>4. found'[t] # NoRow
  BY <1>1, <1>3, <1>t DEF LockRow, StepInv
<1> QED BY <1>1, <1>2, <1>3, <1>4 DEF SerialInv, All

\* The end of a record: what t sees is what the record makes of what it saw.
LEMMA SerialAdvance ==
  ASSUME CoreInv, NEW t \in Txn, SerialInv(t), pc[t] = "apply", Advance(t),
         table' = table, input' = input,
         \A o \in Txn \ {t} : pc'[o] # "done",
         Visible(t)' = Applied(Visible(t), Record(t))
  PROVE  SerialInv(t)'
<1>t. TypeOK /\ StepInv(t)
  BY DEF CoreInv
<1>1. pos'[t] = pos[t] + 1 /\ pc'[t] = "read" /\ \A o \in Txn \ {t} : pc[o] # "done"
  BY <1>t DEF Advance, TypeOK
<1>2. Visible(t) = Upserted(table, input[t], pos[t] - 1)
  BY <1>1 DEF SerialInv, All
<1>3. pos[t] \in 1..Len(input[t])
  BY <1>t DEF StepInv
<1>4. Upserted(table, input[t], pos[t]) =
        Applied(Upserted(table, input[t], pos[t] - 1), input[t][pos[t]])
  BY <1>t, <1>3, AllIs
<1>5. Visible(t)' = Upserted(table, input[t], pos[t])
  BY <1>2, <1>4 DEF Record
<1>6. pos'[t] - 1 = pos[t]
  BY <1>1, <1>t DEF TypeOK
<1> QED BY <1>1, <1>5, <1>6 DEF SerialInv, All

LEMMA SerialSkip ==
  ASSUME CoreInv, NEW t \in Txn, SerialInv(t), Skip(t)
  PROVE  SerialInv(t)'
<1> SUFFICES ASSUME \A o \in Txn \ {t} : pc'[o] # "done" PROVE SerialInv(t)'
  BY DEF SerialInv
<1>t. TypeOK /\ SeenInv(t) /\ StepInv(t) /\ LockInv(t)
  BY DEF CoreInv
<1>1. /\ table' = table /\ input' = input /\ closed' = closed /\ added' = added
      /\ pc[t] = "apply" /\ Advance(t)
  BY DEF Skip
<1>2. Visible(t)' = Visible(t)
  BY <1>1 DEF Visible, Key
<1>3. /\ found[t] \in locks[t] \ closed[t] /\ found[t].member = Record(t).member
      /\ RowOf(t, found[t]).type # "DELETED" /\ RowOf(t, found[t]).payload = Record(t).payload
  BY <1>t DEF StepInv, Skip, Unchanged
<1>4. PICK q \in Sees(t) : Key(q) = found[t] /\ IsCurrent(t, q)
  BY <1>3, <1>t, LockedIsCurrent
<1> DEFINE r == View(t, q)
<1>5. /\ r \in Visible(t) /\ r.current /\ r.member = Record(t).member
      /\ r.type # "DELETED" /\ r.payload = Record(t).payload
  BY <1>3, <1>4, <1>t, VisibleRows, SeesType, ViewRow, RowOfKey, KeyType
<1> HIDE DEF r
<1>6. Old(Visible(t), Record(t)) = {r}
  BY <1>5, <1>t, VisibleRow DEF Old
<1>7. Applied(Visible(t), Record(t)) = Visible(t)
  BY <1>5, <1>6, AppliedSame
<1> QED BY <1>1, <1>2, <1>7, SerialAdvance

LEMMA SerialInsert ==
  ASSUME CoreInv, NEW t \in Txn, SerialInv(t), InsertNew(t)
  PROVE  SerialInv(t)'
<1> SUFFICES ASSUME \A o \in Txn \ {t} : pc'[o] # "done" PROVE SerialInv(t)'
  BY DEF SerialInv
<1>t. TypeOK /\ SeenInv(t) /\ LockInv(t)
  BY DEF CoreInv
<1>1. /\ table' = table /\ input' = input /\ pc[t] = "apply" /\ Advance(t) /\ found[t] = NoRow
  BY DEF InsertNew
<1>2. PICK new : /\ Adds(t, new) /\ Opens(t, new)
                 /\ new = NewRow(Record(t).member, 1, Record(t).payload, "NEW")
  BY InsertAdds
<1>3. Visible(t)' = Visible(t) \union {new}
  BY <1>2, <1>t, VisibleOpens
<1>4. \A o \in Txn \ {t} : pc[o] # "done"
  BY <1>1, <1>t DEF Advance, TypeOK
<1>5. CurrentRows(t, Record(t).member) = {}
  BY <1>1, <1>4 DEF SerialInv
<1>6. Old(Visible(t), Record(t)) = {}
  BY <1>5 DEF Old, CurrentRows
<1>7. Applied(Visible(t), Record(t)) = Visible(t)'
  BY <1>2, <1>3, <1>6, AppliedNew
<1> QED BY <1>1, <1>7, SerialAdvance

LEMMA SerialUpdate ==
  ASSUME CoreInv, NEW t \in Txn, SerialInv(t), Update(t)
  PROVE  SerialInv(t)'
<1> SUFFICES ASSUME \A o \in Txn \ {t} : pc'[o] # "done" PROVE SerialInv(t)'
  BY DEF SerialInv
<1>t. TypeOK /\ SeenInv(t) /\ LockInv(t) /\ StepInv(t)
  BY DEF CoreInv
<1>1. /\ table' = table /\ input' = input /\ pc[t] = "apply" /\ Advance(t)
      /\ found[t] # NoRow /\ ~Unchanged(t)
  BY DEF Update
<1>2. PICK new : /\ Adds(t, new) /\ Next1(t, found[t], new) /\ found[t] \in RowKey
                 /\ new = NewRow(found[t].member, found[t].version + 1, Record(t).payload, "UPDATED")
  BY UpdateAdds
<1>3. PICK r \in Visible(t) : /\ r.current /\ r.member = found[t].member
                              /\ r.version = found[t].version /\ RowOf(t, found[t]) = r
                              /\ Visible(t)' = Closed(Visible(t), {r}) \union {new}
  BY <1>2, <1>t, VisibleNext
<1>4. found[t].member = Record(t).member
  BY <1>1, <1>t DEF StepInv
<1>5. Old(Visible(t), Record(t)) = {r}
  BY <1>3, <1>4, <1>t, VisibleRow DEF Old
<1>6. r.type = "DELETED" \/ r.payload # Record(t).payload
  BY <1>1, <1>3 DEF Unchanged
<1>7. Applied(Visible(t), Record(t)) = Visible(t)'
  BY <1>2, <1>3, <1>5, <1>6, AppliedOther
<1> QED BY <1>1, <1>7, SerialAdvance

\* The delete scan finds the rows that the file misses.
LEMMA SerialScan ==
  ASSUME CoreInv, NEW t \in Txn, SerialInv(t), Scan(t)
  PROVE  SerialInv(t)'
<1> SUFFICES ASSUME \A o \in Txn \ {t} : pc'[o] # "done" PROVE SerialInv(t)'
  BY DEF SerialInv
<1>t. TypeOK /\ SeenInv(t) /\ StepInv(t) /\ ShownInv(t)
  BY DEF CoreInv
<1>1. /\ table' = table /\ input' = input /\ closed' = closed /\ added' = added
      /\ pc[t] = "read" /\ pc'[t] = "scan" /\ \A o \in Txn \ {t} : pc[o] # "done"
      /\ gone'[t] = {}
  BY <1>t DEF Scan, TypeOK, StepInv
<1> DEFINE all == Upserted(table, input[t], Len(input[t]))
           missed == Missed(all, input[t])
<1>2. pos[t] - 1 = Len(input[t])
  <2>1. pos[t] \in Nat \ {0} /\ Len(input[t]) \in Nat /\ pos[t] > Len(input[t])
    BY <1>t DEF TypeOK, Scan
  <2>2. pos[t] - 1 <= Len(input[t])
    BY <1>t, <2>1 DEF ShownInv
  <2> QED BY <2>1, <2>2
<1>3. Visible(t) = all /\ Visible(t)' = Visible(t)
  <2>1. Visible(t) = Upserted(table, input[t], pos[t] - 1)
    BY <1>1 DEF SerialInv, All
  <2>2. Visible(t)' = Visible(t)
    BY <1>1 DEF Visible, Key
  <2> QED BY <1>2, <2>1, <2>2
<1> HIDE DEF all
<1>4. todo'[t] = {Key(r) : r \in missed}
  <2>1. todo'[t] = {Key(r) : r \in {r \in Visible(t) : /\ r.current /\ r.type # "DELETED"
                                                       /\ r.member \notin Named(t)}}
    BY <1>t DEF Scan, TypeOK
  <2>2. {r \in Visible(t) : r.current /\ r.type # "DELETED" /\ r.member \notin Named(t)} = missed
    BY <1>3 DEF Missed, Named
  <2> QED BY <2>1, <2>2
<1>5. Owed(t)' = {Key(r) : r \in missed}
  BY <1>1, <1>4 DEF Owed
<1>6. {r \in missed : Key(r) \notin Owed(t)'} = {}
  BY <1>5
<1>7. Buried(all, {}) = all
  BY NothingCloses DEF Buried
<1> QED BY <1>1, <1>3, <1>5, <1>6, <1>7 DEF SerialInv, All, all, Key

\* Each row of the scan is still the current one when its lock is granted.
LEMMA SerialLockMissing ==
  ASSUME CoreInv, NEW t \in Txn, SerialInv(t), NEW k \in todo[t], LockMissing(t, k)
  PROVE  SerialInv(t)'
<1> SUFFICES ASSUME \A o \in Txn \ {t} : pc'[o] # "done" PROVE SerialInv(t)'
  BY DEF SerialInv
<1>t. TypeOK /\ SeenInv(t) /\ StepInv(t)
  BY DEF CoreInv
<1>1. /\ table' = table /\ input' = input /\ closed' = closed /\ added' = added /\ pc' = pc
      /\ pc[t] = "scan" /\ todo'[t] = todo[t] \ {k}
  BY <1>t DEF LockMissing, TypeOK
<1> DEFINE all == Upserted(table, input[t], Len(input[t]))
           missed == Missed(all, input[t])
<1>2. /\ Owed(t) \subseteq {Key(r) : r \in missed}
      /\ Visible(t) = Buried(all, {r \in missed : Key(r) \notin Owed(t)})
  BY <1>1 DEF SerialInv, All
<1>3. Visible(t)' = Visible(t)
  BY <1>1 DEF Visible, Key
<1>4. PICK r \in missed : Key(r) = k
  BY <1>2 DEF Owed
<1>5. r \in Visible(t) /\ r.current
  BY <1>2, <1>4 DEF Buried, Closed, Missed, Owed
<1>6. RowOf(t, k) = r
  BY <1>4, <1>5, <1>t, VisibleRow
<1>7. gone'[t] = gone[t] \union {k}
  BY <1>5, <1>6, <1>t DEF LockMissing, TypeOK
<1>8. Owed(t)' = Owed(t)
  BY <1>1, <1>7 DEF Owed
<1> HIDE DEF all
<1> QED BY <1>1, <1>2, <1>3, <1>8 DEF SerialInv, All, all, Key

LEMMA UpsertedType ==
  ASSUME NEW rows \in SUBSET MemberRow, NEW in \in Seq(RawRows), NEW n \in 0..Len(in)
  PROVE  Upserted(rows, in, n) \in SUBSET MemberRow
<1> DEFINE P == {i \in Nat : i <= Len(in) => Upserted(rows, in, i) \in SUBSET MemberRow}
<1>1. 0 \in P
  BY UpsertedIs
<1>2. ASSUME NEW i \in 1..Len(in), i - 1 \in P PROVE i \in P
  <2>1. in[i] \in RawRows /\ Upserted(rows, in, i - 1) \in SUBSET MemberRow
    BY <1>2
  <2>2. Upserted(rows, in, i) \in SUBSET MemberRow
    BY <2>1, UpsertedIs, AppliedType
  <2> QED BY <2>2
<1>3. P \in SUBSET Nat /\ Len(in) \in Nat
  OBVIOUS
<1> HIDE DEF P
<1>4. n \in P
  BY <1>1, <1>2, <1>3, HoldsUpTo
<1> QED BY <1>4 DEF P

\* One more of the missed rows is buried.
LEMMA BuriedOne ==
  ASSUME NEW rows \in SUBSET MemberRow, NEW dead \in SUBSET rows, NEW r \in rows, r \notin dead,
         r.current, r.type # "DELETED"
  PROVE  Buried(rows, dead \union {r}) =
           Closed(Buried(rows, dead), {r})
             \union {NewRow(r.member, r.version + 1, r.payload, "DELETED")}
<1> DEFINE Tomb(q) == NewRow(q.member, q.version + 1, q.payload, "DELETED")
           Shut(q) == [q EXCEPT !.current = FALSE]
           old == Buried(rows, dead)
           new == Buried(rows, dead \union {r})
<1>1. \A q : Tomb(q) # r
  BY DEF NewRow
<1>2. ASSUME NEW q \in dead PROVE Shut(q) # r
  <2>1. q \in MemberRow
    OBVIOUS
  <2>2. ~Shut(q).current
    BY <2>1 DEF MemberRow
  <2> QED BY <2>2
<1>3. /\ \A q \in dead : Shut(q) \in old /\ Tomb(q) \in old
      /\ \A q \in rows \ dead : q \in old
      /\ \A w \in old : \/ \E q \in dead : w = Shut(q) \/ w = Tomb(q)
                        \/ w \in rows \ dead
  BY DEF Buried, Closed
<1>4. /\ \A q \in dead \union {r} : Shut(q) \in new /\ Tomb(q) \in new
      /\ \A q \in rows \ (dead \union {r}) : q \in new
      /\ \A w \in new : \/ \E q \in dead \union {r} : w = Shut(q) \/ w = Tomb(q)
                        \/ w \in rows \ (dead \union {r})
  BY DEF Buried, Closed
<1>5. /\ \A w \in old : w # r => w \in Closed(old, {r})
      /\ r \in old => Shut(r) \in Closed(old, {r})
      /\ \A w \in Closed(old, {r}) : w = Shut(r) \/ (w \in old /\ w # r)
  BY DEF Closed
<1> HIDE DEF Tomb, Shut, old, new
<1>6. ASSUME NEW w \in new PROVE w \in Closed(old, {r}) \union {Tomb(r)}
  <2>1. CASE \E q \in dead \union {r} : w = Shut(q) \/ w = Tomb(q)
    <3>1. PICK q \in dead \union {r} : w = Shut(q) \/ w = Tomb(q)
      BY <2>1
    <3>2. CASE q = r
      BY <3>1, <3>2, <1>3, <1>5
    <3>3. CASE q \in dead
      BY <3>1, <3>3, <1>1, <1>2, <1>3, <1>5
    <3> QED BY <3>2, <3>3
  <2>2. CASE w \in rows \ (dead \union {r})
    BY <2>2, <1>3, <1>5
  <2> QED BY <2>1, <2>2, <1>4
<1>7. ASSUME NEW w \in Closed(old, {r}) \union {Tomb(r)} PROVE w \in new
  <2>1. CASE w = Tomb(r) \/ w = Shut(r)
    BY <2>1, <1>4
  <2>2. CASE w \in old /\ w # r
    BY <2>2, <1>3, <1>4
  <2> QED BY <2>1, <2>2, <1>5
<1>8. new = Closed(old, {r}) \union {Tomb(r)}
  BY <1>6, <1>7
<1> QED BY <1>8 DEF new, old, Tomb

LEMMA SerialTombstone ==
  ASSUME CoreInv, NEW t \in Txn, SerialInv(t), NEW k \in gone[t], Tombstone(t, k)
  PROVE  SerialInv(t)'
<1> SUFFICES ASSUME \A o \in Txn \ {t} : pc'[o] # "done" PROVE SerialInv(t)'
  BY DEF SerialInv
<1>t. TypeOK /\ SeenInv(t) /\ LockInv(t) /\ StepInv(t)
  BY DEF CoreInv
<1>1. /\ table' = table /\ input' = input /\ pc' = pc
      /\ pc[t] = "scan" /\ todo[t] = {} /\ todo' = todo /\ gone'[t] = gone[t] \ {k}
  BY <1>t DEF Tombstone, TypeOK
<1> DEFINE all == Upserted(table, input[t], Len(input[t]))
           missed == Missed(all, input[t])
           dead == {q \in missed : Key(q) \notin Owed(t)}
<1>2. Owed(t) \subseteq {Key(q) : q \in missed} /\ Visible(t) = Buried(all, dead)
  BY <1>1 DEF SerialInv, All
<1>3. Owed(t) = gone[t] /\ Owed(t)' = Owed(t) \ {k}
  BY <1>1 DEF Owed
<1> HIDE DEF all
<1>4. PICK new : /\ Adds(t, new) /\ Next1(t, k, new) /\ k \in RowKey
                 /\ new = NewRow(k.member, k.version + 1, RowOf(t, k).payload, "DELETED")
  BY TombstoneAdds
<1>5. PICK r \in Visible(t) : /\ Key(r) = k /\ r.current /\ r.member = k.member
                              /\ r.version = k.version /\ RowOf(t, k) = r
                              /\ Visible(t)' = Closed(Visible(t), {r}) \union {new}
  <2>1. /\ TypeOK /\ t \in Txn /\ SeenInv(t) /\ LockInv(t)
        /\ Adds(t, new) /\ k \in RowKey /\ Next1(t, k, new)
    BY <1>4, <1>t
  <2> QED BY <2>1, VisibleNext
<1>6. all \in SUBSET MemberRow
  <2>1. table \in SUBSET MemberRow /\ input[t] \in Seq(RawRows)
    BY <1>t DEF TypeOK, RawRows
  <2>2. Len(input[t]) \in 0..Len(input[t])
    BY <2>1
  <2> QED BY <2>1, <2>2, UpsertedType DEF all
<1>7. ASSUME NEW q \in missed, Key(q) = k PROVE q = r
  <2>1. q \in all /\ q \notin dead
    BY <1>3, <1>7 DEF Missed
  <2>2. q \in Visible(t)
    BY <1>2, <2>1 DEF Buried, Closed
  <2> QED BY <2>2, <1>5, <1>7, <1>t, VisibleRow
<1>8. r \in missed /\ r \notin dead
  <2>1. PICK q \in missed : Key(q) = k
    BY <1>2, <1>3
  <2> QED BY <2>1, <1>3, <1>5, <1>7
<1>9. {q \in missed : Key(q) \notin Owed(t)'} = dead \union {r}
  BY <1>3, <1>5, <1>7, <1>8
<1>10. Owed(t)' \subseteq {Key(q) : q \in missed}
  BY <1>2, <1>3
<1>11. Visible(t)' = Buried(all, dead \union {r})
  <2>1. r \in all /\ r.type # "DELETED" /\ dead \in SUBSET all
    BY <1>8 DEF Missed
  <2>2. new = NewRow(r.member, r.version + 1, r.payload, "DELETED")
    BY <1>4, <1>5
  <2> HIDE DEF dead, missed
  <2> QED BY <2>1, <2>2, <1>2, <1>5, <1>6, <1>8, BuriedOne
<1> QED BY <1>1, <1>9, <1>10, <1>11 DEF SerialInv, All, all, Key

\* The beginning and the end: what is left of a transaction that was rolled back
\* is the table.
LEMMA SerialEnd ==
  ASSUME CoreInv, NEW t \in Txn, Commit(t) \/ Abort(t)
  PROVE  SerialInv(t)'
<1>t. TypeOK
  BY DEF CoreInv
<1>1. CASE Commit(t)
  <2>1. pc'[t] = "done"
    BY <1>1, <1>t DEF Commit, TypeOK
  <2> QED BY <2>1 DEF SerialInv
<1>2. CASE Abort(t)
  <2>1. /\ pc'[t] = "read" /\ pos'[t] = 1 /\ closed'[t] = {} /\ added'[t] = {}
        /\ table' = table /\ input' = input
    BY <1>2, <1>t, Discarded DEF Abort, TypeOK
  <2>2. Visible(t)' = table
    <3>1. \A r \in table : r \in MemberRow /\ SeenAs({}, r) = r
      BY <1>t, SeenAsOpen DEF TypeOK
    <3>2. Visible(t)' = {SeenAs({}, r) : r \in table}
      BY <2>1, VisibleAs DEF Sees
    <3> QED BY <3>1, <3>2
  <2>3. Upserted(table, input[t], pos'[t] - 1) = table
    BY <2>1, <1>t, AllIs
  <2> QED BY <2>1, <2>2, <2>3 DEF SerialInv, All
<1> QED BY <1>1, <1>2

LEMMA AloneInit == Init => AloneInv
<1> SUFFICES ASSUME Init, NEW t \in Txn PROVE SerialInv(t)
  BY DEF AloneInv
<1>t. TypeOK
  BY CoreInit DEF CoreInv
<1>1. pc[t] = "read" /\ pos[t] = 1 /\ closed[t] = {} /\ added[t] = {}
  BY DEF Init
<1>2. Visible(t) = table
  <2>1. \A r \in table : r \in MemberRow /\ SeenAs({}, r) = r
    BY <1>t, SeenAsOpen DEF TypeOK
  <2>2. Visible(t) = {SeenAs({}, r) : r \in table}
    BY <1>1, VisibleAs DEF Sees
  <2> QED BY <2>1, <2>2
<1>3. Upserted(table, input[t], pos[t] - 1) = table
  BY <1>1, <1>t, AllIs
<1> QED BY <1>1, <1>2, <1>3 DEF SerialInv, All

LEMMA AloneStep ==
  ASSUME CoreInv, AloneInv, [Next]_vars
  PROVE  AloneInv'
<1> SUFFICES ASSUME NEW o \in Txn PROVE SerialInv(o)'
  BY DEF AloneInv
<1>t. TypeOK /\ SerialInv(o)
  BY DEF CoreInv, AloneInv
<1>1. CASE UNCHANGED vars
  BY <1>1, <1>t, SerialStays DEF vars
<1>2. ASSUME NEW t \in Txn, Step(t) PROVE SerialInv(o)'
  <2>1. CASE o = t
    <3>1. CASE Read(o)
      BY <3>1, <1>t, SerialRead
    <3>2. CASE LockRow(o)
      BY <3>2, <1>t, SerialLock
    <3>3. CASE Skip(o)
      BY <3>3, <1>t, SerialSkip
    <3>4. CASE InsertNew(o)
      BY <3>4, <1>t, SerialInsert
    <3>5. CASE Update(o)
      BY <3>5, <1>t, SerialUpdate
    <3>6. CASE Scan(o)
      BY <3>6, <1>t, SerialScan
    <3>7. ASSUME NEW k \in todo[o], LockMissing(o, k) PROVE SerialInv(o)'
      BY <3>7, <1>t, SerialLockMissing
    <3>8. ASSUME NEW k \in gone[o], Tombstone(o, k) PROVE SerialInv(o)'
      BY <3>8, <1>t, SerialTombstone
    <3>9. CASE Commit(o) \/ Abort(o)
      BY <3>9, SerialEnd
    <3> QED BY <1>2, <2>1, <3>1, <3>2, <3>3, <3>4, <3>5, <3>6, <3>7, <3>8, <3>9 DEF Step
  <2>2. CASE o # t /\ Commit(t)
    <3>1. pc'[t] = "done" /\ t \in Txn \ {o}
      BY <2>2, <1>t DEF Commit, TypeOK
    <3> QED BY <3>1 DEF SerialInv
  <2>3. CASE o # t /\ ~Commit(t)
    <3>1. Apart(t, o)
      BY <2>3, <1>2, <1>t, StepApart
    <3>2. /\ table' = table /\ input' = input /\ pc[t] # "done"
          /\ \A x \in Txn \ {t} : pc'[x] = pc[x]
      BY <2>3, <1>2, <1>t DEF Step, Read, LockRow, Skip, InsertNew, Update, Scan, LockMissing,
         Tombstone, Abort, Advance, TypeOK
    <3>3. \A x \in Txn \ {o} : pc[x] = "done" => pc'[x] = "done"
      BY <3>2
    <3> QED BY <3>1, <3>2, <3>3, <1>t, SerialStays DEF Apart
  <2> QED BY <2>1, <2>2, <2>3
<1> QED BY <1>1, <1>2 DEF Next

\* A transaction beside which no other one commits leaves what its raw records
\* make of the table one after the other, whatever others begin and roll back.
THEOREM AloneIsSerialHolds == Spec => AloneIsSerial
<1> DEFINE Inv == CoreInv /\ AloneInv
<1>1. Init => Inv
  BY CoreInit, AloneInit
<1>2. Inv /\ [Next]_vars => Inv'
  BY CoreStep, AloneStep
<1>3. ASSUME CoreInv, AloneInv, NEW t \in Txn, Commit(t), \A o \in Txn \ {t} : pc[o] # "done"
      PROVE  table' = Serial(table, input[t])
  <2>1. pc[t] = "scan" /\ Owed(t) = {} /\ SerialInv(t)
    BY <1>3 DEF Commit, Owed, AloneInv
  <2> DEFINE all == Upserted(table, input[t], Len(input[t]))
             missed == Missed(all, input[t])
  <2>2. Visible(t) = Buried(all, {r \in missed : Key(r) \notin Owed(t)})
    BY <1>3, <2>1 DEF SerialInv, All
  <2>3. {r \in missed : Key(r) \notin Owed(t)} = missed
    BY <2>1
  <2>4. table' = Visible(t)
    BY <1>3, CommitTable, VisibleRows
  <2> HIDE DEF all
  <2>5. table' = Buried(all, Missed(all, input[t]))
    BY <2>2, <2>3, <2>4
  <2> QED BY <2>5 DEF Serial, all
<1>4. Inv /\ [Next]_vars =>
        [\A t \in Txn : Commit(t) /\ (\A o \in Txn \ {t} : pc[o] # "done")
           => table' = Serial(table, input[t])]_vars
  BY <1>3
<1> QED BY <1>1, <1>2, <1>4, PTL DEF Spec, AloneIsSerial

(***************************************************************************)
(* The operators of a batch                                                *)
(***************************************************************************)
\* The greatest id of a set of ids.
LEMMA MaxOfIds ==
  ASSUME NEW S \in SUBSET (1..MaxId), S # {}
  PROVE  Max(S) \in S /\ \A x \in S : x <= Max(S)
<1>1. \E n \in S : \A m \in S : m <= n
  <2>1. S \in SUBSET Nat /\ \A n \in S : n <= MaxId
    BY BoundAssumption
  <2> QED BY <2>1, GreatestNatural, BoundAssumption
<1>2. \E n \in S : \A m \in S : n >= m
  BY <1>1
<1> QED BY <1>2 DEF Max

\* The first row of a bulk request is one of its rows.
LEMMA FirstIsOne ==
  ASSUME NEW rows \in SUBSET ReadRow, rows # {}
  PROVE  First(rows) \in rows
<1> DEFINE T == {r.row.id : r \in rows}
<1>1. T \in SUBSET Nat /\ T # {}
  BY DEF ReadRow, CurrentRow
<1>2. \E n \in T : \A m \in T : n <= m
  BY <1>1, LeastNatural
<1>3. \E r \in rows : \A o \in rows : r.row.id <= o.row.id
  BY <1>2
<1> QED BY <1>3 DEF First

\* Any set of members is finite.
LEMMA MembersFinite ==
  ASSUME NEW S \in SUBSET SearchMember
  PROVE  IsFiniteSet(S) /\ Cardinality(S) \in Nat
BY MemberAssumption, FS_Subset, FS_CardinalityType

\* The rows the statement of a batch looks at, and those up to the row of m.
Behind(s) == {m \in SearchMember : Listed(m) /\ After(m, s)}
UpTo(s, m) == {o \in Behind(s) : member[o].id <= member[m].id}

LEMMA BehindType ==
  ASSUME SearchTypeOK, NEW s \in Syncer, NEW m \in Behind(s)
  PROVE  member[m] \in CurrentRow /\ member[m].id \in 1..MaxId
BY DEF Behind, SearchTypeOK, Listed, CurrentRow

LEMMA NextBatchDef ==
  ASSUME NEW s \in Syncer
  PROVE  NextBatch(s) = {m \in Behind(s) : Cardinality(UpTo(s, m)) <= BatchSize}
BY DEF NextBatch, Behind, UpTo

\* What is left for a later batch lies behind every row of this one.
LEMMA NextBatchIsFirst ==
  ASSUME SearchTypeOK, NEW s \in Syncer,
         NEW m \in Behind(s) \ NextBatch(s), NEW o \in NextBatch(s)
  PROVE  member[o].id < member[m].id
<1>1. o \in Behind(s) /\ Cardinality(UpTo(s, o)) <= BatchSize /\ ~(Cardinality(UpTo(s, m)) <= BatchSize)
  BY NextBatchDef
<1>2. member[o].id \in Int /\ member[m].id \in Int
  BY <1>1, BehindType
<1>3. ASSUME member[m].id <= member[o].id PROVE FALSE
  <2>1. UpTo(s, m) \subseteq UpTo(s, o)
    <3>1. \A x \in UpTo(s, m) : x \in Behind(s) /\ member[x].id \in Int /\ member[x].id <= member[m].id
      BY BehindType DEF UpTo
    <3> QED BY <3>1, <1>2, <1>3 DEF UpTo
  <2>2. UpTo(s, o) \in SUBSET SearchMember
    BY DEF UpTo, Behind
  <2>3. Cardinality(UpTo(s, m)) <= Cardinality(UpTo(s, o))
    BY <2>1, <2>2, MembersFinite, FS_Subset
  <2>4. Cardinality(UpTo(s, m)) \in Nat /\ Cardinality(UpTo(s, o)) \in Nat
    BY <2>1, <2>2, MembersFinite
  <2> QED BY <2>3, <2>4, <1>1, BatchAssumption
<1> QED BY <1>2, <1>3

\* No batch is left only when no row is.
LEMMA NextBatchEmpty ==
  ASSUME SearchTypeOK, IdInv, NEW s \in Syncer, NextBatch(s) = {}
  PROVE  Behind(s) = {}
<1> SUFFICES ASSUME Behind(s) # {} PROVE FALSE
  OBVIOUS
<1> DEFINE T == {member[m].id : m \in Behind(s)}
<1>1. T \in SUBSET Nat /\ T # {}
  BY BehindType
<1>2. PICK n \in T : \A x \in T : n <= x
  BY <1>1, LeastNatural
<1>3. PICK m \in Behind(s) : n = member[m].id
  OBVIOUS
<1>4. \A o \in Behind(s) : member[m].id <= member[o].id /\ member[o].id \in Int
  BY <1>2, <1>3, BehindType
<1>5. \A o \in UpTo(s, m) : o \in Behind(s) /\ member[o].id = member[m].id
  BY <1>3, <1>4 DEF UpTo
<1>6. UpTo(s, m) \subseteq {m}
  BY <1>3, <1>5 DEF IdInv, Behind, Listed
<1>7. Cardinality(UpTo(s, m)) <= 1
  <2>1. IsFiniteSet({m}) /\ Cardinality({m}) = 1
    BY FS_Singleton
  <2> QED BY <1>6, <2>1, FS_Subset
<1>8. Cardinality(UpTo(s, m)) \in Nat
  BY MembersFinite DEF UpTo, Behind
<1> QED BY <1>3, <1>7, <1>8, NextBatchDef, BatchAssumption

\* A batch has no more than BatchSize rows: those up to its last one.
LEMMA NextBatchSize ==
  ASSUME SearchTypeOK, NEW s \in Syncer
  PROVE  Cardinality(NextBatch(s)) <= BatchSize
<1>1. CASE NextBatch(s) = {}
  BY <1>1, FS_EmptySet, BatchAssumption
<1>2. CASE NextBatch(s) # {}
  <2> DEFINE T == {member[m].id : m \in NextBatch(s)}
  <2>1. T \in SUBSET (1..MaxId) /\ T # {}
    BY <1>2, BehindType, NextBatchDef
  <2> HIDE DEF T
  <2>t. T \in SUBSET Nat /\ \A n \in T : n <= MaxId
    BY <2>1, BoundAssumption
  <2>2. PICK n \in T : \A x \in T : x <= n
    BY <2>1, <2>t, GreatestNatural, BoundAssumption
  <2> USE DEF T
  <2>3. PICK m \in NextBatch(s) : n = member[m].id
    OBVIOUS
  <2>4. NextBatch(s) \subseteq UpTo(s, m)
    BY <2>2, <2>3, NextBatchDef DEF UpTo
  <2>5. UpTo(s, m) \in SUBSET SearchMember
    BY DEF UpTo, Behind
  <2>6. Cardinality(NextBatch(s)) <= Cardinality(UpTo(s, m))
    BY <2>4, <2>5, MembersFinite, FS_Subset
  <2>7. Cardinality(NextBatch(s)) \in Nat /\ Cardinality(UpTo(s, m)) \in Nat
    BY <2>4, <2>5, MembersFinite
  <2>8. Cardinality(UpTo(s, m)) <= BatchSize
    BY NextBatchDef
  <2> QED BY <2>6, <2>7, <2>8, BatchAssumption
<1> QED BY <1>1, <1>2

\* The rows read for a batch are as many.
LEMMA RowsOfBatch ==
  ASSUME SearchTypeOK, NEW s \in Syncer
  PROVE  LET rows == {[member |-> m, row |-> member[m]] : m \in NextBatch(s)}
         IN  rows \in SUBSET ReadRow /\ Cardinality(rows) <= BatchSize
<1> DEFINE rows == {[member |-> m, row |-> member[m]] : m \in NextBatch(s)}
           f == [m \in NextBatch(s) |-> [member |-> m, row |-> member[m]]]
<1>1. \A m \in NextBatch(s) : m \in SearchMember /\ member[m] \in CurrentRow
  BY NextBatchDef, BehindType DEF Behind
<1>2. rows \in SUBSET ReadRow
  BY <1>1 DEF ReadRow
<1>3. f \in Surjection(NextBatch(s), rows)
  BY DEF Surjection
<1>4. IsFiniteSet(NextBatch(s))
  BY <1>1, MembersFinite
<1>5. IsFiniteSet(rows) /\ Cardinality(rows) <= Cardinality(NextBatch(s))
  BY <1>3, <1>4, FS_Surjection
<1>6. Cardinality(rows) \in Nat /\ Cardinality(NextBatch(s)) \in Nat
  BY <1>4, <1>5, FS_CardinalityType
<1>7. Cardinality(rows) <= BatchSize
  BY <1>5, <1>6, NextBatchSize, BatchAssumption
<1> QED BY <1>2, <1>7

(***************************************************************************)
(* The steps of a synchronization after its beginning                      *)
(***************************************************************************)
Works(s) ==
  \/ ScanIndex(s) \/ ReadBatch(s) \/ Compare(s) \/ Write(s) \/ Written(s) \/ AllRead(s)
  \/ (\E m \in SearchMember : RemoveDocument(s, m)) \/ Switch(s) \/ Stops(s)

LEMMA StepIsOne ==
  SearchNext <=>
    \/ \E m \in SearchMember :
         (\E h \in Hash, deleted \in BOOLEAN : InsertVersion(m, h, deleted)) \/ CommitVersion(m)
    \/ \E s \in Syncer : Begin(s) \/ Works(s)
BY DEF SearchNext, Works

\* They leave the rows and the other synchronizations alone.
LEMMA WorksAlone ==
  ASSUME SearchTypeOK, NEW s \in Syncer, Works(s)
  PROVE  /\ UNCHANGED <<member, writing, nextId, syncs>>
         /\ sync[s].step # "idle"
         /\ \A o \in Syncer \ {s} : sync'[o] = sync[o]
<1> USE DEF SearchTypeOK
<1>1. CASE ScanIndex(s)
  BY <1>1 DEF ScanIndex
<1>2. CASE ReadBatch(s)
  BY <1>2 DEF ReadBatch
<1>3. CASE Compare(s)
  BY <1>3 DEF Compare
<1>4. CASE Write(s)
  BY <1>4 DEF Write
<1>5. CASE Written(s)
  BY <1>5 DEF Written
<1>6. CASE AllRead(s)
  BY <1>6 DEF AllRead
<1>7. CASE \E m \in SearchMember : RemoveDocument(s, m)
  BY <1>7 DEF RemoveDocument
<1>8. CASE Switch(s)
  BY <1>8 DEF Switch
<1>9. CASE Stops(s)
  BY <1>9 DEF Stops
<1> QED
  BY <1>1, <1>2, <1>3, <1>4, <1>5, <1>6, <1>7, <1>8, <1>9 DEF Works

\* Nothing is known of a member that has neither changed nor been looked at.
LEMMA NotSyncingType == NotSyncing \in SyncState
BY BoundAssumption DEF NotSyncing, SyncState

LEMMA NotSyncingEmpty == Cardinality(NotSyncing.batch) <= BatchSize
BY FS_EmptySet, BatchAssumption DEF NotSyncing

\* What a step does to its own record, as far as its type is concerned.
LEMMA WorksType ==
  ASSUME SearchInv, NEW s \in Syncer, Works(s)
  PROVE  /\ sync' \in [Syncer -> SyncState]
         /\ Cardinality(sync'[s].batch) <= BatchSize
         /\ index' \in [SearchMember -> Hash \union {NoDoc}] \union {NoIndex}
         /\ index # NoIndex => index' # NoIndex
         /\ alias' \in BOOLEAN
<1> USE DEF SearchTypeOK
<1>t. SearchTypeOK /\ BatchInv(s) /\ sync[s] \in SyncState
  BY DEF SearchInv
<1>n. \A f \in [SearchMember -> Hash \union {NoDoc}] : f # NoIndex
  BY MemberAssumption DEF NoIndex
<1>1. CASE ScanIndex(s)
  BY <1>1, <1>t DEF ScanIndex, Documents, SyncState
<1>2. CASE ReadBatch(s)
  BY <1>2, <1>t, RowsOfBatch DEF ReadBatch, SyncState
<1>3. CASE Compare(s)
  BY <1>3, <1>t DEF Compare, SyncState
<1>4. CASE Write(s)
  <2> DEFINE r == First(sync[s].writes)
  <2>1. r \in ReadRow
    BY <1>4, <1>t, FirstIsOne DEF Write, SyncState
  <2>2. r.member \in SearchMember /\ r.row.hash \in Hash
    BY <2>1 DEF ReadRow, CurrentRow
  <2>3. index \in [SearchMember -> Hash \union {NoDoc}]
    BY <1>4, <1>t DEF Write
  <2>4. index' \in [SearchMember -> Hash \union {NoDoc}] /\ alias' = alias
    BY <1>4, <2>2, <2>3 DEF Write
  <2>5. \/ sync' = [sync EXCEPT ![s].writes = @ \ {r}]
        \/ sync' = [sync EXCEPT ![s].writes = @ \ {r}, ![s].failed = TRUE]
    BY <1>4 DEF Write
  <2>6. sync'[s].batch = sync[s].batch /\ sync'[s] \in SyncState /\ sync' \in [Syncer -> SyncState]
    BY <1>t, <2>5 DEF SyncState
  <2> QED BY <1>t, <1>n, <2>4, <2>6
<1>5. CASE Written(s)
  <2>1. CASE sync[s].failed
    BY <2>1, <1>5, <1>t, NotSyncingType, NotSyncingEmpty DEF Written, NotSyncing
  <2>2. CASE ~sync[s].failed
    <3> DEFINE T == {r.row.id : r \in sync[s].batch}
    <3>1. T \in SUBSET (1..MaxId) /\ T # {}
      BY <1>5, <1>t DEF Written, BatchInv, SyncState, ReadRow, CurrentRow
    <3>2. Max(T) \in 0..MaxId
      BY <3>1, MaxOfIds
    <3>3. sync' = [sync EXCEPT ![s] = [@ EXCEPT !.step = "read", !.last = Max(T), !.batch = {}]]
      BY <2>2, <1>5 DEF Written
    <3> HIDE DEF T
    <3>4. [sync[s] EXCEPT !.step = "read", !.last = Max(T), !.batch = {}] \in SyncState
      BY <1>t, <3>2 DEF SyncState
    <3>5. sync' \in [Syncer -> SyncState] /\ sync'[s].batch = {}
      BY <1>t, <3>3, <3>4 DEF SyncState
    <3>6. Cardinality(sync'[s].batch) <= BatchSize
      BY <3>5, FS_EmptySet, BatchAssumption
    <3>7. index' = index /\ alias' = alias
      BY <1>5 DEF Written
    <3> QED BY <1>t, <3>5, <3>6, <3>7
  <2> QED BY <2>1, <2>2
<1>6. CASE AllRead(s)
  BY <1>6, <1>t, NotSyncingType, NotSyncingEmpty DEF AllRead, SyncState, NotSyncing
<1>7. CASE \E m \in SearchMember : RemoveDocument(s, m)
  <2>1. index \in [SearchMember -> Hash \union {NoDoc}]
    BY <1>7, <1>t DEF RemoveDocument
  <2>2. index' \in [SearchMember -> Hash \union {NoDoc}] /\ alias' = alias
    BY <1>7, <2>1 DEF RemoveDocument
  <2>3. PICK m \in SearchMember :
          sync' = [sync EXCEPT ![s].unseen = @ \ {m}, ![s].failed = @ \/ index[m] = NoDoc]
    BY <1>7 DEF RemoveDocument
  <2>4. sync'[s].batch = sync[s].batch /\ sync' \in [Syncer -> SyncState]
    BY <1>t, <2>3 DEF SyncState
  <2> QED BY <1>t, <1>n, <2>2, <2>4
<1>8. CASE Switch(s)
  BY <1>8, <1>t, NotSyncingType, NotSyncingEmpty DEF Switch, NotSyncing, SyncState
<1>9. CASE Stops(s)
  BY <1>9, <1>t, NotSyncingType, NotSyncingEmpty DEF Stops, NotSyncing
<1> QED
  BY <1>1, <1>2, <1>3, <1>4, <1>5, <1>6, <1>7, <1>8, <1>9 DEF Works

LEMMA SearchTypeStep == SearchInv /\ SearchNext => SearchTypeOK'
<1> SUFFICES ASSUME SearchInv, SearchNext PROVE SearchTypeOK'
  OBVIOUS
<1>t. SearchTypeOK
  BY DEF SearchInv
<1>1. ASSUME NEW m \in SearchMember, NEW h \in Hash, NEW deleted \in BOOLEAN,
             InsertVersion(m, h, deleted)
      PROVE  SearchTypeOK'
  <2>1. [id |-> nextId, hash |-> h, deleted |-> deleted] \in CurrentRow
    BY <1>1, <1>t, BoundAssumption DEF InsertVersion, CurrentRow, SearchTypeOK
  <2>2. nextId' \in 1..(MaxId + 1)
    BY <1>1, <1>t, BoundAssumption DEF InsertVersion, SearchTypeOK
  <2> QED BY <1>1, <1>t, <2>1, <2>2 DEF InsertVersion, SearchTypeOK
<1>2. ASSUME NEW m \in SearchMember, CommitVersion(m) PROVE SearchTypeOK'
  <2>1. \A s \in Syncer :
          /\ sync'[s] \in SyncState
          /\ sync'[s].step = sync[s].step /\ sync'[s].batch = sync[s].batch
    <3> TAKE s \in Syncer
    <3> DEFINE passed == IF writing[m].deleted THEN {m} ELSE {}
    <3>1. sync[s] \in SyncState
      BY <1>t DEF SearchTypeOK
    <3>g. passed \in SUBSET SearchMember
      OBVIOUS
    <3>2. sync'[s] = IF sync[s].step = "idle" THEN sync[s]
                     ELSE [sync[s] EXCEPT !.touched = @ \union {m}, !.unlisted = @ \union passed]
      BY <1>2 DEF CommitVersion
    <3> HIDE DEF passed
    <3>3. CASE sync[s].step = "idle"
      BY <3>1, <3>2, <3>3
    <3>4. CASE sync[s].step # "idle"
      <4> DEFINE new == [sync[s] EXCEPT !.touched = @ \union {m}, !.unlisted = @ \union passed]
      <4>1. new \in SyncState
        BY <3>1, <3>g DEF SyncState
      <4>2. new.step = sync[s].step /\ new.batch = sync[s].batch
        BY <3>1 DEF SyncState
      <4>3. sync'[s] = new
        BY <3>2, <3>4
      <4> HIDE DEF new
      <4> QED BY <4>1, <4>2, <4>3
    <3> QED BY <3>3, <3>4
  <2>2. sync' \in [Syncer -> SyncState]
    BY <1>2, <2>1 DEF CommitVersion
  <2>3. /\ member' \in [SearchMember -> CurrentRow \union {NoDoc}]
        /\ writing' \in [SearchMember -> CurrentRow \union {NoDoc}]
        /\ UNCHANGED <<nextId, index, alias, syncs>>
    BY <1>2, <1>t DEF CommitVersion, SearchTypeOK
  <2> QED BY <1>t, <2>1, <2>2, <2>3 DEF SearchTypeOK
<1>3. ASSUME NEW s \in Syncer, Begin(s) PROVE SearchTypeOK'
  <2>1. \A o \in Syncer :
          /\ sync'[o] \in SyncState
          /\ sync'[o].batch = IF o = s THEN NotSyncing.batch ELSE sync[o].batch
    <3>1. [NotSyncing EXCEPT !.step = "scan",
               !.alone = {o \in Syncer : sync[o].step # "idle"} = {},
               !.unlisted = {m \in SearchMember : ~Listed(m)}] \in SyncState
      BY NotSyncingType DEF SyncState
    <3>2. \A o \in Syncer : [sync[o] EXCEPT !.alone = FALSE] \in SyncState
      BY <1>t DEF SearchTypeOK, SyncState
    <3>3. \A o \in Syncer : [sync[o] EXCEPT !.alone = FALSE].batch = sync[o].batch
      BY <1>t DEF SearchTypeOK, SyncState
    <3> TAKE o \in Syncer
    <3>4. sync[o] \in SyncState
      BY <1>t DEF SearchTypeOK
    <3>5. CASE o = s
      <4>1. sync'[s] = [NotSyncing EXCEPT !.step = "scan",
               !.alone = {q \in Syncer : sync[q].step # "idle"} = {},
               !.unlisted = {m \in SearchMember : ~Listed(m)}]
        BY <1>3 DEF Begin
      <4> QED BY <3>1, <3>5, <4>1 DEF NotSyncing
    <3>6. CASE o # s
      <4>1. sync'[o] = [sync[o] EXCEPT !.alone = FALSE] \/ sync'[o] = sync[o]
        BY <1>3, <3>6 DEF Begin
      <4> QED BY <4>1, <3>2, <3>3, <3>4, <3>6
    <3> QED BY <3>5, <3>6
  <2>2. sync' \in [Syncer -> SyncState]
    BY <1>3, <2>1 DEF Begin
  <2>3. /\ index' \in [SearchMember -> Hash \union {NoDoc}]
        /\ syncs' \in 0..MaxSync
        /\ UNCHANGED <<member, writing, nextId, alias>>
    <3>1. NoDocuments \in [SearchMember -> Hash \union {NoDoc}]
      BY DEF NoDocuments
    <3>2. index' \in [SearchMember -> Hash \union {NoDoc}]
      BY <1>3, <1>t, <3>1 DEF Begin, SearchTypeOK
    <3>3. syncs' \in 0..MaxSync
      <4>1. syncs < MaxSync /\ syncs' = syncs + 1
        BY <1>3 DEF Begin
      <4> QED BY <4>1, <1>t, BoundAssumption DEF SearchTypeOK
    <3> QED BY <1>3, <3>2, <3>3 DEF Begin
  <2>4. index' # NoIndex
    BY <2>3, MemberAssumption DEF NoIndex
  <2> QED BY <1>t, <2>1, <2>2, <2>3, <2>4, NotSyncingEmpty DEF SearchTypeOK
<1>4. ASSUME NEW s \in Syncer, Works(s) PROVE SearchTypeOK'
  <2>1. /\ UNCHANGED <<member, writing, nextId, syncs>>
        /\ sync[s].step # "idle"
        /\ \A o \in Syncer \ {s} : sync'[o] = sync[o]
    BY <1>4, <1>t, WorksAlone
  <2>2. /\ sync' \in [Syncer -> SyncState]
        /\ Cardinality(sync'[s].batch) <= BatchSize
        /\ index' \in [SearchMember -> Hash \union {NoDoc}] \union {NoIndex}
        /\ index # NoIndex => index' # NoIndex
        /\ alias' \in BOOLEAN
    BY <1>4, WorksType
  <2>3. index' # NoIndex
    BY <2>1, <2>2, <1>t DEF SearchTypeOK
  <2> QED BY <1>t, <2>1, <2>2, <2>3 DEF SearchTypeOK
<1> QED BY <1>1, <1>2, <1>3, <1>4, StepIsOne

(***************************************************************************)
(* Ids                                                                     *)
(***************************************************************************)
LEMMA IdStep == SearchInv /\ SearchNext => IdInv'
<1> SUFFICES ASSUME SearchInv, SearchNext PROVE IdInv'
  OBVIOUS
<1>t. SearchTypeOK /\ IdInv
  BY DEF SearchInv
<1>i. /\ \A m \in SearchMember : member[m] # NoDoc => member[m].id \in Int
      /\ \A m \in SearchMember : writing[m] # NoDoc => writing[m].id \in Int
      /\ nextId \in Int
  BY <1>t DEF SearchTypeOK, CurrentRow
<1>1. ASSUME NEW m \in SearchMember, NEW h \in Hash, NEW deleted \in BOOLEAN,
             InsertVersion(m, h, deleted)
      PROVE  IdInv'
  <2>1. /\ writing' = [writing EXCEPT ![m] = [id |-> nextId, hash |-> h, deleted |-> deleted]]
        /\ nextId' = nextId + 1 /\ member' = member
    BY <1>1 DEF InsertVersion
  <2>2. writing'[m].id = nextId /\ \A o \in SearchMember \ {m} : writing'[o] = writing[o]
    BY <2>1, <1>t DEF SearchTypeOK
  <2> QED BY <1>i, <1>t, <2>1, <2>2 DEF IdInv
<1>2. ASSUME NEW m \in SearchMember, CommitVersion(m) PROVE IdInv'
  <2>1. /\ writing[m] # NoDoc /\ nextId' = nextId
        /\ writing'[m] = NoDoc /\ \A o \in SearchMember \ {m} : writing'[o] = writing[o]
        /\ member'[m] = writing[m] /\ \A o \in SearchMember \ {m} : member'[o] = member[o]
    BY <1>2, <1>t DEF CommitVersion, SearchTypeOK
  <2> QED BY <1>i, <1>t, <2>1 DEF IdInv
<1>3. ASSUME NEW s \in Syncer, Begin(s) PROVE IdInv'
  BY <1>3, <1>t DEF Begin, IdInv
<1>4. ASSUME NEW s \in Syncer, Works(s) PROVE IdInv'
  BY <1>4, <1>t, WorksAlone DEF IdInv
<1> QED BY <1>1, <1>2, <1>3, <1>4, StepIsOne

(***************************************************************************)
(* What a commit and a beginning do to the synchronizations                *)
(***************************************************************************)
LEMMA InsertShape ==
  ASSUME NEW m \in SearchMember, NEW h \in Hash, NEW deleted \in BOOLEAN,
         InsertVersion(m, h, deleted)
  PROVE  UNCHANGED <<member, index, sync>>
BY DEF InsertVersion

LEMMA CommitShape ==
  ASSUME SearchTypeOK, NEW m \in SearchMember, CommitVersion(m), NEW s \in Syncer
  PROVE  /\ sync[s].step = "idle" => sync'[s] = sync[s]
         /\ sync[s].step # "idle" =>
              /\ sync'[s].touched = sync[s].touched \union {m}
              /\ sync'[s].unlisted = IF writing[m].deleted THEN sync[s].unlisted \union {m}
                                                           ELSE sync[s].unlisted
         /\ sync'[s].step = sync[s].step /\ sync'[s].unseen = sync[s].unseen
         /\ sync'[s].last = sync[s].last /\ sync'[s].batch = sync[s].batch
         /\ sync'[s].writes = sync[s].writes /\ sync'[s].failed = sync[s].failed
         /\ sync'[s].alone = sync[s].alone
<1>1. sync[s] \in SyncState
  BY DEF SearchTypeOK
<1>2. sync'[s] = IF sync[s].step = "idle" THEN sync[s]
                 ELSE [sync[s] EXCEPT !.touched = @ \union {m},
                                      !.unlisted = @ \union IF writing[m].deleted THEN {m} ELSE {}]
  BY DEF CommitVersion
<1>3. CASE sync[s].step = "idle"
  BY <1>2, <1>3
<1>4. CASE sync[s].step # "idle" /\ writing[m].deleted
  BY <1>1, <1>2, <1>4 DEF SyncState
<1>5. CASE sync[s].step # "idle" /\ ~writing[m].deleted
  BY <1>1, <1>2, <1>5 DEF SyncState
<1> QED BY <1>3, <1>4, <1>5

\* The rows a commit makes current.
LEMMA CommitRows ==
  ASSUME SearchTypeOK, NEW m \in SearchMember, CommitVersion(m)
  PROVE  /\ writing[m] \in CurrentRow /\ writing[m] # NoDoc
         /\ member'[m] = writing[m]
         /\ \A o \in SearchMember \ {m} : member'[o] = member[o]
         /\ index' = index
BY DEF CommitVersion, SearchTypeOK

LEMMA BeginShape ==
  ASSUME SearchTypeOK, NEW s \in Syncer, Begin(s)
  PROVE  /\ member' = member
         /\ sync[s].step = "idle"
         /\ sync'[s].step = "scan" /\ sync'[s].unseen = {} /\ sync'[s].last = 0
         /\ sync'[s].batch = {} /\ sync'[s].writes = {} /\ sync'[s].failed = FALSE
         /\ sync'[s].touched = {}
         /\ sync'[s].unlisted = {m \in SearchMember : ~Listed(m)}
         /\ sync'[s].alone => \A o \in Syncer \ {s} : sync[o].step = "idle"
         /\ \A o \in Syncer \ {s} :
              sync'[o] = IF sync[o].step = "idle" THEN sync[o]
                         ELSE [sync[o] EXCEPT !.alone = FALSE]
<1> DEFINE others == {o \in Syncer : sync[o].step # "idle"}
<1>0. /\ member' = member /\ sync[s].step = "idle"
  BY DEF Begin
<1>1. sync' = [o \in Syncer |->
           IF o = s THEN [NotSyncing EXCEPT !.step = "scan", !.alone = others = {}, !.unlisted = {m \in SearchMember : ~Listed(m)}]
           ELSE IF o \in others THEN [sync[o] EXCEPT !.alone = FALSE] ELSE sync[o]]
  BY DEF Begin
<1>2. sync'[s] = [NotSyncing EXCEPT !.step = "scan", !.alone = others = {}, !.unlisted = {m \in SearchMember : ~Listed(m)}]
  BY <1>1
<1>3. \A o \in Syncer \ {s} :
         sync'[o] = IF sync[o].step = "idle" THEN sync[o]
                    ELSE [sync[o] EXCEPT !.alone = FALSE]
  BY <1>1
<1>4. sync'[s].alone => others = {}
  BY <1>2 DEF NotSyncing
<1>5. sync'[s].alone => \A o \in Syncer \ {s} : sync[o].step = "idle"
  BY <1>4
<1>6. /\ sync'[s].step = "scan" /\ sync'[s].unseen = {} /\ sync'[s].last = 0
      /\ sync'[s].batch = {} /\ sync'[s].writes = {} /\ sync'[s].failed = FALSE
      /\ sync'[s].touched = {}
      /\ sync'[s].unlisted = {m \in SearchMember : ~Listed(m)}
  BY <1>2 DEF NotSyncing
<1> QED BY <1>0, <1>3, <1>5, <1>6

\* The other synchronizations keep everything but being alone.
LEMMA BeginOthers ==
  ASSUME SearchTypeOK, NEW s \in Syncer, Begin(s), NEW o \in Syncer \ {s}
  PROVE  /\ sync[o].step = "idle" => sync'[o] = sync[o]
         /\ sync[o].step # "idle" => ~sync'[o].alone
         /\ sync'[o].step = sync[o].step /\ sync'[o].unseen = sync[o].unseen
         /\ sync'[o].last = sync[o].last /\ sync'[o].batch = sync[o].batch
         /\ sync'[o].writes = sync[o].writes /\ sync'[o].failed = sync[o].failed
         /\ sync'[o].touched = sync[o].touched /\ sync'[o].unlisted = sync[o].unlisted
<1>1. sync[o] \in SyncState
  BY DEF SearchTypeOK
<1>2. CASE sync[o].step = "idle"
  BY <1>2, BeginShape
<1>3. CASE sync[o].step # "idle"
  <2> DEFINE new == [sync[o] EXCEPT !.alone = FALSE]
  <2>1. sync'[o] = new
    BY <1>3, BeginShape
  <2>2. /\ ~new.alone
        /\ new.step = sync[o].step /\ new.unseen = sync[o].unseen
        /\ new.last = sync[o].last /\ new.batch = sync[o].batch
        /\ new.writes = sync[o].writes /\ new.failed = sync[o].failed
        /\ new.touched = sync[o].touched /\ new.unlisted = sync[o].unlisted
    BY <1>1 DEF SyncState
  <2> HIDE DEF new
  <2> QED BY <1>3, <2>1, <2>2
<1> QED BY <1>2, <1>3

(***************************************************************************)
(* The batch                                                               *)
(***************************************************************************)
LEMMA BatchStep == SearchInv /\ SearchNext => \A s \in Syncer : BatchInv(s)'
<1> SUFFICES ASSUME SearchInv, SearchNext, NEW s \in Syncer PROVE BatchInv(s)'
  OBVIOUS
<1>t. SearchTypeOK /\ BatchInv(s) /\ sync[s] \in SyncState
  BY DEF SearchInv, SearchTypeOK
<1>1. ASSUME NEW m \in SearchMember, NEW h \in Hash, NEW deleted \in BOOLEAN,
             InsertVersion(m, h, deleted)
      PROVE  BatchInv(s)'
  BY <1>1, <1>t, InsertShape DEF BatchInv, Listed
<1>2. ASSUME NEW m \in SearchMember, CommitVersion(m) PROVE BatchInv(s)'
  <2>1. CASE sync[s].step = "idle"
    <3>1. sync'[s] = sync[s] /\ sync[s] = NotSyncing
      BY <1>2, <1>t, <2>1, CommitShape DEF BatchInv
    <3> QED BY <3>1 DEF BatchInv, NotSyncing
  <2>2. CASE sync[s].step # "idle"
    <3>1. /\ sync'[s].touched = sync[s].touched \union {m}
          /\ sync'[s].step = sync[s].step /\ sync'[s].unseen = sync[s].unseen
          /\ sync'[s].last = sync[s].last /\ sync'[s].batch = sync[s].batch
          /\ sync'[s].writes = sync[s].writes
      BY <1>2, <1>t, <2>2, CommitShape
    <3>2. \A o \in SearchMember \ {m} : member'[o] = member[o]
      BY <1>2, <1>t, CommitRows
    <3>3. \A r \in sync[s].batch : r.member \in SearchMember
      BY <1>t DEF SyncState, ReadRow
    <3> QED BY <3>1, <3>2, <3>3, <1>t, <2>2 DEF BatchInv, Listed
  <2> QED BY <2>1, <2>2
<1>3. ASSUME NEW q \in Syncer, Begin(q) PROVE BatchInv(s)'
  <2>1. CASE q = s
    BY <1>3, <1>t, <2>1, BeginShape DEF BatchInv
  <2>2. CASE q # s
    <3>1. /\ sync[s].step = "idle" => sync'[s] = sync[s]
          /\ sync'[s].step = sync[s].step /\ sync'[s].unseen = sync[s].unseen
          /\ sync'[s].last = sync[s].last /\ sync'[s].batch = sync[s].batch
          /\ sync'[s].writes = sync[s].writes /\ sync'[s].touched = sync[s].touched
      BY <1>3, <1>t, <2>2, BeginOthers
    <3>2. member' = member
      BY <1>3, <1>t, BeginShape
    <3> QED BY <3>1, <3>2, <1>t DEF BatchInv, Listed
  <2> QED BY <2>1, <2>2
<1>4. ASSUME NEW q \in Syncer \ {s}, Works(q) PROVE BatchInv(s)'
  <2>1. sync'[s] = sync[s] /\ member' = member
    BY <1>4, <1>t, WorksAlone
  <2> QED BY <2>1, <1>t DEF BatchInv, Listed
<1>5. ASSUME Works(s) PROVE BatchInv(s)'
  <2>m. member' = member /\ sync \in [Syncer -> SyncState]
    BY <1>5, <1>t, WorksAlone DEF SearchTypeOK
  <2>n. ASSUME sync'[s] = NotSyncing PROVE BatchInv(s)'
    BY <2>n DEF BatchInv, NotSyncing
  <2>1. CASE ScanIndex(s)
    BY <2>1, <2>m, <1>t DEF ScanIndex, BatchInv, Listed, SyncState
  <2>2. CASE ReadBatch(s)
    <3> DEFINE rows == {[member |-> m, row |-> member[m]] : m \in NextBatch(s)}
    <3>1. rows # {} /\ \A r \in rows : Listed(r.member) /\ r.row = member[r.member]
      <4>1. NextBatch(s) # {} /\ \A m \in NextBatch(s) : Listed(m)
        BY <2>2, NextBatchDef DEF ReadBatch, Behind
      <4>2. rows # {}
        BY <4>1
      <4>3. ASSUME NEW r \in rows PROVE Listed(r.member) /\ r.row = member[r.member]
        <5>1. PICK m \in NextBatch(s) : r = [member |-> m, row |-> member[m]]
          OBVIOUS
        <5>2. r.member = m /\ r.row = member[m]
          BY <5>1
        <5> QED BY <4>1, <5>2
      <4> QED BY <4>2, <4>3
    <3>2. /\ sync'[s].step = "compare" /\ sync'[s].batch = rows
          /\ sync'[s].writes = sync[s].writes
      BY <2>2, <2>m, <1>t DEF ReadBatch, SyncState
    <3>3. sync[s].writes = {}
      BY <2>2, <1>t DEF ReadBatch, BatchInv
    <3> HIDE DEF rows
    <3> QED BY <3>1, <3>2, <3>3, <2>m DEF BatchInv, Listed
  <2>3. CASE Compare(s)
    <3>1. /\ sync'[s].step = "write" /\ sync'[s].batch = sync[s].batch
          /\ sync'[s].writes \subseteq sync[s].batch
          /\ sync'[s].touched = sync[s].touched
      BY <2>3, <2>m, <1>t DEF Compare, SyncState
    <3>2. sync[s].batch # {}
      BY <2>3, <1>t DEF Compare, BatchInv
    <3> QED BY <3>1, <3>2, <2>m, <1>t DEF BatchInv, Listed
  <2>4. CASE Write(s)
    <3>1. /\ sync'[s].step = "write" /\ sync[s].step = "write"
          /\ sync'[s].batch = sync[s].batch
          /\ sync'[s].writes \subseteq sync[s].writes
          /\ sync'[s].touched = sync[s].touched
      BY <2>4, <2>m, <1>t DEF Write, SyncState
    <3> QED BY <3>1, <2>m, <1>t DEF BatchInv, Listed
  <2>5. CASE Written(s)
    <3>1. CASE sync[s].failed
      BY <3>1, <2>5, <2>m, <2>n DEF Written
    <3>2. CASE ~sync[s].failed
      <4>1. /\ sync'[s].step = "read" /\ sync'[s].batch = {}
            /\ sync'[s].writes = {}
        BY <3>2, <2>5, <2>m, <1>t DEF Written, SyncState
      <4> QED BY <4>1 DEF BatchInv
    <3> QED BY <3>1, <3>2
  <2>6. CASE AllRead(s)
    <3>1. sync'[s] = NotSyncing \/ sync'[s] = [sync[s] EXCEPT !.step = "remove"]
      BY <2>6, <2>m DEF AllRead
    <3>2. CASE sync'[s] = [sync[s] EXCEPT !.step = "remove"]
      <4>1. /\ sync'[s].step = "remove" /\ sync[s].step = "read"
            /\ sync'[s].batch = sync[s].batch /\ sync'[s].writes = sync[s].writes
        BY <3>2, <2>6, <1>t DEF SyncState, AllRead
      <4> QED BY <4>1, <1>t DEF BatchInv
    <3> QED BY <3>1, <3>2, <2>n
  <2>7. CASE \E m \in SearchMember : RemoveDocument(s, m)
    <3>1. /\ sync'[s].step = "remove" /\ sync[s].step = "remove"
          /\ sync'[s].batch = sync[s].batch /\ sync'[s].writes = sync[s].writes
      BY <2>7, <2>m, <1>t DEF RemoveDocument, SyncState
    <3> QED BY <3>1, <1>t DEF BatchInv
  <2>8. CASE Switch(s)
    BY <2>8, <2>m, <2>n DEF Switch
  <2>9. CASE Stops(s)
    BY <2>9, <2>m, <2>n DEF Stops
  <2> QED
    BY <1>5, <2>1, <2>2, <2>3, <2>4, <2>5, <2>6, <2>7, <2>8, <2>9 DEF Works
<1> QED BY <1>1, <1>2, <1>3, <1>4, <1>5, StepIsOne

(***************************************************************************)
(* The documents no batch named yet                                        *)
(***************************************************************************)
\* Once a batch is through, what lay behind its rows lies behind the last id.
LEMMA WrittenLast ==
  ASSUME SearchInv, NEW s \in Syncer, Written(s), ~sync[s].failed
  PROVE  /\ sync'[s].step = "read" /\ sync'[s].batch = {} /\ sync'[s].writes = {}
         /\ sync'[s].unseen = sync[s].unseen /\ sync'[s].unlisted = sync[s].unlisted
         /\ sync'[s].touched = sync[s].touched /\ sync'[s].alone = sync[s].alone
         /\ sync'[s].failed = FALSE /\ index' = index
         /\ \A m \in SearchMember : Ahead(m, s) => Ahead(m, s)'
<1> DEFINE T == {r.row.id : r \in sync[s].batch}
<1>t. sync[s] \in SyncState /\ sync \in [Syncer -> SyncState] /\ BatchInv(s)
  BY DEF SearchInv, SearchTypeOK
<1>1. T \in SUBSET (1..MaxId) /\ T # {}
  BY <1>t DEF Written, BatchInv, SyncState, ReadRow, CurrentRow
<1>2. Max(T) \in T
  BY <1>1, MaxOfIds
<1>3. PICK r \in sync[s].batch : Max(T) = r.row.id
  BY <1>2
<1>4. sync'[s] = [sync[s] EXCEPT !.step = "read", !.last = Max(T), !.batch = {}]
  BY <1>t DEF Written
<1> HIDE DEF T
<1>5. /\ sync'[s].step = "read" /\ sync'[s].batch = {} /\ sync'[s].last = Max(T)
      /\ sync'[s].writes = sync[s].writes
      /\ sync'[s].unseen = sync[s].unseen /\ sync'[s].unlisted = sync[s].unlisted
      /\ sync'[s].touched = sync[s].touched /\ sync'[s].alone = sync[s].alone
      /\ sync'[s].failed = sync[s].failed
  BY <1>t, <1>4 DEF SyncState
<1>6. sync[s].writes = {} /\ member' = member /\ index' = index
  BY DEF Written
<1>7. \A m \in SearchMember : Ahead(m, s) => Max(T) < member[m].id
  BY <1>3 DEF Ahead
<1>8. ASSUME NEW m \in SearchMember, Ahead(m, s) PROVE Ahead(m, s)'
  <2>1. r.row.id < member[m].id
    BY <1>8 DEF Ahead
  <2>2. member'[m].id > sync'[s].last
    BY <2>1, <1>3, <1>5, <1>6
  <2> QED BY <2>2, <1>5 DEF Ahead, After
<1> QED BY <1>5, <1>6, <1>8

\* A commit moves a member that was listed all the time ahead, not back.
LEMMA CommitAhead ==
  ASSUME SearchInv, NEW m \in SearchMember, CommitVersion(m), NEW s \in Syncer,
         NEW o \in SearchMember, Listed(o), Ahead(o, s)
  PROVE  Ahead(o, s)'
<1>t. SearchTypeOK /\ IdInv /\ sync[s] \in SyncState
  BY DEF SearchInv, SearchTypeOK
<1>1. sync'[s].last = sync[s].last /\ sync'[s].batch = sync[s].batch
  BY <1>t, CommitShape
<1>2. CASE o # m
  BY <1>1, <1>2, <1>t, CommitRows DEF Ahead, After
<1>3. CASE o = m
  <2>1. member[m] # NoDoc /\ writing[m] # NoDoc /\ member'[m] = writing[m]
    BY <1>3, <1>t, CommitRows DEF Listed
  <2>2. member[m].id < writing[m].id
    BY <2>1, <1>t DEF IdInv
  <2>3. member[m].id \in Int /\ writing[m].id \in Int /\ sync[s].last \in Int
    BY <2>1, <1>t DEF SearchTypeOK, CurrentRow, SyncState
  <2>4. \A r \in sync[s].batch : r.row.id \in Int
    BY <1>t DEF SyncState, ReadRow, CurrentRow
  <2> QED BY <1>1, <1>3, <2>1, <2>2, <2>3, <2>4 DEF Ahead, After
<1> QED BY <1>2, <1>3

LEMMA UnseenStep == SearchInv /\ SearchNext => \A s \in Syncer : UnseenInv(s)'
<1> SUFFICES ASSUME SearchInv, SearchNext, NEW s \in Syncer PROVE UnseenInv(s)'
  OBVIOUS
<1>t. /\ SearchTypeOK /\ IdInv /\ BatchInv(s) /\ UnseenInv(s)
      /\ sync[s] \in SyncState /\ sync \in [Syncer -> SyncState]
  BY DEF SearchInv, SearchTypeOK
<1>1. ASSUME NEW m \in SearchMember, NEW h \in Hash, NEW deleted \in BOOLEAN,
             InsertVersion(m, h, deleted)
      PROVE  UnseenInv(s)'
  BY <1>1, <1>t, InsertShape DEF UnseenInv, Listed, Ahead, After
<1>2. ASSUME NEW m \in SearchMember, CommitVersion(m) PROVE UnseenInv(s)'
  <2>1. CASE sync[s].step = "idle"
    BY <1>2, <1>t, <2>1, CommitShape DEF UnseenInv
  <2>2. CASE sync[s].step # "idle"
    <3>1. /\ sync'[s].unlisted = IF writing[m].deleted THEN sync[s].unlisted \union {m}
                                                       ELSE sync[s].unlisted
          /\ sync'[s].step = sync[s].step /\ sync'[s].unseen = sync[s].unseen
      BY <1>2, <1>t, <2>2, CommitShape
    <3>2. /\ writing[m] # NoDoc /\ member'[m] = writing[m]
          /\ \A o \in SearchMember \ {m} : member'[o] = member[o]
      BY <1>2, <1>t, CommitRows
    <3>3. \A o \in SearchMember : Listed(o)' \/ o \in sync'[s].unlisted
      BY <3>1, <3>2, <1>t, <2>2 DEF UnseenInv, Listed
    <3>4. ASSUME sync[s].step \in {"read", "compare", "write"},
                 NEW o \in sync[s].unseen \ sync'[s].unlisted
          PROVE  Ahead(o, s)'
      <4>1. o \in SearchMember /\ o \notin sync[s].unlisted
        BY <1>t, <3>1, <3>4 DEF SyncState
      <4>2. Listed(o) /\ Ahead(o, s)
        BY <1>t, <2>2, <3>4, <4>1 DEF UnseenInv
      <4> QED BY <1>2, <4>1, <4>2, CommitAhead
    <3>5. sync[s].step = "remove" => sync[s].unseen \subseteq sync'[s].unlisted
      BY <1>t, <3>1 DEF UnseenInv
    <3> QED BY <3>1, <3>3, <3>4, <3>5 DEF UnseenInv
  <2> QED BY <2>1, <2>2
<1>3. ASSUME NEW q \in Syncer, Begin(q) PROVE UnseenInv(s)'
  <2>1. CASE q = s
    BY <1>3, <1>t, <2>1, BeginShape DEF UnseenInv, Listed
  <2>2. CASE q # s
    <3>1. /\ sync'[s].step = sync[s].step /\ sync'[s].unseen = sync[s].unseen
          /\ sync'[s].last = sync[s].last /\ sync'[s].batch = sync[s].batch
          /\ sync'[s].unlisted = sync[s].unlisted
      BY <1>3, <1>t, <2>2, BeginOthers
    <3>2. member' = member
      BY <1>3, <1>t, BeginShape
    <3> QED BY <3>1, <3>2, <1>t DEF UnseenInv, Listed, Ahead, After
  <2> QED BY <2>1, <2>2
<1>4. ASSUME NEW q \in Syncer \ {s}, Works(q) PROVE UnseenInv(s)'
  <2>1. sync'[s] = sync[s] /\ member' = member
    BY <1>4, <1>t, WorksAlone
  <2> QED BY <2>1, <1>t DEF UnseenInv, Listed, Ahead, After
<1>5. ASSUME Works(s) PROVE UnseenInv(s)'
  <2>m. member' = member /\ sync[s].step # "idle"
    BY <1>5, <1>t, WorksAlone
  <2>l. \A m \in SearchMember : Listed(m) \/ m \in sync[s].unlisted
    BY <2>m, <1>t DEF UnseenInv
  <2>n. ASSUME sync'[s] = NotSyncing PROVE UnseenInv(s)'
    BY <2>n DEF UnseenInv, NotSyncing
  <2>1. CASE ScanIndex(s)
    <3>1. /\ sync'[s].step = "read" /\ sync'[s].unlisted = sync[s].unlisted
          /\ sync'[s].batch = {} /\ sync'[s].last = 0
          /\ sync'[s].unseen \subseteq SearchMember
      BY <2>1, <1>t DEF ScanIndex, SyncState, BatchInv, Documents
    <3>2. \A m \in SearchMember : Listed(m) => member[m].id > 0
      BY <1>t DEF Listed, SearchTypeOK, CurrentRow
    <3> QED BY <3>1, <3>2, <2>l, <2>m DEF UnseenInv, Ahead, After, Listed
  <2>2. CASE ReadBatch(s)
    <3> DEFINE rows == {[member |-> m, row |-> member[m]] : m \in NextBatch(s)}
    <3>1. /\ sync'[s].step = "compare" /\ sync'[s].batch = rows
          /\ sync'[s].unseen = sync[s].unseen \ NextBatch(s)
          /\ sync'[s].last = sync[s].last /\ sync'[s].unlisted = sync[s].unlisted
      BY <2>2, <1>t DEF ReadBatch, SyncState
    <3>2. ASSUME NEW m \in sync'[s].unseen \ sync'[s].unlisted PROVE Ahead(m, s)'
      <4>1. m \in sync[s].unseen \ sync[s].unlisted /\ m \notin NextBatch(s) /\ m \in SearchMember
        BY <3>1, <3>2, <1>t DEF SyncState
      <4>2. m \in Behind(s)
        BY <4>1, <2>l, <2>2, <1>t DEF UnseenInv, Ahead, Behind, ReadBatch
      <4>3. \A o \in NextBatch(s) : member[o].id < member[m].id
        BY <4>1, <4>2, <1>t, NextBatchIsFirst
      <4>4. ASSUME NEW r \in rows PROVE r.row.id < member[m].id
        <5>1. PICK o \in NextBatch(s) : r = [member |-> o, row |-> member[o]]
          OBVIOUS
        <5>2. r.row = member[o]
          BY <5>1
        <5> QED BY <5>2, <4>3
      <4>5. member[m].id > sync[s].last
        BY <4>2 DEF Behind, After
      <4> HIDE DEF rows
      <4> QED BY <4>4, <4>5, <3>1, <2>m DEF Ahead, After
    <3> HIDE DEF rows
    <3> QED BY <3>1, <3>2, <2>l, <2>m DEF UnseenInv, Listed
  <2>3. CASE Compare(s) \/ Write(s)
    <3>1. /\ sync[s].step \in {"compare", "write"} /\ sync'[s].step = "write"
          /\ sync'[s].batch = sync[s].batch /\ sync'[s].last = sync[s].last
          /\ sync'[s].unseen = sync[s].unseen /\ sync'[s].unlisted = sync[s].unlisted
      <4>1. CASE Compare(s)
        BY <4>1, <1>t DEF Compare, SyncState
      <4>2. CASE Write(s)
        BY <4>2, <1>t DEF Write, SyncState
      <4> QED BY <2>3, <4>1, <4>2
    <3> QED BY <3>1, <2>m, <1>t DEF UnseenInv, Listed, Ahead, After
  <2>5. CASE Written(s)
    <3>1. CASE sync[s].failed
      BY <3>1, <2>5, <2>n, <1>t DEF Written
    <3>2. CASE ~sync[s].failed
      <4>1. /\ sync'[s].step = "read"
            /\ sync'[s].unseen = sync[s].unseen /\ sync'[s].unlisted = sync[s].unlisted
            /\ \A m \in SearchMember : Ahead(m, s) => Ahead(m, s)'
        BY <3>2, <2>5, WrittenLast
      <4>2. \A m \in sync[s].unseen \ sync[s].unlisted : Ahead(m, s) /\ m \in SearchMember
        BY <2>5, <1>t DEF Written, UnseenInv, SyncState
      <4> QED BY <4>1, <4>2, <2>l, <2>m DEF UnseenInv, Listed
    <3> QED BY <3>1, <3>2
  <2>6. CASE AllRead(s)
    <3>1. sync'[s] = NotSyncing \/ sync'[s] = [sync[s] EXCEPT !.step = "remove"]
      BY <2>6, <1>t DEF AllRead
    <3>2. CASE sync'[s] = [sync[s] EXCEPT !.step = "remove"]
      <4>1. /\ sync'[s].step = "remove" /\ sync[s].step = "read" /\ NextBatch(s) = {}
            /\ sync'[s].unseen = sync[s].unseen /\ sync'[s].unlisted = sync[s].unlisted
        BY <3>2, <2>6, <1>t DEF SyncState, AllRead
      <4>2. Behind(s) = {}
        BY <4>1, <1>t, NextBatchEmpty
      <4>3. \A m \in sync[s].unseen \ sync[s].unlisted : m \in Behind(s)
        BY <4>1, <2>l, <1>t DEF UnseenInv, Ahead, Behind, SyncState
      <4> QED BY <4>1, <4>2, <4>3, <2>l, <2>m DEF UnseenInv, Listed
    <3> QED BY <3>1, <3>2, <2>n
  <2>7. CASE \E m \in SearchMember : RemoveDocument(s, m)
    <3>1. /\ sync'[s].step = "remove" /\ sync[s].step = "remove"
          /\ sync'[s].unseen \subseteq sync[s].unseen /\ sync'[s].unlisted = sync[s].unlisted
      BY <2>7, <1>t DEF RemoveDocument, SyncState
    <3> QED BY <3>1, <2>l, <2>m, <1>t DEF UnseenInv, Listed
  <2>8. CASE Switch(s)
    BY <2>8, <2>n, <1>t DEF Switch
  <2>9. CASE Stops(s)
    BY <2>9, <2>n, <1>t DEF Stops
  <2> QED
    BY <1>5, <2>1, <2>2, <2>3, <2>5, <2>6, <2>7, <2>8, <2>9 DEF Works
<1> QED BY <1>1, <1>2, <1>3, <1>4, <1>5, StepIsOne

(***************************************************************************)
(* The documents of the members that do not change                         *)
(***************************************************************************)
\* What FreshInv says of one member.
Fresh(m, s) ==
  /\ Listed(m) => m \notin sync[s].unlisted
  /\ Listed(m) /\ sync[s].step # "scan" /\ ~sync[s].failed =>
       \/ index[m] = member[m].hash
       \/ sync[s].step # "remove" /\ Ahead(m, s)
       \/ \E r \in IF sync[s].step = "write" THEN sync[s].writes ELSE sync[s].batch :
            r.member = m
  /\ ~Listed(m) /\ sync[s].step # "scan" => index[m] = NoDoc \/ m \in sync[s].unseen

LEMMA FreshDef ==
  ASSUME NEW s \in Syncer
  PROVE  FreshInv(s) <=>
           (sync[s].step # "idle" /\ sync[s].alone =>
              /\ \A o \in Syncer \ {s} : sync[o].step = "idle"
              /\ \A m \in SearchMember \ sync[s].touched : Fresh(m, s))
BY DEF FreshInv, Fresh

\* What a step of a synchronization leaves of its history.
LEMMA WorksHistory ==
  ASSUME SearchTypeOK, NEW s \in Syncer, Works(s), sync'[s] # NotSyncing
  PROVE  sync'[s].touched = sync[s].touched /\ sync'[s].alone = sync[s].alone
<1>t. sync[s] \in SyncState /\ sync \in [Syncer -> SyncState]
  BY DEF SearchTypeOK
<1>1. CASE ScanIndex(s)
  BY <1>1, <1>t DEF ScanIndex, SyncState
<1>2. CASE ReadBatch(s)
  BY <1>2, <1>t DEF ReadBatch, SyncState
<1>3. CASE Compare(s)
  BY <1>3, <1>t DEF Compare, SyncState
<1>4. CASE Write(s)
  BY <1>4, <1>t DEF Write, SyncState
<1>5. CASE Written(s)
  BY <1>5, <1>t DEF Written, SyncState
<1>6. CASE AllRead(s)
  BY <1>6, <1>t DEF AllRead, SyncState
<1>7. CASE \E m \in SearchMember : RemoveDocument(s, m)
  BY <1>7, <1>t DEF RemoveDocument, SyncState
<1>8. CASE Switch(s) \/ Stops(s)
  BY <1>8, <1>t DEF Switch, Stops
<1> QED
  BY <1>1, <1>2, <1>3, <1>4, <1>5, <1>6, <1>7, <1>8 DEF Works

\* Only the removal takes documents off while it goes on.
LEMMA WorksRemove ==
  ASSUME SearchTypeOK, NEW s \in Syncer, Works(s), sync'[s].step = "remove",
         sync'[s].unseen # sync[s].unseen
  PROVE  sync[s].step = "remove"
<1>t. sync[s] \in SyncState /\ sync \in [Syncer -> SyncState]
  BY DEF SearchTypeOK
<1>1. CASE ScanIndex(s)
  BY <1>1, <1>t DEF ScanIndex, SyncState
<1>2. CASE ReadBatch(s)
  BY <1>2, <1>t DEF ReadBatch, SyncState
<1>3. CASE Compare(s)
  BY <1>3, <1>t DEF Compare, SyncState
<1>4. CASE Write(s)
  BY <1>4, <1>t DEF Write, SyncState
<1>5. CASE Written(s)
  <2>1. CASE sync[s].failed
    BY <1>5, <1>t, <2>1 DEF Written, NotSyncing
  <2>2. CASE ~sync[s].failed
    BY <1>5, <1>t, <2>2 DEF Written, SyncState
  <2> QED BY <2>1, <2>2
<1>6. CASE AllRead(s)
  <2>1. sync'[s] = NotSyncing \/ sync'[s] = [sync[s] EXCEPT !.step = "remove"]
    BY <1>6, <1>t DEF AllRead
  <2> QED BY <1>t, <2>1 DEF NotSyncing, SyncState
<1>7. CASE \E m \in SearchMember : RemoveDocument(s, m)
  BY <1>7 DEF RemoveDocument
<1>8. CASE Switch(s) \/ Stops(s)
  BY <1>8, <1>t DEF Switch, Stops, NotSyncing
<1> QED
  BY <1>1, <1>2, <1>3, <1>4, <1>5, <1>6, <1>7, <1>8 DEF Works

\* A step of the only synchronization keeps it.
LEMMA FreshWorks ==
  ASSUME SearchInv, NEW s \in Syncer, Works(s), sync'[s] # NotSyncing,
         NEW m \in SearchMember, m \notin sync[s].touched, Fresh(m, s)
  PROVE  Fresh(m, s)'
<1>t. /\ SearchTypeOK /\ IdInv /\ BatchInv(s) /\ UnseenInv(s)
      /\ sync[s] \in SyncState /\ sync \in [Syncer -> SyncState]
  BY DEF SearchInv, SearchTypeOK
<1>m. member' = member /\ sync[s].step # "idle"
  BY <1>t, WorksAlone
<1>l. Listed(m)' <=> Listed(m)
  BY <1>m DEF Listed
<1>b. \A r \in sync[s].batch : r.member = m => Listed(m) /\ r.row = member[m]
  BY <1>t DEF BatchInv
<1>1. CASE ScanIndex(s)
  <2>1. /\ sync'[s].step = "read" /\ sync'[s].unseen = Documents(s)
        /\ sync'[s].unlisted = sync[s].unlisted /\ sync'[s].touched = sync[s].touched
        /\ sync'[s].alone = sync[s].alone
        /\ sync'[s].batch = {} /\ sync'[s].last = 0 /\ index' = index
    BY <1>1, <1>t DEF ScanIndex, SyncState, BatchInv
  <2>2. Listed(m) => member[m].id > 0
    BY <1>t DEF Listed, SearchTypeOK, CurrentRow
  <2>3. index[m] = NoDoc \/ m \in Documents(s)
    BY DEF Documents
  <2> QED BY <1>m, <1>l, <2>1, <2>2, <2>3 DEF Fresh, Ahead, After
<1>2. CASE ReadBatch(s)
  <2> DEFINE rows == {[member |-> o, row |-> member[o]] : o \in NextBatch(s)}
  <2>1. /\ sync[s].step = "read" /\ sync[s].batch = {}
        /\ sync'[s].step = "compare" /\ sync'[s].batch = rows
        /\ sync'[s].unseen = sync[s].unseen \ NextBatch(s)
        /\ sync'[s].last = sync[s].last /\ sync'[s].unlisted = sync[s].unlisted
        /\ sync'[s].failed = sync[s].failed
        /\ sync'[s].touched = sync[s].touched /\ sync'[s].alone = sync[s].alone
        /\ index' = index
    BY <1>2, <1>t DEF ReadBatch, SyncState, BatchInv
  <2>2. m \in NextBatch(s) => Listed(m)
    BY NextBatchDef DEF Behind
  <2>3. m \in NextBatch(s) => \E r \in rows : r.member = m
    <3>1. m \in NextBatch(s) => [member |-> m, row |-> member[m]] \in rows
      OBVIOUS
    <3> QED BY <3>1
  <2>4. ASSUME Listed(m), m \notin NextBatch(s), Ahead(m, s) PROVE Ahead(m, s)'
    <3>1. m \in Behind(s)
      BY <2>4 DEF Behind, Ahead
    <3>2. \A o \in NextBatch(s) : member[o].id < member[m].id
      BY <2>4, <3>1, <1>t, NextBatchIsFirst
    <3>3. ASSUME NEW r \in rows PROVE r.row.id < member[m].id
      <4>1. PICK o \in NextBatch(s) : r = [member |-> o, row |-> member[o]]
        OBVIOUS
      <4>2. r.row = member[o]
        BY <4>1
      <4> QED BY <3>2, <4>2
    <3> HIDE DEF rows
    <3> QED BY <2>4, <3>3, <2>1, <1>m DEF Ahead, After
  <2> HIDE DEF rows
  <2> QED BY <1>m, <1>l, <2>1, <2>2, <2>3, <2>4 DEF Fresh
<1>3. CASE Compare(s)
  <2>1. /\ sync[s].step = "compare" /\ sync'[s].step = "write"
        /\ sync'[s].batch = sync[s].batch
        /\ sync'[s].writes = {r \in sync[s].batch : Stale(index[r.member], r.row)}
        /\ sync'[s].unseen = sync[s].unseen
        /\ sync'[s].last = sync[s].last /\ sync'[s].unlisted = sync[s].unlisted
        /\ sync'[s].failed = sync[s].failed
        /\ sync'[s].touched = sync[s].touched /\ sync'[s].alone = sync[s].alone
        /\ index' = index
    BY <1>3, <1>t DEF Compare, SyncState
  <2>2. Ahead(m, s) => Ahead(m, s)'
    BY <2>1, <1>m DEF Ahead, After
  <2>3. \A r \in sync[s].batch : r.member = m => r \in sync'[s].writes \/ index[m] = member[m].hash
    BY <2>1, <1>b DEF Stale
  <2> QED BY <1>m, <1>l, <2>1, <2>2, <2>3 DEF Fresh
<1>4. CASE Write(s)
  <2> DEFINE r == First(sync[s].writes)
  <2>1. /\ sync[s].step = "write" /\ sync'[s].step = "write"
        /\ sync'[s].batch = sync[s].batch
        /\ sync'[s].writes = sync[s].writes \ {r}
        /\ sync'[s].unseen = sync[s].unseen
        /\ sync'[s].last = sync[s].last /\ sync'[s].unlisted = sync[s].unlisted
        /\ sync'[s].touched = sync[s].touched /\ sync'[s].alone = sync[s].alone
    BY <1>4, <1>t DEF Write, SyncState
  <2>2. \/ sync'[s].failed /\ index' = index
        \/ sync'[s].failed = sync[s].failed /\ index' = [index EXCEPT ![r.member] = r.row.hash]
    BY <1>4, <1>t DEF Write, SyncState
  <2>3. r \in ReadRow /\ r \in sync[s].batch
    <3>1. sync[s].writes \in SUBSET ReadRow /\ sync[s].writes # {}
      BY <1>4, <1>t DEF Write, SyncState
    <3> QED BY <3>1, <1>t, FirstIsOne DEF BatchInv
  <2>4. index \in [SearchMember -> Hash \union {NoDoc}]
    BY <1>m, <1>t DEF SearchTypeOK
  <2> HIDE DEF r
  <2>5. Ahead(m, s) => Ahead(m, s)'
    BY <2>1, <1>m DEF Ahead, After
  <2>6. r.member = m => Listed(m) /\ r.row = member[m]
    BY <2>3, <1>b
  <2>7. CASE sync'[s].failed /\ index' = index
    BY <2>1, <2>7, <1>l DEF Fresh
  <2>8. CASE sync'[s].failed = sync[s].failed /\ index' = [index EXCEPT ![r.member] = r.row.hash]
    <3>1. index'[m] = IF r.member = m THEN member[m].hash ELSE index[m]
      BY <2>4, <2>6, <2>8
    <3>2. \A q \in sync[s].writes : q.member = m => q \in sync'[s].writes \/ index'[m] = member[m].hash
      BY <2>1, <3>1
    <3> QED BY <1>m, <1>l, <2>1, <2>5, <2>6, <2>8, <3>1, <3>2 DEF Fresh
  <2> QED BY <2>2, <2>7, <2>8
<1>5. CASE Written(s)
  <2>1. ~sync[s].failed
    BY <1>5, <1>t DEF Written
  <2>2. /\ sync'[s].step = "read" /\ sync'[s].batch = {} /\ sync'[s].writes = {}
        /\ sync'[s].unseen = sync[s].unseen /\ sync'[s].unlisted = sync[s].unlisted
        /\ sync'[s].touched = sync[s].touched /\ sync'[s].alone = sync[s].alone
        /\ index' = index
        /\ Ahead(m, s) => Ahead(m, s)'
    BY <1>5, <2>1, WrittenLast
  <2>3. sync[s].step = "write" /\ sync[s].writes = {}
    BY <1>5 DEF Written
  <2> QED BY <1>m, <1>l, <2>1, <2>2, <2>3 DEF Fresh
<1>6. CASE AllRead(s)
  <2>1. sync'[s] = [sync[s] EXCEPT !.step = "remove"]
    BY <1>6, <1>t DEF AllRead
  <2>2. /\ sync'[s].step = "remove" /\ sync[s].step = "read" /\ NextBatch(s) = {}
        /\ sync'[s].unseen = sync[s].unseen /\ sync'[s].unlisted = sync[s].unlisted
        /\ sync'[s].batch = sync[s].batch /\ sync'[s].failed = sync[s].failed
        /\ sync'[s].touched = sync[s].touched /\ sync'[s].alone = sync[s].alone
        /\ index' = index
    BY <2>1, <1>6, <1>t DEF SyncState, AllRead
  <2>3. Behind(s) = {}
    BY <2>2, <1>t, NextBatchEmpty
  <2>4. ~(Listed(m) /\ Ahead(m, s))
    BY <2>3 DEF Behind, Ahead
  <2>5. sync[s].batch = {}
    BY <2>2, <1>t DEF BatchInv
  <2> QED BY <1>m, <1>l, <2>2, <2>4, <2>5 DEF Fresh
<1>7. CASE \E x \in SearchMember : RemoveDocument(s, x)
  <2>1. PICK x \in SearchMember : RemoveDocument(s, x)
    BY <1>7
  <2>2. /\ sync[s].step = "remove" /\ sync'[s].step = "remove"
        /\ x \in sync[s].unseen /\ sync'[s].unseen = sync[s].unseen \ {x}
        /\ sync'[s].unlisted = sync[s].unlisted /\ sync'[s].batch = sync[s].batch
        /\ sync'[s].touched = sync[s].touched /\ sync'[s].alone = sync[s].alone
        /\ sync[s].failed => sync'[s].failed
        /\ index' = [index EXCEPT ![x] = NoDoc]
    BY <2>1, <1>t DEF RemoveDocument, SyncState
  <2>3. index \in [SearchMember -> Hash \union {NoDoc}]
    BY <1>m, <1>t DEF SearchTypeOK
  <2>4. index'[m] = IF m = x THEN NoDoc ELSE index[m]
    BY <2>2, <2>3
  <2>5. x \in sync[s].unlisted
    BY <2>2, <1>t DEF UnseenInv
  <2>6. sync[s].batch = {}
    BY <2>2, <1>t DEF BatchInv
  <2> QED BY <1>m, <1>l, <2>2, <2>4, <2>5, <2>6 DEF Fresh
<1>8. CASE Switch(s) \/ Stops(s)
  BY <1>8, <1>t DEF Switch, Stops
<1> QED
  BY <1>1, <1>2, <1>3, <1>4, <1>5, <1>6, <1>7, <1>8 DEF Works

LEMMA FreshStep == SearchInv /\ SearchNext => \A s \in Syncer : FreshInv(s)'
<1> SUFFICES ASSUME SearchInv, SearchNext, NEW s \in Syncer,
                    sync'[s].step # "idle", sync'[s].alone
             PROVE  /\ \A o \in Syncer \ {s} : sync'[o].step = "idle"
                    /\ \A m \in SearchMember \ sync'[s].touched : Fresh(m, s)'
  BY DEF FreshInv, Fresh
<1>t. /\ SearchTypeOK /\ FreshInv(s) /\ sync[s] \in SyncState
  BY DEF SearchInv, SearchTypeOK
<1>1. ASSUME NEW m \in SearchMember, NEW h \in Hash, NEW deleted \in BOOLEAN,
             InsertVersion(m, h, deleted)
      PROVE  /\ \A o \in Syncer \ {s} : sync'[o].step = "idle"
             /\ \A x \in SearchMember \ sync'[s].touched : Fresh(x, s)'
  <2>1. UNCHANGED <<member, index, sync>>
    BY <1>1, InsertShape
  <2> QED BY <2>1, <1>t, FreshDef DEF Fresh, Listed, Ahead, After
<1>2. ASSUME NEW m \in SearchMember, CommitVersion(m)
      PROVE  /\ \A o \in Syncer \ {s} : sync'[o].step = "idle"
             /\ \A x \in SearchMember \ sync'[s].touched : Fresh(x, s)'
  <2>1. \A o \in Syncer : sync'[o].step = sync[o].step
    BY <1>2, <1>t, CommitShape
  <2>2. /\ sync'[s].touched = sync[s].touched \union {m}
        /\ sync'[s].unlisted = IF writing[m].deleted THEN sync[s].unlisted \union {m}
                                                     ELSE sync[s].unlisted
        /\ sync'[s].unseen = sync[s].unseen
        /\ sync'[s].last = sync[s].last /\ sync'[s].batch = sync[s].batch
        /\ sync'[s].writes = sync[s].writes /\ sync'[s].failed = sync[s].failed
        /\ sync'[s].alone = sync[s].alone
    BY <1>2, <1>t, <2>1, CommitShape
  <2>3. \A o \in SearchMember \ {m} : member'[o] = member[o] /\ index' = index
    BY <1>2, <1>t, CommitRows
  <2>4. ASSUME NEW x \in SearchMember \ sync'[s].touched PROVE Fresh(x, s)'
    <3>1. x # m /\ Fresh(x, s)
      BY <2>1, <2>2, <2>4, <1>t, FreshDef
    <3> QED BY <3>1, <2>1, <2>2, <2>3 DEF Fresh, Listed, Ahead, After
  <2> QED BY <2>1, <2>2, <2>4, <1>t, FreshDef
<1>3. ASSUME NEW q \in Syncer, Begin(q)
      PROVE  /\ \A o \in Syncer \ {s} : sync'[o].step = "idle"
             /\ \A x \in SearchMember \ sync'[s].touched : Fresh(x, s)'
  <2>1. q = s
    BY <1>3, <1>t, BeginOthers
  <2>2. \A o \in Syncer \ {s} : sync'[o].step = "idle"
    <3>1. \A o \in Syncer \ {s} : sync[o].step = "idle"
      BY <1>3, <1>t, <2>1, BeginShape
    <3> QED BY <1>3, <1>t, <2>1, <3>1, BeginOthers
  <2>3. /\ member' = member /\ sync'[s].step = "scan"
        /\ sync'[s].unlisted = {m \in SearchMember : ~Listed(m)}
    BY <1>3, <1>t, <2>1, BeginShape
  <2> QED BY <2>2, <2>3 DEF Fresh, Listed
<1>4. ASSUME NEW q \in Syncer \ {s}, Works(q) PROVE FALSE
  <2>1. sync'[s] = sync[s] /\ sync[q].step # "idle"
    BY <1>4, <1>t, WorksAlone
  <2> QED BY <2>1, <1>t, FreshDef
<1>5. ASSUME Works(s)
      PROVE  /\ \A o \in Syncer \ {s} : sync'[o].step = "idle"
             /\ \A x \in SearchMember \ sync'[s].touched : Fresh(x, s)'
  <2>1. sync'[s] # NotSyncing
    BY DEF NotSyncing
  <2>2. sync'[s].touched = sync[s].touched /\ sync'[s].alone = sync[s].alone
    BY <1>5, <1>t, <2>1, WorksHistory
  <2>3. sync[s].step # "idle" /\ \A o \in Syncer \ {s} : sync'[o] = sync[o]
    BY <1>5, <1>t, WorksAlone
  <2> QED BY <1>5, <1>t, <2>1, <2>2, <2>3, FreshWorks, FreshDef
<1> QED BY <1>1, <1>2, <1>3, <1>4, <1>5, StepIsOne

(***************************************************************************)
(* The theorems                                                            *)
(***************************************************************************)
LEMMA SearchInvInit == SearchInit => SearchInv
<1> SUFFICES ASSUME SearchInit PROVE SearchInv
  OBVIOUS
<1>1. \A s \in Syncer : sync[s] = NotSyncing
  BY DEF SearchInit
<1>2. \A m \in SearchMember : member[m] = NoDoc /\ writing[m] = NoDoc
  BY DEF SearchInit, NoDocuments
<1>3. SearchTypeOK
  <2>1. sync \in [Syncer -> SyncState]
    BY NotSyncingType DEF SearchInit
  <2>2. \A s \in Syncer : Cardinality(sync[s].batch) <= BatchSize /\ sync[s].step = "idle"
    BY <1>1, NotSyncingEmpty DEF NotSyncing
  <2>3. nextId \in 1..(MaxId + 1) /\ syncs \in 0..MaxSync
    BY BoundAssumption DEF SearchInit
  <2> QED BY <2>1, <2>2, <2>3 DEF SearchInit, SearchTypeOK, NoDocuments
<1>4. IdInv
  BY <1>2 DEF IdInv
<1>5. ASSUME NEW s \in Syncer PROVE BatchInv(s) /\ UnseenInv(s) /\ FreshInv(s)
  BY <1>1 DEF BatchInv, UnseenInv, FreshInv, NotSyncing
<1> QED BY <1>3, <1>4, <1>5 DEF SearchInv

LEMMA SearchInvStutter == SearchInv /\ UNCHANGED searchVars => SearchInv'
BY DEF SearchInv, searchVars, SearchTypeOK, IdInv, BatchInv, UnseenInv, FreshInv,
       Listed, Ahead, After

\* SearchInv holds of every reachable state of the index and its members.
THEOREM SearchInductive == SearchSpec => []SearchInv
<1>1. SearchInv /\ [SearchNext]_searchVars => SearchInv'
  BY SearchTypeStep, IdStep, BatchStep, UnseenStep, FreshStep, SearchInvStutter DEF SearchInv
<1> QED BY <1>1, SearchInvInit, PTL DEF SearchSpec

\* When a synchronization no other overlapped is about to switch the alias, its
\* index agrees with every member that did not change meanwhile.
THEOREM SearchIsCurrent == SearchSpec => []SyncedIsCurrent
<1>1. SearchInv => SyncedIsCurrent
  <2> SUFFICES ASSUME SearchInv, NEW s \in Syncer, sync[s].step = "remove",
                      sync[s].unseen = {}, ~sync[s].failed, sync[s].alone,
                      NEW m \in SearchMember \ sync[s].touched
               PROVE  index[m] = IF Listed(m) THEN member[m].hash ELSE NoDoc
    BY DEF SyncedIsCurrent
  <2>1. Fresh(m, s) /\ BatchInv(s)
    BY FreshDef DEF SearchInv
  <2>2. sync[s].batch = {}
    BY <2>1 DEF BatchInv
  <2> QED BY <2>1, <2>2 DEF Fresh
<1> QED BY <1>1, SearchInductive, PTL

\* No synchronization removes the document of a member that was listed all the
\* time since it began.
THEOREM SearchKeepsListed == SearchSpec => ListedIsNeverRemoved
<1> DEFINE Kept == \A s \in Syncer, m \in SearchMember :
                     (m \in sync[s].unseen /\ m \notin sync'[s].unseen /\ sync'[s].step = "remove")
                       => m \in sync[s].unlisted
<1>1. SearchInv /\ [SearchNext]_searchVars => [Kept]_searchVars
  <2> SUFFICES ASSUME SearchInv, SearchNext, NEW s \in Syncer, NEW m \in SearchMember,
                      m \in sync[s].unseen, m \notin sync'[s].unseen, sync'[s].step = "remove"
               PROVE  m \in sync[s].unlisted
    OBVIOUS
  <2>t. /\ SearchTypeOK /\ UnseenInv(s) /\ BatchInv(s)
        /\ sync[s] \in SyncState /\ sync \in [Syncer -> SyncState]
    BY DEF SearchInv, SearchTypeOK
  <2>1. ASSUME NEW x \in SearchMember, NEW h \in Hash, NEW deleted \in BOOLEAN,
               InsertVersion(x, h, deleted)
        PROVE  FALSE
    BY <2>1, InsertShape
  <2>2. ASSUME NEW x \in SearchMember, CommitVersion(x) PROVE FALSE
    BY <2>2, <2>t, CommitShape
  <2>3. ASSUME NEW q \in Syncer, Begin(q) PROVE FALSE
    <3>1. CASE q = s
      BY <2>3, <2>t, <3>1, BeginShape
    <3>2. CASE q # s
      BY <2>3, <2>t, <3>2, BeginOthers
    <3> QED BY <3>1, <3>2
  <2>4. ASSUME NEW q \in Syncer \ {s}, Works(q) PROVE FALSE
    BY <2>4, <2>t, WorksAlone
  <2>5. ASSUME Works(s) PROVE sync[s].step = "remove"
    BY <2>5, <2>t, WorksRemove
  <2> QED BY <2>1, <2>2, <2>3, <2>4, <2>5, <2>t, StepIsOne DEF UnseenInv
<1> QED BY <1>1, SearchInductive, PTL DEF SearchSpec, ListedIsNeverRemoved
==============================================================================
