------------------------------ MODULE Delivery ------------------------------
(***************************************************************************)
(* The delivery layer that runs after ingestion                            *)
(* (services/watchlistDelivery/postIngestionSpokesDeltas.py and            *)
(* spokeSyncEngine.py, with the delta procedure of the database schema):   *)
(*                                                                         *)
(*   watermarks -> for each missing day: delta actions, spoke sync, log    *)
(*              -> check -> refresh of the screening search view           *)
(*                                                                         *)
(* Every call commits on its own (autocommit), so a run may stop between   *)
(* any two, and nothing prevents two runs from overlapping.  Core rows are *)
(* committed meanwhile; they carry the date their transaction started.     *)
(*                                                                         *)
(* Only the watchlist domain is modelled: the media one has no spokes.     *)
(*                                                                         *)
(* A definition marked as a mutant is a plausible bug in the definition    *)
(* that follows it; no specification uses one.  It shows what the property *)
(* that notices the bug is worth.                                          *)
(***************************************************************************)
EXTENDS Integers, Sequences, FiniteSets

CONSTANTS
  Member,     \* business members (vv_member_id)
  Table,      \* the spoke tables of SPOKE_MAPPING
  NameTable,  \* core.member_name: every version has rows in it
  AliasTable, \* core.member_alias; the search view joins both
  Runner,     \* invocations of the delivery job that may overlap
  LastDay,    \* bound: the last calendar day
  MaxRows     \* bound: versions in core.watchlist_member

Day == 1..LastDay
NoRow == 0
NoDay == 0

ASSUME DeliveryAssumption ==
  /\ LastDay \in Nat \ {0}
  /\ MaxRows \in Nat
  /\ {NameTable, AliasTable} \subseteq Table

VARIABLES
  day,      \* the date of the database
  rows,     \* core.watchlist_member: the id of a version is its place here
  delta,    \* delivery.watchlist_daily_delta_actions, by effective date
  spoke,    \* per spoke table, the version each member's rows come from
  search,   \* the versions in core.mv_screening_member_search
  runlog,   \* dates marked ALL_SPOKES_COMPLETE in core.spoke_run_log
  job,      \* the local state of each invocation
  alone     \* history: no run was ever beside another one or after a tool

vars == <<day, rows, delta, spoke, search, runlog, job, alone>>

(***************************************************************************)
(* Reading Core                                                            *)
(***************************************************************************)
Ids == 1..Len(rows)
Newest(S) == CHOOSE i \in S : \A k \in S : k <= i
Oldest(S) == CHOOSE i \in S : \A k \in S : i <= k

VersionsOf(m) == {i \in Ids : rows[i].member = m}
IsCurrent(i) == i = Newest(VersionsOf(rows[i].member))

\* The version in S that a reader sees, or NoRow.
Visible(S) ==
  IF S = {} \/ rows[Newest(S)].type = "DELETED" THEN NoRow ELSE Newest(S)

(***************************************************************************)
(* The decision matrix of generate_watchlist_daily_delta_actions           *)
(***************************************************************************)
Action(first, last) ==
  CASE first = "NEW" /\ last \in {"NEW", "UPDATED"} -> "ADD"
    [] first = "UPDATED" /\ last = "UPDATED" -> "UPDATE"
    [] first = "UPDATED" /\ last = "DELETED" -> "DELETE"
    [] first = "DELETED" /\ last = "NEW" -> "UPDATE"
    [] first = "DELETED" /\ last = "DELETED" -> "DELETE"
    [] OTHER -> "IGNORE"

VersionsOn(m, d) == {i \in VersionsOf(m) : rows[i].day = d}

\* Mutant: the action names the day's first version.
DeltaOfFirst(d) ==
  {a \in [action : {"ADD", "UPDATE", "DELETE"}, member : Member, row : Ids] :
     LET S == VersionsOn(a.member, d) IN
     /\ S # {}
     /\ a.row = Oldest(S)
     /\ a.action = Action(rows[Oldest(S)].type, rows[Newest(S)].type)}

\* Per member, the day's first and last version decide; IGNORE is left out.
DeltaOf(d) ==
  {a \in [action : {"ADD", "UPDATE", "DELETE"}, member : Member, row : Ids] :
     LET S == VersionsOn(a.member, d) IN
     /\ S # {}
     /\ a.row = Newest(S)
     /\ a.action = Action(rows[Oldest(S)].type, rows[Newest(S)].type)}

\* SELECT MAX(effective_date): the newest date with any action.
LastProcessed ==
  LET D == {d \in Day : delta[d] # {}} IN IF D = {} THEN NoDay ELSE Newest(D)

CoreDays == {rows[i].day : i \in Ids}

(***************************************************************************)
(* Ingestion: one committed version of a member.  created_at is the start  *)
(* of its transaction, which may have been yesterday.                      *)
(***************************************************************************)
CommitVersion(m, type, tables, d) ==
  LET S == VersionsOf(m) IN
  /\ Len(rows) < MaxRows
  /\ d \in {day - 1, day} \cap Day
  /\ S # {} => rows[Newest(S)].day <= d
  /\ type = "NEW" <=> S = {}
  /\ type = "DELETED" => Visible(S) # NoRow
  /\ NameTable \in tables
  /\ rows' = Append(rows, [member |-> m, type |-> type, day |-> d, tables |-> tables])
  /\ UNCHANGED <<day, delta, spoke, search, runlog, job, alone>>

Midnight ==
  /\ day < LastDay
  /\ day' = day + 1
  /\ UNCHANGED <<rows, delta, spoke, search, runlog, job, alone>>

(***************************************************************************)
(* run_automated_pipeline                                                  *)
(***************************************************************************)
Idle == [pc |-> "idle", mode |-> "none", target |-> NoDay, start |-> NoDay,
         latest |-> NoDay]

Begin(r, pc, mode, from, to) ==
  job' = [job EXCEPT ![r] = [pc |-> pc, mode |-> mode, target |-> from,
                             start |-> from, latest |-> to]]
Goto(r, pc) == job' = [job EXCEPT ![r].pc = pc]
Free(r) == job[r].pc \in {"idle", "done"}

\* get_watermark_dates, then the early returns: no Core rows, or caught up.
\* (The three reads are one step: only this job moves the first.)
Start(r) ==
  /\ Free(r)
  /\ IF CoreDays = {} \/ LastProcessed >= Newest(CoreDays)
     THEN job' = [job EXCEPT ![r] = [Idle EXCEPT !.pc = "done"]]
     ELSE Begin(r, "generate", "auto",
                IF LastProcessed # NoDay THEN LastProcessed + 1 ELSE Oldest(CoreDays),
                Newest(CoreDays))
  /\ UNCHANGED <<day, rows, delta, spoke, search, runlog>>

\* The procedure replaces the actions of the date in one transaction.
Generate(r) ==
  LET d == job[r].target IN
  /\ job[r].pc = "generate"
  /\ delta' = [delta EXCEPT ![d] = DeltaOf(d)]
  /\ job' = [job EXCEPT
       ![r].pc = IF job[r].mode = "auto" THEN "sync"
                 ELSE IF d < job[r].latest THEN "generate" ELSE "rebuild",
       ![r].target = IF job[r].mode = "backfill" /\ d < job[r].latest
                     THEN d + 1 ELSE d]
  /\ UNCHANGED <<day, rows, spoke, search, runlog>>

\* The newest action on m in delta[d], for the mutants.
ActionOn(m, d) == CHOOSE a \in delta[d] : a.member = m
ActedOn(m, d) == \E a \in delta[d] : a.member = m

\* Mutants: what the new version lacks is kept; only members without rows are
\* synced; an older version replaces a newer one.
SyncedOverOld(t, m, d) ==
  IF ~ActedOn(m, d) \/ spoke[t][m] > ActionOn(m, d).row THEN spoke[t][m]
  ELSE IF ActionOn(m, d).action = "DELETE" THEN NoRow
  ELSE IF t \in rows[ActionOn(m, d).row].tables THEN ActionOn(m, d).row
  ELSE spoke[t][m]

SyncedOnce(t, m, d) ==
  IF ~ActedOn(m, d) \/ spoke[t][m] # NoRow THEN spoke[t][m]
  ELSE IF /\ ActionOn(m, d).action # "DELETE"
          /\ t \in rows[ActionOn(m, d).row].tables
  THEN ActionOn(m, d).row ELSE NoRow

SyncedUngated(t, m, d) ==
  IF ~ActedOn(m, d) THEN spoke[t][m]
  ELSE IF /\ ActionOn(m, d).action # "DELETE"
          /\ t \in rows[ActionOn(m, d).row].tables
  THEN ActionOn(m, d).row ELSE NoRow

\* sync_core_spoke_tables: delete what is not newer than the action's version,
\* then insert its elements unless a newer version is there.  The gate looks
\* at each table alone.
Synced(t, m, d) ==
  LET A == {a \in delta[d] : a.member = m}
      a == CHOOSE x \in A : TRUE
  IN IF A = {} \/ spoke[t][m] > a.row THEN spoke[t][m]
     ELSE IF a.action # "DELETE" /\ t \in rows[a.row].tables THEN a.row
     ELSE NoRow

Sync(r) ==
  /\ job[r].pc = "sync"
  /\ spoke' = [t \in Table |-> [m \in Member |-> Synced(t, m, job[r].target)]]
  /\ Goto(r, "log")
  /\ UNCHANGED <<day, rows, delta, search, runlog>>

\* The ALL_SPOKES_COMPLETE row, a statement of its own.
LogDay(r) ==
  LET d == job[r].target IN
  /\ job[r].pc = "log"
  /\ runlog' = runlog \union {d}
  /\ job' = IF job[r].mode = "sync" THEN [job EXCEPT ![r] = Idle]
            ELSE IF d < job[r].latest
            THEN [job EXCEPT ![r].pc = "generate", ![r].target = d + 1]
            ELSE [job EXCEPT ![r].pc = "check"]
  /\ UNCHANGED <<day, rows, delta, spoke, search>>

\* check_spokes_finished; a missing watermark raises, which is Fail.
Check(r) ==
  /\ job[r].pc = "check"
  /\ job[r].latest \in runlog
  /\ Goto(r, "refresh")
  /\ UNCHANGED <<day, rows, delta, spoke, search, runlog>>

\* The view joins the current versions with their own names and aliases.
RefreshSearch(r) ==
  /\ job[r].pc = "refresh"
  /\ search' = {i \in Ids : /\ IsCurrent(i)
                            /\ \E t \in {NameTable, AliasTable} :
                                 spoke[t][rows[i].member] = i}
  /\ Goto(r, "done")
  /\ UNCHANGED <<day, rows, delta, spoke, runlog>>

\* A statement fails or the process dies; what was committed stays.
Fail(r) ==
  /\ ~Free(r)
  /\ job' = [job EXCEPT ![r] = Idle]
  /\ UNCHANGED <<day, rows, delta, spoke, search, runlog>>

(***************************************************************************)
(* The operator's tools: execute_historical_backfill, rebuild_all_spokes,  *)
(* execute_daily_sync for a date                                           *)
(***************************************************************************)
StartBackfill(r, from, to) ==
  /\ Free(r)
  /\ from <= to
  /\ Begin(r, "generate", "backfill", from, to)
  /\ UNCHANGED <<day, rows, delta, spoke, search, runlog>>

StartRebuild(r) ==
  /\ Free(r)
  /\ Begin(r, "rebuild", "rebuild", NoDay, NoDay)
  /\ UNCHANGED <<day, rows, delta, spoke, search, runlog>>

StartSync(r, d) ==
  /\ Free(r)
  /\ Begin(r, "sync", "sync", d, d)
  /\ UNCHANGED <<day, rows, delta, spoke, search, runlog>>

\* rebuild_all_core_spoke_tables: truncate, then every current version.
Rebuild(r) ==
  /\ job[r].pc = "rebuild"
  /\ spoke' = [t \in Table |-> [m \in Member |->
       LET i == Visible(VersionsOf(m)) IN
       IF i # NoRow /\ t \in rows[i].tables THEN i ELSE NoRow]]
  /\ Goto(r, "rebuild_log")
  /\ UNCHANGED <<day, rows, delta, search, runlog>>

RebuildLog(r) ==
  /\ job[r].pc = "rebuild_log"
  /\ runlog' = runlog \union {day}
  /\ IF job[r].mode = "backfill" THEN Goto(r, "refresh")
     ELSE job' = [job EXCEPT ![r] = Idle]
  /\ UNCHANGED <<day, rows, delta, spoke, search>>

(***************************************************************************)
(* Specification                                                           *)
(***************************************************************************)
Init ==
  /\ day = 1
  /\ rows = <<>>
  /\ delta = [d \in Day |-> {}]
  /\ spoke = [t \in Table |-> [m \in Member |-> NoRow]]
  /\ search = {}
  /\ runlog = {}
  /\ job = [r \in Runner |-> Idle]
  /\ alone = TRUE

Ingest ==
  \/ Midnight
  \/ \E m \in Member, type \in {"NEW", "UPDATED", "DELETED"},
        tables \in SUBSET Table, d \in Day : CommitVersion(m, type, tables, d)

\* The other invocations are over or were not begun.
OthersFree(r) == \A s \in Runner \ {r} : Free(s)

Work(r) ==
  \/ Start(r) \/ Generate(r) \/ Sync(r) \/ LogDay(r)
  \/ Check(r) \/ RefreshSearch(r) \/ Fail(r)
Deliver(r) == Work(r) /\ alone' = (alone /\ OthersFree(r))

Tool(r) ==
  \/ \E from, to \in Day : StartBackfill(r, from, to)
  \/ \E d \in Day : StartSync(r, d)
  \/ StartRebuild(r) \/ Rebuild(r) \/ RebuildLog(r)
Operate(r) == Tool(r) /\ alone' = FALSE

\* The orchestrator runs the job; an operator may use the tools beside it.
Spec == Init /\ [][Ingest \/ \E r \in Runner : Deliver(r)]_vars
OperatorSpec == Init /\ [][Ingest \/ \E r \in Runner : Deliver(r) \/ Operate(r)]_vars

(***************************************************************************)
(* Properties                                                              *)
(***************************************************************************)
Version == [member : Member, type : {"NEW", "UPDATED", "DELETED"}, day : Day,
            tables : SUBSET Table]
ActionRow == [action : {"ADD", "UPDATE", "DELETE"}, member : Member, row : Nat \ {0}]
JobState ==
  [pc : {"idle", "generate", "sync", "log", "check", "refresh", "done",
         "rebuild", "rebuild_log"},
   mode : {"none", "auto", "backfill", "rebuild", "sync"},
   target : Day \union {NoDay}, start : Day \union {NoDay},
   latest : Day \union {NoDay}]

\* Type correctness; every reference to a version names a committed one.
TypeOK ==
  /\ day \in Day
  /\ rows \in Seq(Version)
  /\ delta \in [Day -> SUBSET ActionRow]
  /\ \A d \in Day : \A a \in delta[d] : a.row \in Ids /\ rows[a.row].member = a.member
  /\ spoke \in [Table -> [Member -> Ids \union {NoRow}]]
  /\ search \subseteq Ids
  /\ runlog \subseteq Day
  /\ job \in [Runner -> JobState]

\* The spoke tables of a member never mix two versions of it: whichever table
\* is read, it describes the same version or nothing. This is a promise of a
\* job whose runs never overlapped: a second run, or an operator's sync of an old
\* date, may leave the tables of a member at different versions, because the
\* version gate looks at each table by itself.
SpokesAgree ==
  alone => \A m \in Member : \A t, u \in Table :
             spoke[t][m] # NoRow /\ spoke[u][m] # NoRow => spoke[t][m] = spoke[u][m]

\* Every member whose newest action is on day d has the rows of that action.
Delivered(d) ==
  \A a \in delta[d] :
    (\A e \in Day : \A b \in delta[e] : b.member = a.member => e <= d) =>
      \A t \in Table :
        spoke[t][a.member] =
          IF a.action # "DELETE" /\ t \in rows[a.row].tables THEN a.row ELSE NoRow

\* A run that reaches the refresh has delivered what it generated: for each
\* member whose newest action is on one of its days, every spoke is that
\* action's version, or empty after a DELETE, whatever failed before. So long as
\* no run and no tool came between.
RunDelivers ==
  alone => \A r \in Runner :
             job[r].pc = "refresh" /\ job[r].mode = "auto" =>
               \A d \in job[r].start..job[r].latest : Delivered(d)

\* The member was deleted and listed again within the day.
Relisted(m, d) ==
  LET S == VersionsOn(m, d) IN
  S # {} /\ rows[Oldest(S)].type = "DELETED" /\ rows[Newest(S)].type = "UPDATED"

\* A consumer that applies the actions of day d to the members as they were at
\* the end of the day before has them as they are at the end of d.
NetEffect(m, d) ==
  LET before == Visible({i \in VersionsOf(m) : rows[i].day < d})
      after == Visible({i \in VersionsOf(m) : rows[i].day <= d})
      A == {a \in DeltaOf(d) : a.member = m}
      applied == IF A = {} THEN before
                 ELSE LET a == CHOOSE x \in A : TRUE IN
                      IF a.action = "DELETE" THEN NoRow ELSE a.row
  IN applied = after

\* The decision matrix has the day's net effect on each member that was not
\* deleted and listed again on the same day.
DeltaIsNetEffect ==
  \A m \in Member, d \in Day : ~Relisted(m, d) => NetEffect(m, d)

\* Documented: the matrix has a row for a member that is deleted and listed again
\* on the same day, so consumers learn of its new version.
RelistedIsDelivered ==
  \A m \in Member, d \in Day : Relisted(m, d) => NetEffect(m, d)

\* Documented: the job finds the days that failed and works through them until
\* it has caught up, so a run that ends normally leaves no day whose actions
\* were generated and not brought to the spokes.
CaughtUp ==
  \A r \in Runner : job[r].pc = "done" =>
    \A d \in Day : delta[d] # {} => d \in runlog

\* A refresh of the screening search view never drops a version that is still
\* current: nothing that ran since took its names and aliases away.
SearchKeepsCurrent ==
  [][search' # search => \A i \in search : IsCurrent(i) => i \in search']_vars

\* Spokes move forward: no table goes back to an older version of a member.
SpokesNeverRegress ==
  [][\A t \in Table, m \in Member :
       spoke'[t][m] # NoRow => spoke'[t][m] >= spoke[t][m]]_vars

(***************************************************************************)
(* Inductive invariants                                                    *)
(***************************************************************************)
\* The versions of a member are in the order of their days, and the first alone
\* is NEW.
RowsInv ==
  \A i, k \in Ids : rows[i].member = rows[k].member /\ i < k =>
    rows[i].day <= rows[k].day /\ rows[k].type # "NEW"

\* A day has one action on a member, naming a version of the day.
DeltaInv ==
  \A d \in Day : \A a \in delta[d] :
    /\ rows[a.row].day = d /\ (a.action = "DELETE" <=> rows[a.row].type = "DELETED")
    /\ \A b \in delta[d] : a.member = b.member => a = b

\* A spoke row comes from a version of the member that has such rows.
SpokeInv ==
  \A t \in Table, m \in Member : spoke[t][m] # NoRow =>
    LET v == rows[spoke[t][m]] IN v.member = m /\ v.type # "DELETED" /\ t \in v.tables

\* What the search view shows of a current version is still in the spokes.
SearchInv ==
  \A i \in search : IsCurrent(i) =>
    \E t \in {NameTable, AliasTable} : spoke[t][rows[i].member] = i

DayInv ==
  \A r \in Runner : job[r].pc \in {"generate", "sync", "log"} =>
    job[r].target \in Day /\ job[r].latest \in Day

DeliveryIInv == TypeOK /\ RowsInv /\ DeltaInv /\ SpokeInv /\ SearchInv /\ DayInv

\* Of runs that never overlapped: one is at work at a time, no day it has yet to
\* generate has actions, the rows of each spoke were named by an action, and the
\* days behind it are delivered.
SourceInv ==
  \A t \in Table, m \in Member : spoke[t][m] # NoRow =>
    \E a \in delta[rows[spoke[t][m]].day] : a.row = spoke[t][m]

AheadInv ==
  \A r \in Runner : \A d \in Day :
    /\ job[r].pc = "generate" /\ d >= job[r].target => delta[d] = {}
    /\ job[r].pc \in {"sync", "log"} /\ d > job[r].target => delta[d] = {}

Behind(r) ==
  job[r].start..(IF job[r].pc \in {"generate", "sync"} THEN job[r].target - 1 ELSE job[r].target)

BehindInv ==
  \A r \in Runner : ~Free(r) =>
    /\ job[r].mode = "auto" /\ job[r].pc \in {"generate", "sync", "log", "check", "refresh"}
    /\ job[r].start \in Day /\ job[r].target \in Day
    /\ job[r].pc \in {"check", "refresh"} => job[r].latest <= job[r].target
    /\ \A d \in Behind(r) : Delivered(d)

JobIInv ==
  /\ DeliveryIInv /\ alone \in BOOLEAN
  /\ SpokesAgree
  /\ alone => SourceInv /\ AheadInv /\ BehindInv

=============================================================================
