------------------------------- MODULE Rollups -------------------------------
(***************************************************************************)
(* The daily rollups (src/lib/rollup.ts) against the rows they summarise.  *)
(*                                                                         *)
(* A caller (ingest, Resolve, tags, seats, invoices, manual entries)       *)
(* commits a change to the raw rows and then calls recomputeRollups for    *)
(* the days it touched: one READ COMMITTED transaction that checks the FX  *)
(* rates, deletes the span from both rollup tables and inserts it again    *)
(* from the raw rows. A statement works on the rows committed when it      *)
(* starts and waits for rows other transactions hold; the keys of a rollup *)
(* table are unique. Connector syncs (sync.ts) write raw rows too, and     *)
(* recompute nothing; retention (retention.ts) deletes old spend.          *)
(*                                                                         *)
(* A rollup row is grouped by day and person (product, vendor, cost basis  *)
(* and the rest of the key would only split the groups further).           *)
(***************************************************************************)
EXTENDS Integers, Sequences, FiniteSets

CONSTANTS
  Callers,    \* requests and jobs that may be recomputing at once
  Raw,        \* raw rows: spend facts and outcomes
  DayOf,      \* DayOf[r]: UTC day of row r
  TableOf,    \* TableOf[r]: "spend" or "outcome"
  IdentityOf, \* IdentityOf[r]: the identity whose row it is
  NoRate,     \* rows in a currency without any FX rate
  People,
  Nobody, Idle,
  MaxChanges, \* bound: changes by callers
  MaxFaults,  \* bound: failed recomputes and crashes
  LastCutoff  \* bound: the latest retention cutoff

Tables == {"spend", "outcome"}
Days == {DayOf[r] : r \in Raw}
Identities == {IdentityOf[r] : r \in Raw}

ASSUME RollupsAssumption ==
  /\ DayOf \in [Raw -> Nat]
  /\ TableOf \in [Raw -> Tables]
  /\ DOMAIN IdentityOf = Raw
  /\ NoRate \subseteq Raw
  /\ Nobody \notin People
  /\ MaxChanges \in Nat /\ MaxFaults \in Nat /\ LastCutoff \in Nat

Recompute ==
  <<<<"check", "spend">>, <<"delete", "spend">>, <<"delete", "outcome">>,
    <<"insert", "spend">>, <<"insert", "outcome">>>>

RollupRow ==
  [id : 1..MaxChanges, table : Tables, day : Days, person : People \cup {Nobody},
   rows : SUBSET Raw]
Job ==
  [id : 1..MaxChanges, changed : SUBSET Raw, from : Days, to : Days,
   todo : {SubSeq(Recompute, n, Len(Recompute)) : n \in 1..Len(Recompute) + 1},
   waiting : BOOLEAN,
   pending : SUBSET RollupRow, deleted : SUBSET RollupRow, inserted : SUBSET RollupRow]

ASSUME IdleAssumption == Idle \notin Job

VARIABLES
  raw,      \* stored raw rows
  owner,    \* owner[i]: person of identity i, and of its rows
  rolled,   \* committed rollup rows
  job,      \* job[c]: the recompute caller c owes or runs, or Idle
  changes,
  cutoff,   \* retention has deleted the spend of the days before it
  synced,   \* rows a connector sync wrote or rewrote
  lost,     \* rows whose change was committed and whose recompute failed
  charted,  \* rows retention deleted when a rollup row counted them
  crossed,  \* history: days that two recomputes were rebuilding at once
  faults

vars == <<raw, owner, rolled, job, changes, cutoff, synced, lost, charted, crossed, faults>>
ghosts == <<synced, charted, crossed>>

Init ==
  /\ raw = {}
  /\ owner = [i \in Identities |-> Nobody]
  /\ rolled = {}
  /\ job = [c \in Callers |-> Idle]
  /\ changes = 0
  /\ cutoff = 0
  /\ synced = {} /\ lost = {} /\ charted = {} /\ crossed = {}
  /\ faults = 0

Key(x) == <<x.table, x.day, x.person>>
Holder(r) == owner[IdentityOf[r]]
Counts(x, r) == r \in x.rows /\ x.person = Holder(r)
Counted(r) == \E x \in rolled : Counts(x, r)

InSpan(c, day) == job[c].from <= day /\ day <= job[c].to

-----------------------------------------------------------------------------
(***************************************************************************)
(* What changes the raw rows.                                              *)
(***************************************************************************)
\* a recompute of the days from .. to that caller c owes for these rows
Owed(rows, from, to) ==
  [id |-> changes + 1, changed |-> rows, from |-> from, to |-> to,
   todo |-> Recompute, waiting |-> FALSE,
   pending |-> {}, deleted |-> {}, inserted |-> {}]

\* mutant: a caller recomputes the first touched day only
Owe_FirstDay(c, rows) ==
  LET days == {DayOf[r] : r \in rows}
  IN  \E from \in days :
        /\ \A day \in days : from <= day
        /\ job' = [job EXCEPT ![c] = Owed(rows, from, from)]

\* caller c has committed a change to these rows and goes on to the recompute,
\* from the first day it touched to the last
Owe(c, rows) ==
  LET days == {DayOf[r] : r \in rows}
  IN  \E from, to \in days :
        /\ \A day \in days : from <= day /\ day <= to
        /\ job' = [job EXCEPT ![c] = Owed(rows, from, to)]

\* ingest, seats, invoices, manual entries: a new row
Record(c, r) ==
  /\ job[c] = Idle
  /\ changes < MaxChanges
  /\ r \notin raw \cup charted
  /\ changes' = changes + 1
  /\ raw' = raw \cup {r}
  /\ Owe(c, {r})
  /\ UNCHANGED <<owner, rolled, cutoff, lost, faults, ghosts>>

\* Resolve, tags: an identity and all its rows go to a person or to nobody
Reattribute(c, i, p) ==
  LET rows == {r \in raw : IdentityOf[r] = i}
  IN  /\ job[c] = Idle
      /\ changes < MaxChanges
      /\ owner[i] # p
      /\ rows # {}
      /\ changes' = changes + 1
      /\ owner' = [owner EXCEPT ![i] = p]
      /\ Owe(c, rows)
      /\ UNCHANGED <<raw, rolled, cutoff, lost, faults, ghosts>>

\* a page of a connector sync
Sync(r) ==
  /\ changes < MaxChanges
  /\ r \notin raw \cup charted
  /\ changes' = changes + 1
  /\ raw' = raw \cup {r}
  /\ synced' = synced \cup {r}
  /\ UNCHANGED <<owner, rolled, job, cutoff, lost, charted, crossed, faults>>

\* retentionTick on a later day
Prune ==
  LET old == {r \in raw : TableOf[r] = "spend" /\ DayOf[r] < cutoff'}
  IN  /\ cutoff < LastCutoff
      /\ cutoff' = cutoff + 1
      /\ raw' = raw \ old
      /\ charted' = charted \cup {r \in old : Counted(r)}
      /\ UNCHANGED <<owner, rolled, job, changes, synced, lost, crossed, faults>>

-----------------------------------------------------------------------------
(***************************************************************************)
(* recomputeRollups, one statement after the other.                        *)
(***************************************************************************)
\* the transactions the current statement of c waits for
WaitsFor(c) ==
  LET op == Head(job[c].todo)[1]
      others == {k \in Callers \ {c} : job[k] # Idle}
  IN  IF op = "delete"
      THEN {k \in others : job[c].pending \cap job[k].deleted # {}}
      ELSE {k \in others :
              \E x \in job[c].pending :
                \E y \in job[k].inserted \cup job[k].deleted : Key(x) = Key(y)}

\* a row with the same key stands and this transaction has not deleted it
Clashes(c) ==
  \E x \in job[c].pending, y \in rolled \ job[c].deleted : Key(x) = Key(y)

\* amounts without a rate drop out of a SUM; when no amount is left the sum is
\* NULL, which rollup_daily refuses
Unpriced(c) ==
  \E x \in job[c].pending : x.table = "spend" /\ x.rows \subseteq NoRate

\* mutant: a recompute that failed is tried again, until it succeeds
Throw_Retries(c) ==
  /\ job' = [job EXCEPT ![c].todo = Recompute, ![c].waiting = FALSE,
                        ![c].pending = {}, ![c].deleted = {}, ![c].inserted = {}]
  /\ UNCHANGED <<raw, owner, rolled, changes, cutoff, lost, ghosts>>

\* the statement fails, the transaction rolls back, the caller answers 500
Throw(c) ==
  /\ job' = [job EXCEPT ![c] = Idle]
  /\ lost' = lost \cup job[c].changed
  /\ UNCHANGED <<raw, owner, rolled, changes, cutoff, ghosts>>

\* its transaction is past the check of the rates and has not ended
Begun(c) == job[c] # Idle /\ Len(job[c].todo) < Len(Recompute)

Check(c) ==
  /\ job[c] # Idle /\ job[c].todo # <<>>
  /\ Head(job[c].todo)[1] = "check"
  /\ {r \in raw \cap NoRate : InSpan(c, DayOf[r])} = {}
  /\ job' = [job EXCEPT ![c].todo = Tail(@)]
  /\ crossed' = crossed \cup
       {day \in Days : InSpan(c, day) /\ \E k \in Callers \ {c} : Begun(k) /\ InSpan(k, day)}
  /\ UNCHANGED <<raw, owner, rolled, changes, cutoff, lost, faults, synced, charted>>

\* "no FX rate for currencies: ..."
Refuse(c) ==
  /\ job[c] # Idle /\ job[c].todo # <<>>
  /\ Head(job[c].todo)[1] = "check"
  /\ {r \in raw \cap NoRate : InSpan(c, DayOf[r])} # {}
  /\ Throw(c)
  /\ UNCHANGED faults

Groups(c, table) ==
  LET rows == {r \in raw : TableOf[r] = table /\ InSpan(c, DayOf[r])}
  IN  {[id |-> job[c].id, table |-> table, day |-> g[1], person |-> g[2],
        rows |-> {r \in rows : <<DayOf[r], Holder(r)>> = g}] :
         g \in {<<DayOf[r], Holder(r)>> : r \in rows}}

\* mutant: the groups are the caller's own rows, not the whole day's
Reads_OwnRows(c) ==
  LET table == Head(job[c].todo)[2]
  IN  IF Head(job[c].todo)[1] = "delete"
      THEN {x \in rolled : x.table = table /\ InSpan(c, x.day)}
      ELSE {[x EXCEPT !.rows = @ \cap job[c].changed] :
              x \in {y \in Groups(c, table) : y.rows \cap job[c].changed # {}}}

\* mutant: the delete forgets the groups of people the rows no longer belong to
Reads_LeavesOthers(c) ==
  LET table == Head(job[c].todo)[2]
  IN  IF Head(job[c].todo)[1] = "delete"
      THEN {x \in rolled : x.table = table /\ InSpan(c, x.day)
                             /\ Key(x) \in {Key(y) : y \in Groups(c, table)}}
      ELSE Groups(c, table)

\* what a statement works on, read when it starts
Reads(c) ==
  LET table == Head(job[c].todo)[2]
  IN  IF Head(job[c].todo)[1] = "delete"
      THEN {x \in rolled : x.table = table /\ InSpan(c, x.day)}
      ELSE Groups(c, table)

Start(c) ==
  /\ job[c] # Idle /\ job[c].todo # <<>> /\ ~job[c].waiting
  /\ Head(job[c].todo)[1] # "check"
  /\ job' = [job EXCEPT ![c].waiting = TRUE, ![c].pending = Reads(c)]
  /\ UNCHANGED <<raw, owner, rolled, changes, cutoff, lost, faults, ghosts>>

\* the rows it waited for may be gone: deleting them is done
Delete(c) ==
  /\ job[c] # Idle /\ job[c].waiting
  /\ Head(job[c].todo)[1] = "delete"
  /\ WaitsFor(c) = {}
  /\ job' = [job EXCEPT ![c].deleted = @ \cup (job[c].pending \cap rolled),
                        ![c].pending = {}, ![c].waiting = FALSE, ![c].todo = Tail(@)]
  /\ UNCHANGED <<raw, owner, rolled, changes, cutoff, lost, faults, ghosts>>

Insert(c) ==
  /\ job[c] # Idle /\ job[c].waiting
  /\ Head(job[c].todo)[1] = "insert"
  /\ WaitsFor(c) = {} /\ ~Clashes(c) /\ ~Unpriced(c)
  /\ job' = [job EXCEPT ![c].inserted = @ \cup job[c].pending,
                        ![c].pending = {}, ![c].waiting = FALSE, ![c].todo = Tail(@)]
  /\ UNCHANGED <<raw, owner, rolled, changes, cutoff, lost, faults, ghosts>>

\* duplicate key, or a NULL sum
InsertFails(c) ==
  /\ job[c] # Idle /\ job[c].waiting
  /\ Head(job[c].todo)[1] = "insert"
  /\ WaitsFor(c) = {} /\ (Clashes(c) \/ Unpriced(c))
  /\ Throw(c)
  /\ UNCHANGED faults

\* two transactions wait for each other: PostgreSQL aborts one
Deadlock(c) ==
  /\ job[c] # Idle /\ job[c].waiting
  /\ \E k \in WaitsFor(c) : job[k].waiting /\ c \in WaitsFor(k)
  /\ Throw(c)
  /\ UNCHANGED faults

Commit(c) ==
  /\ job[c] # Idle /\ job[c].todo = <<>>
  /\ rolled' = (rolled \ job[c].deleted) \cup job[c].inserted
  /\ job' = [job EXCEPT ![c] = Idle]
  /\ UNCHANGED <<raw, owner, changes, cutoff, lost, faults, ghosts>>

\* the connection drops, a statement times out
Fail(c) ==
  /\ job[c] # Idle
  /\ faults < MaxFaults
  /\ faults' = faults + 1
  /\ Throw(c)

\* the process dies: every change is committed, every recompute is gone
Crash ==
  /\ faults < MaxFaults
  /\ \E c \in Callers : job[c] # Idle
  /\ faults' = faults + 1
  /\ job' = [c \in Callers |-> Idle]
  /\ lost' = lost \cup UNION {job[c].changed : c \in {k \in Callers : job[k] # Idle}}
  /\ UNCHANGED <<raw, owner, rolled, changes, cutoff, ghosts>>

Step(c) ==
  Check(c) \/ Refuse(c) \/ Start(c) \/ Delete(c) \/ Insert(c) \/ InsertFails(c)
    \/ Deadlock(c) \/ Commit(c)

Change ==
  \/ \E c \in Callers, r \in Raw : Record(c, r)
  \/ \E c \in Callers, i \in Identities, p \in People \cup {Nobody} : Reattribute(c, i, p)
  \/ \E r \in Raw : Sync(r)
  \/ Prune

Next == Change \/ Crash \/ \E c \in Callers : Step(c) \/ Fail(c)

Spec == Init /\ [][Next]_vars

\* PostgreSQL runs the statements it is given and wakes who waits
FairSpec == Spec /\ \A c \in Callers : WF_vars(Step(c))

-----------------------------------------------------------------------------
TypeOK ==
  /\ raw \subseteq Raw
  /\ owner \in [Identities -> People \cup {Nobody}]
  /\ \A x \in rolled : x \in RollupRow
  /\ job \in [Callers -> Job \cup {Idle}]
  /\ changes \in 0..MaxChanges /\ cutoff \in 0..LastCutoff /\ faults \in 0..MaxFaults
  /\ synced \subseteq Raw /\ lost \subseteq Raw /\ charted \subseteq Raw
  /\ crossed \subseteq Days

\* However recomputes overlap, a stored row the rollups do not count for its
\* person is one whose own recompute is still to come or has failed (or one a
\* connector sync wrote): no recompute undoes what another one counted.
UndercountIsOwed ==
  /\ TypeOK
  /\ \A r \in raw :
       Counted(r) \/ r \in synced \cup lost \/ \E c \in Callers :
         job[c] # Idle /\ r \in job[c].changed

Settled(day) ==
  \A r \in raw : DayOf[r] = day =>
    r \notin synced \cup lost /\ \A c \in Callers : job[c] # Idle => r \notin job[c].changed

\* A day nobody owes a recompute for says what the raw rows say: every rollup
\* row is the whole group of one person, every group has a row. For days that no
\* two recomputes have rebuilt at once and that retention has not reached.
SettledDaysExact ==
  \A day \in Days \ crossed, table \in Tables : cutoff <= day /\ Settled(day) =>
    LET rows == {r \in raw : TableOf[r] = table /\ DayOf[r] = day}
    IN  {<<x.person, x.rows>> : x \in {y \in rolled : y.table = table /\ y.day = day}}
          = {<<Holder(r), {q \in rows : Holder(q) = Holder(r)}>> : r \in rows}

\* A raw row is counted by two rollup rows only on a day that two recomputes have
\* rebuilt at once: callers that follow each other, fail, deadlock over other
\* days or find the raw rows pruned leave no double behind.
CountedOnceApart ==
  \A x, y \in rolled : x.rows \cap y.rows # {} => x = y \/ x.day \in crossed

\* A recompute ends: no set of callers waits for each other for ever.
RecomputesEnd == \A c \in Callers : job[c] # Idle ~> job[c] = Idle

(***************************************************************************)
(* What comments of the source say and the code does not do.               *)
(***************************************************************************)
\* rollup.ts, "Delete-and-rebuild for a UTC day range, in one transaction, so
\* re-runs are idempotent": no raw row is counted by two rollup rows.
CountedOnce == \A x, y \in rolled : x.rows \cap y.rows # {} => x = y

\* retention.ts, "Rollup tables are never touched, so every chart and monthly
\* total stays intact": what was charted when its raw row was deleted still is.
HistoryKept == \A r \in charted : \E x \in rolled : r \in x.rows

\* scheduler.ts, the burn checks run "after the syncs, so alerts fire on the
\* data that just landed": with nothing left to recompute the rollups (what the
\* checks read) count what a sync wrote.
SyncedIsCounted ==
  (\A c \in Callers : job[c] = Idle) => \A r \in raw \cap synced : Counted(r)

\* rollup.ts, "A currency with no rate at all aborts the recompute - no fake
\* numbers": no rollup row leaves an amount out.
NoFakeNumbers == \A x \in rolled : x.rows \cap NoRate = {}
=============================================================================
