------------------------------- MODULE Billing -------------------------------
(***************************************************************************)
(* What a vendor bills: invoices and their true-up (src/lib/invoices.ts)   *)
(* and flat-fee seats (src/lib/seats.ts), statement by statement under     *)
(* READ COMMITTED, with the sync runs that restate the facts underneath.   *)
(*                                                                         *)
(* One vendor, one person on a plan. An invoiced month carries one         *)
(* adjustment row, invoice minus what the other facts of the month sum to; *)
(* a seat carries one fact per month it bills. Every commit below is       *)
(* followed by a recompute of the touched days: a caller of Rollups.       *)
(***************************************************************************)
EXTENDS Integers, Sequences, FiniteSetsExt, TLC

CONSTANTS
  Jobs,       \* requests and sync runs in flight
  Months,     \* an interval of months
  Restated,   \* amounts a sync may find for a month
  Alien,      \* months it may find a fact in another currency in
  Uploads,    \* invoice CSVs: sequences of [month, amount]
  Plans,      \* what the seat form sends: [amount, first, last]
  FirstNow,   \* the current month at first
  Seats,      \* identifiers of new seats, taken in order
  None, Idle,
  MaxCalls,   \* bound: calls of the operations
  Scheduled   \* does something call materializeAllSeats?

Line == [month : Months, amount : Int]
Plan == [amount : Nat, first : Months, last : Months \cup {None}]
Fee == [seat : Seats, month : Months, amount : Nat, call : Nat]

\* A transaction: what it has left to do, what it has read, and what it has
\* written and not committed.
Amounts == [Months -> Int \cup {None}]
Transaction ==
  [kind : {"import", "sync", "put", "delete", "materialize"},
   step : {"list", "bill", "rates", "base", "adjust", "find", "read", "upsert",
           "clear", "clearing", "fill", "drop", "commit"},
   call : Nat, at : Months,
   rows : Seq(Line), base : Int, billed : Amounts, adjusts : Amounts,
   seat : Seats \cup {0}, plan : Plan \cup {None}, holds : BOOLEAN,
   seen : SUBSET Fee, gone : SUBSET Fee, new : SUBSET Fee,
   disturbed : SUBSET (Months \cup {0})]

ASSUME BillingAssumption ==
  /\ Months \subseteq Nat /\ FirstNow \in Months
  /\ \A m, n \in Months : m .. n \subseteq Months
  /\ Seats \subseteq Nat \ {0}
  /\ Restated \subseteq Int /\ Alien \subseteq Months
  /\ Uploads \subseteq Seq(Line) \ {<<>>} /\ Plans \subseteq Plan
  /\ MaxCalls \in Nat
  /\ Scheduled \in BOOLEAN
  /\ None \notin Jobs \cup Int \cup Plan /\ Idle \notin Transaction

VARIABLES
  now,        \* the current month
  invoices,   \* invoices[m]: amount billed, or None
  synced,     \* synced[m]: what the connector's facts of the month sum to
  foreign,    \* months with one more fact, in a currency of its own
  rated,      \* does that currency have an FX rate?
  adjusted,   \* adjusted[m]: the adjustment row; 0 for no row
  seats,      \* seats[s]: plan of seat s, or None
  fees,       \* committed seat facts: [seat, month, amount, call]
  txn,        \* what each job's transaction holds, or Idle
  calls,
  loose,      \* months whose facts changed since an undisturbed true-up
  raced,      \* seats last written by a disturbed transaction
  upto        \* upto[s]: the month the call that wrote seat s last took for now

ledger == <<invoices, synced, foreign, rated, adjusted, seats, fees>>
ghosts == <<loose, raced, upto>>
billingVars == <<now, ledger, txn, calls, ghosts>>

BillingInit ==
  /\ now = FirstNow
  /\ invoices = [m \in Months |-> None]
  /\ synced = [m \in Months |-> 0]
  /\ foreign = {} /\ rated = FALSE
  /\ adjusted = [m \in Months |-> 0]
  /\ seats = [s \in Seats |-> None]
  /\ fees = {}
  /\ txn = [j \in Jobs |-> Idle]
  /\ calls = 0
  /\ loose = {} /\ raced = {}
  /\ upto = [s \in Seats |-> FirstNow]

Nothing == [m \in Months |-> None]
Written(f) == {m \in Months : f[m] # None}
Override(f, g) == [m \in Months |-> IF g[m] # None THEN g[m] ELSE f[m]]

Begun(kind, step) ==
  [kind |-> kind, step |-> step, call |-> calls + 1, at |-> now,
   rows |-> <<>>, base |-> 0, billed |-> Nothing, adjusts |-> Nothing,
   seat |-> 0, plan |-> None, holds |-> FALSE, seen |-> {}, gone |-> {}, new |-> {},
   disturbed |-> {}]

Busy == {j \in Jobs : txn[j] # Idle}
Others(j) == Busy \ {j}
AtStep(j, step) == txn[j] # Idle /\ txn[j].step = step

Call(j, begun) ==
  /\ txn[j] = Idle /\ calls < MaxCalls
  /\ calls' = calls + 1
  /\ txn' = [txn EXCEPT ![j] = begun]
Continue(j, next) == txn' = [txn EXCEPT ![j] = next]

\* the other jobs in flight learn that something they may have read is stale
Disturb(j, next, what) ==
  txn' = [k \in Jobs |->
    IF k = j THEN next
    ELSE IF txn[k] = Idle THEN Idle
    ELSE [txn[k] EXCEPT !.disturbed = @ \cup what]]

-----------------------------------------------------------------------------
(***************************************************************************)
(* Facts of the vendor's connector.                                        *)
(***************************************************************************)
\* a run of the engine commits restated facts of month m and goes on to
\* trueUpAfterSync (SyncEngine has the run itself)
Sync(j, m, amount, alien) ==
  /\ txn[j] = Idle /\ calls < MaxCalls
  /\ m <= now
  /\ calls' = calls + 1
  /\ synced' = [synced EXCEPT ![m] = amount]
  /\ foreign' = foreign \cup alien
  /\ Disturb(j, [Begun("sync", "list") EXCEPT !.rows = <<[month |-> m, amount |-> 0]>>], {m})
  /\ loose' = loose \cup {m}
  /\ UNCHANGED <<now, invoices, rated, adjusted, seats, fees, raced, upto>>

\* the FX sync learns the missing rate
FxSync ==
  /\ ~rated /\ rated' = TRUE
  /\ Disturb(None, None, foreign)
  /\ loose' = loose \cup foreign
  /\ UNCHANGED <<now, invoices, synced, foreign, adjusted, seats, fees, calls, raced, upto>>

MonthEnds ==
  /\ now + 1 \in Months
  /\ now' = now + 1
  /\ UNCHANGED <<ledger, txn, calls, ghosts>>

-----------------------------------------------------------------------------
(***************************************************************************)
(* Invoices.                                                               *)
(***************************************************************************)
\* mutant: the adjustment counts itself
Base_All(m) ==
  synced[m] + adjusted[m] + (IF rated /\ m \in foreign THEN 1 ELSE 0)
    + SumSet({f.amount : f \in {g \in fees : g.month = m}})

\* what the synced facts of the month sum to, adjustments aside; a fact
\* without a rate drops out of the sum
Base(m) ==
  synced[m] + (IF rated /\ m \in foreign THEN 1 ELSE 0)
    + MapThenSumSet(LAMBDA f : f.amount, {f \in fees : f.month = m})

\* the preview: a month that is not over, or billed twice, fails its row, and
\* an upload with a failed row does not import
Importable(upload) ==
  /\ \A i \in DOMAIN upload : upload[i].month < now
  /\ \A i, k \in DOMAIN upload : upload[i].month = upload[k].month => i = k

Import(j, upload) ==
  /\ Importable(upload)
  /\ Call(j, [Begun("import", "bill") EXCEPT !.rows = upload])
  /\ UNCHANGED <<now, ledger, ghosts>>

\* trueUpAfterSync reads the invoices of the months before its transaction
ListInvoices(j) ==
  /\ AtStep(j, "list")
  /\ LET m == Head(txn[j].rows).month
     IN  IF invoices[m] = None
         THEN txn' = [txn EXCEPT ![j] = Idle]
         ELSE Continue(j, [txn[j] EXCEPT !.step = "rates",
                                         !.rows = <<[month |-> m, amount |-> invoices[m]]>>])
  /\ UNCHANGED <<now, ledger, calls, ghosts>>

Row(j) == Head(txn[j].rows)
BillHolders(j) == {k \in Others(j) : Row(j).month \in Written(txn[k].billed)}
AdjustHolders(j) == {k \in Others(j) : Row(j).month \in Written(txn[k].adjusts)}

\* an import upserts the invoice of the row
Bill(j) ==
  /\ AtStep(j, "bill")
  /\ BillHolders(j) = {}
  /\ Continue(j, [txn[j] EXCEPT !.step = "rates",
                               !.billed[Row(j).month] = Row(j).amount])
  /\ UNCHANGED <<now, ledger, calls, ghosts>>

\* a fact without any rate refuses the true-up, and rolls everything back
CheckRates(j) ==
  /\ AtStep(j, "rates")
  /\ IF Row(j).month \in foreign /\ ~rated
     THEN txn' = [txn EXCEPT ![j] = Idle]
     ELSE Continue(j, [txn[j] EXCEPT !.step = "base"])
  /\ UNCHANGED <<now, ledger, calls, ghosts>>

ReadBase(j) ==
  /\ AtStep(j, "base")
  /\ Continue(j, [txn[j] EXCEPT !.step = "adjust", !.base = Base(Row(j).month)])
  /\ UNCHANGED <<now, ledger, calls, ghosts>>

\* no drift deletes the row, a drift upserts it. The DELETE finds (and waits
\* for) a committed row only; the upsert waits for any transaction that has
\* written the row.
FindsRow(j) == Row(j).amount # txn[j].base \/ adjusted[Row(j).month] # 0
Adjust(j) ==
  /\ AtStep(j, "adjust")
  /\ FindsRow(j) => AdjustHolders(j) = {}
  /\ LET left == Tail(txn[j].rows)
     IN  Continue(j, [txn[j] EXCEPT
           !.adjusts[Row(j).month] = IF FindsRow(j) THEN Row(j).amount - txn[j].base ELSE @,
           !.rows = left, !.base = 0,
           !.step = IF left = <<>> THEN "commit"
                    ELSE IF txn[j].kind = "import" THEN "bill" ELSE "rates"])
  /\ UNCHANGED <<now, ledger, calls, ghosts>>

Trued(j) == Written(txn[j].billed) \cup Written(txn[j].adjusts)
CommitInvoices(j) ==
  /\ AtStep(j, "commit") /\ txn[j].kind \in {"import", "sync"}
  /\ invoices' = Override(invoices, txn[j].billed)
  /\ adjusted' = Override(adjusted, txn[j].adjusts)
  /\ Disturb(j, Idle, Trued(j))
  /\ loose' = (loose \ (Trued(j) \ txn[j].disturbed)) \cup (Trued(j) \cap txn[j].disturbed)
  /\ UNCHANGED <<now, synced, foreign, rated, seats, fees, calls, raced, upto>>

\* the drift report; it refuses a month with a fact it cannot convert
Drift(m) ==
  IF m \in foreign /\ ~rated THEN "no rate" ELSE invoices[m] - Base(m)

-----------------------------------------------------------------------------
(***************************************************************************)
(* Seats.                                                                  *)
(***************************************************************************)
SeatHolders(j) == {k \in Others(j) : txn[k].holds}
Live == {s \in Seats : seats[s] # None}
Fresh == {s \in Seats : seats[s] = None /\ \A k \in Busy : txn[k].seat # s
                        /\ \A f \in fees : f.seat # s}

\* mutant: as an invoice does, a seat bills the months that are over
Bills_Closed(plan, at) ==
  IF plan = None \/ plan.amount = 0 THEN {}
  ELSE {m \in Months : plan.first <= m /\ m < at /\ (plan.last = None \/ m <= plan.last)}

\* the months a seat bills: from its first to its last, or to the current one
Bills(plan, at) ==
  IF plan = None \/ plan.amount = 0 THEN {}
  ELSE {m \in Months : plan.first <= m /\ m <= at /\ (plan.last = None \/ m <= plan.last)}

\* the form: one seat per vendor and person, added or changed
PutSeat(j, plan) ==
  /\ Call(j, [Begun("put", "upsert") EXCEPT !.plan = plan])
  /\ UNCHANGED <<now, ledger, ghosts>>
Upsert(j) ==
  /\ AtStep(j, "upsert")
  /\ SeatHolders(j) = {}
  /\ \E s \in IF Live # {} THEN Live ELSE Fresh :
       Continue(j, [txn[j] EXCEPT !.step = "clear", !.seat = s, !.holds = TRUE, !.disturbed = {}])
  /\ UNCHANGED <<now, ledger, calls, ghosts>>

DeleteSeat(j) ==
  /\ Call(j, Begun("delete", "find"))
  /\ UNCHANGED <<now, ledger, ghosts>>
\* deleteSeat finds the seat first, without a lock
Find(j) ==
  /\ AtStep(j, "find")
  /\ IF Live = {} THEN txn' = [txn EXCEPT ![j] = Idle]
     ELSE \E s \in Live :
            Continue(j, [txn[j] EXCEPT !.step = "clear", !.seat = s, !.disturbed = {}])
  /\ UNCHANGED <<now, ledger, calls, ghosts>>

\* materializeAllSeats reads every seat before its transaction
Materialize(j) ==
  /\ Scheduled
  /\ Call(j, Begun("materialize", "read"))
  /\ UNCHANGED <<now, ledger, ghosts>>
ReadSeats(j) ==
  /\ AtStep(j, "read")
  /\ IF Live = {} THEN txn' = [txn EXCEPT ![j] = Idle]
     ELSE \E s \in Live :
            Continue(j, [txn[j] EXCEPT !.step = "clear", !.seat = s, !.plan = seats[s],
                                       !.disturbed = {}])
  /\ UNCHANGED <<now, ledger, calls, ghosts>>

\* DELETE of the seat's facts: the statement sees the rows committed when it
\* starts, waits for those another transaction is deleting, and takes those
\* that are still there
Clear(j) ==
  /\ AtStep(j, "clear")
  /\ Continue(j, [txn[j] EXCEPT !.step = "clearing", !.seen = {f \in fees : f.seat = txn[j].seat}])
  /\ UNCHANGED <<now, ledger, calls, ghosts>>
ClearHolders(j) == {k \in Others(j) : txn[k].gone \cap txn[j].seen # {}}
Cleared(j) ==
  /\ AtStep(j, "clearing")
  /\ ClearHolders(j) = {}
  /\ Continue(j, [txn[j] EXCEPT !.gone = txn[j].seen \cap fees, !.seen = {},
                               !.step = IF txn[j].kind = "delete" THEN "drop" ELSE "fill"])
  /\ UNCHANGED <<now, ledger, calls, ghosts>>

\* one INSERT per month; its key must not be taken
NewFees(j) ==
  {[seat |-> txn[j].seat, month |-> m, amount |-> txn[j].plan.amount, call |-> txn[j].call] :
     m \in Bills(txn[j].plan, txn[j].at)}
SameKey(F, G) == \E f \in F, g \in G : f.seat = g.seat /\ f.month = g.month
FillHolders(j) ==
  {k \in Others(j) : SameKey(txn[k].new, NewFees(j)) \/ SameKey(txn[k].gone, NewFees(j))}
Fill(j) ==
  /\ AtStep(j, "fill")
  /\ FillHolders(j) = {}
  /\ IF SameKey(fees \ txn[j].gone, NewFees(j))
     THEN txn' = [txn EXCEPT ![j] = Idle]
     ELSE Continue(j, [txn[j] EXCEPT !.new = NewFees(j), !.step = "commit"])
  /\ UNCHANGED <<now, ledger, calls, ghosts>>

DropSeat(j) ==
  /\ AtStep(j, "drop")
  /\ SeatHolders(j) = {}
  /\ Continue(j, [txn[j] EXCEPT !.holds = seats[txn[j].seat] # None, !.plan = None,
                               !.step = "commit"])
  /\ UNCHANGED <<now, ledger, calls, ghosts>>

CommitSeat(j) ==
  /\ AtStep(j, "commit") /\ txn[j].kind \in {"put", "delete", "materialize"}
  /\ LET s == txn[j].seat
         touched == {f.month : f \in txn[j].gone \cup txn[j].new}
     IN  /\ seats' = IF txn[j].holds THEN [seats EXCEPT ![s] = txn[j].plan] ELSE seats
         /\ fees' = (fees \ txn[j].gone) \cup txn[j].new
         /\ Disturb(j, Idle, touched \cup {0})
         /\ loose' = loose \cup touched
         /\ raced' = IF 0 \in txn[j].disturbed THEN raced \cup {s} ELSE raced \ {s}
         /\ upto' = [upto EXCEPT ![s] = txn[j].at]
  /\ UNCHANGED <<now, invoices, synced, foreign, rated, adjusted, calls>>

-----------------------------------------------------------------------------
(***************************************************************************)
(* PostgreSQL: a statement waits for the transactions that hold its rows,  *)
(* and one of a circle of waiting transactions is rolled back.             *)
(***************************************************************************)
WaitsFor(j) ==
  CASE AtStep(j, "bill") -> BillHolders(j)
    [] AtStep(j, "adjust") /\ FindsRow(j) -> AdjustHolders(j)
    [] AtStep(j, "upsert") \/ AtStep(j, "drop") -> SeatHolders(j)
    [] AtStep(j, "clearing") -> ClearHolders(j)
    [] AtStep(j, "fill") -> FillHolders(j)
    [] OTHER -> {}

\* mutant: a transaction keeps its connection, and its locks, after an error
Deadlock_NoRollback(j) ==
  /\ \E S \in SUBSET Busy : j \in S /\ \A k \in S : WaitsFor(k) \cap S # {}
  /\ txn' = [txn EXCEPT ![j].step = "failed"]
  /\ UNCHANGED <<now, ledger, calls, ghosts>>

Deadlock(j) ==
  /\ \E S \in SUBSET Busy : j \in S /\ \A k \in S : WaitsFor(k) \cap S # {}
  /\ txn' = [txn EXCEPT ![j] = Idle]
  /\ UNCHANGED <<now, ledger, calls, ghosts>>

-----------------------------------------------------------------------------
BillingProgress(j) ==
  \/ ListInvoices(j) \/ Bill(j) \/ CheckRates(j) \/ ReadBase(j) \/ Adjust(j)
  \/ CommitInvoices(j)
  \/ Upsert(j) \/ Find(j) \/ ReadSeats(j) \/ Clear(j) \/ Cleared(j) \/ Fill(j)
  \/ DropSeat(j) \/ CommitSeat(j)
  \/ Deadlock(j)

Requests(j) ==
  \/ \E upload \in Uploads : Import(j, upload)
  \/ \E m \in Months, amount \in Restated :
       \E alien \in SUBSET (Alien \cap {m}) : Sync(j, m, amount, alien)
  \/ \E plan \in Plans : PutSeat(j, plan)
  \/ DeleteSeat(j) \/ Materialize(j)

BillingNext == FxSync \/ MonthEnds \/ \E j \in Jobs : BillingProgress(j) \/ Requests(j)

BillingSpec == BillingInit /\ [][BillingNext]_billingVars
\* the database answers every statement in the end
FairBilling == BillingSpec /\ \A j \in Jobs : WF_billingVars(BillingProgress(j))

-----------------------------------------------------------------------------
BillingTypeOK ==
  /\ now \in Months
  /\ invoices \in [Months -> Int \cup {None}]
  /\ synced \in [Months -> Int] /\ adjusted \in [Months -> Int]
  /\ foreign \subseteq Months /\ rated \in BOOLEAN
  /\ seats \in [Seats -> Plan \cup {None}]
  /\ fees \subseteq Fee
  /\ Cardinality(Live) <= 1
  /\ calls \in 0 .. MaxCalls
  /\ loose \subseteq Months /\ raced \subseteq Seats /\ upto \in [Seats -> Months]
  /\ txn \in [Jobs -> Transaction \cup {Idle}]

\* The drift report shows the adjustment that was materialized, and a month
\* with both sums to its invoice, unless its facts changed and no undisturbed
\* true-up has followed (invoices.ts: the number on Overview is the row).
DriftIsAdjustment ==
  /\ BillingTypeOK
  /\ \A m \in Months : invoices[m] # None /\ m \notin loose => Drift(m) = adjusted[m]

\* A seat bills each of its months once, at its price, none missing and none
\* too many: from its first to its last, or to the month it was last written
\* in, that month included (seats.ts: seats bill the current month too). A
\* deleted seat bills nothing. A seat that was last written by a transaction
\* that overlapped another one of seats may have other months, none twice.
Owed(plan, at) ==
  IF plan = None \/ plan.amount = 0 THEN {}
  ELSE {<<m, plan.amount>> : m \in {n \in plan.first .. at : plan.last = None \/ n <= plan.last}}
SeatsBill ==
  /\ \A f, g \in fees : SameKey({f}, {g}) => f = g
  /\ \A s \in Seats \ raced :
       {<<f.month, f.amount>> : f \in {g \in fees : g.seat = s}} = Owed(seats[s], upto[s])

\* Nobody waits for ever: imports that list the same months in different
\* orders, and seats written and deleted at once, all end.
CallsEnd == []<>(Busy = {})

-----------------------------------------------------------------------------
(***************************************************************************)
(* What comments of the source say and the code does not do.               *)
(***************************************************************************)
Quiet == Busy = {}
\* invoices.ts:29, "recomputes wherever its inputs change"
AdjustmentFollowsInputs ==
  Quiet => \A m \in Months :
    (invoices[m] # None /\ (m \in foreign => rated)) => Drift(m) = adjusted[m]
\* seats.ts:227, "Remove a seat and the ledger rows it produced."
DeletedSeatsBillNothing ==
  Quiet => \A f \in fees : seats[f.seat] # None
\* seats.ts:265, "so an ongoing seat grows its current-month fee as the
\* calendar advances"
OngoingSeatsBill ==
  <>[](\A s \in Live : seats[s].amount > 0 /\ seats[s].last = None /\ seats[s].first <= now
         => \E f \in fees : f.seat = s /\ f.month = now)
=============================================================================
