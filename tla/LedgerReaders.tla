---------------------------- MODULE LedgerReaders ----------------------------
(***************************************************************************)
(* The pages that read the ledger: the overview and its drill-downs          *)
(* (overview.ts), people and keys (people.ts). A chart number is read from   *)
(* the daily rollups, in USD cents that were rounded per rollup row, and      *)
(* converted to the display currency at each day's rate; its drill-down is    *)
(* read from the raw rows. Both are here functions of the tables.             *)
(*                                                                          *)
(* The tables change under the readers: rows are written, rewritten (a sync  *)
(* may move a fact to another day, Resolve to another person) and removed,    *)
(* and the rollups are rebuilt afterwards (module Rollups has the ways in     *)
(* which that fails; here a rebuild is one step). An amount in the display     *)
(* currency is counted in sixths of a cent, so that no conversion rounds.     *)
(***************************************************************************)
EXTENDS Integers, Sequences, FiniteSets, SequencesExt, FiniteSetsExt

CONSTANTS
  FactRows,    \* versions of the spend facts
  OutcomeRows, \* versions of the outcomes
  Metrics,     \* usage_metrics
  Seats,       \* subscription_seats
  Key,         \* Key[k]: the identity k
  Rate,        \* Rate[currency][day]: USD per unit, in halves: 2 or 3
  Days, Products, People,
  MergedInto,  \* the survivor of a merged person, or None
  TagSettings, \* TagSettings[tag]: product and countsPersonal
  None,
  MaxChanges   \* bound: changes of the tables

VARIABLES
  facts,       \* spend_facts
  outs,        \* outcomes
  rollup_daily, rollup_outcomes_daily,
  archived,    \* archived products
  gone,        \* archived people
  displayCcy,  \* setting display_currency
  changes

rollups == <<rollup_daily, rollup_outcomes_daily>>
tables == <<facts, outs, rollups, archived, gone, displayCcy, changes>>

Sum(S, F(_)) == FoldSet(LAMBDA x, sum : sum + F(x), 0, S)

(***************************************************************************)
(* Rounding and conversion.                                                 *)
(***************************************************************************)
\* PostgreSQL's ROUND(n / d): half away from zero
ROUND(n, d) ==
  IF n >= 0 THEN (2 * n + d) \div (2 * d) ELSE -((d - 2 * n) \div (2 * d))

\* Math.round: half up
MathRound(n, d) == (2 * n + d) \div (2 * d)

\* a / b, or None where there is nothing to divide by
Per(a, b) == IF b > 0 THEN MathRound(a, b) ELSE None

usd(cents, ccy, day) == cents * Rate[ccy][day]

Cents(rows) ==
  ROUND(Sum(rows, LAMBDA r : (r.usd * 12) \div Rate[displayCcy][r.day]), 6)

factDisplay(f) == (usd(f.cents, f.ccy, f.day) * 6) \div Rate[displayCcy][f.day]

FactCents(rows) == ROUND(Sum(rows, factDisplay), 6)

(***************************************************************************)
(* The rollups of raw rows.                                                 *)
(***************************************************************************)
grain(f) == <<f.day, f.person, f.product, f.vendor, f.basis, f.mode>>

RollupOf(spend) ==
  {LET mine == {f \in spend : grain(f) = g}
   IN  [day |-> g[1], person |-> g[2], product |-> g[3], vendor |-> g[4],
        basis |-> g[5], mode |-> g[6],
        usd |-> ROUND(Sum(mine, LAMBDA f : usd(f.cents, f.ccy, f.day)), 2),
        tokens |-> Sum(mine, LAMBDA f : f.tokens),
        facts |-> Cardinality(mine)] :
     g \in {grain(f) : f \in spend}}

outcomeGrain(o) == <<o.day, o.product, o.person, o.kind, ~o.reverted>>

OutcomeRollupOf(rows) ==
  {LET mine == {o \in rows : outcomeGrain(o) = g}
       valued == {o \in mine : o.value # None}
   IN  [day |-> g[1], product |-> g[2], person |-> g[3], kind |-> g[4], live |-> g[5],
        count |-> Sum(mine, LAMBDA o : o.count),
        valued |-> Sum(valued, LAMBDA o : o.count),
        usd |-> ROUND(Sum(valued, LAMBDA o : o.count * usd(o.value, o.ccy, o.day)), 2)] :
     g \in {outcomeGrain(o) : o \in rows}}

\* rows of an inclusive range of days
In(rows, range) == {r \in rows : range.from <= r.day /\ r.day <= range.to}

Count(rows) == Sum(rows, LAMBDA r : r.facts)
Tokens(rows) == Sum(rows, LAMBDA r : r.tokens)
Outcomes(rows) == Sum(rows, LAMBDA r : r.count)
Live(rows) == {r \in rows : r.live}
Take(s, n) == SubSeq(s, 1, IF Len(s) < n THEN Len(s) ELSE n)

(***************************************************************************)
(* Overview.                                                                *)
(***************************************************************************)
\* the vendor's own estimate of what a seat holder used, in the seat's months
UsageValue(range) ==
  LET used == {m \in In(Metrics, range) : m.metric = "estimated_cost_cents" /\
                 \E s \in Seats : /\ s.person = m.person /\ s.vendor = m.vendor
                                  /\ s.from <= m.day
                                  /\ s.until = None \/ (s.until # None /\ m.day < s.until)}
  IN  ROUND(Sum(used, LAMBDA m : (m.value * 12) \div Rate[displayCcy][m.day]), 6)

overviewTotals(range) ==
  LET rows == In(rollup_daily, range)
      total == Cents(rows)
      assigned == Cents({r \in rows : r.person # None \/ r.product # None})
  IN  [total |-> total,
       estimated |-> Cents({r \in rows : r.basis = "estimated"}),
       invoiced |-> Cents({r \in rows : r.basis = "invoiced"}),
       subscription |-> Cents({r \in rows : r.mode = "subscription"}),
       metered |-> Cents({r \in rows : r.mode = "metered"}),
       usageValue |-> Cents({r \in rows : r.mode = "metered" /\ r.basis = "estimated"})
                        + UsageValue(range),
       assigned |-> assigned,
       unassigned |-> total - assigned,
       coverage |-> IF total = 0 THEN None ELSE MathRound(assigned * 1000, total),
       facts |-> Count(rows)]

trend(range) ==
  [day \in range.from..range.to |-> Cents({r \in rollup_daily : r.day = day})]

byVendor(range) ==
  LET rows == In(rollup_daily, range)
  IN  [v \in {r.vendor : r \in rows} |->
        LET mine == {r \in rows : r.vendor = v}
        IN  [total |-> Cents(mine),
             unassigned |-> Cents({r \in mine : r.person = None /\ r.product = None}),
             facts |-> Count(mine)]]

\* a person's rows and the Unassigned bucket; an agent's spend is its product's
PeopleView(rows) == {r \in rows : r.person # None \/ r.product = None}

topPeople(range, topN) ==
  LET rows == PeopleView(In(rollup_daily, range))
      of(p) == Cents({r \in rows : r.person = p})
      order == SetToSortSeq({r.person : r \in rows}, LAMBDA p, q : of(p) > of(q))
  IN  [n \in DOMAIN Take(order, topN + 1) |-> [person |-> order[n], cents |-> of(order[n])]]

topProducts(range, topN) ==
  LET rows == {r \in In(rollup_daily, range) : r.product # None}
      of(p) == Cents({r \in rows : r.product = p})
      earned(p) == Outcomes({o \in Live(In(rollup_outcomes_daily, range)) : o.product = p})
      order == SetToSortSeq({r.product : r \in rows}, LAMBDA p, q : of(p) > of(q))
  IN  [n \in DOMAIN Take(order, topN) |->
        [product |-> order[n], cents |-> of(order[n]), outcomes |-> earned(order[n])]]

(***************************************************************************)
(* Drill-downs. A filter is a function of the fields it constrains.          *)
(***************************************************************************)
Passes(row, filter) ==
  /\ "from" \in DOMAIN filter => row.day >= filter.from
  /\ "to" \in DOMAIN filter => row.day <= filter.to
  /\ \A field \in DOMAIN filter \ {"from", "to", "tool"} : row[field] = filter[field]
  /\ "tool" \in DOMAIN filter => filter.tool \in row.tools

listFacts(filter) ==
  LET all == {f \in facts : Passes(f, filter)}
  IN  [rows |-> all, count |-> Cardinality(all), cents |-> FactCents(all), tokens |-> Tokens(all)]

listOutcomes(filter) ==
  LET all == {o \in outs : Passes(o, filter)}
      live == {o \in all : ~o.reverted}
  IN  [total |-> Outcomes(all), live |-> Outcomes(live), reverted |-> Outcomes(all) - Outcomes(live)]

listMetrics(filter, names) ==
  LET all == {m \in Metrics : Passes(m, filter) /\ m.metric \in names}
  IN  [name \in {m.metric : m \in all} |->
        Sum({m \in all : m.metric = name}, LAMBDA m : m.value)]

(***************************************************************************)
(* People and keys.                                                         *)
(***************************************************************************)
Visible(p) == p = None \/ (p \notin gone /\ MergedInto[p] = None)

listPeople(range) ==
  LET rows == {r \in PeopleView(In(rollup_daily, range)) : Visible(r.person)}
      vendors(p) == {r.vendor : r \in {x \in rows : x.person = p}}
      roster == {p \in People : Visible(p)} \cup {r.person : r \in rows}
      earned(p) == IF p = None THEN 0
                   ELSE Outcomes({o \in Live(In(rollup_outcomes_daily, range)) : o.person = p})
      spent(p) == Sum(vendors(p), LAMBDA v : Cents({r \in rows : r.person = p /\ r.vendor = v}))
  IN  [p \in roster |->
        [total |-> spent(p),
         facts |-> Count({r \in rows : r.person = p}),
         outcomes |-> earned(p),
         unitCost |-> Per(spent(p), earned(p)),
         trend |-> [day \in range.from..range.to |->
                     Cents({r \in rows : r.person = p /\ r.day = day})]]]

\* a stale link to a merged person lands on the survivor; ten hops at most
Survivor(p) ==
  LET hop[n \in 0..10] ==
        IF n = 0 THEN p
        ELSE LET before == hop[n - 1]
             IN  IF MergedInto[before] = None THEN before ELSE MergedInto[before]
  IN  hop[10]

\* a page's daily rows, and what it derives from them
daily(rows) ==
  [c \in {<<r.day, r.vendor>> : r \in rows} |->
    [cents |-> Cents({r \in rows : <<r.day, r.vendor>> = c}),
     facts |-> Count({r \in rows : <<r.day, r.vendor>> = c}),
     tokens |-> Tokens({r \in rows : <<r.day, r.vendor>> = c})]]

daySum(cells, day) == Sum({c \in DOMAIN cells : c[1] = day}, LAMBDA c : cells[c].cents)

vendorSum(cells, v) == Sum({c \in DOMAIN cells : c[2] = v}, LAMBDA c : cells[c].cents)

pageSum(cells) == Sum(DOMAIN cells, LAMBDA c : cells[c].cents)

\* keys of a person or a product: spend in range, last use ever
keyRows(range, keys) ==
  [k \in keys |->
    LET mine == {f \in facts : f.key = k}
    IN  [cents |-> FactCents(In(mine, range)), facts |-> Cardinality(In(mine, range)),
         lastUsed |-> IF mine = {} THEN None ELSE Max({f.day : f \in mine})]]

personDetail(id, range) ==
  LET p == Survivor(id)
      rows == {r \in In(rollup_daily, range) : r.person = p}
      earned == {o \in In(rollup_outcomes_daily, range) : o.person = p}
      touched == {r.product : r \in rows} \cup {o.product : o \in Live(earned)}
      cells == daily(rows)
      cents == pageSum(cells)
  IN  [person |-> p,
       cents |-> cents,
       facts |-> Count(rows),
       outcomes |-> Outcomes(Live(earned)),
       reverted |-> Outcomes(earned \ Live(earned)),
       unitCost |-> Per(cents, Outcomes(Live(earned))),
       byVendor |-> [v \in {r.vendor : r \in rows} |-> vendorSum(cells, v)],
       trend |-> [day \in range.from..range.to |-> daySum(cells, day)],
       keys |-> keyRows(range, {k \in DOMAIN Key : Key[k].person = p}),
       products |-> [q \in touched \ {None} |->
         [cents |-> Cents({r \in rows : r.product = q}),
          outcomes |-> Outcomes({o \in Live(earned) : o.product = q})]]]

effectiveTags(k) == Key[k].tags \cup Key[k].manualTags

keyDetail(k) ==
  LET mine == {f \in facts : f.key = k}
      models == {f.model : f \in mine}
      of(m) == FactCents({f \in mine : f.model = m})
  IN  [cents |-> Sum(models, of),
       facts |-> Cardinality(mine),
       tokens |-> Tokens(mine),
       models |-> [m \in models |-> of(m)],
       used |-> IF mine = {} THEN None ELSE <<Min({f.day : f \in mine}), Max({f.day : f \in mine})>>,
       owner |-> Key[k].person,
       product |-> Key[k].product,
       tags |-> [t \in effectiveTags(k) |->
         [source |-> IF t \in Key[k].tags THEN "vendor" ELSE "manual",
          product |-> IF t \in DOMAIN TagSettings THEN TagSettings[t].product ELSE None,
          countsPersonal |-> t \in DOMAIN TagSettings => TagSettings[t].countsPersonal]]]

(***************************************************************************)
(* What changes the tables.                                                 *)
(***************************************************************************)
TablesInit ==
  /\ facts \in {F \in SUBSET FactRows : \A f, g \in F : f.id = g.id => f = g}
  /\ outs \in {O \in SUBSET OutcomeRows : \A o, x \in O : o.id = x.id => o = x}
  /\ rollup_daily = RollupOf(facts) /\ rollup_outcomes_daily = OutcomeRollupOf(outs)
  /\ archived = {} /\ gone = {}
  /\ displayCcy \in DOMAIN Rate
  /\ changes \in 0..MaxChanges

Rebuilt ==
  rollup_daily = RollupOf(facts) /\ rollup_outcomes_daily = OutcomeRollupOf(outs)

Change == changes < MaxChanges /\ changes' = changes + 1

\* a sync, ingest, a manual entry; an upsert rewrites the row
WriteFact(f) ==
  /\ Change /\ f \notin facts
  /\ facts' = {g \in facts : g.id # f.id} \cup {f}
  /\ UNCHANGED <<outs, rollups, archived, gone, displayCcy>>

\* retention, an invoice adjustment or a seat that is taken back
RemoveFact(f) ==
  /\ Change /\ f \in facts
  /\ facts' = facts \ {f}
  /\ UNCHANGED <<outs, rollups, archived, gone, displayCcy>>

WriteOutcome(o) ==
  /\ Change /\ o \notin outs
  /\ outs' = {x \in outs : x.id # o.id} \cup {o}
  /\ UNCHANGED <<facts, rollups, archived, gone, displayCcy>>

Rebuild ==
  /\ ~Rebuilt
  /\ rollup_daily' = RollupOf(facts)
  /\ rollup_outcomes_daily' = OutcomeRollupOf(outs)
  /\ UNCHANGED <<facts, outs, archived, gone, displayCcy, changes>>

ArchiveProduct(p) ==
  /\ Change /\ p \notin archived
  /\ archived' = archived \cup {p}
  /\ UNCHANGED <<facts, outs, rollups, gone, displayCcy>>

ArchivePerson(p) ==
  /\ Change /\ p \notin gone
  /\ gone' = gone \cup {p}
  /\ UNCHANGED <<facts, outs, rollups, archived, displayCcy>>

TablesNext ==
  \/ \E f \in FactRows : WriteFact(f) \/ RemoveFact(f)
  \/ \E o \in OutcomeRows : WriteOutcome(o)
  \/ \E p \in Products : ArchiveProduct(p)
  \/ \E p \in People : ArchivePerson(p)
  \/ Rebuild

(***************************************************************************)
(* Properties. What is quantified over one element is evaluated once.       *)
(***************************************************************************)
Absolute(x) == IF x >= 0 THEN x ELSE -x

\* equal but for n numbers that were rounded, and never where all is in USD
Near(a, b, n) ==
  IF displayCcy = "USD" /\ \A f \in facts : f.ccy = "USD" THEN a = b
  ELSE 2 * Absolute(a - b) <= n + 2

Values(f) == Sum(DOMAIN f, LAMBDA x : f[x])

\* "a tile and its drill rows are two reads of the same money" (overview.ts):
\* once the rollups are rebuilt the overview's total is its drill-down's, its
\* vendors, days and billing modes add up to it, and so do the people and the
\* spend that is only a product's.
OverviewAgrees(range) ==
  \A page \in {overviewTotals(range)}, vendors \in {byVendor(range)},
     people \in {topPeople(range, Cardinality(People))} :
    LET n == Cardinality(rollup_daily) + Cardinality(Days)
        agents == {f \in In(facts, range) : f.person = None /\ f.product # None}
    IN  /\ Near(page.total, listFacts(range).cents, n)
        /\ page.facts = listFacts(range).count
        /\ Near(page.total, Sum(DOMAIN vendors, LAMBDA v : vendors[v].total), n)
        /\ Near(page.total, Values(trend(range)), n)
        /\ Near(page.total, page.subscription + page.metered, n)
        /\ Near(page.subscription, listFacts(range @@ [mode |-> "subscription"]).cents, n)
        /\ Near(page.unassigned, listFacts(range @@ [person |-> None, product |-> None]).cents, n)
        /\ Near(page.total - FactCents(agents),
                Sum(DOMAIN people, LAMBDA i : people[i].cents), n)

\* The people page, with the people it hides, is all personal spend; a
\* person's page is their drill-down, also from a merged person's link.
PeopleAgree(range) ==
  LET n == Cardinality(rollup_daily) + Cardinality(Days)
      unseen == {f \in In(facts, range) :
                   \/ f.person \in gone \/ (f.person # None /\ MergedInto[f.person] # None)
                   \/ f.person = None /\ f.product # None}
  IN  /\ \A list \in {listPeople(range)} :
           Near(overviewTotals(range).total - FactCents(unseen),
                Sum(DOMAIN list, LAMBDA p : list[p].total), n)
      /\ \A id \in People : \A page \in {personDetail(id, range)} :
           LET drill == range @@ [person |-> page.person]
           IN  /\ Near(page.cents, listFacts(drill).cents, n)
               /\ page.outcomes = listOutcomes(drill).live
               /\ page.reverted = listOutcomes(drill).reverted
               /\ Near(page.cents, Values(page.byVendor), n)
               /\ Near(page.cents, Values(page.trend), n)
      /\ \A k \in DOMAIN Key : Near(keyDetail(k).cents, listFacts([key |-> k]).cents, n)
=============================================================================
