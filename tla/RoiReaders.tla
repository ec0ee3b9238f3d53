----------------------------- MODULE RoiReaders -----------------------------
(***************************************************************************)
(* The readers about what the money bought: ROI rows (products.ts, roi.ts),  *)
(* coding tools (tools.ts), the month report and the FOCUS export            *)
(* (report.ts), over the tables of LedgerReaders. The export reads the facts *)
(* batch by batch while they change.                                        *)
(***************************************************************************)
EXTENDS LedgerReaders

CONSTANTS
  OutcomeKind,    \* OutcomeKind[p]: what product p counts
  DefaultValue,   \* DefaultValue[p]: <<cents, currency>> of an outcome, or None
  SurvivalChecks, \* survival_checks
  MonthRange,     \* MonthRange[m]: from and to of month m
  BatchSize       \* of the export

VARIABLES
  export,         \* the export that is streaming: month, cursor, lines; or None
  stayed          \* facts that were stored all through the export

readerVars == <<tables, export, stayed>>

(***************************************************************************)
(* ROI rows.                                                                *)
(***************************************************************************)
productUnit(outcomeKind, kinds) ==
  CASE outcomeKind = "none" -> None
    [] outcomeKind = "github_pr" -> "merge"
    [] outcomeKind = "issue_done" -> "issue"
    [] OTHER -> IF Cardinality(kinds) = 1 /\ kinds # {"manual"} THEN CHOOSE k \in kinds : TRUE
                ELSE "outcome"

\* outcomes of a product, explicit values and the default for the others, in
\* sixths of a display cent
outcomeStats(p, range) ==
  LET all == {o \in In(rollup_outcomes_daily, range) : o.product = p}
      live == Live(all)
      default(o) == IF DefaultValue[p] = None THEN 0
                    ELSE ((o.count - o.valued) * DefaultValue[p][1] * Rate[DefaultValue[p][2]][o.day] * 6)
                           \div Rate[displayCcy][o.day]
  IN  [outcomes |-> Outcomes(live),
       valued |-> Sum(live, LAMBDA o : o.valued),
       reverted |-> Outcomes(all \ live),
       value |-> Sum(live, LAMBDA o : ((o.usd * 12) \div Rate[displayCcy][o.day]) + default(o)),
       kinds |-> {o.kind : o \in live}]

\* no value and no ROI where no outcome carries one
valueAndRoi(p, stats, spend) ==
  LET worth == IF stats.valued > 0 \/ (DefaultValue[p] # None /\ stats.outcomes > stats.valued)
               THEN MathRound(stats.value, 6) ELSE None
  IN  [value |-> worth,
       roi |-> IF worth # None /\ spend > 0 THEN MathRound(worth * 100, spend) ELSE None]

activeUsers(rows) == Cardinality({r.person : r \in rows} \ {None})

roiNumbers(p, range, spend, rows) ==
  LET stats == outcomeStats(p, range)
  IN  [spend |-> spend, facts |-> Count(rows), tokens |-> Tokens(rows),
       outcomes |-> stats.outcomes, reverted |-> stats.reverted,
       unitCost |-> Per(spend, stats.outcomes),
       unit |-> productUnit(OutcomeKind[p], stats.kinds),
       activeUsers |-> activeUsers(rows),
       costPerUser |-> Per(spend, activeUsers(rows)),
       worth |-> valueAndRoi(p, stats, spend)]

spendOf(p, range) == {r \in In(rollup_daily, range) : r.product = p}

productDetail(p, range) ==
  LET rows == spendOf(p, range)
      earned == {o \in Live(In(rollup_outcomes_daily, range)) : o.product = p}
      persons == {r.person : r \in rows} \cup {o.person : o \in earned}
      cells == daily(rows)
  IN  [metrics |-> roiNumbers(p, range, pageSum(cells), rows),
       byVendor |-> [v \in {r.vendor : r \in rows} |-> vendorSum(cells, v)],
       trend |-> [day \in range.from..range.to |-> daySum(cells, day)],
       byBasis |-> [b \in {"estimated", "invoiced", "manual"} |->
                     Cents({r \in rows : r.basis = b})],
       byPerson |-> [q \in persons |->
         [cents |-> Cents({r \in rows : r.person = q}),
          outcomes |-> Outcomes({o \in earned : o.person = q})]],
       keys |-> keyRows(range, {k \in DOMAIN Key : Key[k].product = p})]

\* mutant: an archived product takes its spend out of the report
roster_Live(includeArchived) == Products \ archived

roster(includeArchived) == IF includeArchived THEN Products ELSE Products \ archived

productsView(range, includeArchived) ==
  [p \in roster(includeArchived) |->
    LET rows == spendOf(p, range)
    IN  roiNumbers(p, range, Cents(rows), rows)
          @@ [vendors |-> {r.vendor : r \in rows},
              trend |-> [day \in range.from..range.to |-> Cents({r \in rows : r.day = day})]]]

(***************************************************************************)
(* Coding tools.                                                            *)
(***************************************************************************)
TOOL_SOURCES ==
  [claude_code |->
     [spend |-> "metric", vendor |-> "anthropic", metric |-> "estimated_cost_cents",
      tokens |-> "tokens", accepted |-> "tool_actions_accepted",
      against |-> "tool_actions_rejected", ofTotal |-> FALSE],
   cursor |->
     [spend |-> "vendor", vendor |-> "cursor", metric |-> None, tokens |-> None,
      accepted |-> "accepts", against |-> "rejects", ofTotal |-> FALSE],
   copilot |->
     [spend |-> "vendor", vendor |-> "github", metric |-> None, tokens |-> None,
      accepted |-> "code_acceptances", against |-> "code_generations", ofTotal |-> TRUE]]

Configured(tool) == tool \in DOMAIN TOOL_SOURCES
Routed(tool) == tool \in DOMAIN TagSettings /\ TagSettings[tool].product # None

\* in tenths of a percent
acceptRate(accepted, against, ofTotal) ==
  LET of == IF ofTotal THEN against ELSE accepted + against
  IN  IF accepted = None \/ of <= 0 THEN None ELSE MathRound(accepted * 1000, of)

merged(tool, range) ==
  {o \in In(outs, range) : o.kind = "github_pr" /\ tool \in o.tools}

checked(tool, range, horizon) ==
  {x \in merged(tool, range) \X SurvivalChecks :
     x[2].pr = x[1].id /\ x[2].horizon = horizon /\ ~x[2].error}

Written(pairs) == Sum(pairs, LAMBDA x : x[2].written)
Alive(pairs) == Sum(pairs, LAMBDA x : x[2].alive)

counters(tool, range, name) ==
  {m \in In(Metrics, range) : m.vendor = TOOL_SOURCES[tool].vendor /\ m.metric = name}

\* where the tool's cost per person is: its vendor's bill or its own counter
billed(tool, range) ==
  {r \in PeopleView(In(rollup_daily, range)) : r.vendor = TOOL_SOURCES[tool].vendor}

personSpend(tool, range) ==
  IF ~Configured(tool) THEN <<>>
  ELSE IF TOOL_SOURCES[tool].spend = "vendor"
  THEN [p \in {r.person : r \in billed(tool, range)} |->
         Cents({r \in billed(tool, range) : r.person = p})]
  ELSE LET estimates == counters(tool, range, TOOL_SOURCES[tool].metric)
       IN  [p \in {m.person : m \in estimates} |->
             ROUND(Sum({m \in estimates : m.person = p},
                       LAMBDA m : (m.value * 12) \div Rate[displayCcy][m.day]), 6)]

accepts(tool, range) ==
  IF ~Configured(tool) THEN {}
  ELSE counters(tool, range, TOOL_SOURCES[tool].accepted)
         \cup counters(tool, range, TOOL_SOURCES[tool].against)

ValueSum(rows) == Sum(rows, LAMBDA m : m.value)

toolPersons(tool, range) ==
  {o.person : o \in merged(tool, range)} \cup DOMAIN personSpend(tool, range)
    \cup {m.person : m \in accepts(tool, range)}

Rate10(n, d) == IF d > 0 THEN MathRound(n * 1000, d) ELSE None

toolSpend(tool, range) ==
  LET spent == personSpend(tool, range)
  IN  IF Configured(tool)
      THEN IF DOMAIN spent = {} THEN None ELSE Values(spent)
      ELSE IF Routed(tool) THEN Cents(spendOf(TagSettings[tool].product, range)) ELSE None

toolTokens(tool, range) ==
  IF ~Configured(tool)
  THEN IF Routed(tool) THEN Tokens(spendOf(TagSettings[tool].product, range)) ELSE 0
  ELSE IF TOOL_SOURCES[tool].tokens # None
  THEN ValueSum(counters(tool, range, TOOL_SOURCES[tool].tokens))
  ELSE Tokens(billed(tool, range))

toolSummary(tool, range) ==
  LET live == {o \in merged(tool, range) : ~o.reverted}
      reverted == merged(tool, range) \ live
      at30 == checked(tool, range, 30)
      at90 == checked(tool, range, 90)
      counted == accepts(tool, range)
      spend == toolSpend(tool, range)
      Of(name) == IF counted = {} THEN None
                  ELSE ValueSum({m \in counted : m.metric = TOOL_SOURCES[tool][name]})
  IN  [spend |-> spend, tokens |-> toolTokens(tool, range),
       merges |-> Outcomes(live), reverted |-> Outcomes(reverted),
       revertRate |-> Rate10(Outcomes(reverted), Outcomes(merged(tool, range))),
       acceptRate |-> IF counted = {} THEN None
                      ELSE acceptRate(Of("accepted"), Of("against"), TOOL_SOURCES[tool].ofTotal),
       linesWritten |-> Written(at30), linesAlive |-> Alive(at30),
       survival |-> Rate10(Alive(at30), Written(at30)),
       survival90 |-> Rate10(Alive(at90), Written(at90)),
       costPer1k |-> IF spend = None \/ Alive(at30) = 0 THEN None
                     ELSE MathRound(spend * 1000, Alive(at30)),
       people |-> Cardinality(toolPersons(tool, range) \ {None})]

\* a person's row of the tool
toolPerson(tool, range, p) ==
  LET prs == {o \in merged(tool, range) : o.person = p}
      at30 == {x \in checked(tool, range, 30) : x[1].person = p}
      counted == {m \in accepts(tool, range) : m.person = p}
      spent == personSpend(tool, range)
  IN  [spend |-> IF p \in DOMAIN spent THEN spent[p] ELSE None,
       merges |-> Outcomes({o \in prs : ~o.reverted}),
       reverted |-> Outcomes({o \in prs : o.reverted}),
       linesWritten |-> Written(at30), linesAlive |-> Alive(at30),
       accepted |-> IF counted = {} THEN None
                    ELSE ValueSum({m \in counted : m.metric = TOOL_SOURCES[tool].accepted})]

\* every configured tool and whatever the pull requests carry, with a signal
toolNames(range) ==
  {t \in DOMAIN TOOL_SOURCES \cup UNION {o.tools : o \in {x \in In(outs, range) : x.kind = "github_pr"}} :
     toolPersons(t, range) # {} \/ toolSpend(t, range) # None}

toolsData(range) == [t \in toolNames(range) |-> toolSummary(t, range)]

\* tags on the keys routed to a product, and tags pointed at it
tagsOf(p) ==
  UNION {effectiveTags(k) : k \in {x \in DOMAIN Key : Key[x].product = p}}
    \cup {t \in DOMAIN TagSettings : TagSettings[t].product = p}

\* the routing container of merged pull requests is no row of its own
roiView(range) ==
  LET tools == toolsData(range)
      products == productsView(range, FALSE)
  IN  {[kind |-> "coding", name |-> t, spend |-> tools[t].spend, successes |-> tools[t].linesAlive,
        costPerSuccess |-> tools[t].costPer1k,
        tags |-> {t} \cup (IF ~Configured(t) /\ Routed(t) /\ TagSettings[t].product \notin archived
                           THEN tagsOf(TagSettings[t].product) ELSE {})] : t \in DOMAIN tools}
      \cup
      {[kind |-> "custom", name |-> p, spend |-> products[p].spend, successes |-> products[p].outcomes,
        costPerSuccess |-> products[p].unitCost, tags |-> tagsOf(p)] :
          p \in {q \in DOMAIN products : OutcomeKind[q] # "github_pr"}}

(***************************************************************************)
(* The month report.                                                        *)
(***************************************************************************)
\* months as the days they span: this one, the one before, and all with spend;
\* the percent changes are left out
reportData(month) ==
  LET cur == MonthRange[month]
      prev == MonthRange[month - 1]
      now == productsView(cur, TRUE)
      before == productsView(prev, TRUE)
      idle(p) == LET row == now[p]
                 IN  row.spend = 0 /\ before[p].spend = 0 /\ row.outcomes = 0 /\ row.reverted = 0
      bucket(range) == Cents(spendOf(None, range))
      both == In(rollup_daily, [from |-> prev.from, to |-> cur.to])
      target(r) == IF r.person # None /\ MergedInto[r.person] # None THEN MergedInto[r.person]
                   ELSE r.person
      people == [p \in {target(r) : r \in both} |->
                  [spend |-> Cents({r \in In(both, cur) : target(r) = p}),
                   prev |-> Cents({r \in In(both, prev) : target(r) = p})]]
      rows == [p \in {q \in DOMAIN now : ~idle(q)} |->
                [spend |-> now[p].spend, prev |-> before[p].spend]]
              @@ [p \in {q \in {None} : bucket(cur) # 0 \/ bucket(prev) # 0} |->
                   [spend |-> bucket(cur), prev |-> bucket(prev)]]
  IN  [rows |-> rows,
       people |-> [p \in {q \in DOMAIN people : people[q].spend # 0 \/ people[q].prev # 0} |-> people[p]],
       months |-> [m \in {month - 1, month} |-> Cents(In(rollup_daily, MonthRange[m]))]]

reportTotals(page) ==
  [spend |-> Sum(DOMAIN page.rows, LAMBDA p : page.rows[p].spend),
   prev |-> Sum(DOMAIN page.rows, LAMBDA p : page.rows[p].prev)]

(***************************************************************************)
(* The FOCUS export: a header, then a line per fact in batches after a       *)
(* (day, id) cursor.                                                        *)
(***************************************************************************)
focusLine(f) ==
  [fact |-> f.id, cost |-> f.cents, currency |-> f.ccy,
   category |-> IF f.basis = "manual" THEN "Purchase" ELSE "Usage",
   quantity |-> IF f.tokens > 0 THEN f.tokens ELSE None]

\* mutant: the cursor is the day of the last line
After_Day(f, cursor) == cursor = None \/ (cursor # None /\ f.day > cursor[1])

After(f, cursor) ==
  cursor = None \/ (cursor # None /\ (f.day > cursor[1] \/ (f.day = cursor[1] /\ f.id > cursor[2])))

Earlier(f, g) == f.day < g.day \/ (f.day = g.day /\ f.id < g.id)

focusBatch ==
  LET rest == {f \in In(facts, MonthRange[export.month]) : After(f, export.cursor)}
  IN  Take(SetToSortSeq(rest, Earlier), BatchSize)

StartExport(month) ==
  /\ export = None
  /\ export' = [month |-> month, cursor |-> None, lines |-> <<>>, over |-> FALSE]
  /\ stayed' = In(facts, MonthRange[month])
  /\ UNCHANGED tables

ExportBatch ==
  /\ export # None /\ ~export.over
  /\ LET batch == focusBatch
     IN  export' = [export EXCEPT
           !.lines = @ \o [n \in DOMAIN batch |-> focusLine(batch[n])],
           !.cursor = IF batch = <<>> THEN @ ELSE <<Last(batch).day, Last(batch).id>>,
           !.over = Len(batch) < BatchSize]
  /\ UNCHANGED <<tables, stayed>>

EndExport ==
  /\ export # None /\ export.over
  /\ export' = None
  /\ stayed' = {}
  /\ UNCHANGED tables

ReadersInit == TablesInit /\ export = None /\ stayed = {}

ReadersNext ==
  \/ TablesNext /\ stayed' = stayed \cap facts' /\ UNCHANGED export
  \/ \E month \in DOMAIN MonthRange : StartExport(month)
  \/ ExportBatch
  \/ EndExport

(***************************************************************************)
(* Properties. What is quantified over one element is evaluated once.       *)
(***************************************************************************)
\* "Every number equals listFacts/listOutcomes under the product's drill
\* filter" (products.ts): a row of the ROI page and the page it opens are the
\* raw rows of the product, and the page's parts add up to it.
ProductsAgree(range) ==
  \A view \in {productsView(range, TRUE)} : \A p \in DOMAIN view :
    \A row \in {view[p]}, page \in {productDetail(p, range)} :
      LET n == Cardinality(rollup_daily) + Cardinality(Days)
          drill == range @@ [product |-> p]
          earned == listOutcomes(drill)
      IN  /\ Near(row.spend, listFacts(drill).cents, n)
          /\ Near(page.metrics.spend, row.spend, n)
          /\ row.outcomes = earned.live /\ row.reverted = earned.reverted
          /\ Near(Values(page.byBasis), row.spend, n)
          /\ Near(Values(page.trend), row.spend, n)
          /\ Near(Values(page.byVendor), row.spend, n)
          /\ Sum(DOMAIN page.byPerson, LAMBDA q : page.byPerson[q].outcomes) = row.outcomes
          /\ (row.worth.value # None => row.outcomes > 0)

\* A tool's line is the sum of its people's lines and of the rows its numbers
\* drill to; a pull request that carries two tools counts for both.
ToolsAgree(range) ==
  \A t \in toolNames(range) :
    \A row \in {toolSummary(t, range)},
       cells \in {[p \in toolPersons(t, range) |-> toolPerson(t, range, p)]} :
      LET drill == listOutcomes(range @@ [kind |-> "github_pr", tool |-> t])
      IN  /\ row.merges = drill.live /\ row.reverted = drill.reverted
          /\ \A field \in {"merges", "reverted", "linesAlive", "linesWritten"} :
               row[field] = Sum(DOMAIN cells, LAMBDA p : cells[p][field])
          /\ (Configured(t) /\ row.acceptRate # None) => row.acceptRate <= 1000

\* "the page always sums to the whole ledger - no fake numbers, nothing hidden"
\* (report.ts): the report's rows and its people are the month's facts,
\* whatever was archived since.
ReportIsWhole(month) ==
  LET n == Cardinality(rollup_daily) + Cardinality(Products) + Cardinality(People)
      ledger == listFacts(MonthRange[month]).cents
  IN  \A page \in {reportData(month)} :
        LET totals == reportTotals(page)
        IN  /\ Near(totals.spend, ledger, n)
            /\ Near(Sum(DOMAIN page.people, LAMBDA p : page.people[p].spend), ledger, n)
            /\ Near(totals.prev, listFacts(MonthRange[month - 1]).cents, n)
            /\ Near(page.months[month], totals.spend, n)

\* Each fact that stayed as it was while the export ran is exported once.
ExportedOnce ==
  export # None =>
    LET lines(f) == {n \in DOMAIN export.lines : export.lines[n].fact = f.id}
    IN  \A f \in stayed :
          /\ Cardinality(lines(f)) <= 1
          /\ export.over => lines(f) # {}

\* When the rollups are rebuilt, the pages are the raw rows they drill to.
ReadersAgree ==
  /\ ExportedOnce
  /\ Rebuilt => \A month \in DOMAIN MonthRange :
       LET range == MonthRange[month]
       IN  /\ OverviewAgrees(range) /\ PeopleAgree(range)
           /\ ProductsAgree(range) /\ ToolsAgree(range)
           /\ (month - 1 \in DOMAIN MonthRange => ReportIsWhole(month))
=============================================================================
