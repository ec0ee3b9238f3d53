-------------------------------- MODULE Github --------------------------------
(***************************************************************************)
(* The GitHub connector (src/lib/connectors/github.ts): the Copilot roster,*)
(* AI-credit dollars per month (the organisation's total, then each seat   *)
(* holder, then what is left over as Unassigned), the daily usage reports, *)
(* and merged pull requests (a search, then detail and commits of each).   *)
(*                                                                         *)
(* Sizes of 100, the search cap of 1000, and the 28 daily reports are      *)
(* constants. Dollars are small integers; a fact of a user stands for the  *)
(* user's (sku, model) facts of the month, which one request returns.      *)
(***************************************************************************)
EXTENDS Connector

CONSTANTS
  GhUsers,        \* numeric ids; logins sort like them
  GhCents,        \* what a user may be billed for a month
  GhMonths,       \* months of the window, 1 .. GhMonths
  GhDays,         \* days of the window, 1 .. GhDays, the last one today
  GhReportDays,   \* METRICS_REPORT_DAYS
  GhChunks,       \* 30-day search chunks
  GhPRs,          \* sequence of [author, bot, pages, reverts], as created
  GhPage,         \* SEATS_PAGE_SIZE, SEARCH_PAGE_SIZE
  GhCap           \* SEARCH_RESULT_CAP

GhNumbers == DOMAIN GhPRs
GhTools == UNION {GhPRs[n].bot \cup UNION ToSet(GhPRs[n].pages) : n \in GhNumbers}
PRReads == [page : Nat \ {0}, tools : SUBSET GhTools]
ReportLinks == [day : Nat, users : SUBSET GhUsers]

\* page: of the roster or a search; users: the roster as it was read; left: who
\* of them is still to be asked about this month, org and attributed its cents
\* so far; links: what is left of a day's report; queue: the PRs found, current:
\* what is read of the first one
GhCursors ==
  [phase : {"seats", "credits", "daily", "prs", "pr"}, page : Nat \ {0}, chunk : 1 .. GhChunks,
   users : SUBSET GhUsers, month : 1 .. GhMonths, left : Seq(GhUsers), org : Nat, attributed : Nat,
   day : Nat, links : Seq(ReportLinks), queue : Seq(GhNumbers), current : PRReads \cup {None}]

ASSUME GithubAssumption ==
  /\ {1, 2} \subseteq GhUsers /\ GhUsers \subseteq Nat \ {0} /\ IsFiniteSet(GhUsers) /\ GhCents \subseteq Nat
  /\ {GhMonths, GhDays, GhReportDays, GhChunks, GhPage, GhCap} \subseteq Nat \ {0}
  /\ GhPRs \in Seq(ToSet(GhPRs)) /\ \A n \in GhNumbers : GhPRs[n].pages \in Seq(SUBSET GhTools)
  /\ None \notin GhCursors \cup PRReads \cup Seq(SUBSET GhUsers)

Unassigned == 0
\* what the record of a PR says, when not the search chunk it was merged in;
\* a lagging record is behind the search index
OpenPR == 0
Lagging == -1
Gone == -2

\* world: roster; bill[m][u], where an item once listed stays, at no cents
\* too; report[d], the links of day d's report, each the users it counts
\* (None while GitHub has not built it); and pr[n]
GhInit ==
  /\ world \in [roster : {<<1, 2>>},
                bill : {[m \in 1 .. GhMonths |-> IF m % 2 = 1 THEN [u \in GhUsers |-> 1] ELSE NoRows]},
                report : {[d \in 1 .. GhDays |-> IF d < GhDays THEN <<{1}, {2}>> ELSE None]},
                pr : {[n \in GhNumbers |-> IF n = 1 THEN OpenPR ELSE 1]}]
  /\ vendor = "github" /\ token = None /\ moved = {} /\ walks = 0 /\ changes = 0
  /\ stored = [people |-> {}, facts |-> [m \in 1 .. GhMonths |-> NoRows], totals |-> NoRows, usage |-> {},
               outcomes |-> NoRows, reverts |-> {}]

GhInitialCursor ==
  [phase |-> "seats", page |-> 1, chunk |-> 1, users |-> {},
   month |-> 1, left |-> <<>>, org |-> 0, attributed |-> 0,
   day |-> 0, links |-> <<>>, queue |-> <<>>, current |-> None]

OrgCents(m) == SumFunction(world.bill[m])

-----------------------------------------------------------------------------
seatsPage(page) == ToSet(PageOf(world.roster, page, GhPage))

\* one page of the roster; the last one goes on to the credits
SeatsPage ==
  /\ InPhase("seats")
  /\ LET found == seatsPage(token.page)
         next == [token EXCEPT !.users = @ \cup found] IN
     CommitPage(IF MorePages(world.roster, token.page, GhPage)
                  THEN [next EXCEPT !.page = @ + 1]
                  ELSE [next EXCEPT !.phase = "credits", !.page = 1],
                [stored EXCEPT !.people = @ \cup found])

dailyDays == Max({1, GhDays - GhReportDays + 1})

AfterMonth(t) ==
  IF t.month < GhMonths
    THEN [t EXCEPT !.month = @ + 1, !.left = <<>>, !.org = 0, !.attributed = 0]
    ELSE [t EXCEPT !.phase = "daily", !.day = dailyDays, !.left = <<>>, !.org = 0, !.attributed = 0]

\* the month of one login, a fact per item
Spent(m, u) == IF u \in DOMAIN world.bill[m] THEN world.bill[m][u] ELSE 0
creditItems(m, u) == IF u \in DOMAIN world.bill[m] THEN Row(u, world.bill[m][u]) ELSE NoRows
remainderFact(cents) == Row(Unassigned, cents)

\* the unfiltered report of the month: its total, and who is asked about next
CreditsTotal ==
  /\ InPhase("credits") /\ token.left = <<>>
  /\ LET m == token.month
         total == OrgCents(m)
         wrote == [stored EXCEPT !.totals = Upsert(@, Row(m, total))] IN
     IF total = 0 THEN CommitPage(AfterMonth(token), wrote)
     ELSE IF token.users = {}
       THEN CommitPage(AfterMonth(token), [wrote EXCEPT !.facts[m] = Upsert(@, remainderFact(total))])
       ELSE CommitPage([token EXCEPT !.org = total, !.attributed = 0, !.left = InOrder(token.users)], wrote)

\* the report of one login; after the last one, what nobody on the roster
\* spent is the visible remainder, never below zero
CreditsOfUser ==
  /\ InPhase("credits") /\ token.left # <<>>
  /\ LET m == token.month
         u == Head(token.left)
         attributed == token.attributed + Spent(m, u)
         facts == Upsert(stored.facts[m], creditItems(m, u)) IN
     IF Len(token.left) > 1
       THEN CommitPage([token EXCEPT !.left = Tail(@), !.attributed = attributed],
                       [stored EXCEPT !.facts[m] = facts])
       ELSE CommitPage(AfterMonth(token),
                       [stored EXCEPT !.facts[m] = Upsert(facts, remainderFact(Max({0, token.org - attributed})))])

-----------------------------------------------------------------------------
AfterDay(t) ==
  IF t.day < GhDays THEN [t EXCEPT !.day = @ + 1, !.links = <<>>]
  ELSE [t EXCEPT !.phase = "prs", !.day = 0, !.links = <<>>, !.chunk = 1, !.page = 1]

\* a day without a report (404) has no links
reportLinks(day) ==
  IF world.report[day] = None THEN <<>>
  ELSE [i \in DOMAIN world.report[day] |-> [day |-> day, users |-> world.report[day][i]]]
usageRows(link) == {<<link.day, u>> : u \in link.users}

DailyReport ==
  /\ InPhase("daily") /\ token.links = <<>>
  /\ LET links == reportLinks(token.day) IN
     CommitPage(IF links = <<>> THEN AfterDay(token) ELSE [token EXCEPT !.links = links], stored)

DailyRows ==
  /\ InPhase("daily") /\ token.links # <<>>
  /\ LET link == Head(token.links) IN
     CommitPage(IF Len(token.links) > 1 THEN [token EXCEPT !.links = Tail(@)] ELSE AfterDay(token),
                [stored EXCEPT !.usage = @ \cup usageRows(link),
                               !.people = @ \cup link.users])

-----------------------------------------------------------------------------
\* what the search of a chunk finds, oldest created first; the index may be
\* ahead of the record
Found(chunk) ==
  InOrder({n \in GhNumbers : world.pr[n] = chunk \/ (world.pr[n] = Lagging /\ chunk = GhChunks)})

OverCap == \E c \in 1 .. GhChunks : Len(Found(c)) > GhCap

\* a page of a chunk's search; over the cap it throws, and so does every
\* retry, until the vendor's total falls
SearchPage ==
  /\ InPhase("prs")
  /\ \E found \in {Found(token.chunk)} :
     LET next == [token EXCEPT !.queue = @ \o PageOf(found, token.page, GhPage)] IN
     /\ Len(found) <= GhCap
     /\ CommitPage(IF MorePages(found, token.page, GhPage) THEN [next EXCEPT !.page = @ + 1]
                   ELSE IF token.chunk < GhChunks THEN [next EXCEPT !.chunk = @ + 1, !.page = 1]
                   ELSE IF next.queue # <<>> THEN [next EXCEPT !.phase = "pr"]
                   ELSE None,
                   stored)

NextPR(t) ==
  IF Len(t.queue) > 1 THEN [t EXCEPT !.queue = Tail(@), !.current = None] ELSE None

\* None when the record is not merged; bots the code knows count as a tool
prDetail(n) ==
  IF world.pr[n] \in {OpenPR, Lagging} THEN None ELSE [page |-> 1, tools |-> GhPRs[n].bot]

\* the detail of the PR at the head of the queue; one that is not merged is
\* skipped, and one that is gone (404) throws on every retry
PRDetail ==
  /\ InPhase("pr") /\ token.current = None
  /\ LET n == Head(token.queue) IN
     /\ world.pr[n] # Gone
     /\ CommitPage(IF prDetail(n) = None THEN NextPR(token) ELSE [token EXCEPT !.current = prDetail(n)],
                   stored)

\* mutant: each page replaces what the earlier pages found
Tools_LastPage(cur, found) == found

Tools(cur, found) == cur.tools \cup found

\* the tools named by the co-author trailers of a page of commits
commitsPage(n, page) == IF page \in DOMAIN GhPRs[n].pages THEN GhPRs[n].pages[page] ELSE {}
finalizePr(n, tools) == Row(n, [author |-> GhPRs[n].author, tools |-> tools])

\* a page of its commits; a full page asks for the next, a short one ends it:
\* the outcome and what it reverts are committed together
PRCommits ==
  /\ InPhase("pr") /\ token.current # None
  /\ LET n == Head(token.queue)
         cur == token.current
         tools == Tools(cur, commitsPage(n, cur.page)) IN
     /\ world.pr[n] # Gone
     /\ IF cur.page < Len(GhPRs[n].pages)
       THEN CommitPage([token EXCEPT !.current = [page |-> cur.page + 1, tools |-> tools]], stored)
       ELSE CommitPage(NextPR(token),
                       [stored EXCEPT !.outcomes = Upsert(@, finalizePr(n, tools)),
                                      !.reverts = @ \cup {<<n, r>> : r \in GhPRs[n].reverts}])

-----------------------------------------------------------------------------
(***************************************************************************)
(* The vendor moves, by itself and by addCopilotSeat and removeCopilotSeat.*)
(***************************************************************************)
addCopilotSeat(u) ==
  /\ u \notin ToSet(world.roster)
  /\ Move([world EXCEPT !.roster = Append(@, u)], {<<"roster", 0>>})
removeCopilotSeat(u) ==
  /\ u \in ToSet(world.roster)
  /\ Move([world EXCEPT !.roster = OnlyAt(@, {i \in DOMAIN @ : @[i] # u})], {<<"roster", 0>>})
Billed(m, u, cents) ==
  /\ u \in DOMAIN world.bill[m] => cents # world.bill[m][u]
  /\ Move([world EXCEPT !.bill[m] = Upsert(@, Row(u, cents))], {<<"bill", 0>>})
ReportBuilt(d) ==
  /\ world.report[d] = None
  /\ Move([world EXCEPT !.report[d] = <<{1, 2}>>], {<<"report", 0>>})
Merge(n, status) ==
  /\ world.pr[n] \in {OpenPR, Lagging} /\ status # world.pr[n]
  /\ Move([world EXCEPT !.pr[n] = status], {<<"pr", n>>})
\* the PR's repository leaves the organisation
Vanish(n) ==
  /\ world.pr[n] \notin {OpenPR, Gone}
  /\ Move([world EXCEPT !.pr[n] = Gone], {<<"pr", n>>, <<"gone", 0>>})

GhMoves ==
  \/ \E u \in GhUsers : addCopilotSeat(u) \/ removeCopilotSeat(u)
  \/ \E m \in {GhMonths}, u \in GhUsers, cents \in GhCents : Billed(m, u, cents)
  \/ \E d \in 1 .. GhDays : ReportBuilt(d)
  \/ \E n \in GhNumbers : Vanish(n) \/ \E status \in {Lagging, GhChunks} : Merge(n, status)

GhPages ==
  \/ SeatsPage \/ CreditsTotal \/ CreditsOfUser
  \/ DailyReport \/ DailyRows
  \/ SearchPage \/ PRDetail \/ PRCommits

(***************************************************************************)
(* What is promised.                                                       *)
(***************************************************************************)
\* The dollars a walk books for a month are the dollars GitHub bills: the
\* facts of the seat holders and the Unassigned remainder sum to the
\* organisation's total, whichever users hold no seat (github.ts:868-904).
CreditsBalance ==
  Settled("github", {<<"roster", 0>>, <<"bill", 0>>}) =>
    \A m \in 1 .. GhMonths :
      /\ stored.totals[m] = OrgCents(m)
      /\ OrgCents(m) # 0 =>
           OrgCents(m) = SumFunctionOnSet(stored.facts[m],
                           DOMAIN stored.facts[m] \cap (ToSet(world.roster) \cup {Unassigned}))

\* Every daily report that existed is counted (github.ts:907-934).
ReportsCounted ==
  Settled("github", {<<"report", 0>>}) =>
    \A d \in dailyDays .. GhDays : world.report[d] # None =>
      \A u \in UNION ToSet(world.report[d]) : <<d, u>> \in stored.usage

\* Every merged PR of the window has its outcome, credited to the tools of all
\* its commits, whatever else merged while the search was paged; only a PR
\* leaving the search can hide another (github.ts:936-1014).
PRsCounted ==
  Settled("github", {<<"gone", 0>>}) =>
    \A n \in GhNumbers : world.pr[n] \in 1 .. GhChunks /\ <<"pr", n>> \notin moved =>
      /\ n \in DOMAIN stored.outcomes
      /\ stored.outcomes[n].tools = GhPRs[n].bot \cup UNION ToSet(GhPRs[n].pages)
      /\ \A r \in GhPRs[n].reverts : <<n, r>> \in stored.reverts

GithubLedger == CreditsBalance /\ ReportsCounted /\ PRsCounted

\* a walk that no retry can finish
GhStuck ==
  \/ InPhase("prs") /\ OverCap
  \/ InPhase("pr") /\ world.pr[Head(token.queue)] = Gone

\* A month's facts sum to what GitHub billed ("never dropped",
\* github.ts:54-57). It fails: a user who loses the seat keeps the fact of an
\* earlier walk, and the remainder of the next one counts the dollars again.
MonthSumsToBill ==
  Settled("github", {<<"roster", 0>>, <<"bill", 0>>}) =>
    \A m \in 1 .. GhMonths : OrgCents(m) = SumFunction(stored.facts[m])

GhNext == Start(GhInitialCursor) \/ GhPages \/ GhMoves
=============================================================================
