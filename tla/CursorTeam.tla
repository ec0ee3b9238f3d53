------------------------------ MODULE CursorTeam ------------------------------
(***************************************************************************)
(* The Cursor connector (src/lib/connectors/cursor.ts): the roster, the    *)
(* running billing cycle per member, daily activity, and one spend fact per*)
(* chargeable usage event. Events have no id at the vendor: a fact is keyed*)
(* on its millisecond, spender and model, with #n for the n-th of a kind,  *)
(* counted along the walk and carried across pages in the token.           *)
(*                                                                         *)
(* The model of an event is left out of its key. The 30-day chunks and the *)
(* page sizes are constants.                                               *)
(***************************************************************************)
EXTENDS Connector

CONSTANTS
  CuEmails,     \* who spends: members, strangers to the roster, service accounts
  CuService,    \* the service accounts among them
  CuMembers,    \* the roster at first, as a sequence
  CuChunks,     \* the window's chunks, 1 .. CuChunks, one activity day each
  CuEvents,     \* the events at first, oldest first: [ts, who, charged]
  CuTimes,      \* when an event may happen; ts div 10 is its chunk
  CuPage,       \* SPEND_PAGE_SIZE, DAILY_PAGE_SIZE, EVENTS_PAGE_SIZE
  CuLimits      \* spend limits an admin may push, in cents

NoCounts == [ts |-> 0, n |-> NoRows]

\* page: of a list or a chunk; members: the roster as it was read; tsCounts: how
\* many events of each spender were booked at the last event's millisecond
CuCursors ==
  [phase : {"members", "spend", "daily", "events"}, page : Nat \ {0}, chunk : 1 .. CuChunks,
   members : SUBSET CuEmails, tsCounts : [ts : Nat, n : Tables(CuEmails, Nat)]]

\* the window's instants, and its events
CuInstants == {t \in Nat : t \div 10 \in 1 .. CuChunks}
CuUsage == [ts : CuInstants, who : CuEmails, charged : BOOLEAN]
InTime(events) == \A i, k \in DOMAIN events : i < k => events[i].ts <= events[k].ts

ASSUME CursorAssumption ==
  /\ CuService \subseteq CuEmails
  /\ {CuChunks, CuPage} \subseteq Nat \ {0}
  /\ CuLimits \subseteq Nat /\ CuTimes \subseteq CuInstants
  /\ CuMembers \in Seq(CuEmails) \ {<<>>}
  /\ CuEvents \in Seq(CuUsage) /\ InTime(CuEvents)
  /\ None \notin CuCursors

\* world: roster (a removed member stays listed); the billing cycle, with the
\* cents and the limit of each member in it; active, the <<day, member>> with
\* activity; events as they happened, and whether they are served newest
\* first; waived, whether a charge was taken back
CuInit ==
  /\ world \in [roster : {CuMembers}, cycle : {1},
                cents : {[u \in CuEmails |-> 0]}, limit : {[u \in CuEmails |-> 0]},
                active : {{<<1, Head(CuMembers)>>}},
                events : {CuEvents}, newest : BOOLEAN, waived : {FALSE}]
  /\ vendor = "cursor" /\ token = None /\ moved = {} /\ walks = 0 /\ changes = 0
  /\ stored = [people |-> {}, cycles |-> NoRows, active |-> {}, facts |-> NoRows]

CuInitialCursor == [phase |-> "members", page |-> 1, chunk |-> 1, members |-> {}, tsCounts |-> NoCounts]

-----------------------------------------------------------------------------
\* the whole team in one answer
membersPage ==
  /\ InPhase("members")
  /\ CommitPage([token EXCEPT !.phase = "spend", !.members = ToSet(world.roster)],
                [stored EXCEPT !.people = @ \cup ToSet(world.roster)])

\* a page of the running cycle: what each member has been billed in it
spendMetrics ==
  /\ InPhase("spend")
  /\ LET page == ToSet(PageOf(world.roster, token.page, CuPage)) IN
     CommitPage(IF MorePages(world.roster, token.page, CuPage) THEN [token EXCEPT !.page = @ + 1]
                  ELSE [token EXCEPT !.phase = "daily", !.page = 1],
                [stored EXCEPT !.people = @ \cup page,
                               !.cycles = Upsert(@, [k \in {world.cycle} \X page |->
                                  [cents |-> world.cents[k[2]], limit |-> world.limit[k[2]]]])])

\* mutant: whichever phase ends goes on to the events
afterChunk_Again(t) ==
  IF t.chunk < CuChunks THEN [t EXCEPT !.chunk = @ + 1, !.page = 1, !.tsCounts = NoCounts]
  ELSE [t EXCEPT !.phase = "events", !.chunk = 1, !.page = 1]

afterChunk(t) ==
  IF t.chunk < CuChunks THEN [t EXCEPT !.chunk = @ + 1, !.page = 1, !.tsCounts = NoCounts]
  ELSE IF t.phase = "daily" THEN [t EXCEPT !.phase = "events", !.chunk = 1, !.page = 1]
  ELSE None

\* a page of a chunk's activity, one row per member; an inactive row is a
\* placeholder and no metric
dailyMetrics ==
  /\ InPhase("daily")
  /\ LET page == ToSet(PageOf(world.roster, token.page, CuPage)) IN
     CommitPage(IF MorePages(world.roster, token.page, CuPage) THEN [token EXCEPT !.page = @ + 1]
                  ELSE afterChunk(token),
                [stored EXCEPT !.active = @ \cup (world.active \cap ({token.chunk} \X page))])

-----------------------------------------------------------------------------
\* a chunk's events follow one another
Served(chunk) ==
  LET P == {i \in DOMAIN world.events : world.events[i].ts \div 10 = chunk}
      es == IF P = {} THEN <<>> ELSE SubSeq(world.events, Min(P), Max(P)) IN
  IF world.newest THEN Reverse(es) ELSE es

\* mutant: the counts start again on every page
Counts_PerPage(counts) == NoCounts

Counts(counts) == counts

\* a member spends under the roster's id, anyone else under the email, a
\* service account under itself
Spender(who, members) ==
  IF who \in CuService THEN "account" ELSE IF who \in members THEN "member" ELSE "stranger"

\* the n-th event of a spender at one millisecond has n in its key; an event
\* covered by the seat is no money
BookOne(page, e, members) ==
  IF ~e.charged THEN page
  ELSE LET c == IF e.ts # page.counts.ts THEN [ts |-> e.ts, n |-> NoRows] ELSE page.counts
           n == 1 + (IF e.who \in DOMAIN c.n THEN c.n[e.who] ELSE 0) IN
       [counts |-> [ts |-> c.ts, n |-> Upsert(c.n, Row(e.who, n))],
        facts |-> Upsert(page.facts, Row(<<e.ts, e.who, n>>, Spender(e.who, members)))]

\* the facts of a page, and the counts after it
Booked(events, members, counts) ==
  LET after[n \in 0 .. Len(events)] ==
        IF n = 0 THEN [counts |-> counts, facts |-> NoRows] ELSE BookOne(after[n - 1], events[n], members)
  IN after[Len(events)]

eventFacts ==
  /\ InPhase("events")
  /\ \E events \in {Served(token.chunk)} : \E body \in {PageOf(events, token.page, CuPage)} :
     \E page \in {Booked(body, token.members, Counts(token.tsCounts))} :
       CommitPage(IF MorePages(events, token.page, CuPage)
                    THEN [token EXCEPT !.page = @ + 1, !.tsCounts = page.counts]
                    ELSE afterChunk(token),
                  [stored EXCEPT !.facts = Upsert(@, page.facts)])

-----------------------------------------------------------------------------
(***************************************************************************)
(* The vendor moves; the last two by this program's writes.                *)
(***************************************************************************)
Join(u) ==
  /\ u \in CuEmails \ CuService /\ u \notin ToSet(world.roster)
  /\ Move([world EXCEPT !.roster = Append(@, u)], {"roster"})
Work(u) ==
  /\ u \in ToSet(world.roster) /\ <<CuChunks, u>> \notin world.active
  /\ Move([world EXCEPT !.active = @ \cup {<<CuChunks, u>>}], {"active"})
UsageEvent(ts, u, charged) ==
  /\ world.events # <<>> => ts >= Last(world.events).ts
  /\ Move([world EXCEPT !.events = Append(@, [ts |-> ts, who |-> u, charged |-> charged]),
                        !.cents[u] = IF charged THEN @ + 1 ELSE @], {"events", "cycle"})
Waive(i) ==
  /\ world.events[i].charged
  /\ Move([world EXCEPT !.events[i].charged = FALSE, !.waived = TRUE], {"events"})
NextCycle ==
  /\ world.cycle = 1
  /\ Move([world EXCEPT !.cycle = 2, !.cents = [u \in CuEmails |-> 0]], {"cycle"})

\* whole dollars only, refused before the call; the vendor rejects it below
\* the Enterprise plan, and then nothing changes
setCursorUserSpendLimit(u, cents) ==
  /\ cents % 100 = 0 /\ u \in ToSet(world.roster) /\ cents # world.limit[u]
  /\ Move([world EXCEPT !.limit[u] = cents], {"cycle"})

CuMoves ==
  \/ NextCycle
  \/ \E u \in CuEmails :
       \/ Join(u) \/ Work(u)
       \/ \E ts \in CuTimes, charged \in BOOLEAN : UsageEvent(ts, u, charged)
       \/ \E cents \in CuLimits : setCursorUserSpendLimit(u, cents)
  \/ \E i \in DOMAIN world.events : Waive(i)

CuPages == membersPage \/ spendMetrics \/ dailyMetrics \/ eventFacts
CuNext == Start(CuInitialCursor) \/ CuPages \/ CuMoves

-----------------------------------------------------------------------------
(***************************************************************************)
(* What is promised.                                                       *)
(***************************************************************************)
\* the keys the vendor's charged events deserve
Deserved ==
  UNION {{<<e.ts, e.who, n>> :
            n \in 1 .. Cardinality({i \in DOMAIN world.events : world.events[i] = e})} :
         e \in {x \in ToSet(world.events) : x.charged}}

\* Every charged event has a fact of its own, the n-th of one millisecond too,
\* on whichever pages they were served; and no fact is without an event, as
\* long as pages cannot shift (events oldest first) and no charge was taken
\* back. A stranger who joined the roster is a member by the next walk
\* (cursor.ts:611-683).
EventsBooked ==
  Settled("cursor", {"events"}) =>
    /\ Deserved \subseteq DOMAIN stored.facts
    /\ ~world.newest /\ ~world.waived => DOMAIN stored.facts = Deserved
    /\ "roster" \notin moved => \A k \in Deserved : stored.facts[k] = Spender(k[2], ToSet(world.roster))

\* The running cycle's cents and limits are the vendor's for every member, and
\* activity is never read off a placeholder row (cursor.ts:371-515).
CycleMirrored ==
  Settled("cursor", {"cycle", "roster"}) =>
    /\ \A u \in ToSet(world.roster) :
         stored.cycles[<<world.cycle, u>>] = [cents |-> world.cents[u], limit |-> world.limit[u]]
    /\ stored.active \subseteq world.active
    /\ "active" \notin moved => stored.active = world.active

CursorLedger == EventsBooked /\ CycleMirrored

\* The ledger sums to what Cursor bills (cursor.ts:59-63). It fails: served
\* newest first, an event arriving between two pages has the last event of the
\* page served again, as the #2 of itself; and a charge taken back keeps its
\* fact.
LedgerIsBilled == Settled("cursor", {"events"}) => DOMAIN stored.facts = Deserved
=============================================================================
