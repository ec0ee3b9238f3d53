------------------------------- MODULE Alerts -------------------------------
(***************************************************************************)
(* The checks of a scheduler tick (scheduler.ts, limits.ts) and the         *)
(* delivery of what they find (events.ts, alerts.ts). A tick looks for      *)
(* silent connectors, crossed limits and anomalous days, in this order. An  *)
(* alert is first claimed in alert_state, whose key it is claimed by once,  *)
(* then emitted: from there on it only exists in the process, which posts   *)
(* it to Slack and then mails it, and tries neither again. Ticks overlap    *)
(* when one takes longer than five minutes.                                 *)
(*                                                                          *)
(* Time is counted in days; a tick keeps the clock it started with. Spend   *)
(* is what rollup_daily has for a person and day (Rollups), counted in      *)
(* cents and, as late data arrives, also for days that are over.            *)
(***************************************************************************)
EXTENDS Integers, Sequences, SequencesExt, FiniteSetsExt, Bags

CONSTANTS
  Staff,         \* people with a monthly limit
  Watched,       \* connectors
  Ticks,         \* ticks that can be under way at once
  LastDay,       \* bound: the clock
  MonthOf,       \* month of a day
  Thresholds,    \* limit_alert_thresholds_pct, as stored
  Limits,        \* limits an admin may set, in cents
  Amounts,       \* what arrives in one piece, in cents
  SilentAfter,   \* connector_silent_alert_hours, in days
  TrailingDays,  \* TRAILING_AVG_DAYS
  Multiplier,    \* anomaly_burn_multiplier
  MinDay,        \* anomaly_min_day_cents
  Mailed,        \* lists alert_email_recipients may be
  MaxSpends,     \* bound: pieces of spend
  MaxEdits,      \* bound: changed limits and leavers
  MaxLinks,      \* bound: connectors connected or disconnected
  MaxCrashes,    \* bound: restarts
  NoTick         \* a tick that is not under way

\* Spend only arrives; data that is restated downward is left out (Rollups).
ASSUME AlertsAssumption ==
  /\ IsFiniteSet(Staff) /\ IsFiniteSet(Watched)
  /\ LastDay \in Nat \ {0} /\ MonthOf \in [1 .. LastDay -> Nat]
  /\ Thresholds \in Seq(Nat) /\ Limits \subseteq Nat /\ Amounts \subseteq Nat
  /\ SilentAfter \in Nat
  /\ Mailed \subseteq Seq(UNION {Range(list) : list \in Mailed})
  /\ \A list \in Mailed : "slack" \notin Range(list)

VARIABLES
  today,      \* the clock
  rolled,     \* rollup_daily: cents of a person and day
  limit,      \* people.monthly_limit_usd_cents
  active,     \* people.status
  lastOk,     \* finished_at of a connector's newest successful run; 0: none
  linkedAt,   \* connectors.connected_at; 0: not connected
  claims,     \* alert_state
  tick,       \* what a tick has in memory
  outbox,     \* emitted alerts whose listener is still at work
  recipients, \* alert_email_recipients
  told,       \* what each destination has received
  limitsSeen, \* history: limits a person has had
  spends, edits, links, crashes

staffVars == <<rolled, limit, active, limitsSeen, spends, edits>>
linkVars == <<lastOk, linkedAt, links>>
inputs == <<staffVars, linkVars, recipients>>
work == <<claims, tick, outbox, told, crashes>>
alertVars == <<today, inputs, work>>

Calendar == 1..LastDay
Alert(kind, pct, scope, period) ==
  [kind |-> kind, pct |-> pct, scope |-> scope, period |-> period]
Destinations == {"slack"} \cup UNION {Range(list) : list \in Mailed}

(***************************************************************************)
(* What the checks read.                                                    *)
(***************************************************************************)
SpendOf(p, days) == FoldSet(LAMBDA d, sum : sum + rolled[p][d], 0, days)

\* monthStartDay(now) to utcDay(now)
MonthToDate(now) == {d \in 1..now : MonthOf[d] = MonthOf[now]}

\* mutant: the sum goes on from the month before
Crossed_Rolling(p, pct, now) ==
  active[p] /\ SpendOf(p, 1..now) * 100 >= limit[p] * pct

Crossed(p, pct, now) ==
  active[p] /\ SpendOf(p, MonthToDate(now)) * 100 >= limit[p] * pct

\* no less than the floor, and no less than so many times the average of the
\* days before, on which nothing spent counts as nothing
Anomalous(p, now) ==
  /\ active[p]
  /\ rolled[p][now] >= MinDay
  /\ rolled[p][now] * TrailingDays >=
       Multiplier * SpendOf(p, {d \in Calendar : now - TrailingDays <= d /\ d < now})

SilentSince(v, linked) == IF lastOk[v] # 0 THEN lastOk[v] ELSE linked

\* checkSilentConnectors: sinceWhen <= cutoff
IsSilent(v, linked, now) == SilentSince(v, linked) <= now - SilentAfter

\* healthFor: what the Connectors page says of a connector
Health(v) ==
  [connected |-> linkedAt[v] # 0,
   silent |-> linkedAt[v] # 0 /\ today - SilentSince(v, linkedAt[v]) >= SilentAfter]

\* listLimitStatus: what the Limits page says of a person
LimitStatus(p) ==
  [spend |-> SpendOf(p, MonthToDate(today)),
   fired |-> {a.pct : a \in {c \in claims :
                c.kind = "limit" /\ c.scope = p /\ c.period = MonthOf[today]}}]

AlertsInit ==
  /\ today = 1
  /\ rolled = [p \in Staff |-> [d \in Calendar |-> 0]]
  /\ limit \in [Staff -> Limits]
  /\ active = [p \in Staff |-> TRUE]
  /\ lastOk = [v \in Watched |-> 0]
  /\ linkedAt \in [Watched -> {0, 1}]
  /\ recipients \in Mailed
  /\ claims = {} /\ outbox = {}
  /\ tick = [t \in Ticks |-> NoTick]
  /\ told = [d \in Destinations |-> EmptyBag]
  /\ limitsSeen = [p \in Staff |-> {limit[p]}]
  /\ spends \in 0..MaxSpends /\ edits \in 0..MaxEdits
  /\ links \in 0..MaxLinks /\ crashes \in 0..MaxCrashes

(***************************************************************************)
(* What changes under the checks.                                           *)
(***************************************************************************)
NextDay ==
  /\ today < LastDay
  /\ today' = today + 1
  /\ UNCHANGED <<inputs, work>>

Spent(p, d) ==
  /\ spends < MaxSpends /\ d <= today
  /\ \E c \in Amounts : rolled' = [rolled EXCEPT ![p][d] = @ + c]
  /\ spends' = spends + 1
  /\ UNCHANGED <<today, limit, active, limitsSeen, edits, linkVars, recipients, work>>

SetLimit(p) ==
  /\ edits < MaxEdits
  /\ \E l \in Limits \ {limit[p]} :
       /\ limit' = [limit EXCEPT ![p] = l]
       /\ limitsSeen' = [limitsSeen EXCEPT ![p] = @ \cup {l}]
  /\ edits' = edits + 1
  /\ UNCHANGED <<today, rolled, active, spends, linkVars, recipients, work>>

Offboarded(p) ==
  /\ active[p] /\ edits < MaxEdits
  /\ active' = [active EXCEPT ![p] = FALSE]
  /\ edits' = edits + 1
  /\ UNCHANGED <<today, rolled, limit, limitsSeen, spends, linkVars, recipients, work>>

\* a connector is connected, or disconnected: its runs stay
Link(v) ==
  /\ links < MaxLinks
  /\ linkedAt' = [linkedAt EXCEPT ![v] = IF @ = 0 THEN today ELSE 0]
  /\ links' = links + 1
  /\ UNCHANGED <<today, staffVars, lastOk, recipients, work>>

Synced(v) ==
  /\ linkedAt[v] # 0 /\ lastOk[v] # today
  /\ lastOk' = [lastOk EXCEPT ![v] = today]
  /\ UNCHANGED <<today, staffVars, linkedAt, links, recipients, work>>

(***************************************************************************)
(* A tick.                                                                  *)
(***************************************************************************)
AtCheck(t, check) == tick[t] # NoTick /\ tick[t].check = check /\ tick[t].due = <<>>

\* the syncs are over; the tick lists the connectors
StartTick(t) ==
  /\ tick[t] = NoTick
  /\ \E order \in SetToSeqs({v \in Watched : linkedAt[v] # 0}) :
       tick' = [tick EXCEPT ![t] =
         [now |-> today, check |-> "silent", due |-> <<>>,
          rows |-> [n \in DOMAIN order |-> <<order[n], linkedAt[order[n]]>>]]]
  /\ UNCHANGED <<today, inputs, claims, outbox, told, crashes>>

\* one connector's newest success is read; the claim is the next statement
CheckSilent(t) ==
  /\ AtCheck(t, "silent") /\ tick[t].rows # <<>>
  /\ LET row == Head(tick[t].rows)
         now == tick[t].now
     IN  tick' = [tick EXCEPT ![t].rows = Tail(@),
                   ![t].due = IF IsSilent(row[1], row[2], now)
                              THEN <<Alert("silent", 0, row[1], now)>> ELSE <<>>]
  /\ UNCHANGED <<today, inputs, claims, outbox, told, crashes>>

\* mutant: the thresholds are taken as they are stored
Ascending_AsStored(pcts) == SelectSeq(Thresholds, LAMBDA pct : pct \in pcts)

\* from the lowest up; what is stored twice is claimed once
Ascending(pcts) ==
  CHOOSE s \in SetToSeqs(pcts) : \A i, k \in DOMAIN s : i < k => s[i] < s[k]

\* every threshold p has crossed, not only the highest
FiringLimits(p, now) ==
  LET pcts == Ascending({pct \in Range(Thresholds) : Crossed(p, pct, now)})
  IN  [k \in DOMAIN pcts |-> Alert("limit", pcts[k], p, MonthOf[now])]

\* one query reads everybody's spend; the claims come one by one
CheckLimits(t) ==
  /\ AtCheck(t, "silent") /\ tick[t].rows = <<>>
  /\ \E order \in SetToSeqs(Staff) :
       tick' = [tick EXCEPT ![t].check = "limits",
         ![t].due = FlattenSeq([n \in DOMAIN order |-> FiringLimits(order[n], tick[t].now)])]
  /\ UNCHANGED <<today, inputs, claims, outbox, told, crashes>>

CheckAnomalies(t) ==
  /\ AtCheck(t, "limits")
  /\ \E order \in SetToSeqs({p \in Staff : Anomalous(p, tick[t].now)}) :
       tick' = [tick EXCEPT ![t].check = "anomalies",
         ![t].due = [n \in DOMAIN order |-> Alert("anomaly", 0, order[n], tick[t].now)]]
  /\ UNCHANGED <<today, inputs, claims, outbox, told, crashes>>

\* mutant: every tick emits what it finds
Fresh_Always(a) == TRUE

\* INSERT .. ON CONFLICT DO NOTHING
Fresh(a) == a \notin claims

\* claimAlert, then emitEvent with no await in between
Claim(t) ==
  /\ tick[t] # NoTick /\ tick[t].due # <<>>
  /\ LET a == Head(tick[t].due) IN
       /\ claims' = claims \cup {a}
       /\ outbox' = IF Fresh(a) THEN outbox \cup {a} ELSE outbox
  /\ tick' = [tick EXCEPT ![t].due = Tail(@)]
  /\ UNCHANGED <<today, inputs, told, crashes>>

EndTick(t) ==
  /\ AtCheck(t, "anomalies")
  /\ tick' = [tick EXCEPT ![t] = NoTick]
  /\ UNCHANGED <<today, inputs, claims, outbox, told, crashes>>

TickStep(t) ==
  \/ StartTick(t) \/ CheckSilent(t) \/ CheckLimits(t) \/ CheckAnomalies(t)
  \/ Claim(t) \/ EndTick(t)

(***************************************************************************)
(* Delivery, and the end of a process.                                      *)
(***************************************************************************)
\* how often a list names an address
TimesIn(list, to) == Cardinality({k \in DOMAIN list : list[k] = to})

\* how often one delivery reaches a destination: the post to Slack, and one mail
\* for each of the first n entries of the list
Reached(d, posted, n) ==
  IF d = "slack" THEN IF posted THEN 1 ELSE 0 ELSE TimesIn(SubSeq(recipients, 1, n), d)

\* the listener posts the alert to Slack (postSlack never throws), then mails
\* the recipients one by one, up to the first call that fails, whose mail may
\* have arrived (emailAlert); an address in the list twice is mailed twice
Deliver(a) ==
  /\ outbox' = outbox \ {a}
  /\ \E posted \in BOOLEAN, n \in 0..Len(recipients) :
       told' = [d \in Destinations |->
         IF Reached(d, posted, n) = 0 THEN told[d]
         ELSE told[d] (+) [b \in {a} |-> Reached(d, posted, n)]]
  /\ UNCHANGED <<today, inputs, claims, tick, crashes>>

Restart ==
  /\ crashes < MaxCrashes
  /\ crashes' = crashes + 1
  /\ tick' = [t \in Ticks |-> NoTick]
  /\ outbox' = {}
  /\ UNCHANGED <<today, inputs, claims, told>>

AlertsNext ==
  \/ NextDay \/ Restart
  \/ \E p \in Staff : SetLimit(p) \/ Offboarded(p) \/ \E d \in Calendar : Spent(p, d)
  \/ \E v \in Watched : Link(v) \/ Synced(v)
  \/ \E t \in Ticks : TickStep(t)
  \/ \E a \in outbox : Deliver(a)

\* the interval starts a tick every five minutes, and each statement answers
AlertsFair == \A t \in Ticks : WF_alertVars(TickStep(t))

(***************************************************************************)
(* Properties.                                                              *)
(***************************************************************************)
\* Nobody is told the same thing more often than the list of recipients names
\* them, and the channel once, however ticks overlap and the process restarts
\* (limits.ts: one alert per threshold per person per month).
AlertedOnce ==
  \A d \in Destinations : \A a \in DOMAIN told[d] :
    told[d][a] <= IF d = "slack" THEN 1 ELSE TimesIn(recipients, d)

\* A threshold the Limits page shows as fired was crossed by the spend it
\* shows, at a limit the person had: also by a tick that started in the month
\* before, or on data that arrived late (limits.ts: the month resets).
FiredWasCrossed ==
  \A p \in Staff : \A pct \in LimitStatus(p).fired :
    \E l \in limitsSeen[p] : LimitStatus(p).spend * 100 >= l * pct

\* Who jumps past a higher threshold is alerted of the lower one as well, also
\* if the process dies in between (the thresholds are sorted first).
LowerFirst ==
  \A a \in claims : a.kind = "limit" =>
    \A pct \in Range(Thresholds) : pct < a.pct => [a EXCEPT !.pct = pct] \in claims

\* A connector that was called silent today shows as silent until it is synced
\* or connected again (two queries of two files that must agree).
SilentIsShown ==
  \A v \in Watched :
    Alert("silent", 0, v, today) \in claims /\ lastOk[v] # today /\ linkedAt[v] \notin {0, today} =>
      Health(v).silent

AlertsHold == AlertedOnce /\ FiredWasCrossed /\ LowerFirst /\ SilentIsShown

\* Who is over a limit is alerted of it. It holds again and for good soon after
\* the last change (the scheduler's 5 minute tick).
CrossedIsClaimed ==
  \A p \in Staff, pct \in Range(Thresholds) :
    Crossed(p, pct, today) => Alert("limit", pct, p, MonthOf[today]) \in claims

\* Who is over a limit is told so once, "exactly" (limits.ts). It fails: what
\* was claimed is lost when the process restarts or the one delivery fails.
ClaimedIsTold ==
  \A a \in [kind : {"limit"}, pct : Range(Thresholds), scope : Staff, period : Range(MonthOf)] :
    a \in claims ~> a \in DOMAIN told["slack"]
=============================================================================
