----------------------------- MODULE IssueLedger -----------------------------
(***************************************************************************)
(* The success state machine for issues (connectors/issues.ts) as the sync *)
(* engine drives it: each page restates the tracking row of the issues it  *)
(* carries, and the end of a successful run promotes the pending rows      *)
(* whose window has passed.                                                *)
(*                                                                         *)
(* The vendor keeps, per issue, a history of status transitions and the    *)
(* time of its last update; a page request sees the issues whose last      *)
(* update lies in the run's window of days. The ledger keeps a tracking    *)
(* row and a counted outcome. Runs are serialised by the engine's lock     *)
(* (SyncEngine!LockExclusion), so one run at a time is modelled; it may    *)
(* fail or die anywhere, and the next one resumes its window.              *)
(***************************************************************************)
EXTENDS Integers, FiniteSets

CONSTANTS
  Issues,
  Statuses,        \* the board's statuses
  SubmitStatuses,  \* those the connection takes for "submitted"
  FailStatuses,    \* those it takes for a regression
  DoneStatuses,    \* those of bucket "done"
  WindowLength,    \* windowDays, in ticks of the clock
  TicksPerDay,
  RepullDays,
  HistoryLimit,    \* historyLimitDays
  LastTime,        \* bound: the clock stops here
  MaxTouches,      \* bound: transitions and edits of issues
  MaxFaults,       \* bound: deaths and errors of runs
  NoStatus, NoRow, NoWindow

ASSUME StatusesAssumption ==
  /\ SubmitStatuses \cup FailStatuses \cup DoneStatuses \subseteq Statuses
  /\ NoStatus \notin Statuses
ASSUME TimesAssumption ==
  /\ WindowLength \in Nat \ {0}
  /\ TicksPerDay \in Nat \ {0}
  /\ RepullDays \in Nat
  /\ HistoryLimit \in Nat
  /\ LastTime \in Nat
  /\ MaxTouches \in Nat
  /\ MaxFaults \in Nat

Time == 0..LastTime
Never == LastTime + WindowLength + 1     \* a null timestamp, after all others
Instant == 0..Never
DayOf(t) == t \div TicksPerDay
Days == 0..DayOf(LastTime)
NoDay == -1

History == [Time -> Statuses \cup {NoStatus}]
Verdict == [status : {"none", "pending", "success", "fail"}, windowEnd : Instant,
            decidedAt : Instant]
Tracking == [status : {"pending", "success", "fail"}, windowEnd : Instant,
             decidedAt : Instant]
Outcome == [ts : Instant, revertedAt : Instant]
Window == [since : Int, until : Days, unread : SUBSET Issues]

ASSUME NullsAssumption ==
  /\ NoRow \notin Tracking \cup Outcome
  /\ NoWindow \notin Window

VARIABLES
  \* the vendor
  clock,     \* now
  history,   \* history[i][t]: status issue i entered at time t
  updated,   \* updated[i]: time of the issue's last update
  touches,   \* transitions and edits so far
  \* the database
  tracking,  \* issue_tracking
  outcomes,  \* outcomes of kind 'issue_done'
  cursor,    \* the latest run's cursor: watermark and window in progress
  \* the run under way
  phase,     \* idle, fetching, committing, promoting
  now,       \* the run's clock, read once
  page,      \* the page in memory: the issues served, the histories it carries
  clean,     \* the run opened its window itself and read it on its last day
  faults

vendorVars == <<clock, history, updated, touches>>
ledger == <<tracking, outcomes>>
vars == <<vendorVars, ledger, cursor, phase, now, page, clean, faults>>

Lower(a, b) == IF a <= b THEN a ELSE b
Higher(a, b) == IF a >= b THEN a ELSE b

(***************************************************************************)
(* distillTransitions and evaluateIssue: a history, a window length and a  *)
(* clock make a verdict.                                                   *)
(***************************************************************************)
Earliest(S) == IF S = {} THEN Never ELSE CHOOSE t \in S : \A u \in S : t <= u

FirstEntered(h, S, after) == Earliest({t \in Time : h[t] \in S /\ t > after})

SubmittedAt(h) == FirstEntered(h, SubmitStatuses, -1)
DoneAt(h) == FirstEntered(h, DoneStatuses, -1)
Anchor(h) == Lower(SubmittedAt(h), DoneAt(h))

RegressedAt(h) == FirstEntered(h, FailStatuses, Anchor(h))

WindowEnd(h) == Anchor(h) + WindowLength

Undecided(status, end) ==
  [status |-> status, windowEnd |-> end, decidedAt |-> Never]

Decided(status, end, at) ==
  [status |-> status, windowEnd |-> end, decidedAt |-> at]

\* mutant: any regression fails the issue, also one after its window
Evaluate_AnyRegression(h, at) ==
  LET end == WindowEnd(h)
  IN  IF Anchor(h) = Never THEN Undecided("none", Never)
      ELSE IF RegressedAt(h) # Never THEN Decided("fail", end, RegressedAt(h))
      ELSE IF DoneAt(h) <= end THEN Decided("success", end, DoneAt(h))
      ELSE IF at >= end THEN Decided("success", end, end)
      ELSE Undecided("pending", end)

Evaluate(h, at) ==
  LET end == WindowEnd(h)
  IN  IF Anchor(h) = Never THEN Undecided("none", Never)
      ELSE IF RegressedAt(h) <= end THEN Decided("fail", end, RegressedAt(h))
      ELSE IF DoneAt(h) <= end THEN Decided("success", end, DoneAt(h))
      ELSE IF at >= end THEN Decided("success", end, end)
      ELSE Undecided("pending", end)

(***************************************************************************)
(* The ledger's two writes: emitIssueOutcome leaves reverted_at alone, the *)
(* flip sets it once.                                                      *)
(***************************************************************************)
Emitted(o, ts) ==
  [ts |-> ts, revertedAt |-> IF o = NoRow THEN Never ELSE o.revertedAt]

\* mutant: the flip of a counted success is forgotten
Flipped_Never(o, ts) == o

Flipped(o, ts) ==
  IF o = NoRow \/ o.revertedAt # Never THEN o ELSE [o EXCEPT !.revertedAt = ts]

\* upsertTrackedIssue, on what the page says of issue i
Restated(i, v) == IF v.status = "none" THEN tracking[i] ELSE v

Recounted(i, v) ==
  IF v.status = "success" THEN Emitted(outcomes[i], v.decidedAt)
  ELSE IF v.status = "fail" THEN Flipped(outcomes[i], v.decidedAt)
  ELSE outcomes[i]

-----------------------------------------------------------------------------
NoPage == [served |-> {}, carries |-> [i \in {} |-> NoStatus]]

Init ==
  /\ clock = 0
  /\ history = [i \in Issues |-> [t \in Time |-> NoStatus]]
  /\ updated = [i \in Issues |-> 0]
  /\ touches = 0
  /\ tracking = [i \in Issues |-> NoRow]
  /\ outcomes = [i \in Issues |-> NoRow]
  /\ cursor = [mark |-> NoDay, inProgress |-> NoWindow]
  /\ phase = "idle"
  /\ now = 0
  /\ page = NoPage
  /\ clean = TRUE
  /\ faults = 0

(***************************************************************************)
(* The vendor: time passes, an issue enters a status or is edited.         *)
(***************************************************************************)
Tick ==
  /\ clock < LastTime
  /\ clock' = clock + 1
  /\ UNCHANGED <<history, updated, touches, ledger, cursor, phase, now, page,
                 clean, faults>>

\* a transition made while a run is open is later than the run's clock
Transition(i, s) ==
  /\ touches < MaxTouches
  /\ phase # "idle" => clock > now
  /\ history[i][clock] = NoStatus
  /\ history' = [history EXCEPT ![i][clock] = s]
  /\ updated' = [updated EXCEPT ![i] = clock]
  /\ touches' = touches + 1
  /\ UNCHANGED <<clock, ledger, cursor, phase, now, page, clean, faults>>

Edit(i) ==
  /\ touches < MaxTouches
  /\ updated[i] # clock
  /\ updated' = [updated EXCEPT ![i] = clock]
  /\ touches' = touches + 1
  /\ UNCHANGED <<clock, history, ledger, cursor, phase, now, page, clean, faults>>

(***************************************************************************)
(* The run.                                                                *)
(***************************************************************************)
Today == DayOf(clock)

\* mutant: an incremental window starts the day after the watermark
NextWindow_AfterMark ==
  IF cursor.inProgress # NoWindow
  THEN cursor.inProgress
  ELSE [since |-> IF cursor.mark = NoDay THEN Today - HistoryLimit
                  ELSE Higher(cursor.mark + 1, Today - HistoryLimit),
        until |-> Today, unread |-> Issues]

NextWindow ==
  IF cursor.inProgress # NoWindow
  THEN cursor.inProgress
  ELSE [since |-> IF cursor.mark = NoDay THEN Today - HistoryLimit
                  ELSE Higher(Lower(cursor.mark, Today - RepullDays),
                              Today - HistoryLimit),
        until |-> Today, unread |-> Issues]

Open ==
  /\ phase = "idle"
  /\ now' = clock
  /\ clean' = (cursor.inProgress = NoWindow)
  /\ cursor' = [cursor EXCEPT !.inProgress = NextWindow]
  /\ phase' = "fetching"
  /\ UNCHANGED <<vendorVars, ledger, page, faults>>

InWindow(i) ==
  DayOf(updated[i]) \in cursor.inProgress.since .. cursor.inProgress.until

\* the vendor's answer: of the next issues, those its filter matches now
Fetch(S) ==
  /\ phase = "fetching"
  /\ S # {}
  /\ S \subseteq cursor.inProgress.unread
  /\ page' = [served |-> S,
              carries |-> [i \in {j \in S : InWindow(j)} |-> history[i]]]
  /\ clean' = (clean /\ Today = cursor.inProgress.until)
  /\ phase' = "committing"
  /\ UNCHANGED <<vendorVars, ledger, cursor, now, faults>>

\* commitPage: each issue of the page restated, with the cursor behind it
Commit ==
  LET seen == DOMAIN page.carries
      verdict == [i \in seen |-> Evaluate(page.carries[i], now)]
      left == cursor.inProgress.unread \ page.served
  IN  /\ phase = "committing"
      /\ tracking' = [i \in Issues |-> IF i \in seen THEN Restated(i, verdict[i])
                                                    ELSE tracking[i]]
      /\ outcomes' = [i \in Issues |-> IF i \in seen THEN Recounted(i, verdict[i])
                                                    ELSE outcomes[i]]
      /\ cursor' = IF left = {}
                   THEN [mark |-> cursor.inProgress.until, inProgress |-> NoWindow]
                   ELSE [cursor EXCEPT !.inProgress.unread = left]
      /\ page' = NoPage
      /\ phase' = IF left = {} THEN "promoting" ELSE "fetching"
      /\ UNCHANGED <<vendorVars, now, clean, faults>>

Due(i) ==
  /\ tracking[i] # NoRow
  /\ tracking[i].status = "pending"
  /\ tracking[i].windowEnd <= now

\* promoteDueIssues, then the run's row is closed
Promote ==
  /\ phase = "promoting"
  /\ tracking' = [i \in Issues |->
       IF Due(i) THEN Decided("success", tracking[i].windowEnd, tracking[i].windowEnd)
                 ELSE tracking[i]]
  /\ outcomes' = [i \in Issues |->
       IF Due(i) THEN Emitted(outcomes[i], tracking[i].windowEnd) ELSE outcomes[i]]
  /\ phase' = "idle"
  /\ UNCHANGED <<vendorVars, cursor, now, page, clean, faults>>

\* an error, or the process's death: what was committed stays, the cursor too
Fail ==
  /\ phase # "idle"
  /\ faults < MaxFaults
  /\ faults' = faults + 1
  /\ phase' = "idle"
  /\ page' = NoPage
  /\ UNCHANGED <<vendorVars, ledger, cursor, now, clean>>

-----------------------------------------------------------------------------
Run == Open \/ (\E S \in SUBSET Issues : Fetch(S)) \/ Commit \/ Promote

Vendor == Tick \/ \E i \in Issues : Edit(i) \/ \E s \in Statuses : Transition(i, s)

Next == Vendor \/ Run \/ Fail

Spec == Init /\ [][Next]_vars

\* the scheduler opens runs for ever and an open run goes on
FairSpec == Spec /\ WF_vars(Run)

-----------------------------------------------------------------------------
TypeOK ==
  /\ clock \in Time
  /\ history \in [Issues -> History]
  /\ updated \in [Issues -> Time]
  /\ touches \in 0..MaxTouches
  /\ tracking \in [Issues -> Tracking \cup {NoRow}]
  /\ outcomes \in [Issues -> Outcome \cup {NoRow}]
  /\ cursor \in [mark : Days \cup {NoDay}, inProgress : Window \cup {NoWindow}]
  /\ phase \in {"idle", "fetching", "committing", "promoting"}
  /\ now \in Time
  /\ page.served \subseteq Issues
  /\ \A i \in DOMAIN page.carries : i \in Issues /\ page.carries[i] \in History
  /\ clean \in BOOLEAN
  /\ faults \in 0..MaxFaults

Live(i) == outcomes[i] # NoRow /\ outcomes[i].revertedAt = Never
RegressedInWindow(i) == RegressedAt(history[i]) <= WindowEnd(history[i])

\* The two tables agree: an issue is counted, at the time it was decided,
\* exactly while its tracking row says success; a failed one is not counted
\* (never was, or was flipped), a pending one never was.
CountsMatchTracking ==
  TypeOK /\ \A i \in Issues :
    IF tracking[i] = NoRow \/ tracking[i].status = "pending" THEN outcomes[i] = NoRow
    ELSE IF tracking[i].status = "success"
         THEN outcomes[i] = [ts |-> tracking[i].decidedAt, revertedAt |-> Never]
         ELSE ~Live(i)

\* "A regression after the window never flips it": a counted success is
\* flipped only for a regression inside its window; and a failure is final, no
\* re-pull, resume or promotion counts the issue again.
VerdictsAreEarned ==
  [][\A i \in Issues :
       /\ Live(i) /\ ~Live(i)' => RegressedInWindow(i)
       /\ tracking[i] # NoRow /\ tracking[i].status = "fail"
            => tracking'[i].status = "fail" /\ ~Live(i)']_vars

\* A run that opened its own window and read it on that window's last day
\* never promotes an issue that regressed in time, while the board is younger
\* than the vendor's history limit (computeWindow may begin after the watermark
\* once it is older).
CleanRunsPromoteRightly ==
  [][clean => \A i \in Issues : phase = "promoting" /\ Live(i)' /\ ~Live(i)
                                  => ~RegressedInWindow(i)]_vars

\* Whatever the runs missed is caught up with: once the board is quiet the
\* ledger says of every issue what its whole history says.
LedgerCatchesUp ==
  <>[](\A i \in Issues : LET v == Evaluate(history[i], clock)
                         IN  IF v.status = "none" THEN tracking[i] = NoRow
                                                  ELSE tracking[i] = v)

(***************************************************************************)
(* What a comment of the source says and the code does not do.             *)
(***************************************************************************)
\* sync.ts:749-752, "a pending row that survived the pages really did pass its
\* window untouched": no promotion counts an issue that regressed in time.
PromotionsAreUntouched ==
  [][\A i \in Issues : phase = "promoting" /\ Live(i)' /\ ~Live(i)
                         => ~RegressedInWindow(i)]_vars
=============================================================================
