------------------------------ MODULE SyncEngine ------------------------------
(***************************************************************************)
(* One connector's sync engine: runSync of connectors/sync.ts, called by   *)
(* the scheduler's ticks and by the "sync now" route, against the latest   *)
(* row of sync_runs, the per-vendor advisory lock and the vendor's API.    *)
(*                                                                         *)
(* A run holds the lock from its first statement to its last. It opens a   *)
(* window of UTC days (or resumes the one its predecessor left), pages     *)
(* through it, and commits each page together with the cursor that points  *)
(* behind it. The process, or the connection that owns the lock, may die   *)
(* between any two statements.                                             *)
(*                                                                         *)
(* Days are numbered; 0 is the first day the vendor has data for. A page   *)
(* token, opaque to the engine, is the first day the window has not served *)
(* yet, so a null token is the token of the window's first page. A day's   *)
(* rows are one version number, which the vendor raises when it restates   *)
(* the day; the engine's upsert makes the stored version the fetched one.  *)
(***************************************************************************)
EXTENDS Integers

CONSTANTS
  Callers,       \* flows that call runSync: ticks, overlapping ticks, routes
  NoOne,         \* nobody holds the lock
  NoWindow,      \* cursor.inProgress is absent
  NoRun,         \* sync_runs has no row for the connector
  LastDay,       \* bound: the clock stops here
  HistoryLimit,  \* connector.historyLimitDays
  RepullDays,    \* REPULL_DAYS
  MaxVersion,    \* bound: restatements of one day
  MaxFaults,     \* bound: deaths, vendor errors and failed true-ups
  MaxConnects    \* bound: how often an admin connects the vendor

ASSUME CallersAssumption == NoOne \notin Callers
ASSUME DaysAssumption ==
  /\ HistoryLimit \in Nat
  /\ RepullDays \in Nat
  /\ RepullDays <= HistoryLimit
  /\ LastDay \in Nat
  /\ HistoryLimit <= LastDay
ASSUME BoundsAssumption ==
  /\ MaxVersion \in Nat
  /\ MaxFaults \in Nat
  /\ MaxConnects \in Nat

Day == 0..LastDay
NoDay == -1

Window == [since : Day, until : Day, token : Day]
Cursor == [mark : Day \cup {NoDay}, inProgress : Window \cup {NoWindow}]
Run == [status : {"running", "success", "error"}, cursor : Cursor]

ASSUME NullAssumption == NoWindow \notin Window /\ NoRun \notin Run

VARIABLES
  \* the world
  today,      \* the UTC day
  vendor,     \* vendor[d]: version of day d the vendor's API serves now
  connected,  \* the connectors row exists
  connects,   \* how often the vendor was connected
  faults,     \* faults so far
  \* the database
  holder,     \* owner of the advisory lock
  last,       \* latestRun: the newest row of sync_runs
  orphaned,   \* an older row is still 'running'
  stored,     \* stored[d]: version of day d in spend_facts
  pulledOn,   \* pulledOn[d]: day on which the stored version was fetched
  sincePulled,\* days pulled since the vendor was last connected
  untrued,    \* days written since their month's invoices were trued up
  \* the callers' memory
  pc,
  job

world == <<today, vendor, connected, connects, faults>>
runRow == <<last, orphaned>>
facts == <<stored, pulledOn, sincePulled>>
vars == <<world, holder, runRow, facts, untrued, pc, job>>

Lower(a, b) == IF a <= b THEN a ELSE b
Higher(a, b) == IF a >= b THEN a ELSE b

(***************************************************************************)
(* The cursor the latest row carries, and the window of the next run.      *)
(***************************************************************************)
EmptyCursor == [mark |-> NoDay, inProgress |-> NoWindow]

LatestCursor == IF last = NoRun THEN EmptyCursor ELSE last.cursor

\* mutant: the trailing days only, wherever the watermark is
ComputeWindow_TrailingOnly(mark) ==
  LET since == IF mark = NoDay THEN today - HistoryLimit ELSE today - RepullDays
  IN  [since |-> since, until |-> today, token |-> since]

ComputeWindow(mark) ==
  LET historyStart == today - HistoryLimit
      since == IF mark = NoDay
               THEN historyStart
               ELSE Higher(Lower(mark, today - RepullDays), historyStart)
  IN  [since |-> since, until |-> today, token |-> since]

NextWindow ==
  IF LatestCursor.inProgress # NoWindow
  THEN LatestCursor.inProgress
  ELSE ComputeWindow(LatestCursor.mark)

(***************************************************************************)
(* A run in memory: its window and token, the watermark it read, the day   *)
(* it opened, the page it holds between the fetch and the commit, and the  *)
(* days it wrote (factSpan).                                               *)
(***************************************************************************)
NoPage == [to |-> 0, on |-> 0, vers |-> [d \in Day |-> 0]]
Page == [to : Day, on : Day, vers : [Day -> Nat]]
NoJob == [window |-> [since |-> 0, until |-> 0, token |-> 0],
          mark |-> NoDay, opened |-> 0, page |-> NoPage, span |-> {}]
Job == [window : Window, mark : Day \cup {NoDay}, opened : Day, page : Page,
        span : SUBSET Day]

Owning == {"checking", "opening", "fetching", "committing", "promoting",
           "finishing", "failing"}
Phases == Owning \cup {"idle", "truing"}

Goto(c, phase) == pc' = [pc EXCEPT ![c] = phase]

\* mutant: the early return leaves the lock behind
Unlock_Leaking(c) == UNCHANGED holder

\* finally { pg_advisory_unlock }: a no-op on a session that lost the lock
Unlock(c) == holder' = IF holder = c THEN NoOne ELSE holder

Forget(c) == job' = [job EXCEPT ![c] = NoJob]

Fault == faults < MaxFaults /\ faults' = faults + 1

-----------------------------------------------------------------------------
Init ==
  /\ today = HistoryLimit
  /\ vendor = [d \in Day |-> 0]
  /\ connected = FALSE
  /\ connects = 0
  /\ faults = 0
  /\ holder = NoOne
  /\ last = NoRun
  /\ orphaned = FALSE
  /\ stored = [d \in Day |-> 0]
  /\ pulledOn = [d \in Day |-> NoDay]
  /\ sincePulled = {}
  /\ untrued = {}
  /\ pc = [c \in Callers |-> "idle"]
  /\ job = [c \in Callers |-> NoJob]

(***************************************************************************)
(* The world: the clock, the vendor restating a day it still serves, the   *)
(* admin connecting and disconnecting the vendor.                          *)
(***************************************************************************)
Tick ==
  /\ today < LastDay
  /\ today' = today + 1
  /\ UNCHANGED <<vendor, connected, connects, faults, holder, runRow, facts,
                 untrued, pc, job>>

Restate(d) ==
  /\ d \in today - HistoryLimit .. today
  /\ vendor[d] < MaxVersion
  /\ vendor' = [vendor EXCEPT ![d] = @ + 1]
  /\ UNCHANGED <<today, connected, connects, faults, holder, runRow, facts,
                 untrued, pc, job>>

\* connectConnector: the row appears; sync_runs keeps what it has
Connect ==
  /\ ~connected
  /\ connects < MaxConnects
  /\ connected' = TRUE
  /\ connects' = connects + 1
  /\ sincePulled' = {}
  /\ UNCHANGED <<today, vendor, faults, holder, runRow, stored, pulledOn,
                 untrued, pc, job>>

\* disconnectConnector: the row goes; a run under way is not told
Disconnect ==
  /\ connected
  /\ connected' = FALSE
  /\ UNCHANGED <<today, vendor, connects, faults, holder, runRow, facts,
                 untrued, pc, job>>

(***************************************************************************)
(* pg_try_advisory_lock. A caller that finds the lock held returns with    *)
(* nothing done ("sync already running, skipped"): no step at all.         *)
(***************************************************************************)
\* mutant: the lock is not looked at
Acquire_Unlocked(c) ==
  /\ pc[c] = "idle"
  /\ holder' = c
  /\ Goto(c, "checking")
  /\ UNCHANGED <<world, runRow, facts, untrued, job>>

Acquire(c) ==
  /\ pc[c] = "idle"
  /\ holder = NoOne
  /\ holder' = c
  /\ Goto(c, "checking")
  /\ UNCHANGED <<world, runRow, facts, untrued, job>>

\* connectedRow / getConnectorConfig throw: through finally, unlocked
Refuse(c) ==
  /\ pc[c] = "checking"
  /\ ~connected
  /\ Unlock(c)
  /\ Goto(c, "idle")
  /\ UNCHANGED <<world, runRow, facts, untrued, job>>

\* From here on the run has its config in memory: a disconnect is not noticed.
Check(c) ==
  /\ pc[c] = "checking"
  /\ connected
  /\ Goto(c, "opening")
  /\ UNCHANGED <<world, holder, runRow, facts, untrued, job>>

\* Under the lock a 'running' latest row is a run whose process died.
DeadRun == last # NoRun /\ last.status = "running"

MarkDead(c) ==
  /\ pc[c] = "opening"
  /\ DeadRun
  /\ last' = [last EXCEPT !.status = "error"]
  /\ UNCHANGED <<world, holder, orphaned, facts, untrued, pc, job>>

\* mutant: the dead predecessor is not marked before the new row goes in
Open_Unmarked(c) ==
  /\ pc[c] = "opening"
  /\ last' = [status |-> "running",
              cursor |-> [mark |-> LatestCursor.mark,
                          inProgress |-> NextWindow]]
  /\ orphaned' = (orphaned \/ DeadRun)
  /\ job' = [job EXCEPT ![c] = [NoJob EXCEPT !.window = NextWindow,
                                             !.mark = LatestCursor.mark,
                                             !.opened = today]]
  /\ Goto(c, "fetching")
  /\ UNCHANGED <<world, holder, facts, untrued>>

\* INSERT INTO sync_runs: resume the predecessor's window or open a new one
Open(c) ==
  /\ pc[c] = "opening"
  /\ ~DeadRun
  /\ last' = [status |-> "running",
              cursor |-> [mark |-> LatestCursor.mark,
                          inProgress |-> NextWindow]]
  /\ orphaned' = (orphaned \/ DeadRun)
  /\ job' = [job EXCEPT ![c] = [NoJob EXCEPT !.window = NextWindow,
                                             !.mark = LatestCursor.mark,
                                             !.opened = today]]
  /\ Goto(c, "fetching")
  /\ UNCHANGED <<world, holder, facts, untrued>>

(***************************************************************************)
(* connector.fetchPage: the vendor's answer, as of now, for the days from  *)
(* the token to some later day of the window. It is held in memory until   *)
(* the commit; the vendor may restate those days in between.               *)
(***************************************************************************)
PageDays(c) == job[c].window.token .. job[c].page.to

Fetch(c, to) ==
  /\ pc[c] = "fetching"
  /\ to \in job[c].window.token .. job[c].window.until
  /\ job' = [job EXCEPT ![c].page =
               [to |-> to, on |-> today,
                vers |-> [d \in Day |-> IF d \in job[c].window.token .. to
                                        THEN vendor[d] ELSE 0]]]
  /\ Goto(c, "committing")
  /\ UNCHANGED <<world, holder, runRow, facts, untrued>>

\* nextPageToken = null: the cursor collapses to the new watermark
LastPage(c) == job[c].page.to = job[c].window.until

Behind(c) == [job[c].window EXCEPT !.token = job[c].page.to + 1]

\* mutant: every page moves the watermark
CursorBehind_Early(c) ==
  [mark |-> job[c].window.until,
   inProgress |-> IF LastPage(c) THEN NoWindow ELSE Behind(c)]

CursorBehind(c) ==
  IF LastPage(c)
  THEN [mark |-> job[c].window.until, inProgress |-> NoWindow]
  ELSE [mark |-> job[c].mark, inProgress |-> Behind(c)]

\* commitPage: rows and cursor in one transaction
Commit(c) ==
  /\ pc[c] = "committing"
  /\ stored' = [d \in Day |-> IF d \in PageDays(c)
                              THEN job[c].page.vers[d] ELSE stored[d]]
  /\ pulledOn' = [d \in Day |-> IF d \in PageDays(c)
                                THEN job[c].page.on ELSE pulledOn[d]]
  /\ sincePulled' = sincePulled \cup PageDays(c)
  /\ untrued' = untrued \cup PageDays(c)
  /\ last' = [last EXCEPT !.cursor = CursorBehind(c)]
  /\ job' = [job EXCEPT ![c].span = @ \cup PageDays(c),
                        ![c].page = NoPage,
                        ![c].window = IF LastPage(c) THEN @ ELSE Behind(c)]
  /\ Goto(c, IF LastPage(c) THEN "promoting" ELSE "fetching")
  /\ UNCHANGED <<world, holder, orphaned>>

\* promoteDueIssues in a transaction of its own (its effect: IssueLedger)
Promote(c) ==
  /\ pc[c] = "promoting"
  /\ Goto(c, "finishing")
  /\ UNCHANGED <<world, holder, runRow, facts, untrued, job>>

Finish(c) ==
  /\ pc[c] = "finishing"
  /\ last' = [last EXCEPT !.status = "success"]
  /\ Goto(c, "truing")
  /\ UNCHANGED <<world, holder, orphaned, facts, untrued, job>>

\* The vendor refuses, a page repeats its token, a row fails validation (the
\* page's transaction rolls back), the promotion fails.
Throw(c) ==
  /\ pc[c] \in {"fetching", "committing", "promoting"}
  /\ Fault
  /\ Goto(c, "failing")
  /\ UNCHANGED <<today, vendor, connected, connects, holder, runRow, facts,
                 untrued, job>>

RecordError(c) ==
  /\ pc[c] = "failing"
  /\ last' = [last EXCEPT !.status = "error"]
  /\ Goto(c, "truing")
  /\ UNCHANGED <<world, holder, orphaned, facts, untrued, job>>

\* trueUpSafely over this run's factSpan, then the finally block
TrueUp(c) ==
  /\ pc[c] = "truing"
  /\ untrued' = untrued \ job[c].span
  /\ Unlock(c)
  /\ Forget(c)
  /\ Goto(c, "idle")
  /\ UNCHANGED <<world, runRow, facts>>

\* a failed true-up is logged and swallowed
TrueUpFails(c) ==
  /\ pc[c] = "truing"
  /\ Fault
  /\ Unlock(c)
  /\ Forget(c)
  /\ Goto(c, "idle")
  /\ UNCHANGED <<today, vendor, connected, connects, runRow, facts, untrued>>

(***************************************************************************)
(* The process dies, or the connection that owns the lock breaks: the      *)
(* server drops the lock and no statement of the run succeeds any more, so *)
(* its row stays 'running'. Only the true-up, on connections of its own,   *)
(* survives a broken connection.                                           *)
(***************************************************************************)
Die(c) ==
  /\ pc[c] # "idle"
  /\ Fault
  /\ Unlock(c)
  /\ Forget(c)
  /\ Goto(c, "idle")
  /\ UNCHANGED <<today, vendor, connected, connects, runRow, facts, untrued>>

LoseConnection(c) ==
  /\ pc[c] = "truing"
  /\ holder = c
  /\ Fault
  /\ holder' = NoOne
  /\ UNCHANGED <<today, vendor, connected, connects, runRow, facts, untrued,
                 pc, job>>

-----------------------------------------------------------------------------
\* what a caller does when nothing fails
Progress(c) ==
  \/ Acquire(c) \/ Refuse(c) \/ Check(c) \/ MarkDead(c) \/ Open(c)
  \/ \E to \in Day : Fetch(c, to)
  \/ Commit(c) \/ Promote(c) \/ Finish(c) \/ RecordError(c) \/ TrueUp(c)

Failure(c) == Throw(c) \/ TrueUpFails(c) \/ Die(c) \/ LoseConnection(c)

World == Tick \/ (\E d \in Day : Restate(d)) \/ Connect \/ Disconnect

Next == World \/ \E c \in Callers : Progress(c) \/ Failure(c)

Spec == Init /\ [][Next]_vars

\* The scheduler keeps calling runSync and an answered call goes on.
Fairness == \A c \in Callers : WF_vars(Progress(c))

FairSpec == Spec /\ Fairness

-----------------------------------------------------------------------------
TypeOK ==
  /\ today \in Day /\ today >= HistoryLimit
  /\ vendor \in [Day -> Nat]
  /\ connected \in BOOLEAN
  /\ connects \in Nat
  /\ faults \in Nat
  /\ holder \in Callers \cup {NoOne}
  /\ last \in Run \cup {NoRun}
  /\ orphaned \in BOOLEAN
  /\ stored \in [Day -> Nat]
  /\ pulledOn \in [Day -> Day \cup {NoDay}]
  /\ sincePulled \in SUBSET Day
  /\ untrued \in SUBSET Day
  /\ pc \in [Callers -> Phases]
  /\ job \in [Callers -> Job]

(***************************************************************************)
(* What the engine promises.                                               *)
(***************************************************************************)
Mark == LatestCursor.mark

\* A run touches sync_runs and the facts only while it owns the lock: no two
\* callers are ever inside a run together, whatever died before.
LockExclusion == \A c \in Callers : pc[c] \in Owning => holder = c

\* One run at a time, in memory and in the rows: a run row never stays
\* 'running' once a later run has been opened.
OneRun == LockExclusion /\ ~orphaned

\* Every day the vendor could serve when the window of the watermark was
\* opened has been pulled: no crash, resume or restatement leaves a hole.
NoGap ==
  Mark # NoDay => \A d \in Day : d \in Mark - HistoryLimit .. Mark
                                  => pulledOn[d] # NoDay

\* The trailing days of the watermark were read on its day or later.
FreshTail ==
  Mark # NoDay => \A d \in Day : d \in Mark - RepullDays .. Mark
                                  => pulledOn[d] >= Mark

\* A resume token never skips a page: what lies before it in its window was
\* committed, and read not before the window's last day.
ResumeExact ==
  LET w == LatestCursor.inProgress
  IN  w # NoWindow => \A d \in w.since .. w.token - 1 : pulledOn[d] >= w.until

\* What windows are computed and resumed for (sync.ts:641-702): the watermark
\* hides no hole, its tail is fresh, and a token skips no page.
WindowsCover == NoGap /\ FreshTail /\ ResumeExact

\* A row never goes back to an older version of the vendor's data.
StoredNeverRegresses == [][\A d \in Day : stored'[d] >= stored[d]]_vars

\* With faults, clock and disconnects over, the watermark reaches today and
\* stays there: every open window is resumed and finished.
CatchesUp == (<>[]connected) => <>[](Mark = today)

\* The engine implements the abstract incremental pull.
Abstract == INSTANCE IncrementalPull WITH mark <- Mark
PullsIncrementally == Abstract!Spec

(***************************************************************************)
(* The strengthening under which NoGap, FreshTail, ResumeExact and         *)
(* StoredNeverRegresses are inductive (SyncEngine_proofs).                 *)
(***************************************************************************)
Writing == Owning \ {"checking", "opening"}

\* an owner past Open has a row to write to
RowOpen == \A c \in Callers : pc[c] \in Writing => last # NoRun

\* a window left in the cursor lies in the past and, when served, will leave
\* no hole behind the watermark that follows it
Planned(w, mark) ==
  /\ w.since <= w.token /\ w.token <= w.until /\ w.until <= today
  /\ mark <= w.until
  /\ IF mark = NoDay
     THEN w.since <= w.until - HistoryLimit
     ELSE w.since <= Higher(Lower(mark, w.until - RepullDays),
                            w.until - HistoryLimit)
WindowPlanned ==
  /\ Mark <= today
  /\ LatestCursor.inProgress # NoWindow
       => Planned(LatestCursor.inProgress, Mark)

\* a run in memory agrees with its row
JobFollowsRow ==
  \A c \in Callers : pc[c] \in {"fetching", "committing"}
    => /\ job[c].window = LatestCursor.inProgress
       /\ job[c].mark = Mark

\* a page held in memory is no older than the stored rows
PageFresh ==
  \A c \in Callers : pc[c] = "committing"
    => /\ job[c].page.to \in job[c].window.token .. job[c].window.until
       /\ job[c].page.on \in job[c].window.until .. today
       /\ \A d \in PageDays(c) :
            /\ job[c].page.vers[d] \in stored[d] .. vendor[d]
            /\ job[c].page.on >= pulledOn[d]

StoredBehindVendor ==
  \A d \in Day : stored[d] <= vendor[d] /\ pulledOn[d] <= today

IInv ==
  /\ TypeOK /\ LockExclusion /\ RowOpen
  /\ WindowPlanned /\ JobFollowsRow /\ PageFresh /\ StoredBehindVendor
  /\ NoGap /\ FreshTail /\ ResumeExact

-----------------------------------------------------------------------------
(***************************************************************************)
(* What comments of the source say and the engine does not do.             *)
(***************************************************************************)
Succeeded(c) == pc[c] = "truing" /\ last.status = "success"

\* sync.ts:44, "every sync re-reads this many trailing days": a successful
\* run has itself pulled the RepullDays days before the day it opened on.
EverySyncRereadsTail ==
  \A c \in Callers : Succeeded(c) /\ holder = c
    => job[c].opened - RepullDays .. job[c].opened \subseteq job[c].span

\* invoices.ts:29-32, "it recomputes ... after every connector sync that wrote
\* facts into an invoiced month": when the runs are over and the latest one
\* succeeded, no written day is left whose month was not trued up.
EverySyncTruesUp ==
  (\A c \in Callers : pc[c] = "idle") /\ last # NoRun /\ last.status = "success"
    => untrued = {}

\* sync.ts:29-30, "first sync after connect: full backfill, today back to the
\* vendor's history limit".
BackfillsAfterConnect ==
  \A c \in Callers : Succeeded(c) /\ holder = c
    => job[c].window.until - HistoryLimit .. job[c].window.until
         \subseteq sincePulled
=============================================================================
