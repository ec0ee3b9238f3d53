-------------------------- MODULE SyncEngine_proofs --------------------------
(***************************************************************************)
(* Proofs about SyncEngine, for every set of callers, every length of the  *)
(* vendor's history, of the re-pull and of the clock's run; and about the  *)
(* invoices that its runs true up (Billing), for every set of jobs,        *)
(* months, seats, uploads and plans and any number of calls.               *)
(***************************************************************************)
EXTENDS SyncEngine, Billing, FiniteSetTheorems, WellFoundedInduction, TLAPS

LEMMA CursorTypes ==
  ASSUME TypeOK
  PROVE  /\ LatestCursor \in Cursor
         /\ Mark \in Day \cup {NoDay}
         /\ LatestCursor.inProgress \in Window \cup {NoWindow}
<1>1. EmptyCursor \in Cursor
  BY DEF EmptyCursor, Cursor
<1>2. LatestCursor \in Cursor
  BY <1>1 DEF TypeOK, LatestCursor, Run
<1>3. QED BY <1>2 DEF Mark, Cursor

LEMMA DayInt == Day \subseteq Nat /\ Day \subseteq Int /\ NoDay \in Int
BY DaysAssumption DEF Day, NoDay

(***************************************************************************)
(* The part of the invariant that is about the row and the facts holds on  *)
(* as long as neither changes and the clock and the vendor do not go back. *)
(***************************************************************************)
LEMMA LedgerFrame ==
  ASSUME IInv, TypeOK', LatestCursor' = LatestCursor, stored' = stored,
         pulledOn' = pulledOn, today' >= today, \A d \in Day : vendor'[d] >= vendor[d]
  PROVE  /\ WindowPlanned' /\ StoredBehindVendor'
         /\ NoGap' /\ FreshTail' /\ ResumeExact'
<1>1. LatestCursor' = LatestCursor /\ Mark' = Mark
  BY DEF Mark
<1>2. today \in Int /\ today' \in Int /\ Mark \in Int
  BY CursorTypes, DayInt DEF IInv, TypeOK
<1>3. WindowPlanned'
  <2>1. Mark' <= today'
    BY <1>1, <1>2 DEF IInv, WindowPlanned
  <2>2. ASSUME LatestCursor.inProgress # NoWindow
        PROVE  Planned(LatestCursor.inProgress, Mark)'
    <3>1. LatestCursor.inProgress \in Window
      BY <2>2, CursorTypes DEF IInv
    <3>2. Planned(LatestCursor.inProgress, Mark)
      BY <2>2 DEF IInv, WindowPlanned
    <3>3. LatestCursor.inProgress.until \in Int
      BY <3>1, DayInt DEF Window
    <3>4. QED BY <1>1, <1>2, <3>2, <3>3 DEF Planned
  <2>3. QED BY <1>1, <2>1, <2>2 DEF WindowPlanned
<1>4. StoredBehindVendor'
  <2>1. SUFFICES ASSUME NEW d \in Day
                 PROVE  stored'[d] <= vendor'[d] /\ pulledOn'[d] <= today'
    BY DEF StoredBehindVendor
  <2>2. stored[d] \in Int /\ vendor[d] \in Int /\ vendor'[d] \in Int
        /\ pulledOn[d] \in Int
    <3>1. stored[d] \in Nat /\ vendor[d] \in Nat /\ vendor'[d] \in Nat
      BY <2>1 DEF IInv, TypeOK
    <3>2. pulledOn[d] \in Int
      BY <2>1, DayInt DEF IInv, TypeOK
    <3>3. QED BY <3>1, <3>2
  <2>3. QED BY <1>2, <2>1, <2>2 DEF IInv, StoredBehindVendor
<1>5. NoGap' /\ FreshTail' /\ ResumeExact'
  BY <1>1 DEF IInv, NoGap, FreshTail, ResumeExact
<1>6. QED BY <1>3, <1>4, <1>5

LEMMA TickStep == ASSUME IInv, Tick PROVE IInv'
<1>1. TypeOK'
  BY DaysAssumption DEF IInv, Tick, TypeOK, runRow, facts, Day
<1>2. LockExclusion' /\ RowOpen' /\ JobFollowsRow'
  BY DEF IInv, Tick, LockExclusion, RowOpen, JobFollowsRow, Mark, LatestCursor,
         runRow
<1>3. PageFresh'
  BY DayInt DEF IInv, Tick, PageFresh, PageDays, TypeOK, Job, Page, Window, facts
<1>4. /\ LatestCursor' = LatestCursor /\ stored' = stored
      /\ pulledOn' = pulledOn /\ today' >= today /\ vendor' = vendor
  BY DayInt DEF IInv, TypeOK, Tick, LatestCursor, runRow, facts
<1>5. \A d \in Day : vendor'[d] >= vendor[d]
  BY <1>4 DEF IInv, TypeOK
<1>6. QED BY <1>1, <1>2, <1>3, <1>4, <1>5, LedgerFrame DEF IInv

LEMMA RestateStep ==
  ASSUME IInv, NEW d \in Day, Restate(d)
  PROVE  IInv'
<1>1. TypeOK'
  BY DEF IInv, Restate, TypeOK, runRow, facts
<1>2. LockExclusion' /\ RowOpen' /\ JobFollowsRow'
  BY DEF IInv, Restate, LockExclusion, RowOpen, JobFollowsRow, Mark,
         LatestCursor, runRow
<1>3. \A x \in Day : vendor[x] \in Int /\ vendor'[x] \in Int
                       /\ vendor'[x] >= vendor[x]
  BY DEF IInv, TypeOK, Restate
<1>4. PageFresh'
  <2>1. SUFFICES ASSUME NEW c \in Callers, pc[c] = "committing",
                        NEW x \in PageDays(c)
                 PROVE  /\ job[c].page.vers[x] \in stored[x] .. vendor'[x]
                        /\ job[c].page.on >= pulledOn[x]
    BY DEF IInv, Restate, PageFresh, PageDays, facts
  <2>2. /\ job[c].page.vers[x] \in stored[x] .. vendor[x]
        /\ job[c].page.on >= pulledOn[x]
    BY <2>1 DEF IInv, PageFresh
  <2>3. job[c] \in Job /\ job[c].page.to \in Day /\ job[c].window.token \in Day
    BY <2>1 DEF IInv, TypeOK, Job, Page, Window
  <2>4. x \in Day
    BY <2>1, <2>3, DayInt, DaysAssumption DEF PageDays, Day
  <2>5. QED BY <1>3, <2>2, <2>4 DEF IInv, TypeOK
<1>5. /\ LatestCursor' = LatestCursor /\ stored' = stored
      /\ pulledOn' = pulledOn /\ today' >= today
  BY DayInt DEF IInv, TypeOK, Restate, LatestCursor, runRow, facts
<1>6. QED BY <1>1, <1>2, <1>3, <1>4, <1>5, LedgerFrame DEF IInv

LEMMA AdminStep ==
  ASSUME IInv, Connect \/ Disconnect
  PROVE  IInv'
<1>1. TypeOK'
  <2>1. connected' \in BOOLEAN
    BY ZenonT(20) DEF Connect, Disconnect
  <2>2. QED BY <2>1 DEF IInv, Connect, Disconnect, TypeOK, runRow, facts
<1>2. LockExclusion' /\ RowOpen' /\ JobFollowsRow'
  BY DEF IInv, Connect, Disconnect, LockExclusion, RowOpen, JobFollowsRow,
         Mark, LatestCursor, runRow
<1>3. PageFresh'
  BY DEF IInv, Connect, Disconnect, PageFresh, PageDays, facts
<1>4. /\ LatestCursor' = LatestCursor /\ stored' = stored
      /\ pulledOn' = pulledOn /\ today' >= today /\ vendor' = vendor
  BY DayInt DEF IInv, TypeOK, Connect, Disconnect, LatestCursor, runRow, facts
<1>5. \A d \in Day : vendor'[d] >= vendor[d]
  BY <1>4 DEF IInv, TypeOK
<1>6. QED BY <1>1, <1>2, <1>3, <1>4, <1>5, LedgerFrame DEF IInv

(***************************************************************************)
(* A caller that moves to a phase in which it holds no window and no page, *)
(* and writes at most the status of the row.                               *)
(***************************************************************************)
LEMMA MoveStep ==
  ASSUME IInv, TypeOK', LockExclusion', RowOpen',
         NEW c \in Callers, pc'[c] \notin {"fetching", "committing"},
         \A x \in Callers \ {c} : pc'[x] = pc[x] /\ job'[x] = job[x],
         LatestCursor' = LatestCursor, today' = today, vendor' = vendor,
         stored' = stored, pulledOn' = pulledOn
  PROVE  IInv'
<1>1. JobFollowsRow'
  BY DEF IInv, JobFollowsRow, Mark
<1>2. PageFresh'
  BY DEF IInv, PageFresh, PageDays
<1>3. today' >= today /\ \A d \in Day : vendor'[d] >= vendor[d]
  BY DayInt DEF IInv, TypeOK
<1>4. QED BY <1>1, <1>2, <1>3, LedgerFrame DEF IInv

\* Releasing the lock on the way to idle takes it from nobody else.
LEMMA UnlockExclusion ==
  ASSUME IInv, NEW c \in Callers, Unlock(c), Goto(c, "idle")
  PROVE  /\ LockExclusion'
         /\ pc' \in [Callers -> Phases] /\ pc'[c] = "idle"
         /\ holder' \in Callers \cup {NoOne}
         /\ \A x \in Callers \ {c} : pc'[x] = pc[x]
BY DEF IInv, TypeOK, Unlock, Goto, LockExclusion, Owning, Phases

LEMMA AcquireStep == ASSUME IInv, NEW c \in Callers, Acquire(c) PROVE IInv'
<1>1. TypeOK' /\ RowOpen'
  BY DEF IInv, Acquire, Goto, TypeOK, RowOpen, Writing, Owning, Phases, world,
         runRow, facts
<1>2. LockExclusion'
  BY CallersAssumption DEF IInv, Acquire, Goto, LockExclusion, TypeOK
<1>3. /\ pc'[c] = "checking"
      /\ \A x \in Callers \ {c} : pc'[x] = pc[x] /\ job'[x] = job[x]
  BY DEF IInv, TypeOK, Acquire, Goto
<1>4. /\ LatestCursor' = LatestCursor /\ today' = today /\ vendor' = vendor
      /\ stored' = stored /\ pulledOn' = pulledOn
  BY DEF Acquire, LatestCursor, world, runRow, facts
<1>5. QED BY <1>1, <1>2, <1>3, <1>4, MoveStep

LEMMA RefuseStep == ASSUME IInv, NEW c \in Callers, Refuse(c) PROVE IInv'
<1>1. Unlock(c) /\ Goto(c, "idle")
  BY DEF Refuse
<1>2. TypeOK' /\ RowOpen'
  BY <1>1, UnlockExclusion DEF IInv, Refuse, TypeOK, RowOpen, Writing, Owning,
         world, runRow, facts
<1>3. /\ LatestCursor' = LatestCursor /\ today' = today /\ vendor' = vendor
      /\ stored' = stored /\ pulledOn' = pulledOn /\ job' = job
  BY DEF Refuse, LatestCursor, world, runRow, facts
<1>4. QED BY <1>1, <1>2, <1>3, UnlockExclusion, MoveStep

LEMMA CheckStep == ASSUME IInv, NEW c \in Callers, Check(c) PROVE IInv'
<1>1. TypeOK' /\ RowOpen' /\ LockExclusion'
  BY DEF IInv, Check, Goto, TypeOK, RowOpen, LockExclusion, Writing, Owning,
         Phases, world, runRow, facts
<1>2. /\ pc'[c] = "opening"
      /\ \A x \in Callers \ {c} : pc'[x] = pc[x] /\ job'[x] = job[x]
  BY DEF IInv, TypeOK, Check, Goto
<1>3. /\ LatestCursor' = LatestCursor /\ today' = today /\ vendor' = vendor
      /\ stored' = stored /\ pulledOn' = pulledOn
  BY DEF Check, LatestCursor, world, runRow, facts
<1>4. QED BY <1>1, <1>2, <1>3, MoveStep
LEMMA MarkDeadStep == ASSUME IInv, NEW c \in Callers, MarkDead(c) PROVE IInv'
<1>1. last \in Run /\ last' = [last EXCEPT !.status = "error"]
  BY DEF IInv, TypeOK, MarkDead, DeadRun
<1>2. last' \in Run /\ last'.cursor = last.cursor
  BY <1>1 DEF Run
<1>3. last' # NoRun /\ last # NoRun
  BY <1>1, <1>2, NullAssumption
<1>4. TypeOK' /\ RowOpen' /\ LockExclusion'
  BY <1>2, <1>3 DEF IInv, MarkDead, TypeOK, RowOpen, LockExclusion, world, facts
<1>5. pc'[c] = "opening" /\ \A x \in Callers \ {c} : pc'[x] = pc[x] /\ job'[x] = job[x]
  BY DEF MarkDead
<1>6. /\ LatestCursor' = LatestCursor /\ today' = today /\ vendor' = vendor
      /\ stored' = stored /\ pulledOn' = pulledOn
  BY <1>2, <1>3 DEF MarkDead, LatestCursor, world, facts
<1>7. QED BY <1>4, <1>5, <1>6, MoveStep

LEMMA PromoteStep == ASSUME IInv, NEW c \in Callers, Promote(c) PROVE IInv'
<1>1. TypeOK' /\ RowOpen' /\ LockExclusion'
  BY DEF IInv, Promote, Goto, TypeOK, RowOpen, LockExclusion, Writing, Owning,
         Phases, world, runRow, facts
<1>2. /\ pc'[c] = "finishing"
      /\ \A x \in Callers \ {c} : pc'[x] = pc[x] /\ job'[x] = job[x]
  BY DEF IInv, TypeOK, Promote, Goto
<1>3. /\ LatestCursor' = LatestCursor /\ today' = today /\ vendor' = vendor
      /\ stored' = stored /\ pulledOn' = pulledOn
  BY DEF Promote, LatestCursor, world, runRow, facts
<1>4. QED BY <1>1, <1>2, <1>3, MoveStep

LEMMA CloseStep ==
  ASSUME IInv, NEW c \in Callers, Finish(c) \/ RecordError(c)
  PROVE  IInv'
<1>1. last # NoRun
  BY DEF IInv, RowOpen, Writing, Owning, Finish, RecordError
<1>2. PICK st \in {"success", "error"} : last' = [last EXCEPT !.status = st]
  BY DEF Finish, RecordError
<1>3. last' \in Run /\ last'.cursor = last.cursor
  BY <1>1, <1>2 DEF IInv, TypeOK, Run
<1>4. last' # NoRun
  BY <1>3, NullAssumption
<1>5. TypeOK' /\ RowOpen' /\ LockExclusion'
  BY <1>3, <1>4 DEF IInv, Finish, RecordError, Goto, TypeOK, RowOpen,
     LockExclusion, Writing, Owning, Phases, world, facts
<1>6. /\ pc'[c] = "truing"
      /\ \A x \in Callers \ {c} : pc'[x] = pc[x] /\ job'[x] = job[x]
  BY DEF IInv, TypeOK, Finish, RecordError, Goto
<1>7. /\ LatestCursor' = LatestCursor /\ today' = today /\ vendor' = vendor
      /\ stored' = stored /\ pulledOn' = pulledOn
  BY <1>1, <1>3, <1>4 DEF Finish, RecordError, LatestCursor, world, facts
<1>8. QED BY <1>5, <1>6, <1>7, MoveStep

LEMMA ThrowStep == ASSUME IInv, NEW c \in Callers, Throw(c) PROVE IInv'
<1>1. TypeOK' /\ RowOpen' /\ LockExclusion'
  BY DEF IInv, Throw, Fault, Goto, TypeOK, RowOpen, LockExclusion, Writing,
         Owning, Phases, runRow, facts
<1>2. /\ pc'[c] = "failing"
      /\ \A x \in Callers \ {c} : pc'[x] = pc[x] /\ job'[x] = job[x]
  BY DEF IInv, TypeOK, Throw, Goto
<1>3. /\ LatestCursor' = LatestCursor /\ today' = today /\ vendor' = vendor
      /\ stored' = stored /\ pulledOn' = pulledOn
  BY DEF Throw, LatestCursor, runRow, facts
<1>4. QED BY <1>1, <1>2, <1>3, MoveStep

LEMMA NoJobType == NoJob \in Job
<1>1. 0 \in Day
  BY DaysAssumption DEF Day
<1>2. NoPage \in Page
  BY <1>1 DEF NoPage, Page
<1>3. QED BY <1>1, <1>2 DEF NoJob, Job, Window

LEMMA LeaveStep ==
  ASSUME IInv, NEW c \in Callers, TrueUp(c) \/ TrueUpFails(c) \/ Die(c)
  PROVE  IInv'
<1>1. Unlock(c) /\ Goto(c, "idle") /\ Forget(c)
  BY DEF TrueUp, TrueUpFails, Die
<1>2. job' \in [Callers -> Job] /\ \A x \in Callers \ {c} : job'[x] = job[x]
  BY <1>1, NoJobType DEF Forget, IInv, TypeOK
<1>3. /\ today' = today /\ vendor' = vendor /\ connected' = connected
      /\ connects' = connects /\ last' = last /\ orphaned' = orphaned
      /\ stored' = stored /\ pulledOn' = pulledOn
      /\ sincePulled' = sincePulled
  BY DEF TrueUp, TrueUpFails, Die, world, runRow, facts
<1>4. faults' \in Nat /\ untrued' \in SUBSET Day
  BY DEF IInv, TypeOK, TrueUp, TrueUpFails, Die, Fault, world
<1>5. TypeOK'
  BY <1>1, <1>2, <1>3, <1>4, UnlockExclusion DEF IInv, TypeOK
<1>6. RowOpen'
  BY <1>1, <1>3, UnlockExclusion DEF IInv, RowOpen, Writing, Owning
<1>7. LatestCursor' = LatestCursor
  BY <1>3 DEF LatestCursor
<1>8. QED BY <1>1, <1>2, <1>3, <1>5, <1>6, <1>7, UnlockExclusion, MoveStep

LEMMA LoseConnectionStep ==
  ASSUME IInv, NEW c \in Callers, LoseConnection(c)
  PROVE  IInv'
<1>1. TypeOK' /\ RowOpen' /\ LockExclusion'
  BY DEF IInv, LoseConnection, Fault, TypeOK, RowOpen, LockExclusion, Owning,
         runRow, facts
<1>2. /\ pc'[c] = "truing"
      /\ \A x \in Callers \ {c} : pc'[x] = pc[x] /\ job'[x] = job[x]
  BY DEF LoseConnection
<1>3. /\ LatestCursor' = LatestCursor /\ today' = today /\ vendor' = vendor
      /\ stored' = stored /\ pulledOn' = pulledOn
  BY DEF LoseConnection, LatestCursor, runRow, facts
<1>4. QED BY <1>1, <1>2, <1>3, MoveStep
(***************************************************************************)
(* Opening a run: the next window is one that will leave no hole.          *)
(***************************************************************************)
LEMMA NextWindowPlanned ==
  ASSUME IInv
  PROVE  /\ NextWindow \in Window
         /\ Planned(NextWindow, Mark)
         /\ \A d \in NextWindow.since .. NextWindow.token - 1 :
              pulledOn[d] >= NextWindow.until
<1>1. CASE LatestCursor.inProgress # NoWindow
  BY <1>1, CursorTypes DEF IInv, NextWindow, WindowPlanned, ResumeExact
<1>2. CASE LatestCursor.inProgress = NoWindow
  <2>1. NextWindow = ComputeWindow(Mark)
    BY <1>2 DEF NextWindow, Mark
  <2>2. today \in Day /\ today >= HistoryLimit /\ Mark \in Int /\ Mark <= today
        /\ (Mark = NoDay \/ Mark \in Day)
    BY CursorTypes, DayInt DEF IInv, TypeOK, WindowPlanned
  <2>3. PICK since \in Int :
          /\ NextWindow = [since |-> since, until |-> today, token |-> since]
          /\ since <= today
          /\ since >= 0
          /\ IF Mark = NoDay
             THEN since = today - HistoryLimit
             ELSE since = Higher(Lower(Mark, today - RepullDays),
                                 today - HistoryLimit)
    BY <2>1, <2>2, DaysAssumption DEF ComputeWindow, Higher, Lower, Day, NoDay
  <2>4. NextWindow \in Window
    BY <2>2, <2>3, DaysAssumption DEF Window, Day
  <2>5. Planned(NextWindow, Mark)
    BY <2>2, <2>3, DaysAssumption DEF Planned, Day, Higher, Lower
  <2>6. NextWindow.since .. NextWindow.token - 1 = {}
    BY <2>3
  <2>7. QED BY <2>4, <2>5, <2>6
<1>3. QED BY <1>1, <1>2

LEMMA OpenStep == ASSUME IInv, NEW c \in Callers, Open(c) PROVE IInv'
<1> DEFINE row == [status |-> "running",
                   cursor |-> [mark |-> Mark, inProgress |-> NextWindow]]
           mem == [NoJob EXCEPT !.window = NextWindow, !.mark = Mark,
                                !.opened = today]
<1>1. /\ last' = row /\ job' = [job EXCEPT ![c] = mem]
      /\ pc' = [pc EXCEPT ![c] = "fetching"] /\ pc[c] = "opening"
      /\ today' = today /\ vendor' = vendor /\ holder' = holder
      /\ stored' = stored /\ pulledOn' = pulledOn
  BY DEF Open, Goto, Mark, world, facts
<1>2. row \in Run /\ mem \in Job
  BY CursorTypes, NextWindowPlanned, NoJobType
     DEF IInv, TypeOK, Run, Cursor, Job
<1>3. last' # NoRun /\ LatestCursor' = row.cursor /\ Mark' = Mark
      /\ LatestCursor'.inProgress = NextWindow
  BY <1>1, <1>2, NullAssumption DEF LatestCursor, Mark
<1>4. TypeOK'
  <2>1. orphaned' \in BOOLEAN
    BY ZenonT(20) DEF IInv, TypeOK, Open
  <2>2. QED BY <1>1, <1>2, <2>1 DEF IInv, TypeOK, Open, Phases, Owning, world, facts
<1>5. LockExclusion' /\ RowOpen'
  BY <1>1, <1>3 DEF IInv, TypeOK, LockExclusion, RowOpen, Owning
<1>6. \A x \in Callers \ {c} : pc'[x] \notin Owning
  BY <1>1 DEF IInv, TypeOK, LockExclusion, Owning
<1>7. JobFollowsRow' /\ PageFresh'
  <2>1. job'[c].window = NextWindow /\ job'[c].mark = Mark /\ pc'[c] = "fetching"
    BY <1>1 DEF IInv, TypeOK, NoJob
  <2>2. QED BY <1>3, <1>6, <2>1 DEF JobFollowsRow, PageFresh, Owning
<1>8. WindowPlanned'
  BY <1>1, <1>3, NextWindowPlanned DEF IInv, WindowPlanned, Planned
<1>9. StoredBehindVendor' /\ NoGap' /\ FreshTail'
  BY <1>1, <1>3 DEF IInv, StoredBehindVendor, NoGap, FreshTail
<1>10. ResumeExact'
  BY <1>1, <1>3, NextWindowPlanned DEF ResumeExact
<1>11. QED BY <1>4, <1>5, <1>7, <1>8, <1>9, <1>10 DEF IInv
(***************************************************************************)
(* A fetched page is as new as the vendor, hence no older than the ledger. *)
(***************************************************************************)
LEMMA FetchStep ==
  ASSUME IInv, NEW c \in Callers, NEW to \in Day, Fetch(c, to)
  PROVE  IInv'
<1> DEFINE w == job[c].window
           page == [to |-> to, on |-> today,
                    vers |-> [d \in Day |-> IF d \in w.token .. to
                                            THEN vendor[d] ELSE 0]]
<1>1. /\ pc[c] = "fetching" /\ to \in w.token .. w.until
      /\ job' = [job EXCEPT ![c].page = page]
      /\ pc' = [pc EXCEPT ![c] = "committing"]
      /\ today' = today /\ vendor' = vendor /\ holder' = holder
      /\ last' = last /\ stored' = stored /\ pulledOn' = pulledOn
  BY DEF Fetch, Goto, world, runRow, facts
<1>2. job[c] \in Job /\ w \in Window /\ page \in Page
  BY DEF IInv, TypeOK, Job, Page
<1>3. job' \in [Callers -> Job] /\ job'[c].page = page /\ job'[c].window = w
      /\ job'[c].mark = job[c].mark /\ pc'[c] = "committing"
      /\ \A x \in Callers \ {c} : job'[x] = job[x] /\ pc'[x] = pc[x]
  BY <1>1, <1>2 DEF IInv, TypeOK, Job
<1>4. LatestCursor' = LatestCursor /\ Mark' = Mark
  BY <1>1 DEF LatestCursor, Mark
<1>5. TypeOK'
  BY <1>1, <1>3 DEF IInv, TypeOK, Fetch, Phases, Owning, world, runRow, facts
<1>6. LockExclusion' /\ RowOpen'
  BY <1>1 DEF IInv, TypeOK, LockExclusion, RowOpen, Owning, Writing
<1>7. JobFollowsRow'
  BY <1>1, <1>3, <1>4 DEF IInv, JobFollowsRow
<1>8. PageFresh'
  <2>1. SUFFICES ASSUME NEW x \in Callers, pc'[x] = "committing"
        PROVE /\ job'[x].page.to \in job'[x].window.token .. job'[x].window.until
              /\ job'[x].page.on \in job'[x].window.until .. today'
              /\ \A d \in PageDays(x)' :
                   /\ job'[x].page.vers[d] \in stored'[d] .. vendor'[d]
                   /\ job'[x].page.on >= pulledOn'[d]
    BY DEF PageFresh
  <2>2. CASE x # c
    BY <1>1, <1>3, <2>1, <2>2 DEF IInv, PageFresh, PageDays
  <2>3. CASE x = c
    <3>1. LatestCursor.inProgress = w /\ Planned(w, Mark)
      BY <1>1, <1>2, NullAssumption DEF IInv, JobFollowsRow, WindowPlanned
    <3>2. w.until \in Int /\ w.token \in Nat /\ today \in Int /\ to \in Int
      BY <1>2, DayInt DEF Window, IInv, TypeOK
    <3>3. today \in w.until .. today
      BY <3>1, <3>2 DEF Planned
    <3>4. PageDays(x)' = w.token .. to
      BY <1>3, <2>3 DEF PageDays
    <3>5. ASSUME NEW d \in w.token .. to
          PROVE  page.vers[d] \in stored[d] .. vendor[d] /\ today >= pulledOn[d]
      <4>1. d \in Day
        BY <3>2, <3>5, DaysAssumption DEF Day
      <4>2. page.vers[d] = vendor[d]
        BY <3>5, <4>1
      <4>3. QED BY <4>1, <4>2 DEF IInv, TypeOK, StoredBehindVendor
    <3>6. QED BY <1>1, <1>3, <2>3, <3>3, <3>4, <3>5
  <2>4. QED BY <2>2, <2>3
<1>9. WindowPlanned' /\ StoredBehindVendor' /\ NoGap' /\ FreshTail'
      /\ ResumeExact'
  <2>1. today' >= today /\ \A d \in Day : vendor'[d] >= vendor[d]
    BY <1>1, DayInt DEF IInv, TypeOK
  <2>2. QED BY <1>1, <1>4, <1>5, <2>1, LedgerFrame
<1>10. QED BY <1>5, <1>6, <1>7, <1>8, <1>9 DEF IInv
(***************************************************************************)
(* A commit: rows and cursor move together, so the day that was fetched    *)
(* last is the day before the token, or the watermark.                     *)
(***************************************************************************)
LEMMA CommitFacts ==
  ASSUME IInv, NEW c \in Callers, Commit(c)
  PROVE  LET w == job[c].window  p == job[c].page
         IN  /\ w \in Window /\ p \in Page /\ last \in Run
             /\ LatestCursor = last.cursor /\ LatestCursor.inProgress = w
             /\ job[c].mark = Mark /\ Planned(w, Mark)
             /\ p.to \in w.token .. w.until /\ p.on \in w.until .. today
             /\ PageDays(c) \subseteq Day
             /\ \A d \in PageDays(c) : /\ p.vers[d] \in stored[d] .. vendor[d]
                                        /\ p.on >= pulledOn[d]
<1> DEFINE w == job[c].window
           p == job[c].page
<1>1. pc[c] = "committing" /\ last # NoRun
  BY DEF Commit, IInv, RowOpen, Writing, Owning
<1>2. w \in Window /\ p \in Page /\ last \in Run
  BY <1>1 DEF IInv, TypeOK, Job
<1>3. LatestCursor = last.cursor /\ LatestCursor.inProgress = w
      /\ job[c].mark = Mark
  BY <1>1 DEF IInv, JobFollowsRow, LatestCursor
<1>4. Planned(w, Mark)
  BY <1>2, <1>3, NullAssumption DEF IInv, WindowPlanned
<1>5. /\ p.to \in w.token .. w.until /\ p.on \in w.until .. today
      /\ \A d \in PageDays(c) : /\ p.vers[d] \in stored[d] .. vendor[d]
                                 /\ p.on >= pulledOn[d]
  BY <1>1 DEF IInv, PageFresh
<1>6. PageDays(c) \subseteq Day
  <2>1. w.token \in Day /\ p.to \in Day
    BY <1>2 DEF Window, Page
  <2>2. QED BY <2>1, DaysAssumption DEF PageDays, Day
<1>7. QED BY <1>2, <1>3, <1>4, <1>5, <1>6

LEMMA CommitType ==
  ASSUME IInv, NEW c \in Callers, Commit(c)
  PROVE  TypeOK' /\ last' \in Run
<1> DEFINE w == job[c].window
           p == job[c].page
<1>1. LastPage(c) \in BOOLEAN /\ (~LastPage(c) => Behind(c) \in Window)
  <2>1. LastPage(c) \in BOOLEAN
    BY DEF LastPage
  <2>2. ASSUME ~LastPage(c)
        PROVE  Behind(c) \in Window
    <3>1. p.to + 1 \in Day
      <4>1. w.until \in Day /\ w.token \in Day /\ p.to \in Day
            /\ p.to \in w.token .. w.until
        BY CommitFacts DEF Window, Page
      <4>2. p.to # w.until
        BY <2>2 DEF LastPage
      <4>3. QED BY <4>1, <4>2, DaysAssumption DEF Day
    <3>2. QED BY <3>1, CommitFacts DEF Behind, Window
  <2>3. QED BY <2>1, <2>2
<1>2. CursorBehind(c) \in Cursor
  BY <1>1, CommitFacts, CursorTypes DEF CursorBehind, Cursor, Window, IInv
<1>3. last' \in Run
  BY <1>2, CommitFacts DEF Commit, Run
<1>4. stored' \in [Day -> Nat]
  BY CommitFacts DEF Commit, IInv, TypeOK, Page
<1>5. pulledOn' \in [Day -> Day \cup {NoDay}]
  BY CommitFacts DEF Commit, IInv, TypeOK, Page
<1>6. untrued' \in SUBSET Day /\ sincePulled' \in SUBSET Day
  BY CommitFacts DEF Commit, IInv, TypeOK
<1>7. job' \in [Callers -> Job]
  <2>1. NoPage \in Page
    BY NoJobType DEF NoJob, Job
  <2>2. (IF LastPage(c) THEN w ELSE Behind(c)) \in Window
    BY <1>1, CommitFacts
  <2>3. job[c] \in Job /\ PageDays(c) \subseteq Day
    BY CommitFacts DEF IInv, TypeOK
  <2>4. [job[c] EXCEPT !.span = @ \cup PageDays(c), !.page = NoPage,
                       !.window = IF LastPage(c) THEN w ELSE Behind(c)] \in Job
    BY <2>1, <2>2, <2>3 DEF Job
  <2>5. job' = [job EXCEPT ![c] =
                 [job[c] EXCEPT !.span = @ \cup PageDays(c), !.page = NoPage,
                                !.window = IF LastPage(c) THEN w ELSE Behind(c)]]
    BY DEF Commit, IInv, TypeOK
  <2>6. QED BY <2>4, <2>5 DEF IInv, TypeOK
<1>8. pc' \in [Callers -> Phases]
  BY DEF Commit, Goto, IInv, TypeOK, Phases, Owning
<1>9. QED BY <1>3, <1>4, <1>5, <1>6, <1>7, <1>8 DEF Commit, IInv, TypeOK, world

LEMMA CommitCoverage ==
  ASSUME IInv, NEW c \in Callers, Commit(c)
  PROVE  /\ StoredBehindVendor' /\ WindowPlanned'
         /\ NoGap' /\ FreshTail' /\ ResumeExact'
         /\ \A d \in Day : stored'[d] \in stored[d] .. vendor[d]
         /\ \A d \in Day : pulledOn'[d] \in pulledOn[d] .. today
         /\ Mark' \in Mark .. today
<1> DEFINE w == job[c].window
           p == job[c].page
<1>1. /\ w \in Window /\ p \in Page
      /\ LatestCursor.inProgress = w /\ job[c].mark = Mark /\ Planned(w, Mark)
      /\ p.to \in w.token .. w.until /\ p.on \in w.until .. today
      /\ PageDays(c) = w.token .. p.to /\ PageDays(c) \subseteq Day
      /\ \A d \in PageDays(c) : p.vers[d] \in stored[d] .. vendor[d]
  BY CommitFacts DEF PageDays
<1>2. /\ w.since \in Nat /\ w.token \in Nat /\ w.until \in Nat /\ p.to \in Nat
      /\ p.on \in Nat /\ Mark \in Int /\ today \in Nat
      /\ (Mark = NoDay \/ Mark \in Nat) /\ w.until \in Day
  BY <1>1, CursorTypes, DayInt DEF Window, Page, IInv, TypeOK
<1>3. \A d \in Day : /\ stored[d] \in Nat /\ vendor[d] \in Nat
                       /\ pulledOn[d] \in Int
  BY DayInt DEF IInv, TypeOK
<1>4. \A d \in Day :
        /\ stored'[d] = IF d \in PageDays(c) THEN p.vers[d] ELSE stored[d]
        /\ pulledOn'[d] = IF d \in PageDays(c) THEN p.on ELSE pulledOn[d]
  BY DEF Commit
<1>5. today' = today /\ vendor' = vendor
  BY DEF Commit, world
<1>6. LatestCursor' = CursorBehind(c)
  <2>1. last' # NoRun
    BY CommitType, NullAssumption
  <2>2. QED BY <2>1, CommitFacts DEF Commit, LatestCursor, Run
<1>7. \A d \in Day : stored'[d] \in stored[d] .. vendor[d]
  BY <1>1, <1>3, <1>4 DEF IInv, StoredBehindVendor
<1>8. StoredBehindVendor'
  BY <1>1, <1>2, <1>3, <1>4, <1>5 DEF IInv, StoredBehindVendor
<1>9. \A d \in Day : d \in w.since .. p.to => pulledOn'[d] >= w.until
  <2>1. SUFFICES ASSUME NEW d \in Day, d \in w.since .. p.to
                 PROVE  pulledOn'[d] >= w.until
    OBVIOUS
  <2>2. CASE d \in PageDays(c)
    BY <1>1, <1>2, <1>4, <2>2
  <2>3. CASE d \notin PageDays(c)
    <3>1. d \in w.since .. w.token - 1
      BY <1>1, <1>2, <2>1, <2>3, DayInt
    <3>2. w # NoWindow
      BY <1>1, NullAssumption
    <3>3. QED BY <1>1, <1>4, <2>3, <3>1, <3>2 DEF IInv, ResumeExact
  <2>4. QED BY <2>2, <2>3
<1>10. \A d \in Day : pulledOn'[d] >= pulledOn[d]
  BY <1>1, <1>2, <1>3, <1>4, CommitFacts
<1>11. \A d \in Day : pulledOn'[d] \in pulledOn[d] .. today
  BY <1>1, <1>2, <1>3, <1>4, <1>10 DEF IInv, StoredBehindVendor
<1>12. CASE LastPage(c)
  <2>1. /\ LatestCursor'.inProgress = NoWindow /\ Mark' = w.until
        /\ p.to = w.until /\ w.until <= today
    BY <1>1, <1>6, <1>12 DEF CursorBehind, LastPage, Mark, Planned
  <2>2. WindowPlanned' /\ ResumeExact'
    BY <1>5, <2>1 DEF WindowPlanned, ResumeExact
  <2>3. NoGap'
    <3>1. SUFFICES ASSUME NEW d \in Day, d \in w.until - HistoryLimit .. w.until
                   PROVE  pulledOn'[d] # NoDay
      BY <2>1 DEF NoGap
    <3>2. CASE d >= w.since
      BY <1>2, <1>9, <2>1, <3>1, <3>2, DayInt DEF NoDay
    <3>3. CASE d < w.since
      <4>1. Mark # NoDay /\ d \in Mark - HistoryLimit .. Mark
        <5>1. Planned(w, Mark)
          BY <1>1
        <5>2. /\ w.since \in Nat /\ w.until \in Nat /\ d \in Int
              /\ d >= w.until - HistoryLimit /\ d < w.since
          BY <1>2, <3>1, <3>3, DayInt
        <5>3. Mark # NoDay
          BY <5>1, <5>2, DaysAssumption DEF Planned
        <5>4. Mark \in Nat
          BY <1>2, <5>3
        <5>5. /\ Mark <= w.until
              /\ w.since <= Higher(Lower(Mark, w.until - RepullDays),
                                    w.until - HistoryLimit)
          BY <5>1, <5>3 DEF Planned
        <5>6. w.since <= Mark
          BY <5>2, <5>4, <5>5, DaysAssumption DEF Higher, Lower
        <5>7. d >= Mark - HistoryLimit /\ d <= Mark
          BY <5>2, <5>4, <5>5, <5>6, DaysAssumption
        <5>8. QED BY <5>2, <5>3, <5>4, <5>7, DaysAssumption
      <4>2. pulledOn[d] # NoDay
        BY <3>1, <4>1 DEF IInv, NoGap
      <4>3. QED BY <1>1, <1>2, <1>4, <4>2, <3>1 DEF NoDay
    <3>4. QED BY <1>2, <3>1, <3>2, <3>3, DayInt
  <2>4. FreshTail'
    <3>1. SUFFICES ASSUME NEW d \in Day, d \in w.until - RepullDays .. w.until
                   PROVE  pulledOn'[d] >= w.until
      BY <2>1 DEF FreshTail
    <3>2. w.since <= w.until - RepullDays
      <4>1. Planned(w, Mark)
        BY <1>1
      <4>2. /\ w.since \in Nat /\ w.until \in Nat
            /\ Mark = NoDay \/ Mark \in Nat
        BY <1>2
      <4>3. CASE Mark = NoDay
        BY <4>1, <4>2, <4>3, DaysAssumption DEF Planned
      <4>4. CASE Mark # NoDay
        BY <4>1, <4>2, <4>4, DaysAssumption DEF Planned, Higher, Lower
      <4>5. QED BY <4>3, <4>4
    <3>3. d >= w.since
      BY <1>2, <3>1, <3>2, DayInt, DaysAssumption
    <3>4. QED BY <1>2, <1>9, <2>1, <3>1, <3>3, DayInt
  <2>5. Mark' \in Mark .. today
    BY <1>1, <1>2, <2>1 DEF Planned
  <2>6. QED BY <1>7, <1>8, <1>11, <2>2, <2>3, <2>4, <2>5
<1>13. CASE ~LastPage(c)
  <2>1. /\ LatestCursor'.inProgress = Behind(c) /\ Mark' = Mark
        /\ Behind(c).since = w.since /\ Behind(c).until = w.until
        /\ Behind(c).token = p.to + 1 /\ p.to < w.until
    BY <1>1, <1>2, <1>6, <1>13
       DEF CursorBehind, LastPage, Mark, Behind, Window
  <2>2. WindowPlanned'
    BY <1>1, <1>2, <1>5, <2>1 DEF IInv, WindowPlanned, Planned
  <2>3. ResumeExact'
    <3>1. SUFFICES ASSUME NEW d \in w.since .. p.to
                   PROVE  pulledOn'[d] >= w.until
      BY <1>2, <2>1 DEF ResumeExact
    <3>2. d \in Day
      BY <1>2, <2>1, <3>1, DaysAssumption DEF Day
    <3>3. QED BY <1>9, <3>1, <3>2
  <2>4. NoGap'
    <3>1. SUFFICES ASSUME Mark # NoDay, NEW d \in Day,
                          d \in Mark - HistoryLimit .. Mark
                   PROVE  pulledOn'[d] # NoDay
      BY <2>1 DEF NoGap
    <3>2. pulledOn[d] # NoDay
      BY <3>1 DEF IInv, NoGap
    <3>3. QED BY <1>1, <1>2, <1>4, <3>1, <3>2 DEF NoDay
  <2>5. FreshTail'
    <3>1. SUFFICES ASSUME Mark # NoDay, NEW d \in Day,
                          d \in Mark - RepullDays .. Mark
                   PROVE  pulledOn'[d] >= Mark
      BY <2>1 DEF FreshTail
    <3>2. pulledOn[d] >= Mark
      BY <3>1 DEF IInv, FreshTail
    <3>3. pulledOn'[d] \in Int
      BY <1>2, <1>3, <1>4, <3>1
    <3>4. QED BY <1>2, <1>3, <1>10, <3>1, <3>2, <3>3
  <2>6. Mark' \in Mark .. today
    BY <1>2, <2>1 DEF IInv, WindowPlanned
  <2>7. QED BY <1>7, <1>8, <1>11, <2>2, <2>3, <2>4, <2>5, <2>6
<1>14. QED BY <1>12, <1>13
LEMMA CommitStep == ASSUME IInv, NEW c \in Callers, Commit(c) PROVE IInv'
<1>1. TypeOK' /\ last' \in Run
  BY CommitType
<1>2. LockExclusion' /\ RowOpen'
  <2>1. last' # NoRun
    BY <1>1, NullAssumption
  <2>2. pc[c] \in Owning /\ holder' = holder
        /\ \A x \in Callers \ {c} : pc'[x] = pc[x]
    BY DEF Commit, Goto, IInv, TypeOK, Owning
  <2>3. QED BY <2>1, <2>2 DEF IInv, LockExclusion, RowOpen
<1>3. \A x \in Callers \ {c} : pc'[x] \notin Owning
  BY DEF Commit, Goto, IInv, TypeOK, LockExclusion, Owning
<1>4. pc'[c] = "fetching" => ~LastPage(c)
  BY DEF Commit, Goto, IInv, TypeOK
<1>5. pc'[c] # "committing"
  BY DEF Commit, Goto, IInv, TypeOK
<1>6. JobFollowsRow'
  <2>1. SUFFICES ASSUME pc'[c] = "fetching"
                 PROVE  /\ job'[c].window = LatestCursor'.inProgress
                        /\ job'[c].mark = Mark'
    BY <1>3, <1>5 DEF JobFollowsRow, Owning
  <2>2. LatestCursor' = last'.cursor /\ last'.cursor = CursorBehind(c)
    BY <1>1, CommitFacts, NullAssumption DEF Commit, LatestCursor, Run
  <2>3. job[c] \in Job
    BY DEF IInv, TypeOK
  <2>4. job'[c].window = Behind(c) /\ job'[c].mark = job[c].mark
    BY <1>4, <2>1, <2>3 DEF Commit, IInv, TypeOK, Job
  <2>5. QED BY <1>4, <2>1, <2>2, <2>4, CommitFacts DEF CursorBehind, Mark
<1>7. PageFresh'
  BY <1>3, <1>5 DEF PageFresh, Owning
<1>8. QED BY <1>1, <1>2, <1>6, <1>7, CommitCoverage DEF IInv

-----------------------------------------------------------------------------
LEMMA InitIInv == Init => IInv
<1> SUFFICES ASSUME Init PROVE IInv
  OBVIOUS
<1>1. TypeOK
  <2>1. today \in Day /\ today >= HistoryLimit /\ 0 \in Nat
    BY DaysAssumption DEF Init, Day
  <2>2. connected \in BOOLEAN /\ orphaned \in BOOLEAN
    BY ZenonT(20) DEF Init
  <2>3. QED BY <2>1, <2>2, NoJobType DEF Init, TypeOK, Phases
<1>2. LatestCursor = EmptyCursor /\ Mark = NoDay
      /\ LatestCursor.inProgress = NoWindow
  BY DEF Init, LatestCursor, Mark, EmptyCursor
<1>3. WindowPlanned
  BY <1>2, DaysAssumption DEF WindowPlanned, Init, NoDay
<1>4. StoredBehindVendor
  BY DaysAssumption DEF StoredBehindVendor, Init, NoDay
<1>5. QED BY <1>1, <1>2, <1>3, <1>4
          DEF IInv, Init, LockExclusion, RowOpen, Writing, Owning,
              JobFollowsRow, PageFresh, NoGap, FreshTail, ResumeExact

LEMMA NextIInv == IInv /\ [Next]_vars => IInv'
<1> SUFFICES ASSUME IInv, [Next]_vars PROVE IInv'
  OBVIOUS
<1>1. CASE World
  BY <1>1, TickStep, RestateStep, AdminStep DEF World
<1>2. ASSUME NEW c \in Callers, Progress(c) PROVE IInv'
  BY <1>2, AcquireStep, RefuseStep, CheckStep, MarkDeadStep, OpenStep,
     FetchStep, CommitStep, PromoteStep, CloseStep, LeaveStep DEF Progress
<1>3. ASSUME NEW c \in Callers, Failure(c) PROVE IInv'
  BY <1>3, ThrowStep, LeaveStep, LoseConnectionStep DEF Failure
<1>4. CASE UNCHANGED vars
  <2>1. UNCHANGED <<today, vendor, connected, connects, faults, holder, last,
                    orphaned, stored, pulledOn, sincePulled, untrued, pc, job>>
    BY <1>4 DEF vars, world, runRow, facts
  <2>2. TypeOK' /\ LockExclusion' /\ RowOpen' /\ LatestCursor' = LatestCursor
    BY <2>1 DEF IInv, TypeOK, LockExclusion, RowOpen, LatestCursor
  <2>3. JobFollowsRow' /\ PageFresh'
    BY <2>1, <2>2 DEF IInv, JobFollowsRow, PageFresh, PageDays, Mark
  <2>4. today' >= today /\ \A d \in Day : vendor'[d] >= vendor[d]
    BY <2>1, DayInt DEF IInv, TypeOK
  <2>5. QED BY <2>1, <2>2, <2>3, <2>4, LedgerFrame DEF IInv
<1>5. QED BY <1>1, <1>2, <1>3, <1>4 DEF Next

\* Every reachable state satisfies the inductive invariant.
THEOREM Invariance == Spec => []IInv
BY InitIInv, NextIInv, PTL DEF Spec

\* The state has the types the comments of the module give it (sync_runs and
\* spend_facts rows, cursor JSON, the callers' memory).
THEOREM TypeCorrect == Spec => []TypeOK
<1>1. IInv => TypeOK
  BY DEF IInv
<1>2. QED BY <1>1, Invariance, PTL

\* runSync's advisory lock: two callers are never inside a run together, and a
\* predecessor that died is marked before a new run's row goes in.
THEOREM OneRunAtATime == Spec => []OneRun
<1>1. IInv => LockExclusion
  BY DEF IInv
<1>2. Init => ~orphaned
  BY DEF Init
<1>3. ~orphaned /\ [Next]_vars => ~orphaned'
  <2> SUFFICES ASSUME ~orphaned, [Next]_vars PROVE ~orphaned'
    OBVIOUS
  <2>1. CASE \E c \in Callers : Open(c)
    BY <2>1 DEF Open
  <2>2. CASE ~\E c \in Callers : Open(c)
    <3>1. orphaned' = orphaned
      BY <2>2 DEF Next, World, Progress, Failure, Tick, Restate, Connect,
         Disconnect, Acquire, Refuse, Check, MarkDead, Fetch, Commit, Promote,
         Finish, RecordError, TrueUp, Throw, TrueUpFails, Die, LoseConnection,
         runRow, vars
    <3>2. QED BY <3>1
  <2>3. QED BY <2>1, <2>2
<1>4. Spec => []~orphaned
  BY <1>2, <1>3, PTL DEF Spec
<1>5. LockExclusion /\ ~orphaned => OneRun
  BY DEF OneRun
<1>6. QED BY <1>1, <1>4, <1>5, Invariance, PTL

\* computeWindow and the resume of an open window: the watermark of sync_runs
\* stands for the whole servable history up to it, its trailing days were read
\* on its day or later, and a resume token skips no page, whatever crashes,
\* resumes, outages and restatements came before.
THEOREM WindowsLeaveNoGap == Spec => []WindowsCover
<1>1. IInv => WindowsCover
  BY DEF IInv, WindowsCover
<1>2. QED BY <1>1, Invariance, PTL

\* commitPage never writes an older version of a row over a newer one.
THEOREM RowsNeverRegress == Spec => StoredNeverRegresses
<1>1. IInv /\ [Next]_vars => [\A d \in Day : stored'[d] >= stored[d]]_vars
  <2> SUFFICES ASSUME IInv, Next PROVE \A d \in Day : stored'[d] >= stored[d]
    OBVIOUS
  <2>1. CASE \E c \in Callers : Commit(c)
    BY <2>1, CommitCoverage DEF IInv, TypeOK
  <2>2. CASE ~\E c \in Callers : Commit(c)
    <3>1. stored' = stored
      BY <2>2 DEF Next, World, Progress, Failure, Tick, Restate, Connect,
         Disconnect, Acquire, Refuse, Check, MarkDead, Open, Fetch, Promote,
         Finish, RecordError, TrueUp, Throw, TrueUpFails, Die, LoseConnection,
         facts
    <3>2. QED BY <3>1 DEF IInv, TypeOK
  <2>3. QED BY <2>1, <2>2
<1>2. QED BY <1>1, Invariance, PTL DEF Spec, StoredNeverRegresses
(***************************************************************************)
(* Refinement. A commit is an abstract pull, the clock and the vendor are  *)
(* the abstract environment, every other step is a stutter.                *)
(***************************************************************************)
LEMMA OthersStutter ==
  ASSUME Next, ~\E c \in Callers : Commit(c), ~Tick, ~\E d \in Day : Restate(d),
         IInv, IInv'
  PROVE  UNCHANGED <<today, vendor, stored, pulledOn, Mark>>
<1>1. UNCHANGED <<today, vendor, stored, pulledOn>>
  BY DEF Next, World, Progress, Failure, Connect, Disconnect, Acquire, Refuse,
     Check, MarkDead, Open, Fetch, Promote, Finish, RecordError, TrueUp, Throw,
     TrueUpFails, Die, LoseConnection, Fault, facts, world
<1>2. CASE \E c \in Callers : Open(c)
  <2>1. PICK c \in Callers : Open(c)
    BY <1>2
  <2>2. last' # NoRun
    <3>1. pc'[c] \in Writing
      BY <2>1 DEF Open, Goto, IInv, TypeOK, Writing, Owning
    <3>2. QED BY <3>1 DEF IInv, RowOpen
  <2>3. QED BY <1>1, <2>1, <2>2 DEF Open, Mark, LatestCursor
<1>3. CASE \E c \in Callers : MarkDead(c) \/ Finish(c) \/ RecordError(c)
  <2>1. last # NoRun
    BY <1>3 DEF MarkDead, DeadRun, Finish, RecordError, IInv, RowOpen, Writing,
            Owning
  <2>2. PICK st \in {"success", "error"} : last' = [last EXCEPT !.status = st]
    BY <1>3 DEF MarkDead, Finish, RecordError
  <2>3. last' \in Run /\ last'.cursor = last.cursor
    BY <2>1, <2>2 DEF IInv, TypeOK, Run
  <2>4. last' # NoRun
    BY <2>3, NullAssumption
  <2>5. QED BY <1>1, <2>1, <2>3, <2>4 DEF Mark, LatestCursor
<1>4. CASE last' = last
  BY <1>1, <1>4 DEF Mark, LatestCursor
<1>5. QED
  BY <1>2, <1>3, <1>4
     DEF Next, World, Progress, Failure, Connect, Disconnect, Acquire, Refuse,
         Check, Fetch, Promote, TrueUp, Throw, TrueUpFails, Die,
         LoseConnection, runRow

\* runSync, with its lock, pages, resumes and deaths, implements the promise of
\* IncrementalPull.
THEOREM ImplementsIncrementalPull == Spec => PullsIncrementally
<1>1. Init => Abstract!Init
  BY DEF Init, Abstract!Init, Abstract!Day, Abstract!NoDay, Day, NoDay, Mark,
         LatestCursor, EmptyCursor
<1>2. IInv /\ IInv' /\ [Next]_vars => [Abstract!Next]_(Abstract!vars)
  <2> SUFFICES ASSUME IInv, IInv', [Next]_vars
               PROVE  [Abstract!Next]_(Abstract!vars)
    OBVIOUS
  <2>1. ASSUME NEW c \in Callers, Commit(c) PROVE Abstract!Pull
    <3>1. Abstract!Covered'
      BY DEF IInv, NoGap, FreshTail, Abstract!Covered, Abstract!Day,
             Abstract!NoDay, Day, NoDay
    <3>2. today' = today /\ vendor' = vendor
      BY <2>1 DEF Commit, world
    <3>3. QED BY <2>1, <3>1, <3>2, CommitCoverage DEF Abstract!Pull, Abstract!Day, Day
  <2>2. CASE Tick \/ \E d \in Day : Restate(d)
    <3>1. /\ stored' = stored /\ pulledOn' = pulledOn /\ Mark' = Mark
          /\ today' \in {today, today + 1}
      BY <2>2 DEF Tick, Restate, Mark, LatestCursor, runRow, facts
    <3>2. \A d \in Day : vendor'[d] >= vendor[d]
      BY <2>2 DEF Tick, Restate, IInv, TypeOK
    <3>3. QED BY <3>1, <3>2 DEF Abstract!Next, Abstract!Environment,
                                Abstract!Day, Day
  <2>3. CASE UNCHANGED vars
    BY <2>3 DEF vars, world, runRow, facts, Abstract!vars, Mark, LatestCursor
  <2>4. QED
    BY <2>1, <2>2, <2>3, OthersStutter DEF Abstract!Next, Abstract!vars
<1>3. QED
  BY <1>1, <1>2, Invariance, PTL DEF Spec, PullsIncrementally, Abstract!Spec

-----------------------------------------------------------------------------
(***************************************************************************)
(* Sums: the iteration that MapThenSumSet picks exists, and its sums of    *)
(* integers are integers. By the least-number principle on the size.       *)
(***************************************************************************)
LEMMA LeastNat ==
  ASSUME NEW T, T \subseteq Nat, T # {}
  PROVE  \E m \in T : \A n \in T : m <= n
<1>1. PICK rel : rel = OpToRel(<, Nat)
  BY Zenon
<1>2. IsWellFoundedOn(rel, Nat)
  BY <1>1, NatLessThanWellFounded, Zenon
<1>3. PICK m \in T : \A y \in T : ~(<<y, m>> \in rel)
  BY <1>2, WFMin
<1>4. rel = {ss \in Nat \X Nat : ss[1] < ss[2]}
  BY <1>1 DEF OpToRel
<1>5. \A y \in T : ~(y < m)
  BY <1>3, <1>4
<1>6. QED BY <1>5

AmountsOf(F) == MapThenSumSet(LAMBDA f : f.amount, F)
First(s) == CHOOSE x \in s : TRUE
StepSum(g, s) == IF s = {} THEN 0 ELSE First(s).amount + g[s \ {First(s)}]
Iteration(F) == CHOOSE iter : iter = [s \in SUBSET F |-> StepSum(iter, s)]
Small(F, n) == {s \in SUBSET F : Cardinality(s) <= n}
SumsUpTo(F, n) == \E g \in [Small(F, n) -> Int] : \A s \in Small(F, n) : g[s] = StepSum(g, s)

LEMMA SumIsIteration == ASSUME NEW F PROVE AmountsOf(F) = Iteration(F)[F]
BY DEF AmountsOf, MapThenSumSet, MapThenFoldSet, Iteration, StepSum, First

LEMMA FirstIn == ASSUME NEW s, s # {} PROVE First(s) \in s
BY DEF First

LEMMA Smaller ==
  ASSUME NEW F, IsFiniteSet(F), NEW n \in Nat, NEW s \in Small(F, n), s # {}
  PROVE  /\ n > 0 /\ s \ {First(s)} \in Small(F, n - 1)
         /\ Cardinality(s \ {First(s)}) < Cardinality(s)
<1>1. s \subseteq F /\ Cardinality(s) <= n
  BY DEF Small
<1>2. IsFiniteSet(s)
  BY <1>1, FS_Subset
<1>3. PICK c \in Nat : c = Cardinality(s)
  BY <1>2, FS_CardinalityType
<1>4. c # 0
  BY <1>2, <1>3, FS_EmptySet
<1>5. First(s) \in s
  BY FirstIn
<1>6. Cardinality(s \ {First(s)}) = c - 1
  BY <1>2, <1>3, <1>5, FS_RemoveElement
<1>7. QED BY <1>1, <1>3, <1>4, <1>6 DEF Small

LEMMA SumsExist ==
  ASSUME NEW F, IsFiniteSet(F), \A f \in F : f.amount \in Int, NEW n \in Nat
  PROVE  SumsUpTo(F, n)
<1> DEFINE Bad == {k \in Nat : ~SumsUpTo(F, k)}
<1>1. SUFFICES ASSUME Bad # {} PROVE FALSE
  OBVIOUS
<1>2. PICK m \in Bad : \A k \in Bad : m <= k
  BY <1>1, LeastNat
<1>3. m \in Nat /\ ~SumsUpTo(F, m)
  OBVIOUS
<1>4. CASE m = 0
  <2>1. \A s \in Small(F, 0) : s = {}
    <3>1. SUFFICES ASSUME NEW s \in Small(F, 0), s # {} PROVE FALSE
      OBVIOUS
    <3>2. 0 > 0
      BY <3>1, Smaller, Zenon, 0 \in Nat
    <3>3. QED BY <3>2
  <2>2. PICK g : g = [s \in Small(F, 0) |-> 0]
    OBVIOUS
  <2>3. g \in [Small(F, 0) -> Int] /\ \A s \in Small(F, 0) : g[s] = StepSum(g, s)
    BY <2>1, <2>2 DEF StepSum
  <2>4. QED BY <2>3, <1>3, <1>4 DEF SumsUpTo
<1>5. CASE m # 0
  <2>1. m - 1 \in Nat /\ m - 1 \notin Bad
    BY <1>2, <1>3, <1>5
  <2>2. PICK g \in [Small(F, m - 1) -> Int] : \A s \in Small(F, m - 1) : g[s] = StepSum(g, s)
    BY <2>1 DEF SumsUpTo
  <2>3. PICK h : h = [s \in Small(F, m) |-> StepSum(g, s)]
    OBVIOUS
  <2>4. ASSUME NEW s \in Small(F, m), s # {}
        PROVE  /\ s \ {First(s)} \in Small(F, m - 1) /\ s \ {First(s)} \in Small(F, m)
               /\ First(s) \in F
    <3>1. s \ {First(s)} \in Small(F, m - 1)
      BY <2>4, <1>3, Smaller
    <3>2. IsFiniteSet(s \ {First(s)})
      BY <3>1, FS_Subset DEF Small
    <3>3. QED BY <3>1, <3>2, <2>4, <1>3, FirstIn, FS_CardinalityType DEF Small
  <2>5. \A s \in Small(F, m) : StepSum(g, s) \in Int
    BY <2>2, <2>4 DEF StepSum
  <2>6. ASSUME NEW s \in Small(F, m) PROVE h[s] = StepSum(h, s)
    <3>1. CASE s = {}
      BY <3>1, <2>3 DEF StepSum
    <3>2. CASE s # {}
      <4>1. h[s \ {First(s)}] = g[s \ {First(s)}]
        BY <3>2, <2>2, <2>3, <2>4
      <4>2. QED BY <4>1, <3>2, <2>3 DEF StepSum
    <3>3. QED BY <3>1, <3>2
  <2>7. h \in [Small(F, m) -> Int]
    BY <2>3, <2>5
  <2>8. QED BY <2>6, <2>7, <1>3 DEF SumsUpTo
<1>6. QED BY <1>4, <1>5

\* The sum of the amounts of finitely many facts is a number.
LEMMA SumType ==
  ASSUME NEW F, IsFiniteSet(F), \A f \in F : f.amount \in Int
  PROVE  AmountsOf(F) \in Int
<1>1. PICK c \in Nat : c = Cardinality(F)
  BY FS_CardinalityType
<1>2. Small(F, c) = SUBSET F
  BY <1>1, FS_Subset DEF Small
<1>3. SumsUpTo(F, c)
  BY SumsExist
<1>4. PICK g \in [SUBSET F -> Int] : \A s \in SUBSET F : g[s] = StepSum(g, s)
  BY <1>2, <1>3 DEF SumsUpTo
<1>5. g = [s \in SUBSET F |-> StepSum(g, s)]
  BY <1>4
<1>6. Iteration(F) = [s \in SUBSET F |-> StepSum(Iteration(F), s)]
  BY <1>5, Zenon DEF Iteration
<1>7. PICK h : h = Iteration(F) /\ h = [s \in SUBSET F |-> StepSum(h, s)]
  BY <1>6, Zenon
<1> DEFINE Sizes == {n \in Nat : \E s \in SUBSET F : Cardinality(s) = n /\ h[s] \notin Int}
<1>8. Sizes = {}
  <2>1. SUFFICES ASSUME Sizes # {} PROVE FALSE
    OBVIOUS
  <2>2. PICK n \in Sizes : \A k \in Sizes : n <= k
    BY <2>1, LeastNat
  <2>3. PICK s \in SUBSET F : Cardinality(s) = n /\ h[s] \notin Int
    BY <2>2
  <2>4. h[s] = StepSum(h, s)
    BY <1>7
  <2>5. s # {}
    BY <2>3, <2>4 DEF StepSum
  <2>6. s \in Small(F, n) /\ n \in Nat
    BY <2>3 DEF Small
  <2>7. PICK r : r = s \ {First(s)}
    OBVIOUS
  <2>8. Cardinality(r) < n /\ r \in SUBSET F
    BY <2>3, <2>5, <2>6, <2>7, Smaller
  <2>9. Cardinality(r) \in Nat
    BY <2>8, FS_Subset, FS_CardinalityType
  <2>10. h[r] \in Int
    BY <2>2, <2>6, <2>8, <2>9
  <2>11. First(s).amount \in Int
    BY <2>3, <2>5, FirstIn
  <2>12. QED BY <2>3, <2>4, <2>5, <2>7, <2>10, <2>11 DEF StepSum
<1>9. F \in SUBSET F
  OBVIOUS
<1>10. h[F] \in Int
  BY <1>1, <1>8, <1>9
<1>11. QED BY <1>7, <1>10, SumIsIteration

-----------------------------------------------------------------------------
(***************************************************************************)
(* The inductive invariant.                                                *)
(***************************************************************************)
Types ==
  /\ now \in Months
  /\ invoices \in [Months -> Int \cup {None}]
  /\ synced \in [Months -> Int] /\ adjusted \in [Months -> Int]
  /\ foreign \subseteq Months /\ rated \in BOOLEAN
  /\ seats \in [Seats -> Plan \cup {None}]
  /\ fees \subseteq Fee /\ IsFiniteSet(fees)
  /\ calls \in Nat /\ calls <= MaxCalls
  /\ loose \subseteq Months /\ raced \subseteq Seats /\ upto \in [Seats -> Months]
  /\ txn \in [Jobs -> Transaction \cup {Idle}]

TrueUpSteps == {"rates", "base", "adjust"}
SeatSteps == {"clear", "clearing", "fill", "drop", "commit"}
SeatKinds == {"put", "delete", "materialize"}

\* What a transaction holds suits its kind and its step.
StepsOf(kind) ==
  CASE kind = "import" -> TrueUpSteps \cup {"bill", "commit"}
    [] kind = "sync" -> TrueUpSteps \cup {"list", "commit"}
    [] kind = "put" -> {"upsert", "clear", "clearing", "fill", "commit"}
    [] kind = "delete" -> {"find", "clear", "clearing", "drop", "commit"}
    [] kind = "materialize" -> {"read", "clear", "clearing", "fill", "commit"}

FeesOf(t) ==
  {[seat |-> t.seat, month |-> m, amount |-> t.plan.amount, call |-> t.call] :
     m \in Bills(t.plan, t.at)}

RowsShaped(t) ==
  /\ t.step \in TrueUpSteps \cup {"list", "bill"} => t.rows # <<>>
  /\ t.kind = "sync" =>
       /\ Len(t.rows) <= 1
       /\ \A m \in Months : t.billed[m] = None
  /\ \A i, k \in DOMAIN t.rows : t.rows[i].month = t.rows[k].month => i = k
  /\ \A i \in DOMAIN t.rows :
       /\ t.adjusts[t.rows[i].month] = None
       /\ i > 1 \/ t.step = "bill" => t.billed[t.rows[i].month] = None
  /\ t.kind = "import" /\ t.step \in TrueUpSteps =>
       t.billed[Head(t.rows).month] = Head(t.rows).amount
  /\ t.kind = "import" => \A m \in Months : t.adjusts[m] # None => t.billed[m] # None

SeatShaped(t) ==
  /\ t.step \in SeatSteps => t.seat \in Seats
  /\ t.new = IF t.kind # "delete" /\ t.step = "commit" THEN FeesOf(t) ELSE {}
  /\ IsFiniteSet(t.new)
  /\ t.step # "clearing" => t.seen = {}
  /\ t.step \notin {"fill", "drop", "commit"} => t.gone = {}
  /\ t.kind = "put" => t.plan # None /\ (t.step # "upsert" => t.holds)
  /\ t.kind = "materialize" /\ t.step # "read" => t.plan # None
  /\ t.kind = "delete" => (t.plan = None /\ (t.holds => t.step = "commit"))
  /\ t.kind = "materialize" => ~t.holds

Shaped(t) ==
  /\ t.step \in StepsOf(t.kind)
  /\ t.kind \in {"import", "sync"} =>
       RowsShaped(t) /\ ~t.holds /\ t.seen = {} /\ t.gone = {} /\ t.new = {}
  /\ t.kind \in SeatKinds => SeatShaped(t)

\* What a true-up has read and written of a month that nobody disturbed is
\* still so: the base it took, and the adjustment it made of it.
Converts(m) == m \in foreign => rated
InHand(t, m) == t.step \in TrueUpSteps /\ Head(t.rows).month = m
Billed(t, m) == IF t.kind = "import" THEN t.billed[m] ELSE invoices[m]
MadeUp(t, m) ==
  /\ Converts(m) /\ Billed(t, m) # None
  /\ IF t.adjusts[m] = None THEN adjusted[m] = 0 /\ Billed(t, m) = Base(m)
     ELSE t.adjusts[m] = Billed(t, m) - Base(m)
TruesUp(t) ==
  \A m \in Months \ t.disturbed :
    /\ InHand(t, m) =>
         /\ t.kind = "sync" => invoices[m] = Head(t.rows).amount
         /\ t.step \in {"base", "adjust"} => Converts(m)
         /\ t.step = "adjust" => t.base = Base(m)
    /\ t.billed[m] # None \/ t.adjusts[m] # None => InHand(t, m) \/ MadeUp(t, m)

\* A seat's transaction deletes committed facts of its seat and inserts facts
\* whose keys are free; undisturbed, it has seen all that there is.
FactsOf(s) == {f \in fees : f.seat = s}
SeatOK(t) ==
  /\ t.gone \subseteq fees
  /\ \A f \in t.seen \cup t.gone \cup t.new : f.seat = t.seat
  /\ \A f \in t.new, g \in fees : f.seat = g.seat /\ f.month = g.month => g \in t.gone
  /\ t.holds => \A s \in Live : s = t.seat
  /\ 0 \notin t.disturbed =>
       /\ t.step = "clearing" => t.seen = FactsOf(t.seat)
       /\ t.step \in {"fill", "drop", "commit"} => t.gone = FactsOf(t.seat)
       /\ t.kind = "materialize" /\ t.step # "read" => seats[t.seat] = t.plan
       /\ t.kind = "delete" /\ t.step = "commit" /\ ~t.holds => seats[t.seat] = None

Sound(t) ==
  /\ Shaped(t)
  /\ t.kind \in {"import", "sync"} => TruesUp(t)
  /\ t.kind \in SeatKinds => SeatOK(t)

\* Two transactions never hold the seat, delete a fact or insert a key both.
Apart(t, u) ==
  /\ ~(t.holds /\ u.holds)
  /\ t.gone \cap u.gone = {}
  /\ ~SameKey(t.new, u.new)

Keyed == \A f, g \in fees : f.seat = g.seat /\ f.month = g.month => f = g
OneSeat == \A s, r \in Live : s = r
Settled(m) ==
  invoices[m] # None /\ m \notin loose => Converts(m) /\ adjusted[m] = invoices[m] - Base(m)
Bears(s) == {<<f.month, f.amount>> : f \in FactsOf(s)} = Owed(seats[s], upto[s])

BillingIInv ==
  /\ Types /\ Keyed /\ OneSeat
  /\ \A m \in Months : Settled(m)
  /\ \A s \in Seats \ raced : Bears(s)
  /\ \A j \in Jobs : txn[j] # Idle => Sound(txn[j])
  /\ \A j, k \in Jobs : txn[j] # Idle /\ txn[k] # Idle /\ j # k => Apart(txn[j], txn[k])

-----------------------------------------------------------------------------
LEMMA BaseIs ==
  ASSUME NEW m
  PROVE  /\ Base(m) = synced[m] + (IF rated /\ m \in foreign THEN 1 ELSE 0)
                        + AmountsOf({f \in fees : f.month = m})
         /\ Base(m)' = synced'[m] + (IF rated' /\ m \in foreign' THEN 1 ELSE 0)
                        + AmountsOf({f \in fees' : f.month = m})
<1>1. Base(m) = synced[m] + (IF rated /\ m \in foreign THEN 1 ELSE 0)
                        + AmountsOf({f \in fees : f.month = m})
  BY DEF Base, AmountsOf, MapThenSumSet, MapThenFoldSet
<1>2. Base(m)' = synced'[m] + (IF rated' /\ m \in foreign' THEN 1 ELSE 0)
                        + AmountsOf({f \in fees' : f.month = m})
  BY DEF Base, AmountsOf, MapThenSumSet, MapThenFoldSet
<1>3. QED BY <1>1, <1>2

LEMMA BaseSame ==
  ASSUME NEW m, UNCHANGED ledger
  PROVE  Base(m)' = Base(m)
<1>1. {f \in fees' : f.month = m} = {f \in fees : f.month = m}
  BY DEF ledger
<1>2. UNCHANGED <<synced, rated, foreign>>
  BY DEF ledger
<1>3. QED BY <1>1, <1>2, BaseIs, Zenon

LEMMA SoundSame ==
  ASSUME NEW t, Sound(t), UNCHANGED ledger
  PROVE  Sound(t)'
<1>1. \A m : Base(m)' = Base(m)
  BY BaseSame
<1>2. UNCHANGED <<invoices, adjusted, foreign, rated, seats, fees>>
  BY DEF ledger
<1>3. TruesUp(t) => TruesUp(t)'
  BY <1>1, <1>2 DEF TruesUp, MadeUp, InHand, Billed, Converts
<1>4. SeatOK(t) => SeatOK(t)'
  BY <1>2 DEF SeatOK, FactsOf, Live
<1>5. Shaped(t)'
  BY DEF Sound, Shaped, RowsShaped, SeatShaped, FeesOf
<1>6. QED BY <1>3, <1>4, <1>5 DEF Sound

LEMMA ApartSym == ASSUME NEW t, NEW u, Apart(t, u) PROVE Apart(u, t)
BY DEF Apart, SameKey

\* A step of one transaction that commits nothing.
LEMMA LocalStep ==
  ASSUME BillingIInv, NEW j \in Jobs, NEW next \in Transaction \cup {Idle},
         txn' = [txn EXCEPT ![j] = next], UNCHANGED <<now, ledger, ghosts>>,
         calls' \in Nat, calls' <= MaxCalls,
         next # Idle => Sound(next),
         \A k \in Jobs \ {j} : next # Idle /\ txn[k] # Idle => Apart(next, txn[k])
  PROVE  BillingIInv'
<1>1. \A m : Base(m)' = Base(m)
  BY BaseSame
<1>2. UNCHANGED <<invoices, synced, adjusted, foreign, rated, seats, fees, loose, raced, upto, now>>
  BY DEF ledger, ghosts
<1>3. Types'
  BY <1>2 DEF Types, BillingIInv
<1>4. Keyed' /\ OneSeat'
  BY <1>2 DEF BillingIInv, Keyed, OneSeat, Live
<1>5. \A m \in Months : Settled(m)'
  BY <1>1, <1>2 DEF BillingIInv, Settled, Converts
<1>6. \A s \in Seats \ raced : Bears(s)'
  BY <1>2 DEF BillingIInv, Bears, FactsOf, Owed
<1>7. \A k \in Jobs : txn'[k] = IF k = j THEN next ELSE txn[k]
  BY DEF BillingIInv, Types
<1>8. ASSUME NEW k \in Jobs, txn'[k] # Idle PROVE Sound(txn[k])'
  <2>1. PICK t : t = txn'[k]
    OBVIOUS
  <2>2. Sound(t)
    BY <1>7, <1>8, <2>1 DEF BillingIInv
  <2>3. Sound(t)'
    BY <2>2, SoundSame
  <2>4. QED BY <2>1, <2>3
<1>9. ASSUME NEW k \in Jobs, NEW l \in Jobs, txn'[k] # Idle, txn'[l] # Idle, k # l
      PROVE  Apart(txn'[k], txn'[l])
  BY <1>7, <1>9, ApartSym DEF BillingIInv
<1>10. \A k, l \in Jobs : txn'[k] # Idle /\ txn'[l] # Idle /\ k # l => Apart(txn[k], txn[l])'
  BY <1>9 DEF Apart, SameKey
<1>11. QED BY <1>2, <1>3, <1>4, <1>5, <1>6, <1>8, <1>10, Zenon DEF BillingIInv

\* A transaction at a step is of the kind that has it.
LEMMA AtIts ==
  ASSUME BillingIInv, NEW j \in Jobs, NEW step, AtStep(j, step)
  PROVE  /\ txn[j] \in Transaction /\ txn[j] # Idle /\ txn[j].step = step
         /\ Sound(txn[j]) /\ step \in StepsOf(txn[j].kind)
         /\ txn[j].kind \in {"import", "sync", "put", "delete", "materialize"}
<1>1. txn[j] \in Transaction /\ txn[j] # Idle /\ txn[j].step = step /\ Sound(txn[j])
  BY DEF AtStep, BillingIInv, Types
<1>2. QED BY <1>1 DEF Sound, Shaped, Transaction

\* A transaction that is rolled back leaves nothing.
LEMMA Rollback ==
  ASSUME BillingIInv, NEW j \in Jobs, txn' = [txn EXCEPT ![j] = Idle], UNCHANGED <<now, ledger, calls, ghosts>>
  PROVE  BillingIInv'
BY LocalStep DEF BillingIInv, Types

LEMMA RowOf ==
  ASSUME NEW t \in Transaction, t.rows # <<>>
  PROVE  /\ Head(t.rows) \in Line /\ Head(t.rows) = t.rows[1] /\ 1 \in DOMAIN t.rows
         /\ Head(t.rows).month \in Months /\ Head(t.rows).amount \in Int
         /\ Tail(t.rows) \in Seq(Line) /\ Len(t.rows) \in Nat \ {0}
         /\ Len(Tail(t.rows)) = Len(t.rows) - 1
         /\ \A i \in DOMAIN Tail(t.rows) : i + 1 \in DOMAIN t.rows /\ Tail(t.rows)[i] = t.rows[i + 1]
<1>1. t.rows \in Seq(Line)
  BY DEF Transaction
<1>2. PICK rows \in Seq(Line) : rows = t.rows
  BY <1>1
<1>3. rows # <<>>
  BY <1>2
<1>4. PICK n \in Nat : n = Len(rows)
  OBVIOUS
<1>5. n # 0 /\ DOMAIN rows = 1 .. n
  BY <1>3, <1>4
<1>6. Head(rows) = rows[1] /\ rows[1] \in Line
  BY <1>3, <1>4, <1>5
<1>7. Tail(rows) \in Seq(Line) /\ Len(Tail(rows)) = n - 1
  BY <1>3, <1>4, <1>5
<1>8. \A i \in 1 .. n - 1 : Tail(rows)[i] = rows[i + 1]
  BY <1>3, <1>4, <1>5
<1>9. DOMAIN Tail(rows) = 1 .. n - 1
  BY <1>7
<1>10. \A i \in DOMAIN Tail(rows) : i + 1 \in DOMAIN rows /\ Tail(rows)[i] = rows[i + 1]
  BY <1>5, <1>8, <1>9
<1>11. Head(rows).month \in Months /\ Head(rows).amount \in Int
  BY <1>6 DEF Line
<1>12. Len(rows) \in Nat \ {0} /\ 1 \in DOMAIN rows
  BY <1>4, <1>5
<1>13. QED BY <1>2, <1>4, <1>6, <1>7, <1>10, <1>11, <1>12, Zenon

Keeps(n, t) ==
  /\ n.kind = t.kind /\ n.holds = t.holds /\ n.disturbed = t.disturbed
  /\ n.seen = t.seen /\ n.gone = t.gone /\ n.new = t.new

\* A step of a true-up.
LEMMA TrueUpStep ==
  ASSUME BillingIInv, NEW j \in Jobs, NEW t \in Transaction, t = txn[j], Sound(t), t.kind \in {"import", "sync"},
         NEW n \in Transaction, Keeps(n, t), n.step \in StepsOf(n.kind), RowsShaped(n), TruesUp(n),
         txn' = [txn EXCEPT ![j] = n], UNCHANGED <<now, ledger, calls, ghosts>>
  PROVE  BillingIInv'
<1>1. ~t.holds /\ t.seen = {} /\ t.gone = {} /\ t.new = {}
  BY DEF Sound, Shaped
<1>2. Sound(n)
  BY <1>1 DEF Sound, Shaped, SeatKinds, Keeps
<1>3. \A k \in Jobs \ {j} : txn[k] # Idle => Apart(n, txn[k])
  BY <1>1 DEF Apart, SameKey, Keeps
<1>4. QED BY <1>2, <1>3, LocalStep DEF BillingIInv, Types

LEMMA ListStep ==
  ASSUME BillingIInv, NEW j \in Jobs, ListInvoices(j)
  PROVE  BillingIInv'
<1>1. PICK t \in Transaction : t = txn[j] /\ t # Idle /\ t.step = "list" /\ Sound(t) /\ t.kind = "sync"
  BY AtIts DEF ListInvoices, StepsOf, TrueUpSteps
<1>2. PICK m \in Months : m = Head(t.rows).month
  BY <1>1, RowOf DEF Sound, Shaped, RowsShaped
<1>3. CASE invoices[m] = None
  BY <1>1, <1>2, <1>3, Rollback DEF ListInvoices
<1>4. CASE invoices[m] # None
  <2>1. invoices[m] \in Int
    BY <1>4 DEF BillingIInv, Types
  <2>2. PICK r : r = <<[month |-> m, amount |-> invoices[m]]>>
    OBVIOUS
  <2>3. r \in Seq(Line) /\ Len(r) = 1 /\ r # <<>> /\ Head(r).month = m /\ Head(r).amount = invoices[m]
        /\ DOMAIN r = {1} /\ r[1].month = m
    BY <2>1, <2>2 DEF Line
  <2>4. PICK n : n = [t EXCEPT !.step = "rates", !.rows = r]
    OBVIOUS
  <2>5. /\ n \in Transaction /\ n.step = "rates" /\ n.rows = r
        /\ n.kind = t.kind /\ n.billed = t.billed /\ n.adjusts = t.adjusts /\ n.holds = t.holds
        /\ n.seen = t.seen /\ n.gone = t.gone /\ n.new = t.new /\ n.disturbed = t.disturbed
    BY <2>3, <2>4 DEF Transaction
  <2>6. txn' = [txn EXCEPT ![j] = n]
    BY <1>1, <1>2, <1>4, <2>2, <2>4 DEF ListInvoices, Continue
  <2>7. RowsShaped(t) /\ TruesUp(t) /\ ~t.holds /\ t.seen = {} /\ t.gone = {} /\ t.new = {}
    BY <1>1 DEF Sound, Shaped
  <2>8. t.adjusts[m] = None
    BY <1>1, <1>2, <2>7, RowOf DEF RowsShaped
  <2>9. RowsShaped(n)
    <3>1. \A i \in DOMAIN n.rows : i = 1 /\ n.rows[i].month = m
      BY <2>3, <2>5
    <3>2. \A i \in Months : n.billed[i] = None
      BY <1>1, <2>5, <2>7 DEF RowsShaped
    <3>3. n.rows # <<>> /\ Len(n.rows) = 1 /\ n.kind = "sync" /\ n.step = "rates"
      BY <1>1, <2>3, <2>5, Zenon
    <3>4. QED BY <3>1, <3>2, <3>3, <2>5, <2>8 DEF RowsShaped
  <2>10. TruesUp(n)
    BY <1>1, <2>3, <2>5, <2>7 DEF TruesUp, InHand, MadeUp, Billed, TrueUpSteps
  <2>11. n.step \in StepsOf(n.kind) /\ Keeps(n, t)
    BY <1>1, <2>5 DEF StepsOf, TrueUpSteps, Keeps
  <2>12. QED BY <1>1, <2>5, <2>6, <2>9, <2>10, <2>11, TrueUpStep DEF ListInvoices
<1>5. QED BY <1>3, <1>4

LEMMA BillStep ==
  ASSUME BillingIInv, NEW j \in Jobs, Bill(j)
  PROVE  BillingIInv'
<1>1. PICK t \in Transaction : t = txn[j] /\ t # Idle /\ t.step = "bill" /\ Sound(t) /\ t.kind = "import"
  BY AtIts DEF Bill, StepsOf, TrueUpSteps
<1>2. RowsShaped(t) /\ TruesUp(t) /\ t.rows # <<>>
  BY <1>1 DEF Sound, Shaped, RowsShaped
<1>3. PICK m \in Months, a \in Int : m = Head(t.rows).month /\ a = Head(t.rows).amount
  BY <1>2, RowOf
<1>4. PICK n : n = [t EXCEPT !.step = "rates", !.billed[m] = a]
  OBVIOUS
<1>5. PICK b : b = [t.billed EXCEPT ![m] = a]
  OBVIOUS
<1>6. b \in [Months -> Int \cup {None}] /\ b[m] = a /\ \A x \in Months \ {m} : b[x] = t.billed[x]
  BY <1>5 DEF Transaction, Amounts
<1>7. /\ n \in Transaction /\ n.step = "rates" /\ n.rows = t.rows /\ n.billed = b
      /\ n.adjusts = t.adjusts /\ Keeps(n, t)
  BY <1>4, <1>5, <1>6 DEF Transaction, Amounts, Keeps
<1>8. txn' = [txn EXCEPT ![j] = n]
  BY <1>1, <1>3, <1>4 DEF Bill, Continue, Row
<1>9. a # None
  BY BillingAssumption
<1>10. RowsShaped(n)
  <2>1. \A i \in DOMAIN t.rows : t.rows[i] \in Line /\ (i > 1 => t.rows[i].month \in Months \ {m})
    <3>1. t.rows \in Seq(Line)
      BY DEF Transaction
    <3>2. \A i \in DOMAIN t.rows : t.rows[i] \in Line
      BY <3>1
    <3>3. QED BY <3>2, <1>2, <1>3, RowOf DEF RowsShaped, Line
  <2>2. \A i \in DOMAIN t.rows : i > 1 => n.billed[t.rows[i].month] = None
    BY <2>1, <1>1, <1>2, <1>6, <1>7 DEF RowsShaped
  <2>3. \A i \in DOMAIN t.rows : t.adjusts[t.rows[i].month] = None
    BY <1>2 DEF RowsShaped
  <2>4. \A x \in Months : t.adjusts[x] # None => b[x] # None
    BY <1>1, <1>2, <1>6, <1>9 DEF RowsShaped
  <2>5. \A i, k \in DOMAIN t.rows : t.rows[i].month = t.rows[k].month => i = k
    BY <1>2 DEF RowsShaped
  <2>6. n.kind = "import"
    BY <1>1, <1>7 DEF Keeps
  <2>7. QED BY <2>2, <2>3, <2>4, <2>5, <2>6, <1>2, <1>3, <1>6, <1>7 DEF RowsShaped
<1>11. TruesUp(n)
  <2>1. SUFFICES ASSUME NEW x \in Months \ n.disturbed
        PROVE  /\ InHand(n, x) => n.kind # "sync" /\ n.step = "rates"
               /\ n.billed[x] # None \/ n.adjusts[x] # None => InHand(n, x) \/ MadeUp(n, x)
    BY DEF TruesUp
  <2>2. n.kind = "import" /\ n.disturbed = t.disturbed
    BY <1>1, <1>7 DEF Keeps
  <2>3. CASE x = m
    BY <2>2, <2>3, <1>3, <1>7 DEF InHand, TrueUpSteps
  <2>4. CASE x # m
    <3>1. n.billed[x] = t.billed[x] /\ n.adjusts[x] = t.adjusts[x]
      BY <2>4, <1>6, <1>7
    <3>2. MadeUp(t, x) => MadeUp(n, x)
      BY <3>1, <2>2, <1>1 DEF MadeUp, Billed
    <3>3. ~InHand(t, x)
      BY <1>1 DEF InHand, TrueUpSteps
    <3>4. t.billed[x] # None \/ t.adjusts[x] # None => MadeUp(t, x)
      BY <3>3, <2>2, <1>2 DEF TruesUp
    <3>5. QED BY <3>1, <3>2, <3>4, <2>2, <1>7
  <2>5. QED BY <2>3, <2>4
<1>12. n.step \in StepsOf(n.kind)
  BY <1>1, <1>7 DEF StepsOf, TrueUpSteps, Keeps
<1>13. QED BY <1>1, <1>7, <1>8, <1>10, <1>11, <1>12, TrueUpStep DEF Bill

LEMMA RatesStep ==
  ASSUME BillingIInv, NEW j \in Jobs, CheckRates(j)
  PROVE  BillingIInv'
<1>1. PICK t \in Transaction : t = txn[j] /\ t # Idle /\ t.step = "rates" /\ Sound(t)
                               /\ t.kind \in {"import", "sync"}
  BY AtIts DEF CheckRates, StepsOf
<1>2. RowsShaped(t) /\ TruesUp(t) /\ t.rows # <<>>
  BY <1>1 DEF Sound, Shaped, RowsShaped, TrueUpSteps
<1>3. PICK m \in Months : m = Head(t.rows).month
  BY <1>2, RowOf
<1>4. CASE ~Converts(m)
  BY <1>1, <1>3, <1>4, Rollback DEF CheckRates, Converts, Row
<1>5. CASE Converts(m)
  <2>1. PICK n : n = [t EXCEPT !.step = "base"]
    OBVIOUS
  <2>2. /\ n \in Transaction /\ n.step = "base" /\ n.rows = t.rows /\ n.billed = t.billed
        /\ n.adjusts = t.adjusts /\ n.base = t.base /\ Keeps(n, t)
    BY <2>1 DEF Transaction, Keeps
  <2>3. txn' = [txn EXCEPT ![j] = n]
    BY <1>1, <1>3, <1>5, <2>1 DEF CheckRates, Continue, Row, Converts
  <2>4. RowsShaped(n)
    BY <1>1, <1>2, <2>2 DEF RowsShaped, TrueUpSteps, Keeps
  <2>5. TruesUp(n)
    BY <1>1, <1>2, <1>3, <1>5, <2>2 DEF TruesUp, InHand, MadeUp, Billed, TrueUpSteps, Keeps
  <2>6. n.step \in StepsOf(n.kind)
    BY <1>1, <2>2 DEF StepsOf, TrueUpSteps, Keeps
  <2>7. QED BY <1>1, <2>2, <2>3, <2>4, <2>5, <2>6, TrueUpStep DEF CheckRates
<1>6. QED BY <1>4, <1>5

LEMMA BaseType == ASSUME Types, NEW m \in Months PROVE Base(m) \in Int
<1> DEFINE F == {f \in fees : f.month = m}
<1>1. IsFiniteSet(F)
  BY FS_Subset DEF Types
<1>2. \A f \in F : f.amount \in Int
  BY DEF Types, Fee
<1>3. AmountsOf(F) \in Int
  BY <1>1, <1>2, SumType
<1>4. synced[m] \in Int
  BY DEF Types
<1>5. PICK a \in Int : a = AmountsOf(F)
  BY <1>3
<1>6. PICK b \in Int : b = synced[m]
  BY <1>4
<1>7. Base(m) = b + (IF rated /\ m \in foreign THEN 1 ELSE 0) + a
  BY <1>5, <1>6, BaseIs
<1>8. QED BY <1>7

LEMMA ReadStep ==
  ASSUME BillingIInv, NEW j \in Jobs, ReadBase(j)
  PROVE  BillingIInv'
<1>1. PICK t \in Transaction : t = txn[j] /\ t # Idle /\ t.step = "base" /\ Sound(t)
                               /\ t.kind \in {"import", "sync"}
  BY AtIts DEF ReadBase, StepsOf
<1>2. RowsShaped(t) /\ TruesUp(t) /\ t.rows # <<>>
  BY <1>1 DEF Sound, Shaped, RowsShaped, TrueUpSteps
<1>3. PICK m \in Months : m = Head(t.rows).month
  BY <1>2, RowOf
<1>4. PICK b \in Int : b = Base(m)
  BY BaseType DEF BillingIInv
<1>5. PICK n : n = [t EXCEPT !.step = "adjust", !.base = b]
  OBVIOUS
<1>6. /\ n \in Transaction /\ n.step = "adjust" /\ n.rows = t.rows /\ n.billed = t.billed
      /\ n.adjusts = t.adjusts /\ n.base = b /\ Keeps(n, t)
  BY <1>5 DEF Transaction, Keeps
<1>7. txn' = [txn EXCEPT ![j] = n]
  BY <1>1, <1>3, <1>4, <1>5 DEF ReadBase, Continue, Row
<1>8. RowsShaped(n)
  BY <1>1, <1>2, <1>6 DEF RowsShaped, TrueUpSteps, Keeps
<1>9. TruesUp(n)
  BY <1>1, <1>2, <1>3, <1>4, <1>6 DEF TruesUp, InHand, MadeUp, Billed, TrueUpSteps, Keeps
<1>10. n.step \in StepsOf(n.kind)
  BY <1>1, <1>6 DEF StepsOf, TrueUpSteps, Keeps
<1>11. QED BY <1>1, <1>6, <1>7, <1>8, <1>9, <1>10, TrueUpStep DEF ReadBase

LEMMA AdjustStep ==
  ASSUME BillingIInv, NEW j \in Jobs, Adjust(j)
  PROVE  BillingIInv'
<1>1. PICK t \in Transaction : t = txn[j] /\ t # Idle /\ t.step = "adjust" /\ Sound(t)
                               /\ t.kind \in {"import", "sync"}
  BY AtIts DEF Adjust, StepsOf
<1>2. RowsShaped(t) /\ TruesUp(t) /\ t.rows # <<>>
  BY <1>1 DEF Sound, Shaped, RowsShaped, TrueUpSteps
<1>3. PICK m \in Months, a \in Int : m = Head(t.rows).month /\ a = Head(t.rows).amount
  BY <1>2, RowOf
<1>4. t.base \in Int /\ t.adjusts \in Amounts /\ t.adjusts[m] = None
  BY <1>2, <1>3, RowOf DEF Transaction, RowsShaped
<1>5. PICK v \in Int \cup {None} : v = IF a # t.base \/ adjusted[m] # 0 THEN a - t.base ELSE None
  <2>1. PICK b \in Int : b = t.base
    BY <1>4
  <2>2. a - b \in Int
    OBVIOUS
  <2>3. QED BY <2>1, <2>2
<1>6. PICK left \in Seq(Line) : left = Tail(t.rows)
  BY <1>2, RowOf
<1>7. PICK step : step = IF left = <<>> THEN "commit" ELSE IF t.kind = "import" THEN "bill" ELSE "rates"
  OBVIOUS
<1>8. step \in {"commit", "bill", "rates"}
  BY <1>7
<1>9. PICK d : d = [t.adjusts EXCEPT ![m] = v]
  OBVIOUS
<1>10. d \in Amounts /\ d[m] = v /\ \A x \in Months \ {m} : d[x] = t.adjusts[x]
  BY <1>4, <1>9 DEF Amounts
<1>11. PICK n : n = [t EXCEPT !.adjusts = d, !.rows = left, !.base = 0, !.step = step]
  OBVIOUS
<1>12. /\ n \in Transaction /\ n.step = step /\ n.rows = left /\ n.billed = t.billed
       /\ n.adjusts = d /\ n.base = 0 /\ Keeps(n, t)
  <2>1. n \in Transaction
    <3>1. PICK o : o = [t EXCEPT !.adjusts = d, !.rows = left]
      OBVIOUS
    <3>2. o \in Transaction
      BY <3>1, <1>6, <1>10 DEF Transaction
    <3>3. n = [o EXCEPT !.base = 0, !.step = step]
      BY <3>1, <1>11 DEF Transaction
    <3>4. PICK b \in Int : b = 0
      OBVIOUS
    <3>5. PICK q : q = [o EXCEPT !.base = b]
      OBVIOUS
    <3>6. q \in Transaction
      BY <3>2, <3>5 DEF Transaction
    <3>7. n = [q EXCEPT !.step = step]
      BY <3>3, <3>4, <3>5, <3>2 DEF Transaction
    <3>8. step \in {"list", "bill", "rates", "base", "adjust", "find", "read", "upsert",
                    "clear", "clearing", "fill", "drop", "commit"}
      BY <1>8
    <3>9. QED BY <3>6, <3>7, <3>8 DEF Transaction
  <2>2. n.step = step /\ n.rows = left /\ n.billed = t.billed /\ n.adjusts = d /\ n.base = 0
    BY <1>11 DEF Transaction
  <2>3. Keeps(n, t)
    BY <1>11 DEF Transaction, Keeps
  <2>4. QED BY <2>1, <2>2, <2>3
<1>13. txn' = [txn EXCEPT ![j] = n]
  <2>1. [t EXCEPT !.adjusts[m] = v, !.rows = left, !.base = 0, !.step = step] = n
    BY <1>9, <1>11 DEF Transaction
  <2>2. (IF FindsRow(j) THEN Row(j).amount - txn[j].base ELSE txn[j].adjusts[Row(j).month]) = v
    BY <1>1, <1>3, <1>4, <1>5 DEF FindsRow, Row
  <2>3. QED BY <2>1, <2>2, <1>1, <1>3, <1>6, <1>7 DEF Adjust, Continue, Row
<1>14. n.kind = t.kind /\ n.disturbed = t.disturbed
  BY <1>12 DEF Keeps
<1>15. ASSUME NEW i \in DOMAIN left
       PROVE  i \in Nat \ {0} /\ i + 1 \in DOMAIN t.rows /\ left[i] = t.rows[i + 1]
              /\ left[i] \in Line /\ left[i].month \in Months \ {m}
  <2>1. i \in Nat \ {0} /\ left[i] \in Line
    BY <1>15
  <2>2. i + 1 \in DOMAIN t.rows /\ left[i] = t.rows[i + 1]
    BY <1>2, <1>6, RowOf
  <2>3. 1 \in DOMAIN t.rows /\ t.rows[1].month = m /\ i + 1 # 1
    BY <1>2, <1>3, <2>1, RowOf
  <2>4. t.rows[i + 1].month # m
    BY <1>2, <2>2, <2>3 DEF RowsShaped
  <2>5. QED BY <2>1, <2>2, <2>4 DEF Line
<1>16. t.kind = "sync" => left = <<>>
  <2>1. t.kind = "sync" => Len(left) <= 0 /\ Len(left) \in Nat
    BY <1>2, <1>6, RowOf DEF RowsShaped
  <2>2. QED BY <2>1
<1>17. RowsShaped(n)
  <2>1. n.step \in TrueUpSteps \cup {"list", "bill"} => n.rows # <<>>
    BY <1>7, <1>12 DEF TrueUpSteps
  <2>2. n.kind = "sync" => Len(n.rows) <= 1 /\ \A x \in Months : n.billed[x] = None
    BY <1>2, <1>12, <1>14, <1>16 DEF RowsShaped
  <2>3. \A i, k \in DOMAIN left : left[i].month = left[k].month => i = k
    <3>1. SUFFICES ASSUME NEW i \in DOMAIN left, NEW k \in DOMAIN left, left[i].month = left[k].month
          PROVE  i = k
      OBVIOUS
    <3>2. i + 1 \in DOMAIN t.rows /\ left[i] = t.rows[i + 1] /\ i \in Nat
      BY <1>15
    <3>3. k + 1 \in DOMAIN t.rows /\ left[k] = t.rows[k + 1] /\ k \in Nat
      BY <1>15
    <3>4. i + 1 = k + 1
      BY <3>1, <3>2, <3>3, <1>2 DEF RowsShaped
    <3>5. QED BY <3>2, <3>3, <3>4
  <2>4. \A i \in DOMAIN left : d[left[i].month] = None
    BY <1>2, <1>10, <1>15 DEF RowsShaped
  <2>5. \A i \in DOMAIN left : t.billed[left[i].month] = None
    <3>1. SUFFICES ASSUME NEW i \in DOMAIN left PROVE t.billed[left[i].month] = None
      OBVIOUS
    <3>2. i + 1 \in DOMAIN t.rows /\ i + 1 > 1 /\ left[i] = t.rows[i + 1]
      BY <1>15
    <3>3. QED BY <3>2, <1>2 DEF RowsShaped
  <2>6. n.kind = "import" => n.step \notin TrueUpSteps
    BY <1>7, <1>12, <1>14 DEF TrueUpSteps
  <2>7. n.kind = "import" => \A x \in Months : d[x] # None => t.billed[x] # None
    <3>1. t.kind = "import" => t.billed[m] = a
      BY <1>1, <1>2, <1>3 DEF RowsShaped, TrueUpSteps
    <3>2. a # None
      BY BillingAssumption
    <3>3. QED BY <3>1, <3>2, <1>2, <1>10, <1>14 DEF RowsShaped
  <2>8. QED BY <2>1, <2>2, <2>3, <2>4, <2>5, <2>6, <2>7, <1>12 DEF RowsShaped
<1>18. TruesUp(n)
  <2>1. ~\E x \in Months : InHand(n, x)
    BY <1>7, <1>12, <1>14, <1>16, <1>1 DEF InHand, TrueUpSteps
  <2>2. SUFFICES ASSUME NEW x \in Months \ n.disturbed, n.billed[x] # None \/ n.adjusts[x] # None
        PROVE  MadeUp(n, x)
    BY <2>1 DEF TruesUp
  <2>3. CASE x = m
    <3>1. InHand(t, m) /\ m \in Months \ t.disturbed
      BY <2>3, <1>1, <1>3, <1>14 DEF InHand, TrueUpSteps
    <3>2. Converts(m) /\ t.base = Base(m)
      BY <3>1, <1>1, <1>2 DEF TruesUp
    <3>3. Billed(n, m) = a
      <4>1. CASE t.kind = "import"
        BY <4>1, <1>1, <1>2, <1>3, <1>12, <1>14 DEF RowsShaped, Billed, TrueUpSteps
      <4>2. CASE t.kind = "sync"
        BY <4>2, <3>1, <1>2, <1>3, <1>14 DEF TruesUp, Billed
      <4>3. QED BY <4>1, <4>2, <1>1
    <3>4. a # None /\ a - t.base # None
      BY <1>4, BillingAssumption
    <3>5. CASE v = None
      BY <3>2, <3>3, <3>4, <3>5, <1>5, <1>10, <1>12, <2>3 DEF MadeUp
    <3>6. CASE v # None
      BY <3>2, <3>3, <3>4, <3>6, <1>5, <1>10, <1>12, <2>3 DEF MadeUp
    <3>7. QED BY <3>5, <3>6
  <2>4. CASE x # m
    <3>1. n.billed[x] = t.billed[x] /\ n.adjusts[x] = t.adjusts[x]
      BY <2>4, <1>10, <1>12
    <3>2. ~InHand(t, x)
      BY <2>4, <1>3 DEF InHand
    <3>3. MadeUp(t, x)
      BY <3>1, <3>2, <2>2, <1>2, <1>14 DEF TruesUp
    <3>4. QED BY <3>1, <3>3, <1>14 DEF MadeUp, Billed
  <2>5. QED BY <2>3, <2>4
<1>19. n.step \in StepsOf(n.kind)
  BY <1>1, <1>7, <1>12, <1>14, <1>16 DEF StepsOf, TrueUpSteps
<1>20. QED BY <1>1, <1>12, <1>13, <1>17, <1>18, <1>19, TrueUpStep DEF Adjust

\* A request that begins.
LEMMA CallStep ==
  ASSUME BillingIInv, NEW j \in Jobs, NEW n \in Transaction, Call(j, n), UNCHANGED <<now, ledger, ghosts>>,
         Sound(n), ~n.holds, n.gone = {}, n.new = {}
  PROVE  BillingIInv'
<1>1. calls' \in Nat /\ calls' <= MaxCalls
  BY BillingAssumption DEF Call, BillingIInv, Types
<1>2. \A k \in Jobs \ {j} : txn[k] # Idle => Apart(n, txn[k])
  BY DEF Apart, SameKey
<1>3. QED BY <1>1, <1>2, LocalStep DEF Call

Kinds == {"import", "sync", "put", "delete", "materialize"}
Steps == {"list", "bill", "rates", "base", "adjust", "find", "read", "upsert",
          "clear", "clearing", "fill", "drop", "commit"}

LEMMA BegunIs ==
  ASSUME Types, NEW kind \in Kinds, NEW step \in Steps, NEW n, n = Begun(kind, step)
  PROVE  /\ n \in Transaction /\ n.kind = kind /\ n.step = step /\ n.rows = <<>>
         /\ \A m \in Months : n.billed[m] = None /\ n.adjusts[m] = None
         /\ n.seat = 0 /\ n.plan = None /\ ~n.holds /\ n.seen = {} /\ n.gone = {} /\ n.new = {}
         /\ n.disturbed = {}
<1>1. Nothing \in Amounts /\ \A m \in Months : Nothing[m] = None
  BY DEF Nothing, Amounts
<1>2. <<>> \in Seq(Line)
  OBVIOUS
<1>3. now \in Months /\ calls + 1 \in Nat
  BY DEF Types
<1>4. n \in Transaction
  BY <1>1, <1>2, <1>3 DEF Begun, Transaction, Kinds, Steps
<1>5. QED BY <1>1, <1>4 DEF Begun

LEMMA ImportStep ==
  ASSUME BillingIInv, NEW j \in Jobs, NEW upload \in Uploads, Import(j, upload)
  PROVE  BillingIInv'
<1>1. PICK b : b = Begun("import", "bill")
  OBVIOUS
<1>2. /\ b \in Transaction /\ b.kind = "import" /\ b.step = "bill"
      /\ \A m \in Months : b.billed[m] = None /\ b.adjusts[m] = None
      /\ ~b.holds /\ b.seen = {} /\ b.gone = {} /\ b.new = {} /\ b.disturbed = {}
  BY <1>1, BegunIs DEF BillingIInv, Kinds, Steps
<1>3. upload \in Seq(Line) /\ upload # <<>>
  BY BillingAssumption
<1>4. PICK n : n = [b EXCEPT !.rows = upload]
  OBVIOUS
<1>5. /\ n \in Transaction /\ n.rows = upload /\ n.kind = "import" /\ n.step = "bill"
      /\ \A m \in Months : n.billed[m] = None /\ n.adjusts[m] = None
      /\ ~n.holds /\ n.seen = {} /\ n.gone = {} /\ n.new = {}
  BY <1>2, <1>3, <1>4 DEF Transaction
<1>6. \A i \in DOMAIN upload : upload[i].month \in Months
  <2>1. \A i \in DOMAIN upload : upload[i] \in Line
    BY <1>3
  <2>2. QED BY <2>1 DEF Line
<1>7. \A i, k \in DOMAIN upload : upload[i].month = upload[k].month => i = k
  BY DEF Import, Importable
<1>8. RowsShaped(n)
  BY <1>3, <1>5, <1>6, <1>7 DEF RowsShaped, TrueUpSteps
<1>9. TruesUp(n)
  BY <1>5 DEF TruesUp, InHand, TrueUpSteps
<1>10. Sound(n)
  BY <1>5, <1>8, <1>9 DEF Sound, Shaped, StepsOf, SeatKinds, TrueUpSteps
<1>11. QED BY <1>1, <1>4, <1>5, <1>10, CallStep DEF Import

LEMMA SeatRequestStep ==
  ASSUME BillingIInv, NEW j \in Jobs,
         \/ \E plan \in Plans : PutSeat(j, plan)
         \/ DeleteSeat(j)
         \/ Materialize(j)
  PROVE  BillingIInv'
<1>1. ASSUME NEW plan \in Plans, PutSeat(j, plan) PROVE BillingIInv'
  <2>1. PICK b : b = Begun("put", "upsert")
    OBVIOUS
  <2>2. /\ b \in Transaction /\ b.kind = "put" /\ b.step = "upsert"
        /\ ~b.holds /\ b.seen = {} /\ b.gone = {} /\ b.new = {} /\ b.disturbed = {}
    BY <2>1, BegunIs DEF BillingIInv, Kinds, Steps
  <2>3. plan \in Plan /\ plan # None
    BY BillingAssumption
  <2>4. PICK n : n = [b EXCEPT !.plan = plan]
    OBVIOUS
  <2>5. /\ n \in Transaction /\ n.plan = plan /\ n.kind = "put" /\ n.step = "upsert"
        /\ ~n.holds /\ n.seen = {} /\ n.gone = {} /\ n.new = {}
    BY <2>2, <2>3, <2>4 DEF Transaction
  <2>6. SeatShaped(n)
    BY <2>3, <2>5, FS_EmptySet DEF SeatShaped, SeatSteps
  <2>7. SeatOK(n)
    BY <2>5 DEF SeatOK
  <2>8. Sound(n)
    BY <2>5, <2>6, <2>7 DEF Sound, Shaped, StepsOf
  <2>9. QED BY <1>1, <2>1, <2>4, <2>5, <2>8, CallStep DEF PutSeat
<1>2. ASSUME NEW kind \in {"delete", "materialize"}, NEW step \in Steps,
             kind = "delete" => step = "find", kind = "materialize" => step = "read",
             Call(j, Begun(kind, step)), UNCHANGED <<now, ledger, ghosts>>
      PROVE  BillingIInv'
  <2>1. PICK n : n = Begun(kind, step)
    OBVIOUS
  <2>2. /\ n \in Transaction /\ n.kind = kind /\ n.step = step /\ n.plan = None
        /\ ~n.holds /\ n.seen = {} /\ n.gone = {} /\ n.new = {} /\ n.disturbed = {}
    BY <1>2, <2>1, BegunIs DEF BillingIInv, Kinds
  <2>3. SeatShaped(n)
    BY <1>2, <2>2, FS_EmptySet DEF SeatShaped, SeatSteps
  <2>4. SeatOK(n)
    BY <1>2, <2>2 DEF SeatOK
  <2>5. Sound(n)
    BY <1>2, <2>2, <2>3, <2>4 DEF Sound, Shaped, StepsOf
  <2>6. QED BY <1>2, <2>1, <2>2, <2>5, CallStep
<1>3. CASE DeleteSeat(j)
  BY <1>2, <1>3 DEF DeleteSeat, Steps
<1>4. CASE Materialize(j)
  BY <1>2, <1>4 DEF Materialize, Steps
<1>5. QED BY <1>1, <1>3, <1>4

\* A step of a seat's transaction.
LEMMA SeatStep ==
  ASSUME BillingIInv, NEW j \in Jobs, NEW t \in Transaction, t = txn[j], t.kind \in SeatKinds,
         NEW n \in Transaction, n.kind = t.kind, n.step \in StepsOf(n.kind), SeatShaped(n), SeatOK(n),
         \A k \in Jobs \ {j} : txn[k] # Idle => Apart(n, txn[k]),
         txn' = [txn EXCEPT ![j] = n], UNCHANGED <<now, ledger, calls, ghosts>>
  PROVE  BillingIInv'
<1>1. Sound(n)
  BY DEF Sound, Shaped, SeatKinds
<1>2. QED BY <1>1, LocalStep DEF BillingIInv, Types

LEMMA OthersApart ==
  ASSUME BillingIInv, NEW j \in Jobs, txn[j] # Idle
  PROVE  \A k \in Jobs \ {j} : txn[k] # Idle => Apart(txn[j], txn[k])
BY DEF BillingIInv

LEMMA UpsertStep ==
  ASSUME BillingIInv, NEW j \in Jobs, Upsert(j)
  PROVE  BillingIInv'
<1>1. PICK t \in Transaction : t = txn[j] /\ t # Idle /\ t.step = "upsert" /\ Sound(t) /\ t.kind = "put"
  BY AtIts DEF Upsert, StepsOf, TrueUpSteps
<1>2. SeatShaped(t) /\ SeatOK(t)
  BY <1>1 DEF Sound, Shaped, SeatKinds
<1>3. PICK s \in IF Live # {} THEN Live ELSE Fresh :
        txn' = [txn EXCEPT ![j] = [txn[j] EXCEPT !.step = "clear", !.seat = s, !.holds = TRUE, !.disturbed = {}]]
  BY DEF Upsert, Continue
<1>4. s \in Seats /\ \A r \in Live : r = s
  BY <1>3 DEF Live, Fresh, BillingIInv, OneSeat
<1>5. PICK n : n = [t EXCEPT !.step = "clear", !.seat = s, !.holds = TRUE, !.disturbed = {}]
  OBVIOUS
<1>6. /\ n \in Transaction /\ n.kind = "put" /\ n.step = "clear" /\ n.seat = s /\ n.holds
      /\ n.plan = t.plan /\ n.seen = t.seen /\ n.gone = t.gone /\ n.new = t.new
  BY <1>1, <1>4, <1>5 DEF Transaction
<1>7. t.seen = {} /\ t.gone = {} /\ t.new = {} /\ t.plan # None
  BY <1>1, <1>2 DEF SeatShaped
<1>8. SeatShaped(n)
  BY <1>4, <1>6, <1>7, FS_EmptySet DEF SeatShaped
<1>9. SeatOK(n)
  BY <1>4, <1>6, <1>7 DEF SeatOK
<1>10. \A k \in Jobs \ {j} : txn[k] # Idle => Apart(n, txn[k])
  BY <1>6, <1>7 DEF Upsert, SeatHolders, Others, Busy, Apart, SameKey
<1>11. n.step \in StepsOf(n.kind)
  BY <1>6 DEF StepsOf
<1>12. QED BY <1>1, <1>3, <1>5, <1>6, <1>8, <1>9, <1>10, <1>11, SeatStep DEF Upsert, SeatKinds

LEMMA FindStep ==
  ASSUME BillingIInv, NEW j \in Jobs, Find(j)
  PROVE  BillingIInv'
<1>1. PICK t \in Transaction : t = txn[j] /\ t # Idle /\ t.step = "find" /\ Sound(t) /\ t.kind = "delete"
  <2>1. PICK t \in Transaction : t = txn[j] /\ t # Idle /\ t.step = "find" /\ Sound(t)
                                 /\ t.kind \in {"import", "sync", "put", "delete", "materialize"}
                                 /\ "find" \in StepsOf(t.kind)
    BY AtIts DEF Find
  <2>2. t.kind = "delete"
    BY <2>1 DEF StepsOf, TrueUpSteps
  <2>3. QED BY <2>1, <2>2
<1>2. SeatShaped(t) /\ SeatOK(t)
  BY <1>1 DEF Sound, Shaped, SeatKinds
<1>3. CASE Live = {}
  BY <1>3, Rollback DEF Find
<1>4. CASE Live # {}
  <2>1. PICK s \in Live :
          txn' = [txn EXCEPT ![j] = [txn[j] EXCEPT !.step = "clear", !.seat = s, !.disturbed = {}]]
    BY <1>4 DEF Find, Continue
  <2>2. s \in Seats
    BY DEF Live
  <2>3. PICK n : n = [t EXCEPT !.step = "clear", !.seat = s, !.disturbed = {}]
    OBVIOUS
  <2>4. /\ n \in Transaction /\ n.kind = "delete" /\ n.step = "clear" /\ n.seat = s /\ n.holds = t.holds
        /\ n.plan = t.plan /\ n.seen = t.seen /\ n.gone = t.gone /\ n.new = t.new
    BY <1>1, <2>2, <2>3 DEF Transaction
  <2>5. t.seen = {} /\ t.gone = {} /\ t.new = {} /\ t.plan = None /\ ~t.holds
    BY <1>1, <1>2 DEF SeatShaped
  <2>6. SeatShaped(n)
    BY <2>2, <2>4, <2>5, FS_EmptySet DEF SeatShaped
  <2>7. SeatOK(n)
    BY <2>4, <2>5 DEF SeatOK
  <2>8. \A k \in Jobs \ {j} : txn[k] # Idle => Apart(n, txn[k])
    BY <2>4, <2>5 DEF Apart, SameKey
  <2>9. n.step \in StepsOf(n.kind)
    BY <2>4 DEF StepsOf
  <2>10. QED BY <1>1, <2>1, <2>3, <2>4, <2>6, <2>7, <2>8, <2>9, SeatStep DEF Find, SeatKinds
<1>5. QED BY <1>3, <1>4

LEMMA ReadSeatsStep ==
  ASSUME BillingIInv, NEW j \in Jobs, ReadSeats(j)
  PROVE  BillingIInv'
<1>1. PICK t \in Transaction : t = txn[j] /\ t # Idle /\ t.step = "read" /\ Sound(t) /\ t.kind = "materialize"
  <2>1. PICK t \in Transaction : t = txn[j] /\ t # Idle /\ t.step = "read" /\ Sound(t)
                                 /\ t.kind \in {"import", "sync", "put", "delete", "materialize"}
                                 /\ "read" \in StepsOf(t.kind)
    BY AtIts DEF ReadSeats
  <2>2. t.kind = "materialize"
    BY <2>1 DEF StepsOf, TrueUpSteps
  <2>3. QED BY <2>1, <2>2
<1>2. SeatShaped(t) /\ SeatOK(t)
  BY <1>1 DEF Sound, Shaped, SeatKinds
<1>3. CASE Live = {}
  BY <1>3, Rollback DEF ReadSeats
<1>4. CASE Live # {}
  <2>1. PICK s \in Live :
          txn' = [txn EXCEPT ![j] = [txn[j] EXCEPT !.step = "clear", !.seat = s, !.plan = seats[s], !.disturbed = {}]]
    BY <1>4 DEF ReadSeats, Continue
  <2>2. s \in Seats /\ seats[s] \in Plan /\ seats[s] # None
    BY DEF Live, BillingIInv, Types
  <2>3. PICK n : n = [t EXCEPT !.step = "clear", !.seat = s, !.plan = seats[s], !.disturbed = {}]
    OBVIOUS
  <2>4. /\ n \in Transaction /\ n.kind = "materialize" /\ n.step = "clear" /\ n.seat = s /\ n.holds = t.holds
        /\ n.plan = seats[s] /\ n.seen = t.seen /\ n.gone = t.gone /\ n.new = t.new
    BY <1>1, <2>2, <2>3 DEF Transaction
  <2>5. t.seen = {} /\ t.gone = {} /\ t.new = {} /\ ~t.holds
    BY <1>1, <1>2 DEF SeatShaped
  <2>6. SeatShaped(n)
    BY <2>2, <2>4, <2>5, FS_EmptySet DEF SeatShaped
  <2>7. SeatOK(n)
    BY <2>4, <2>5 DEF SeatOK
  <2>8. \A k \in Jobs \ {j} : txn[k] # Idle => Apart(n, txn[k])
    BY <2>4, <2>5 DEF Apart, SameKey
  <2>9. n.step \in StepsOf(n.kind)
    BY <2>4 DEF StepsOf
  <2>10. QED BY <1>1, <2>1, <2>3, <2>4, <2>6, <2>7, <2>8, <2>9, SeatStep DEF ReadSeats, SeatKinds
<1>5. QED BY <1>3, <1>4

\* The kinds of the steps all seats' transactions share.
LEMMA SeatAt ==
  ASSUME BillingIInv, NEW j \in Jobs, NEW step \in SeatSteps \ {"commit"}, AtStep(j, step)
  PROVE  /\ txn[j] \in Transaction /\ txn[j] # Idle /\ txn[j].step = step /\ txn[j].kind \in SeatKinds
         /\ SeatShaped(txn[j]) /\ SeatOK(txn[j])
         /\ step = "drop" => txn[j].kind = "delete"
         /\ step = "fill" => txn[j].kind \in {"put", "materialize"}
<1>1. PICK t \in Transaction : t = txn[j] /\ t # Idle /\ t.step = step /\ Sound(t)
                               /\ t.kind \in {"import", "sync", "put", "delete", "materialize"}
                               /\ step \in StepsOf(t.kind)
  BY AtIts
<1>2. t.kind # "import" /\ t.kind # "sync"
  BY <1>1 DEF StepsOf, TrueUpSteps, SeatSteps
<1>3. t.kind \in SeatKinds /\ (step = "drop" => t.kind = "delete") /\ (step = "fill" => t.kind # "delete")
  BY <1>1, <1>2 DEF StepsOf, SeatKinds
<1>4. SeatShaped(t) /\ SeatOK(t)
  BY <1>1, <1>3 DEF Sound, Shaped
<1>5. QED BY <1>1, <1>2, <1>3, <1>4

LEMMA ClearStep ==
  ASSUME BillingIInv, NEW j \in Jobs, Clear(j)
  PROVE  BillingIInv'
<1>1. PICK t \in Transaction : /\ t = txn[j] /\ t # Idle /\ t.step = "clear" /\ t.kind \in SeatKinds
                               /\ SeatShaped(t) /\ SeatOK(t)
  BY SeatAt DEF Clear, SeatSteps
<1>2. PICK F \in SUBSET Fee : F = FactsOf(t.seat)
  BY DEF FactsOf, BillingIInv, Types
<1>3. PICK n : n = [t EXCEPT !.step = "clearing", !.seen = F]
  OBVIOUS
<1>4. /\ n \in Transaction /\ n.kind = t.kind /\ n.step = "clearing" /\ n.seat = t.seat /\ n.holds = t.holds
      /\ n.plan = t.plan /\ n.seen = F /\ n.gone = t.gone /\ n.new = t.new /\ n.disturbed = t.disturbed
  BY <1>2, <1>3 DEF Transaction
<1>5. txn' = [txn EXCEPT ![j] = n]
  BY <1>1, <1>2, <1>3 DEF Clear, Continue, FactsOf
<1>6. t.gone = {} /\ t.new = {}
  BY <1>1 DEF SeatShaped
<1>7. SeatShaped(n)
  BY <1>1, <1>4, <1>6 DEF SeatShaped, SeatSteps
<1>8. SeatOK(n)
  BY <1>1, <1>2, <1>4, <1>6 DEF SeatOK, FactsOf
<1>9. \A k \in Jobs \ {j} : txn[k] # Idle => Apart(n, txn[k])
  BY <1>1, <1>4, OthersApart DEF Apart
<1>10. n.step \in StepsOf(n.kind)
  BY <1>1, <1>4 DEF StepsOf, SeatKinds
<1>11. QED BY <1>1, <1>4, <1>5, <1>7, <1>8, <1>9, <1>10, SeatStep DEF Clear

LEMMA ClearedStep ==
  ASSUME BillingIInv, NEW j \in Jobs, Cleared(j)
  PROVE  BillingIInv'
<1>1. PICK t \in Transaction : /\ t = txn[j] /\ t # Idle /\ t.step = "clearing" /\ t.kind \in SeatKinds
                               /\ SeatShaped(t) /\ SeatOK(t)
  BY SeatAt DEF Cleared, SeatSteps
<1>2. PICK F \in SUBSET Fee : F = t.seen \cap fees
  BY DEF BillingIInv, Types
<1>3. PICK step \in {"drop", "fill"} : step = IF t.kind = "delete" THEN "drop" ELSE "fill"
  OBVIOUS
<1>4. PICK n : n = [t EXCEPT !.gone = F, !.seen = {}, !.step = step]
  OBVIOUS
<1>5. n \in Transaction
  <2>1. PICK o : o = [t EXCEPT !.gone = F, !.seen = {}]
    OBVIOUS
  <2>2. o \in Transaction
    BY <2>1 DEF Transaction
  <2>3. n = [o EXCEPT !.step = step]
    BY <1>4, <2>1 DEF Transaction
  <2>4. step \in Steps
    BY DEF Steps
  <2>5. QED BY <2>2, <2>3, <2>4 DEF Transaction, Steps
<1>6. /\ n.kind = t.kind /\ n.step = step /\ n.seat = t.seat /\ n.holds = t.holds
      /\ n.plan = t.plan /\ n.seen = {} /\ n.gone = F /\ n.new = t.new /\ n.disturbed = t.disturbed
  BY <1>4 DEF Transaction
<1>7. txn' = [txn EXCEPT ![j] = n]
  BY <1>1, <1>2, <1>3, <1>4 DEF Cleared, Continue
<1>8. t.new = {}
  BY <1>1 DEF SeatShaped
<1>9. SeatShaped(n)
  BY <1>1, <1>3, <1>6, <1>8 DEF SeatShaped, SeatSteps
<1>10. SeatOK(n)
  BY <1>1, <1>2, <1>3, <1>6, <1>8 DEF SeatOK, FactsOf
<1>11. \A k \in Jobs \ {j} : txn[k] # Idle => txn[k].gone \cap t.seen = {}
  BY <1>1 DEF Cleared, ClearHolders, Others, Busy
<1>12. \A k \in Jobs \ {j} : txn[k] # Idle => Apart(n, txn[k])
  BY <1>1, <1>2, <1>6, <1>11, OthersApart DEF Apart
<1>13. n.step \in StepsOf(n.kind)
  BY <1>1, <1>3, <1>6 DEF StepsOf, SeatKinds
<1>14. QED BY <1>1, <1>5, <1>6, <1>7, <1>9, <1>10, <1>12, <1>13, SeatStep DEF Cleared

LEMMA DropStep ==
  ASSUME BillingIInv, NEW j \in Jobs, DropSeat(j)
  PROVE  BillingIInv'
<1>1. PICK t \in Transaction : /\ t = txn[j] /\ t # Idle /\ t.step = "drop" /\ t.kind = "delete"
                               /\ SeatShaped(t) /\ SeatOK(t)
  BY SeatAt DEF DropSeat, SeatSteps
<1>2. PICK s \in Seats : s = t.seat
  BY <1>1 DEF SeatShaped, SeatSteps
<1>3. PICK h \in BOOLEAN : h = (seats[s] # None)
  OBVIOUS
<1>4. PICK n : n = [t EXCEPT !.holds = h, !.plan = None, !.step = "commit"]
  OBVIOUS
<1>5. /\ n \in Transaction /\ n.kind = "delete" /\ n.step = "commit" /\ n.seat = t.seat /\ n.holds = h
      /\ n.plan = None /\ n.seen = t.seen /\ n.gone = t.gone /\ n.new = t.new /\ n.disturbed = t.disturbed
  BY <1>1, <1>4 DEF Transaction
<1>6. txn' = [txn EXCEPT ![j] = n]
  BY <1>1, <1>2, <1>3, <1>4 DEF DropSeat, Continue
<1>7. t.new = {} /\ t.seen = {}
  BY <1>1 DEF SeatShaped
<1>8. SeatShaped(n)
  BY <1>1, <1>2, <1>5, <1>7, FS_EmptySet DEF SeatShaped
<1>9. h => \A r \in Live : r = s
  BY <1>3 DEF BillingIInv, OneSeat, Live
<1>10. SeatOK(n)
  BY <1>1, <1>2, <1>3, <1>5, <1>7, <1>9 DEF SeatOK
<1>11. \A k \in Jobs \ {j} : txn[k] # Idle => ~txn[k].holds
  BY DEF DropSeat, SeatHolders, Others, Busy
<1>12. \A k \in Jobs \ {j} : txn[k] # Idle => Apart(n, txn[k])
  BY <1>1, <1>5, <1>7, <1>11, OthersApart DEF Apart, SameKey
<1>13. n.step \in StepsOf(n.kind)
  BY <1>5 DEF StepsOf
<1>14. QED BY <1>1, <1>5, <1>6, <1>8, <1>10, <1>12, <1>13, SeatStep DEF DropSeat, SeatKinds

\* A seat's new facts are finitely many facts, of different months.
LEMMA FeesType ==
  ASSUME NEW t \in Transaction, t.seat \in Seats, t.plan # None
  PROVE  /\ FeesOf(t) \subseteq Fee /\ IsFiniteSet(FeesOf(t))
         /\ \A f \in FeesOf(t) : f.seat = t.seat
         /\ \A f, g \in FeesOf(t) : f.month = g.month => f = g
<1>1. t.plan \in Plan /\ t.plan.amount \in Nat /\ t.plan.first \in Months /\ t.call \in Nat /\ t.at \in Months
  BY DEF Transaction, Plan
<1>2. Bills(t.plan, t.at) \subseteq Months /\ Bills(t.plan, t.at) \subseteq t.plan.first .. t.at
  <2>1. PICK a, b \in Nat : a = t.plan.first /\ b = t.at /\ t.plan.first \in Months /\ t.at \in Months
    BY <1>1, BillingAssumption
  <2>2. Bills(t.plan, t.at) \subseteq Months
    BY DEF Bills
  <2>3. \A m \in Bills(t.plan, t.at) : m \in Nat /\ a <= m /\ m <= b
    BY <2>1, BillingAssumption DEF Bills
  <2>4. QED BY <2>1, <2>2, <2>3
<1>3. IsFiniteSet(t.plan.first .. t.at)
  <2>1. PICK a, b \in Nat : a = t.plan.first /\ b = t.at
    BY <1>1, BillingAssumption
  <2>2. IsFiniteSet(a .. b)
    BY FS_Interval
  <2>3. QED BY <2>1, <2>2
<1>4. IsFiniteSet(Bills(t.plan, t.at))
  BY <1>2, <1>3, FS_Subset
<1>5. PICK B : B = Bills(t.plan, t.at)
  OBVIOUS
<1>6. PICK h : h = [m \in B |-> [seat |-> t.seat, month |-> m, amount |-> t.plan.amount, call |-> t.call]]
  OBVIOUS
<1>7. h \in Surjection(B, FeesOf(t))
  BY <1>5, <1>6 DEF Surjection, FeesOf
<1>8. IsFiniteSet(FeesOf(t))
  BY <1>4, <1>5, <1>7, FS_Surjection
<1>9. FeesOf(t) \subseteq Fee
  BY <1>1, <1>2 DEF FeesOf, Fee
<1>10. QED BY <1>8, <1>9 DEF FeesOf

LEMMA FillStep ==
  ASSUME BillingIInv, NEW j \in Jobs, Fill(j)
  PROVE  BillingIInv'
<1>1. PICK t \in Transaction : /\ t = txn[j] /\ t # Idle /\ t.step = "fill" /\ t.kind \in {"put", "materialize"}
                               /\ t.kind \in SeatKinds /\ SeatShaped(t) /\ SeatOK(t)
  BY SeatAt DEF Fill, SeatSteps
<1>2. t.plan # None /\ t.seat \in Seats
  BY <1>1 DEF SeatShaped, SeatSteps
<1>3. PICK N \in SUBSET Fee : N = FeesOf(t)
  BY <1>2, FeesType
<1>4. NewFees(j) = N
  BY <1>1, <1>3 DEF NewFees, FeesOf
<1>5. CASE SameKey(fees \ t.gone, N)
  BY <1>1, <1>4, <1>5, Rollback DEF Fill
<1>6. CASE ~SameKey(fees \ t.gone, N)
  <2>1. PICK n : n = [t EXCEPT !.new = N, !.step = "commit"]
    OBVIOUS
  <2>2. /\ n \in Transaction /\ n.kind = t.kind /\ n.step = "commit" /\ n.seat = t.seat /\ n.holds = t.holds
        /\ n.plan = t.plan /\ n.seen = t.seen /\ n.gone = t.gone /\ n.new = N /\ n.disturbed = t.disturbed
        /\ n.call = t.call /\ n.at = t.at
    BY <1>3, <2>1 DEF Transaction
  <2>3. txn' = [txn EXCEPT ![j] = n]
    BY <1>1, <1>4, <1>6, <2>1 DEF Fill, Continue
  <2>4. FeesOf(n) = N
    BY <1>3, <2>2 DEF FeesOf
  <2>5. SeatShaped(n)
    BY <1>1, <1>2, <1>3, <2>2, <2>4, FeesType DEF SeatShaped, SeatSteps
  <2>6. \A f \in N, g \in fees : f.seat = g.seat /\ f.month = g.month => g \in t.gone
    BY <1>6 DEF SameKey
  <2>7. SeatOK(n)
    BY <1>1, <1>2, <1>3, <2>2, <2>6, FeesType DEF SeatOK
  <2>8. \A k \in Jobs \ {j} : txn[k] # Idle => ~SameKey(txn[k].new, N)
    BY <1>4 DEF Fill, FillHolders, Others, Busy
  <2>9. \A k \in Jobs \ {j} : txn[k] # Idle => Apart(n, txn[k])
    BY <1>1, <2>2, <2>8, OthersApart DEF Apart, SameKey
  <2>10. n.step \in StepsOf(n.kind)
    BY <1>1, <2>2 DEF StepsOf, SeatKinds
  <2>11. QED BY <1>1, <2>2, <2>3, <2>5, <2>7, <2>9, <2>10, SeatStep DEF Fill
<1>7. QED BY <1>5, <1>6

-----------------------------------------------------------------------------
(***************************************************************************)
(* Commits, and what they do to the others in flight.                      *)
(***************************************************************************)
Touch(t, W) == [t EXCEPT !.disturbed = @ \cup W]
SameMonth(m) ==
  /\ invoices'[m] = invoices[m] /\ adjusted'[m] = adjusted[m] /\ Base(m)' = Base(m)
  /\ Converts(m) => Converts(m)'

LEMMA TouchIs ==
  ASSUME NEW t \in Transaction, NEW W \in SUBSET (Months \cup {0}), NEW u, u = Touch(t, W)
  PROVE  /\ u \in Transaction /\ u.disturbed = t.disturbed \cup W
         /\ u.kind = t.kind /\ u.step = t.step /\ u.call = t.call /\ u.at = t.at
         /\ u.rows = t.rows /\ u.base = t.base /\ u.billed = t.billed /\ u.adjusts = t.adjusts
         /\ u.seat = t.seat /\ u.plan = t.plan /\ u.holds = t.holds
         /\ u.seen = t.seen /\ u.gone = t.gone /\ u.new = t.new
BY DEF Touch, Transaction

LEMMA ShapedTouched ==
  ASSUME NEW t \in Transaction, NEW W \in SUBSET (Months \cup {0}), NEW u, u = Touch(t, W), Shaped(t)
  PROVE  Shaped(u)
<1>1. FeesOf(u) = FeesOf(t)
  BY TouchIs DEF FeesOf
<1>2. RowsShaped(t) => RowsShaped(u)
  BY TouchIs DEF RowsShaped
<1>3. SeatShaped(t) => SeatShaped(u)
  BY <1>1, TouchIs DEF SeatShaped
<1>4. QED BY <1>2, <1>3, TouchIs DEF Shaped

LEMMA TruesUpTouched ==
  ASSUME NEW t \in Transaction, NEW W \in SUBSET (Months \cup {0}), NEW u, u = Touch(t, W), TruesUp(t),
         \A m \in Months \ W : SameMonth(m)
  PROVE  TruesUp(u)'
<1>1. SUFFICES ASSUME NEW m \in Months \ u.disturbed
      PROVE  /\ InHand(u, m) =>
                  /\ u.kind = "sync" => invoices'[m] = Head(u.rows).amount
                  /\ u.step \in {"base", "adjust"} => Converts(m)'
                  /\ u.step = "adjust" => u.base = Base(m)'
             /\ u.billed[m] # None \/ u.adjusts[m] # None => InHand(u, m) \/ MadeUp(u, m)'
  BY DEF TruesUp, InHand
<1>2. m \in Months \ t.disturbed /\ SameMonth(m)
  BY TouchIs
<1>3. InHand(u, m) = InHand(t, m)
  BY TouchIs DEF InHand
<1>4. MadeUp(t, m) => MadeUp(u, m)'
  BY <1>2, TouchIs DEF MadeUp, Billed, SameMonth
<1>5. QED BY <1>2, <1>3, <1>4, TouchIs DEF TruesUp, SameMonth

\* A commit disturbs the others; each of them is sound again.
LEMMA OthersStay ==
  ASSUME BillingIInv, NEW j, NEW W \in SUBSET (Months \cup {0}), NEW next \in Transaction \cup {Idle}, Disturb(j, next, W),
         \A m \in Months \ W : SameMonth(m),
         \A k \in Jobs \ {j}, t \in Transaction :
           t = txn[k] /\ t # Idle /\ t.kind \in SeatKinds => SeatOK(Touch(t, W))',
         next # Idle => /\ Sound(next)'
                        /\ ~next.holds /\ next.gone = {} /\ next.new = {}
  PROVE  /\ txn' \in [Jobs -> Transaction \cup {Idle}]
         /\ \A k \in Jobs : txn'[k] # Idle => Sound(txn[k])'
         /\ \A k, l \in Jobs : txn'[k] # Idle /\ txn'[l] # Idle /\ k # l => Apart(txn[k], txn[l])'
<1>1. ASSUME NEW k \in Jobs
      PROVE  \/ k = j /\ txn'[k] = next
             \/ k # j /\ txn[k] = Idle /\ txn'[k] = Idle
             \/ /\ k # j /\ txn[k] # Idle /\ txn[k] \in Transaction /\ txn'[k] = Touch(txn[k], W)
                /\ txn'[k] \in Transaction
  <2>1. txn[k] \in Transaction \cup {Idle}
    BY DEF BillingIInv, Types
  <2>2. txn'[k] = IF k = j THEN next ELSE IF txn[k] = Idle THEN Idle ELSE Touch(txn[k], W)
    BY DEF Disturb, Touch
  <2>3. QED BY <2>1, <2>2, TouchIs
<1>2. txn' \in [Jobs -> Transaction \cup {Idle}]
  BY <1>1 DEF Disturb
<1>3. ASSUME NEW k \in Jobs, txn'[k] # Idle PROVE Sound(txn[k])'
  <2>1. CASE k = j
    <3>1. txn'[k] = next
      BY <2>1, <1>1
    <3>2. QED BY <3>1, <1>3
  <2>2. CASE k # j
    <3>1. PICK t \in Transaction : t = txn[k] /\ t # Idle /\ txn'[k] = Touch(t, W)
      BY <1>1, <1>3, <2>2
    <3>2. PICK u : u = Touch(t, W)
      OBVIOUS
    <3>3. Sound(t)
      BY <3>1 DEF BillingIInv
    <3>4. Shaped(u)
      BY <3>2, <3>3, ShapedTouched DEF Sound
    <3>5. u.kind = t.kind
      BY <3>2, TouchIs
    <3>6. u.kind \in {"import", "sync"} => TruesUp(u)'
      BY <3>2, <3>3, <3>5, TruesUpTouched DEF Sound
    <3>7. u.kind \in SeatKinds => SeatOK(u)'
      BY <2>2, <3>1, <3>2, <3>5, Zenon
    <3>8. Sound(u)'
      BY <3>4, <3>6, <3>7 DEF Sound, Shaped, RowsShaped, SeatShaped, FeesOf, SeatKinds
    <3>9. QED BY <3>1, <3>2, <3>8
  <2>3. QED BY <2>1, <2>2
<1>4. ASSUME NEW k \in Jobs, NEW l \in Jobs, txn'[k] # Idle, txn'[l] # Idle, k # l
      PROVE  Apart(txn[k], txn[l])'
  <2>1. PICK u, v : u = txn'[k] /\ v = txn'[l]
    OBVIOUS
  <2>2. CASE k = j \/ l = j
    <3>1. \/ ~u.holds /\ u.gone = {} /\ u.new = {}
          \/ ~v.holds /\ v.gone = {} /\ v.new = {}
      BY <1>1, <1>4, <2>1, <2>2
    <3>2. QED BY <2>1, <3>1 DEF Apart, SameKey
  <2>3. CASE k # j /\ l # j
    <3>1. PICK r, t \in Transaction : r = txn[k] /\ t = txn[l] /\ r # Idle /\ t # Idle
                                      /\ u = Touch(r, W) /\ v = Touch(t, W)
      BY <1>1, <1>4, <2>1, <2>3
    <3>2. Apart(r, t)
      BY <1>4, <3>1 DEF BillingIInv
    <3>3. u.holds = r.holds /\ u.gone = r.gone /\ u.new = r.new
      BY <3>1, TouchIs
    <3>4. v.holds = t.holds /\ v.gone = t.gone /\ v.new = t.new
      BY <3>1, TouchIs
    <3>5. QED BY <2>1, <3>2, <3>3, <3>4 DEF Apart
  <2>4. QED BY <2>2, <2>3
<1>5. QED BY <1>2, <1>3, <1>4

\* What a commit that leaves the seats alone needs of the others' facts.
LEMMA SeatOKTouched ==
  ASSUME NEW t \in Transaction, NEW W \in SUBSET (Months \cup {0}), SeatOK(t), UNCHANGED <<seats, fees>>
  PROVE  SeatOK(Touch(t, W))'
<1>1. PICK u : u = Touch(t, W)
  OBVIOUS
<1>2. SeatOK(u)
  BY <1>1, TouchIs DEF SeatOK
<1>3. SeatOK(u)'
  BY <1>2 DEF SeatOK, FactsOf, Live
<1>4. QED BY <1>1, <1>3 DEF Touch

LEMMA SeatsStay ==
  ASSUME BillingIInv, UNCHANGED <<seats, fees, upto>>
  PROVE  Keyed' /\ OneSeat' /\ \A s \in Seats \ raced : Bears(s)'
BY DEF BillingIInv, Keyed, OneSeat, Live, Bears, FactsOf, Owed

LEMMA FxStep ==
  ASSUME BillingIInv, FxSync
  PROVE  BillingIInv'
<1>1. PICK W \in SUBSET (Months \cup {0}) : W = foreign
  BY DEF BillingIInv, Types
<1>2. UNCHANGED <<now, invoices, synced, foreign, adjusted, seats, fees, calls, raced, upto>> /\ rated' = TRUE
  BY DEF FxSync
<1>3. ASSUME NEW m \in Months \ W PROVE SameMonth(m)
  <2>1. m \notin foreign /\ m \notin foreign'
    BY <1>1, <1>2
  <2>2. Base(m)' = Base(m)
    BY <1>2, <2>1, BaseIs
  <2>3. QED BY <1>2, <2>1, <2>2 DEF SameMonth, Converts
<1>4. ASSUME NEW k \in Jobs \ {None}, NEW t \in Transaction, t = txn[k], t # Idle, t.kind \in SeatKinds
      PROVE  SeatOK(Touch(t, W))'
  BY <1>2, <1>4, SeatOKTouched DEF BillingIInv, Sound
<1>5. Disturb(None, Idle, W)
  <2>1. None \notin Jobs
    BY BillingAssumption
  <2>2. QED BY <1>1, <2>1 DEF FxSync, Disturb
<1>6. /\ txn' \in [Jobs -> Transaction \cup {Idle}]
      /\ \A k \in Jobs : txn'[k] # Idle => Sound(txn[k])'
      /\ \A k, l \in Jobs : txn'[k] # Idle /\ txn'[l] # Idle /\ k # l => Apart(txn[k], txn[l])'
  BY <1>3, <1>4, <1>5, OthersStay
<1>7. loose' = loose \cup W
  BY <1>1 DEF FxSync
<1>8. Types'
  BY <1>1, <1>2, <1>6, <1>7 DEF Types, BillingIInv
<1>9. ASSUME NEW m \in Months PROVE Settled(m)'
  <2>1. CASE m \in W
    BY <2>1, <1>7 DEF Settled
  <2>2. CASE m \notin W
    <3>1. SameMonth(m) /\ Settled(m)
      BY <2>2, <1>3 DEF BillingIInv
    <3>2. QED BY <3>1, <1>7 DEF Settled, SameMonth
  <2>3. QED BY <2>1, <2>2
<1>10. Keyed' /\ OneSeat' /\ \A s \in Seats \ raced' : Bears(s)'
  BY <1>2, SeatsStay
<1>11. QED BY <1>6, <1>8, <1>9, <1>10, Zenon DEF BillingIInv

LEMMA SyncStep ==
  ASSUME BillingIInv, NEW j \in Jobs, NEW m \in Months, NEW amount \in Restated,
         NEW alien \in SUBSET (Alien \cap {m}), Sync(j, m, amount, alien)
  PROVE  BillingIInv'
<1>1. /\ UNCHANGED <<now, invoices, rated, adjusted, seats, fees, raced, upto>>
      /\ synced' = [synced EXCEPT ![m] = amount] /\ foreign' = foreign \cup alien
      /\ calls < MaxCalls /\ calls' = calls + 1 /\ loose' = loose \cup {m}
  BY DEF Sync
<1>2. ASSUME NEW x \in Months \ {m} PROVE SameMonth(x)
  <2>1. synced'[x] = synced[x] /\ (x \in foreign' <=> x \in foreign)
    BY <1>1 DEF BillingIInv, Types
  <2>2. Base(x)' = Base(x)
    BY <1>1, <2>1, BaseIs
  <2>3. QED BY <1>1, <2>1, <2>2 DEF SameMonth, Converts
<1>3. ASSUME NEW k \in Jobs \ {j}, NEW t \in Transaction, t = txn[k], t # Idle, t.kind \in SeatKinds
      PROVE  SeatOK(Touch(t, {m}))'
  BY <1>1, <1>3, SeatOKTouched DEF BillingIInv, Sound
<1>4. PICK r : r = <<[month |-> m, amount |-> 0]>>
  OBVIOUS
<1>5. r \in Seq(Line) /\ Len(r) = 1 /\ r # <<>> /\ DOMAIN r = {1} /\ r[1].month = m
  BY <1>4 DEF Line
<1>6. PICK b : b = Begun("sync", "list")
  OBVIOUS
<1>7. /\ b \in Transaction /\ b.kind = "sync" /\ b.step = "list"
      /\ \A x \in Months : b.billed[x] = None /\ b.adjusts[x] = None
      /\ ~b.holds /\ b.seen = {} /\ b.gone = {} /\ b.new = {} /\ b.disturbed = {}
  BY <1>6, BegunIs DEF BillingIInv, Kinds, Steps
<1>8. PICK n : n = [b EXCEPT !.rows = r]
  OBVIOUS
<1>9. /\ n \in Transaction /\ n.rows = r /\ n.kind = "sync" /\ n.step = "list"
      /\ \A x \in Months : n.billed[x] = None /\ n.adjusts[x] = None
      /\ ~n.holds /\ n.seen = {} /\ n.gone = {} /\ n.new = {}
  BY <1>5, <1>7, <1>8 DEF Transaction
<1>10. RowsShaped(n)
  <2>1. Len(n.rows) <= 1 /\ n.rows # <<>>
    <3>1. Len(n.rows) = 1 /\ n.rows # <<>>
      BY <1>5, <1>9, Zenon
    <3>2. QED BY <3>1
  <2>2. \A i \in DOMAIN n.rows : i = 1 /\ n.rows[i].month = m
    BY <1>5, <1>9
  <2>3. QED BY <2>1, <2>2, <1>9 DEF RowsShaped, TrueUpSteps
<1>11. TruesUp(n)'
  BY <1>9 DEF TruesUp, InHand, TrueUpSteps
<1>12. Sound(n)'
  BY <1>9, <1>10, <1>11 DEF Sound, Shaped, RowsShaped, StepsOf, SeatKinds, TrueUpSteps
<1>13. Disturb(j, n, {m})
  BY <1>4, <1>6, <1>8 DEF Sync
<1>14. /\ txn' \in [Jobs -> Transaction \cup {Idle}]
       /\ \A k \in Jobs : txn'[k] # Idle => Sound(txn[k])'
       /\ \A k, l \in Jobs : txn'[k] # Idle /\ txn'[l] # Idle /\ k # l => Apart(txn[k], txn[l])'
  BY <1>2, <1>3, <1>9, <1>12, <1>13, OthersStay
<1>15. Types'
  <2>1. Types
    BY DEF BillingIInv
  <2>2. amount \in Int /\ alien \subseteq Months
    BY BillingAssumption
  <2>3. synced' \in [Months -> Int]
    BY <1>1, <2>1, <2>2 DEF Types
  <2>4. foreign' \subseteq Months /\ loose' \subseteq Months
    BY <1>1, <2>1, <2>2 DEF Types
  <2>5. calls' \in Nat /\ calls' <= MaxCalls
    BY <1>1, <2>1, BillingAssumption DEF Types
  <2>6. QED BY <1>1, <1>14, <2>1, <2>3, <2>4, <2>5 DEF Types
<1>16. ASSUME NEW x \in Months PROVE Settled(x)'
  <2>1. CASE x = m
    BY <2>1, <1>1 DEF Settled
  <2>2. CASE x # m
    <3>1. SameMonth(x) /\ Settled(x)
      BY <2>2, <1>2 DEF BillingIInv
    <3>2. QED BY <3>1, <1>1 DEF Settled, SameMonth
  <2>3. QED BY <2>1, <2>2
<1>17. Keyed' /\ OneSeat' /\ \A s \in Seats \ raced' : Bears(s)'
  BY <1>1, SeatsStay
<1>18. QED BY <1>14, <1>15, <1>16, <1>17, Zenon DEF BillingIInv

LEMMA CommitInvoicesStep ==
  ASSUME BillingIInv, NEW j \in Jobs, CommitInvoices(j)
  PROVE  BillingIInv'
<1>1. PICK t \in Transaction : t = txn[j] /\ t # Idle /\ t.step = "commit" /\ Sound(t)
                               /\ t.kind \in {"import", "sync"}
  BY AtIts DEF CommitInvoices
<1>2. RowsShaped(t) /\ TruesUp(t)
  BY <1>1 DEF Sound, Shaped
<1>3. PICK W \in SUBSET (Months \cup {0}) : W = Trued(j)
  BY DEF Trued, Written
<1>4. W = {m \in Months : t.billed[m] # None \/ t.adjusts[m] # None}
  BY <1>1, <1>3 DEF Trued, Written
<1>5. /\ UNCHANGED <<now, synced, foreign, rated, seats, fees, calls, raced, upto>>
      /\ loose' = (loose \ (W \ t.disturbed)) \cup (W \cap t.disturbed)
      /\ \A m \in Months : invoices'[m] = IF t.billed[m] # None THEN t.billed[m] ELSE invoices[m]
      /\ \A m \in Months : adjusted'[m] = IF t.adjusts[m] # None THEN t.adjusts[m] ELSE adjusted[m]
  BY <1>1, <1>3 DEF CommitInvoices, Override
<1>6. ASSUME NEW m \in Months PROVE Base(m)' = Base(m) /\ Converts(m)' = Converts(m)
  BY <1>5, BaseIs DEF Converts
<1>7. ASSUME NEW m \in Months \ W PROVE SameMonth(m)
  BY <1>4, <1>5, <1>6 DEF SameMonth
<1>8. ASSUME NEW k \in Jobs \ {j}, NEW r \in Transaction, r = txn[k], r # Idle, r.kind \in SeatKinds
      PROVE  SeatOK(Touch(r, W))'
  BY <1>5, <1>8, SeatOKTouched DEF BillingIInv, Sound
<1>9. Disturb(j, Idle, W)
  BY <1>3 DEF CommitInvoices
<1>10. /\ txn' \in [Jobs -> Transaction \cup {Idle}]
       /\ \A k \in Jobs : txn'[k] # Idle => Sound(txn[k])'
       /\ \A k, l \in Jobs : txn'[k] # Idle /\ txn'[l] # Idle /\ k # l => Apart(txn[k], txn[l])'
  BY <1>7, <1>8, <1>9, OthersStay
<1>11. Types'
  <2>1. t.billed \in Amounts /\ t.adjusts \in Amounts
    BY DEF Transaction
  <2>2. invoices' \in [Months -> Int \cup {None}] /\ adjusted' \in [Months -> Int]
    BY <1>1, <2>1 DEF CommitInvoices, Override, Amounts, BillingIInv, Types
  <2>3. loose' \subseteq Months
    BY <1>4, <1>5 DEF BillingIInv, Types
  <2>4. QED BY <1>5, <1>10, <2>2, <2>3 DEF Types, BillingIInv
<1>12. ASSUME NEW m \in Months PROVE Settled(m)'
  <2>1. CASE m \notin W
    BY <2>1, <1>5, <1>7 DEF BillingIInv, Settled, SameMonth
  <2>2. CASE m \in W /\ m \in t.disturbed
    BY <2>2, <1>5 DEF Settled
  <2>3. CASE m \in W /\ m \notin t.disturbed
    <3>1. ~InHand(t, m)
      BY <1>1 DEF InHand, TrueUpSteps
    <3>2. MadeUp(t, m)
      BY <2>3, <3>1, <1>2, <1>4 DEF TruesUp
    <3>3. Billed(t, m) = invoices'[m]
      BY <2>3, <1>1, <1>2, <1>4, <1>5 DEF Billed, RowsShaped
    <3>4. adjusted'[m] = invoices'[m] - Base(m)
      <4>1. CASE t.adjusts[m] # None
        BY <4>1, <3>2, <3>3, <1>5 DEF MadeUp
      <4>2. CASE t.adjusts[m] = None
        <5>1. adjusted'[m] = 0 /\ invoices'[m] = Base(m)
          BY <4>2, <3>2, <3>3, <1>5 DEF MadeUp
        <5>2. PICK b \in Int : b = Base(m)
          BY BaseType DEF BillingIInv
        <5>3. QED BY <5>1, <5>2
      <4>3. QED BY <4>1, <4>2
    <3>5. QED BY <3>2, <3>4, <1>6 DEF Settled, MadeUp
  <2>4. QED BY <2>1, <2>2, <2>3
<1>13. Keyed' /\ OneSeat' /\ \A s \in Seats \ raced' : Bears(s)'
  BY <1>5, SeatsStay
<1>14. QED BY <1>10, <1>11, <1>12, <1>13, Zenon DEF BillingIInv

\* The facts a seat's transaction inserts are what the plan owes.
LEMMA FeesAreOwed ==
  ASSUME NEW t \in Transaction, t.plan # None
  PROVE  {<<f.month, f.amount>> : f \in FeesOf(t)} = Owed(t.plan, t.at)
<1>1. PICK a, b \in Nat : a = t.plan.first /\ b = t.at /\ t.plan.first \in Months /\ t.at \in Months
  BY BillingAssumption DEF Transaction, Plan
<1>2. a .. b \subseteq Months
  BY <1>1, BillingAssumption
<1>3. PICK B : B = Bills(t.plan, t.at)
  OBVIOUS
<1>4. {<<f.month, f.amount>> : f \in FeesOf(t)} = {<<m, t.plan.amount>> : m \in B}
  <2>1. \A m \in B : \E f \in FeesOf(t) : f.month = m /\ f.amount = t.plan.amount
    <3> SUFFICES ASSUME NEW m \in B PROVE \E f \in FeesOf(t) : f.month = m /\ f.amount = t.plan.amount
      OBVIOUS
    <3> DEFINE f == [seat |-> t.seat, month |-> m, amount |-> t.plan.amount, call |-> t.call]
    <3>1. f \in FeesOf(t)
      BY <1>3 DEF FeesOf
    <3>2. f.month = m /\ f.amount = t.plan.amount
      OBVIOUS
    <3>3. QED BY <3>1, <3>2
  <2>2. \A f \in FeesOf(t) : \E m \in B : f.month = m /\ f.amount = t.plan.amount
    BY <1>3 DEF FeesOf
  <2>3. QED BY <2>1, <2>2
<1>5. CASE t.plan.amount = 0
  BY <1>3, <1>4, <1>5 DEF Bills, Owed
<1>6. CASE t.plan.amount # 0
  <2>1. B = {m \in Months : a <= m /\ m <= b /\ (t.plan.last = None \/ m <= t.plan.last)}
    BY <1>1, <1>3, <1>6 DEF Bills
  <2>2. \A m \in Months : m \in Nat
    BY BillingAssumption
  <2>3. B = {m \in a .. b : t.plan.last = None \/ m <= t.plan.last}
    BY <1>2, <2>1, <2>2
  <2>4. QED BY <1>1, <1>4, <1>6, <2>3 DEF Owed
<1>7. QED BY <1>5, <1>6

LEMMA CommitSeatStep ==
  ASSUME BillingIInv, NEW j \in Jobs, CommitSeat(j)
  PROVE  BillingIInv'
<1>1. PICK t \in Transaction : /\ t = txn[j] /\ t # Idle /\ t.step = "commit" /\ Sound(t)
                               /\ t.kind \in {"put", "delete", "materialize"}
  BY AtIts DEF CommitSeat
<1>2. SeatShaped(t) /\ SeatOK(t)
  BY <1>1 DEF Sound, Shaped, SeatKinds
<1>3. PICK s \in Seats : s = t.seat
  BY <1>1, <1>2 DEF SeatShaped, SeatSteps
<1>4. t.new \subseteq Fee /\ t.gone \subseteq Fee /\ IsFiniteSet(t.new) /\ t.gone \subseteq fees
      /\ t.plan \in Plan \cup {None} /\ t.at \in Months /\ t.holds \in BOOLEAN
  BY <1>2 DEF Transaction, SeatShaped, SeatOK
<1>5. PICK touched \in SUBSET Months : touched = {f.month : f \in t.gone \cup t.new}
  BY <1>4 DEF Fee
<1>6. PICK W \in SUBSET (Months \cup {0}) : W = touched \cup {0}
  OBVIOUS
<1>7. /\ UNCHANGED <<now, invoices, synced, foreign, rated, adjusted, calls>>
      /\ fees' = (fees \ t.gone) \cup t.new /\ loose' = loose \cup touched
      /\ seats' = IF t.holds THEN [seats EXCEPT ![s] = t.plan] ELSE seats
      /\ raced' = IF 0 \in t.disturbed THEN raced \cup {s} ELSE raced \ {s}
      /\ upto' = [upto EXCEPT ![s] = t.at]
      /\ Disturb(j, Idle, W)
  BY <1>1, <1>3, <1>5, <1>6 DEF CommitSeat
<1>8. \A f \in t.gone \cup t.new : f.seat = s
  BY <1>2, <1>3 DEF SeatOK
<1>9. ASSUME NEW m \in Months \ W PROVE SameMonth(m)
  <2>1. {f \in fees' : f.month = m} = {f \in fees : f.month = m}
    BY <1>5, <1>6, <1>7
  <2>2. Base(m)' = Base(m)
    BY <1>7, <2>1, BaseIs
  <2>3. QED BY <1>7, <2>2 DEF SameMonth, Converts
<1>10. ASSUME NEW k \in Jobs \ {j}, NEW r \in Transaction, r = txn[k], r # Idle, r.kind \in SeatKinds
       PROVE  SeatOK(Touch(r, W))'
  <2>1. PICK u : u = Touch(r, W)
    OBVIOUS
  <2>2. Apart(t, r) /\ SeatOK(r)
    BY <1>1, <1>10 DEF BillingIInv, Sound
  <2>3. 0 \in u.disturbed /\ u.seat = r.seat /\ u.holds = r.holds
        /\ u.seen = r.seen /\ u.gone = r.gone /\ u.new = r.new
    BY <1>6, <2>1, TouchIs
  <2>4. u.gone \subseteq fees'
    BY <1>7, <2>2, <2>3 DEF Apart, SeatOK
  <2>5. \A f \in u.seen \cup u.gone \cup u.new : f.seat = u.seat
    BY <2>2, <2>3 DEF SeatOK
  <2>6. \A f \in u.new, g \in fees' : f.seat = g.seat /\ f.month = g.month => g \in u.gone
    BY <1>7, <2>2, <2>3 DEF Apart, SeatOK, SameKey
  <2>7. u.holds => \A x \in Live' : x = u.seat
    BY <1>7, <2>2, <2>3 DEF Apart, SeatOK, Live
  <2>8. SeatOK(u)'
    BY <2>3, <2>4, <2>5, <2>6, <2>7 DEF SeatOK
  <2>9. QED BY <2>1, <2>8 DEF Touch
<1>11. /\ txn' \in [Jobs -> Transaction \cup {Idle}]
       /\ \A k \in Jobs : txn'[k] # Idle => Sound(txn[k])'
       /\ \A k, l \in Jobs : txn'[k] # Idle /\ txn'[l] # Idle /\ k # l => Apart(txn[k], txn[l])'
  BY <1>7, <1>9, <1>10, OthersStay
<1>12. Types'
  <2>1. fees' \subseteq Fee
    BY <1>4, <1>7 DEF BillingIInv, Types
  <2>2. IsFiniteSet(fees')
    <3>1. IsFiniteSet(fees \ t.gone)
      BY FS_Difference DEF BillingIInv, Types
    <3>2. QED BY <1>4, <1>7, <3>1, FS_Union
  <2>3. seats' \in [Seats -> Plan \cup {None}]
    BY <1>4, <1>7 DEF BillingIInv, Types
  <2>4. raced' \subseteq Seats /\ loose' \subseteq Months /\ upto' \in [Seats -> Months]
    BY <1>4, <1>7 DEF BillingIInv, Types
  <2>5. QED BY <1>7, <1>11, <2>1, <2>2, <2>3, <2>4 DEF Types, BillingIInv
<1>13. \A f, g \in t.new : f.month = g.month => f = g
  BY <1>1, <1>2, <1>3, FeesType DEF SeatShaped
<1>14. Keyed'
  BY <1>2, <1>7, <1>8, <1>13 DEF Keyed, BillingIInv, SeatOK
<1>15. OneSeat'
  BY <1>2, <1>3, <1>7 DEF OneSeat, BillingIInv, SeatOK, Live, Types
<1>16. ASSUME NEW m \in Months PROVE Settled(m)'
  <2>1. CASE m \in touched
    BY <2>1, <1>7 DEF Settled
  <2>2. CASE m \notin touched /\ m # 0
    <3>1. SameMonth(m) /\ Settled(m)
      BY <2>2, <1>6, <1>9 DEF BillingIInv
    <3>2. QED BY <3>1, <1>7 DEF Settled, SameMonth
  <2>3. CASE m \notin touched /\ m = 0
    <3>1. {f \in fees' : f.month = m} = {f \in fees : f.month = m}
      BY <2>3, <1>5, <1>7
    <3>2. Base(m)' = Base(m)
      BY <1>7, <3>1, BaseIs
    <3>3. QED BY <1>7, <3>2 DEF Settled, Converts, BillingIInv
  <2>4. QED BY <2>1, <2>2, <2>3
<1>17. ASSUME NEW r \in Seats \ raced' PROVE Bears(r)'
  <2>1. CASE r # s
    <3>1. FactsOf(r)' = FactsOf(r)
      BY <2>1, <1>7, <1>8 DEF FactsOf
    <3>2. seats'[r] = seats[r] /\ upto'[r] = upto[r] /\ r \notin raced
      BY <2>1, <1>7 DEF BillingIInv, Types
    <3>3. QED BY <3>1, <3>2 DEF BillingIInv, Bears, Owed
  <2>2. CASE r = s
    <3>. upto'[s] = t.at
      BY <1>7 DEF BillingIInv, Types
    <3>1. 0 \notin t.disturbed
      BY <2>2, <1>7
    <3>2. t.gone = FactsOf(s)
      BY <3>1, <1>1, <1>2, <1>3 DEF SeatOK
    <3>3. FactsOf(s)' = t.new
      BY <3>2, <1>7, <1>8 DEF FactsOf
    <3>4. CASE t.kind = "delete"
      <4>1. t.new = {} /\ t.plan = None
        BY <3>4, <1>2 DEF SeatShaped
      <4>2. seats'[s] = None
        BY <3>1, <3>4, <4>1, <1>1, <1>2, <1>3, <1>7 DEF SeatOK, BillingIInv, Types
      <4>3. QED BY <2>2, <3>3, <4>1, <4>2, <1>4 DEF Bears, Owed
    <3>5. CASE t.kind # "delete"
      <4>1. t.new = FeesOf(t) /\ t.plan # None
        BY <3>5, <1>1, <1>2 DEF SeatShaped
      <4>2. seats'[s] = t.plan
        BY <3>1, <3>5, <1>1, <1>2, <1>3, <1>7 DEF SeatShaped, SeatOK, BillingIInv, Types
      <4>3. {<<f.month, f.amount>> : f \in t.new} = Owed(t.plan, t.at)
        BY <4>1, FeesAreOwed
      <4>4. QED BY <2>2, <3>3, <4>2, <4>3, <1>4 DEF Bears, Owed
    <3>6. QED BY <3>4, <3>5
  <2>3. QED BY <2>1, <2>2
<1>18. QED BY <1>11, <1>12, <1>14, <1>15, <1>16, <1>17, Zenon DEF BillingIInv

-----------------------------------------------------------------------------
LEMMA Starts == BillingInit => BillingIInv
<1> SUFFICES ASSUME BillingInit PROVE BillingIInv
  OBVIOUS
<1>1. Types
  <2>1. FirstNow \in Months /\ MaxCalls \in Nat
    BY BillingAssumption
  <2>2. now \in Months /\ calls \in Nat /\ calls <= MaxCalls /\ foreign \subseteq Months /\ rated \in BOOLEAN
    <3>1. calls = 0 /\ now = FirstNow /\ foreign = {} /\ rated = FALSE
      BY DEF BillingInit
    <3>2. rated \in BOOLEAN
      BY <3>1, Zenon
    <3>3. QED BY <2>1, <3>1, <3>2
  <2>3. invoices \in [Months -> Int \cup {None}] /\ synced \in [Months -> Int] /\ adjusted \in [Months -> Int]
    BY DEF BillingInit
  <2>4. seats \in [Seats -> Plan \cup {None}] /\ txn \in [Jobs -> Transaction \cup {Idle}]
    BY DEF BillingInit
  <2>5. fees \subseteq Fee /\ IsFiniteSet(fees) /\ loose \subseteq Months /\ raced \subseteq Seats
        /\ upto \in [Seats -> Months]
    BY <2>1, FS_EmptySet DEF BillingInit
  <2>6. QED BY <2>2, <2>3, <2>4, <2>5 DEF Types
<1>2. \A j \in Jobs : txn[j] = Idle
  BY DEF BillingInit
<1>3. \A m \in Months : Settled(m)
  BY DEF BillingInit, Settled
<1>4. \A s \in Seats : Bears(s)
  BY BillingAssumption DEF BillingInit, Bears, FactsOf, Owed
<1>5. Keyed /\ OneSeat
  BY DEF BillingInit, Keyed, OneSeat, Live
<1>6. QED BY <1>1, <1>2, <1>3, <1>4, <1>5 DEF BillingIInv

LEMMA StepKeeps == BillingIInv /\ [BillingNext]_billingVars => BillingIInv'
<1> SUFFICES ASSUME BillingIInv, [BillingNext]_billingVars PROVE BillingIInv'
  OBVIOUS
<1>1. CASE FxSync
  BY <1>1, FxStep
<1>2. CASE MonthEnds \/ UNCHANGED billingVars
  <2>1. UNCHANGED <<ledger, txn, calls, ghosts>> /\ now' \in Months
    BY <1>2 DEF MonthEnds, billingVars, BillingIInv, Types
  <2>2. UNCHANGED <<invoices, synced, adjusted, foreign, rated, seats, fees, loose, raced, upto>>
    BY <2>1 DEF ledger, ghosts
  <2>3. \A m : Base(m)' = Base(m)
    BY <2>1, BaseSame
  <2>4. Types'
    BY <2>1, <2>2 DEF Types, BillingIInv
  <2>5. \A m \in Months : Settled(m)'
    BY <2>2, <2>3 DEF BillingIInv, Settled, Converts
  <2>6. ASSUME NEW j \in Jobs, txn'[j] # Idle PROVE Sound(txn[j])'
    <3>1. PICK t : t = txn'[j]
      OBVIOUS
    <3>2. Sound(t)
      BY <2>1, <2>6, <3>1 DEF BillingIInv
    <3>3. Sound(t)'
      BY <2>1, <3>2, SoundSame
    <3>4. QED BY <3>1, <3>3
  <2>7. \A j, k \in Jobs : txn'[j] # Idle /\ txn'[k] # Idle /\ j # k => Apart(txn[j], txn[k])'
    BY <2>1 DEF BillingIInv, Apart, SameKey
  <2>8. Keyed' /\ OneSeat' /\ \A s \in Seats \ raced' : Bears(s)'
    BY <2>2, SeatsStay
  <2>9. QED BY <2>4, <2>5, <2>6, <2>7, <2>8, Zenon DEF BillingIInv
<1>3. ASSUME NEW j \in Jobs, BillingProgress(j) PROVE BillingIInv'
  <2>1. CASE Deadlock(j)
    BY <2>1, Rollback DEF Deadlock
  <2>2. QED BY <2>1, <1>3, ListStep, BillStep, RatesStep, ReadStep, AdjustStep, CommitInvoicesStep,
               UpsertStep, FindStep, ReadSeatsStep, ClearStep, ClearedStep, FillStep, DropStep, CommitSeatStep
            DEF BillingProgress
<1>4. ASSUME NEW j \in Jobs, Requests(j) PROVE BillingIInv'
  BY <1>4, ImportStep, SyncStep, SeatRequestStep DEF Requests
<1>5. QED BY <1>1, <1>2, <1>3, <1>4 DEF BillingNext

\* The strengthened invariant holds in every state: what a transaction has read
\* and not seen disturbed is still so, one transaction holds a seat, and the facts
\* they delete and insert do not overlap.
THEOREM BillingInvariance == BillingSpec => []BillingIInv
BY Starts, StepKeeps, PTL DEF BillingSpec

LEMMA InvGivesTypes == BillingIInv => BillingTypeOK
<1> SUFFICES ASSUME BillingIInv PROVE BillingTypeOK
  OBVIOUS
<1>2. Cardinality(Live) <= 1
  <2>1. CASE Live = {}
    BY <2>1, FS_EmptySet
  <2>2. CASE Live # {}
    <3>1. PICK s \in Live : Live = {s}
      BY <2>2 DEF BillingIInv, OneSeat
    <3>2. Cardinality({s}) = 1
      BY FS_Singleton
    <3>3. QED BY <3>1, <3>2
  <2>3. QED BY <2>1, <2>2
<1>3. calls \in 0 .. MaxCalls
  BY BillingAssumption DEF BillingIInv, Types
<1>4. QED BY <1>2, <1>3 DEF BillingTypeOK, BillingIInv, Types

(***************************************************************************)
(* Unless the facts of a month changed and no true-up has run since that   *)
(* nobody disturbed, the month sums to its invoice: the drift report       *)
(* (invoiceDrift) shows the adjustment that is stored.                     *)
(***************************************************************************)
THEOREM MonthsSumToInvoices == BillingSpec => []DriftIsAdjustment
<1>1. BillingIInv => DriftIsAdjustment
  BY InvGivesTypes DEF BillingIInv, Settled, Converts, DriftIsAdjustment, Drift
<1>2. QED BY <1>1, BillingInvariance, PTL

(***************************************************************************)
(* No month of a seat is billed twice, whatever overlaps; and a seat whose *)
(* last write overlapped no other has exactly the facts of the months it   *)
(* owes, from its first to its last or to the month of that write, at its  *)
(* price, and none once it is deleted.                                     *)
(***************************************************************************)
THEOREM SeatsBillOnce == BillingSpec => []SeatsBill
<1>1. ASSUME BillingIInv PROVE SeatsBill
  <2>1. \A f, g \in fees : SameKey({f}, {g}) => f = g
    BY <1>1 DEF BillingIInv, Keyed, SameKey
  <2>2. \A s \in Seats \ raced :
          {<<f.month, f.amount>> : f \in {g \in fees : g.seat = s}} = Owed(seats[s], upto[s])
    BY <1>1 DEF BillingIInv, Bears, FactsOf
  <2>3. QED BY <2>1, <2>2 DEF SeatsBill
<1>2. QED BY <1>1, BillingInvariance, PTL
=============================================================================
