------------------------------ MODULE Directory ------------------------------
(***************************************************************************)
(* The directory syncs (ee/lib/okta.ts, google.ts, directory.ts): ticks    *)
(* that read a roster page by page, upsert it, invite who is new, and -    *)
(* Okta - sweep the leavers of its System Log from a cursor kept in        *)
(* sync_runs; and the Okta event hook, which may deliver an event late,    *)
(* twice or never. Scheduled ticks and sync-now may overlap.               *)
(*                                                                         *)
(* An event's place in the log is its time of publication. A sweep is one  *)
(* step here (module Offboard has its statements): it marks the person     *)
(* offboarded or throws.                                                   *)
(***************************************************************************)
EXTENDS Naturals, Sequences, FiniteSets

CONSTANTS
  People,
  Hired,       \* people Okta knows from the start
  GoogleUsers, \* people Google Workspace knows, Okta's among them or not
  Pages,       \* Pages[n]: who is on page n of a roster
  LogLimit,    \* events on a page of the log
  Ticks,       \* ticks and sync-now requests in flight
  Idle,
  MaxEvents,   \* bound: leaver events, and hires only while one can follow
  MaxFaults    \* bound: errors, crashes, disconnects

ASSUME DirectoryAssumption ==
  /\ Hired \subseteq People /\ GoogleUsers \subseteq People
  /\ Pages \in Seq(SUBSET People)
  /\ LogLimit \in Nat \ {0} /\ MaxEvents \in Nat /\ MaxFaults \in Nat

TickRecord ==
  [step : {"roster", "upsert", "invite", "log", "sweep", "finish"},
   page : Nat, users : SUBSET People, new : SUBSET People,
   since : Nat \ {0}, newest : Nat \ {0}, next : Nat \ {0}, upto : Nat,
   fresh : BOOLEAN, older : SUBSET Ticks, late : BOOLEAN]

ASSUME IdleAssumption == Idle \notin TickRecord

VARIABLES
  okta,      \* people active in Okta
  log,       \* System Log: who was deactivated or suspended, in order
  connected, \* directory:okta:config is stored
  cursor,    \* logsSince of the latest started success, 0 before the first
  people,    \* the roster: "absent", "active" or "offboarded"
  invited,   \* invited[p]: auto-invites sent to p
  tick,
  first,     \* where the latest cursor line began: the `now` of a run without a cursor
  seen,      \* events a poll took up
  dropped,   \* events whose sweep threw in a poll, or that another run's poll had
             \* passed when the run that created their person died
  returned,  \* events whose person Google put on the roster after a poll of them
  faults

vendor == <<okta, log>>
ghosts == <<first, seen, dropped, returned>>
vars == <<vendor, connected, cursor, people, invited, tick, ghosts, faults>>

Init ==
  /\ okta = Hired
  /\ log = <<>>
  /\ connected = FALSE
  /\ cursor = 0
  /\ people = [p \in People |-> "absent"]
  /\ invited = [p \in People |-> 0]
  /\ tick = [t \in Ticks |-> Idle]
  /\ first = 0 /\ seen = {} /\ dropped = {} /\ returned = {}
  /\ faults = 0

Fault == faults < MaxFaults /\ faults' = faults + 1
At(t, step) == tick[t] # Idle /\ tick[t].step = step
Goto(t, step) == tick' = [tick EXCEPT ![t].step = step]

-----------------------------------------------------------------------------
\* deactivated or suspended at Okta: off the roster, onto the log
Leave(p) ==
  /\ p \in okta /\ Len(log) < MaxEvents
  /\ okta' = okta \ {p}
  /\ log' = Append(log, p)
  /\ UNCHANGED <<connected, cursor, people, invited, tick, ghosts, faults>>

\* hired, or hired again, on the roster already or not
Hire(p) ==
  /\ p \in People \ okta /\ Len(log) < MaxEvents
  /\ okta' = okta \cup {p}
  /\ UNCHANGED <<log, connected, cursor, people, invited, tick, ghosts, faults>>

\* connectOkta, after its probes; disconnectOkta keeps the run history
Connect ==
  /\ ~connected /\ connected' = TRUE
  /\ UNCHANGED <<vendor, cursor, people, invited, tick, ghosts, faults>>

Disconnect ==
  /\ connected /\ connected' = FALSE
  /\ Fault
  /\ UNCHANGED <<vendor, cursor, people, invited, tick, ghosts>>

-----------------------------------------------------------------------------
(***************************************************************************)
(* A tick.                                                                 *)
(***************************************************************************)
\* the events from the cursor on, the cursor's own included; from now at first
Since == IF cursor # 0 THEN cursor ELSE Len(log) + 1

\* startDirectoryRun; the poll is due an hour after the last start, and sync-now
\* at once, so it may start at any time
Start(t) ==
  /\ tick[t] = Idle
  /\ connected
  /\ tick' = [tick EXCEPT ![t] =
       [step |-> "roster", page |-> 1, users |-> {}, new |-> {},
        since |-> Since, newest |-> Since, next |-> Since, upto |-> 0,
        fresh |-> cursor = 0, older |-> {s \in Ticks \ {t} : tick[s] # Idle},
        late |-> FALSE]]
  /\ UNCHANGED <<vendor, connected, cursor, people, invited, ghosts, faults>>

\* one page of the roster, of those active now
ReadRoster(t) ==
  /\ At(t, "roster")
  /\ tick' = [tick EXCEPT
       ![t].users = @ \cup (Pages[tick[t].page] \cap okta),
       ![t].page = @ + 1,
       ![t].step = IF tick[t].page < Len(Pages) THEN "roster" ELSE "upsert"]
  /\ UNCHANGED <<vendor, connected, cursor, people, invited, ghosts, faults>>

\* mutant: everybody on the roster counts as new
Created_All(users) == users

\* (xmax = 0) AS created
Created(users) == {p \in users : people[p] = "absent"}

\* upsertRoster: nobody is removed, nobody's status changes
Upsert(t) ==
  LET new == Created(tick[t].users)
  IN  /\ At(t, "upsert")
      /\ people' = [p \in People |->
           IF p \in tick[t].users /\ people[p] = "absent" THEN "active" ELSE people[p]]
      /\ tick' = [tick EXCEPT ![t].new = new,
           ![t].step = IF new = {} THEN "log" ELSE "invite"]
      /\ UNCHANGED <<vendor, connected, cursor, invited, ghosts, faults>>

\* inviteFanout of the people just created, those who are active still
Invite(t) ==
  /\ At(t, "invite")
  /\ invited' = [p \in People |->
       IF p \in tick[t].new /\ people[p] = "active" THEN invited[p] + 1 ELSE invited[p]]
  /\ Goto(t, "log")
  /\ UNCHANGED <<vendor, connected, cursor, people, ghosts, faults>>

\* sweepLeaver: nobody on the roster, or offboarded
Swept(p) ==
  people' = IF people[p] = "absent" THEN people ELSE [people EXCEPT ![p] = "offboarded"]

\* a page of the log as it is now; an empty one is the end
ReadLog(t) ==
  LET next == tick[t].next
  IN  /\ At(t, "log")
      /\ tick' = [tick EXCEPT
           ![t].upto = IF next + LogLimit <= Len(log) THEN next + LogLimit - 1 ELSE Len(log),
           ![t].step = IF next <= Len(log) THEN "sweep" ELSE "finish"]
      /\ UNCHANGED <<vendor, connected, cursor, people, invited, ghosts, faults>>

\* after the last event of a page, another page or, without a next link, the end
Advance(t) ==
  LET n == tick[t].next
      full == (n + 1 - tick[t].since) % LogLimit = 0
  IN  \E step \in IF n < tick[t].upto THEN {"sweep"}
                  ELSE IF full THEN {"log"} ELSE {"log", "finish"} :
        /\ tick' = [tick EXCEPT ![t].next = n + 1, ![t].step = step,
                                ![t].newest = IF n > @ THEN n ELSE @]
        /\ seen' = seen \cup {n}

\* mutant: an event another poll has seen is not swept again
Poll_Dedup(t) ==
  /\ At(t, "sweep")
  /\ IF tick[t].next \in seen THEN people' = people ELSE Swept(log[tick[t].next])
  /\ Advance(t)
  /\ UNCHANGED <<vendor, connected, cursor, invited, first, dropped, returned, faults>>

Poll(t) ==
  /\ At(t, "sweep")
  /\ Swept(log[tick[t].next])
  /\ Advance(t)
  /\ UNCHANGED <<vendor, connected, cursor, invited, first, dropped, returned, faults>>

\* runOffboard throws: audited, and the poll goes on
PollThrows(t) ==
  LET p == log[tick[t].next]
  IN  /\ At(t, "sweep")
      /\ people[p] # "absent"
      /\ Fault
      /\ dropped' = dropped \cup {tick[t].next}
      /\ Advance(t)
      /\ UNCHANGED <<vendor, connected, cursor, people, invited, first, returned>>

\* mutant: the cursor is the end of the log, read or not
Newest_Now(t) == Len(log)

Newest(t) == tick[t].newest

\* run t is over; `now` tells what a cursor it left means for the others
Over(t, now) ==
  tick' = [s \in Ticks |->
    IF s = t \/ tick[s] = Idle THEN Idle
    ELSE [tick[s] EXCEPT !.older = @ \ {t},
            !.late = @ \/ (now /\ s \in tick[t].older)]]

\* finishDirectoryRun, success: a tick starts from the cursor of the latest
\* started success, so a run overtaken by a later one leaves none
Finish(t) ==
  /\ At(t, "finish")
  /\ cursor' = IF tick[t].late THEN cursor ELSE Newest(t)
  /\ first' = IF tick[t].fresh /\ ~tick[t].late THEN tick[t].since ELSE first
  /\ Over(t, TRUE)
  /\ UNCHANGED <<vendor, connected, people, invited, seen, dropped, returned, faults>>

\* an error ends the tick without a cursor; so does the death of the process,
\* which leaves the run 'running'
Fail(t) ==
  /\ tick[t] # Idle
  /\ Fault
  /\ dropped' = dropped \cup {n \in seen : log[n] \in tick[t].new}
  /\ Over(t, FALSE)
  /\ UNCHANGED <<vendor, connected, cursor, people, invited, first, seen, returned>>

\* the event hook: any event, at any time after it, any number of times
Hook(n) ==
  /\ connected
  /\ Swept(log[n])
  /\ UNCHANGED <<vendor, connected, cursor, invited, tick, ghosts, faults>>

\* googleTick: the roster only, whole or, on an error, not at all; it knows
\* nothing of who left Okta
GoogleTick ==
  LET new == Created(GoogleUsers)
  IN  /\ new # {}
      /\ people' = [p \in People |-> IF p \in new THEN "active" ELSE people[p]]
      /\ returned' = returned \cup {n \in seen : log[n] \in new}
      /\ UNCHANGED <<vendor, connected, cursor, invited, tick, first, seen, dropped, faults>>

Step(t) ==
  \/ ReadRoster(t) \/ Upsert(t) \/ Invite(t)
  \/ ReadLog(t) \/ Poll(t) \/ Finish(t)

Next ==
  \/ \E t \in Ticks :
       \/ Start(t) \/ Step(t) \/ PollThrows(t) \/ Fail(t)
  \/ \E p \in People : Leave(p) \/ Hire(p)
  \/ \E n \in DOMAIN log : Hook(n)
  \/ GoogleTick \/ Connect \/ Disconnect

Spec == Init /\ [][Next]_vars

\* an hourly tick for ever, with Okta connected (again) some day
FairSpec ==
  /\ Spec
  /\ \A t \in Ticks : WF_vars(Step(t))
  /\ SF_vars(\E t \in Ticks : Start(t))
  /\ WF_vars(Connect)

-----------------------------------------------------------------------------
TypeOK ==
  /\ okta \subseteq People /\ log \in Seq(People)
  /\ connected \in BOOLEAN
  /\ people \in [People -> {"absent", "active", "offboarded"}]
  /\ invited \in [People -> Nat]
  /\ tick \in [Ticks -> TickRecord \cup {Idle}]
  /\ seen \subseteq DOMAIN log /\ cursor <= Len(log) + 1

\* No event is behind the cursor without a poll having taken it up, whatever
\* overlaps, fails or dies (oktaTick saves the newest event it saw, in the
\* statement that makes the run a success).
NoEventSkipped ==
  /\ TypeOK
  /\ \A n \in DOMAIN log : first <= n /\ n < cursor /\ first # 0 => n \in seen

\* A hire is auto-invited once, by the run whose upsert created them
\* (people this sync just created), however many ticks overlap or repeat.
InvitedOnce == \A p \in People : invited[p] <= 1 /\ (invited[p] = 1 => people[p] # "absent")

\* Who left Okta, and has not been hired again, is not active any more once the
\* cursor has passed their last event, with hooks lost, ticks overlapping and
\* failing and rosters read before they left - unless a run in flight has yet to
\* poll the event, its sweep threw, the run that put them on the roster died
\* after another's poll passed it, or Google Workspace put them there after it.
Latest(n) == log[n] \notin okta /\ \A m \in DOMAIN log : m > n => log[m] # log[n]
Gone(n) == first # 0 /\ first <= n /\ n < cursor /\ Latest(n)
LeaversAreOut ==
  \A n \in DOMAIN log : Gone(n) /\ people[log[n]] = "active" =>
    n \in dropped \cup returned \/ \E t \in Ticks : tick[t] # Idle /\ tick[t].next <= n

\* what the hook's route says of the poll (events/route.ts:18, "the backstop for
\* anything that fails here"): without exception
BackstopHolds ==
  \A p \in People : (\E n \in DOMAIN log : log[n] = p /\ Gone(n)) ~> people[p] # "active"

\* what the module says of hires (okta.ts:21, "auto-invite on hire")
HiresAreInvited ==
  \A p \in Hired : people[p] = "active" ~> (invited[p] > 0 \/ people[p] # "active")
=============================================================================
