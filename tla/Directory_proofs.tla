---------------------------- MODULE Directory_proofs ----------------------------
(***************************************************************************)
(* Proofs about Directory, for every set of people and of ticks, every     *)
(* length of the log and of its pages, and any number of faults.           *)
(***************************************************************************)
EXTENDS Directory, TLAPS

\* The types of the state.
Typed ==
  /\ okta \in SUBSET People
  /\ log \in Seq(People)
  /\ connected \in BOOLEAN
  /\ cursor \in Nat /\ first \in Nat
  /\ people \in [People -> {"absent", "active", "offboarded"}]
  /\ invited \in [People -> Nat]
  /\ tick \in [Ticks -> TickRecord \cup {Idle}]
  /\ seen \in SUBSET (1 .. Len(log))
  /\ faults \in Nat

Active(t) == tick[t] # Idle
Rostering(t) == tick[t].step \in {"roster", "upsert"}

\* every event from a on, up to but not including b, was taken up by a poll
Polled(a, b) == \A n \in a .. (b - 1) : n \in seen

\* A walk through the log: it has polled what lies between its start and its
\* place, and whoever is on the roster it read is at Okta or left after its start.
Walk(t) ==
  /\ tick[t].since <= tick[t].next /\ tick[t].next <= Len(log) + 1
  /\ tick[t].newest = IF tick[t].next = tick[t].since THEN tick[t].since
                      ELSE tick[t].next - 1
  /\ tick[t].step \in {"roster", "upsert", "invite"} => tick[t].next = tick[t].since
  /\ tick[t].step = "sweep" =>
       tick[t].next <= tick[t].upto /\ tick[t].upto <= Len(log)
  /\ Polled(tick[t].since, tick[t].next)
  /\ Rostering(t) =>
       \A p \in tick[t].users : p \in okta \/ \E n \in tick[t].since .. Len(log) : log[n] = p

Walks == \A t \in Ticks : Active(t) => Walk(t)

\* The line of polls behind the cursor has no hole, and a run still in flight
\* continues a line: its own, if it began without a cursor, or any that may
\* become the latest one before it ends.
OnTime(t) == Active(t) /\ tick[t].fresh /\ ~tick[t].late
Lines ==
  /\ cursor = 0 <=> first = 0
  /\ cursor <= Len(log) + 1
  /\ first # 0 => Polled(first, cursor)
  /\ \A t \in Ticks : Active(t) /\ ~tick[t].fresh =>
       first # 0 /\ Polled(first, tick[t].since)
  /\ \A s \in Ticks : OnTime(s) => Polled(tick[s].since, cursor)
  /\ \A s, t \in Ticks : OnTime(s) /\ Active(t) /\ ~tick[t].fresh =>
       Polled(tick[s].since, tick[t].since)
  /\ \A s, t \in Ticks :
       Active(s) /\ Active(t) /\ tick[s].fresh /\ tick[t].fresh /\ s # t
         /\ s \notin tick[t].older => tick[t].since <= tick[s].since

\* An invite on its way goes to people on the roster who have none, and from one
\* tick only.
Invites ==
  /\ \A p \in People : invited[p] <= 1 /\ (invited[p] = 1 => people[p] # "absent")
  /\ \A t \in Ticks : Active(t) /\ tick[t].step = "invite" =>
       \A p \in tick[t].new : people[p] # "absent" /\ invited[p] = 0
  /\ \A s, t \in Ticks :
       Active(s) /\ Active(t) /\ s # t /\ tick[s].step = "invite"
         /\ tick[t].step = "invite" => tick[s].new \cap tick[t].new = {}

\* Tick t put the one of event n on the roster and cannot end before it has come
\* to the event: every page before it is full, so a next link follows.
FullTo(t, n) == (n + 1 - tick[t].since) % LogLimit = 0
Owes(t, n) ==
  /\ Active(t)
  /\ log[n] \in tick[t].new
  /\ tick[t].next <= n
  /\ \/ tick[t].step \in {"invite", "log"} /\ FullTo(t, tick[t].next - 1)
     \/ tick[t].step = "sweep" /\ (n <= tick[t].upto \/ FullTo(t, tick[t].upto))

\* Whoever is active though a poll has taken up their last event was dropped by it,
\* came back with Google, or is owed a sweep by the tick that created them.
Leavers ==
  \A n \in seen : Latest(n) /\ people[log[n]] = "active" =>
    n \in dropped \cup returned \/ \E t \in Ticks : Owes(t, n)

IInv == Typed /\ Walks /\ Lines /\ Invites /\ Leavers

LEMMA InitIInv == Init => IInv
<1> SUFFICES ASSUME Init PROVE IInv
  OBVIOUS
<1>1. Typed
  <2>1. connected \in BOOLEAN
    BY Zenon DEF Init
  <2>2. /\ okta \in SUBSET People /\ log \in Seq(People) /\ cursor \in Nat /\ first \in Nat
        /\ seen \in SUBSET (1 .. Len(log)) /\ faults \in Nat
    BY DirectoryAssumption DEF Init
  <2>3. /\ people \in [People -> {"absent", "active", "offboarded"}]
        /\ invited \in [People -> Nat]
        /\ tick \in [Ticks -> TickRecord \cup {Idle}]
    BY DEF Init
  <2>4. QED BY <2>1, <2>2, <2>3 DEF Typed
<1>2. /\ log = <<>> /\ okta = Hired /\ cursor = 0 /\ first = 0 /\ seen = {}
      /\ \A t \in Ticks : ~Active(t)
      /\ \A p \in People : invited[p] = 0
  BY DEF Init, Active
<1>4. Walks /\ Lines
  BY <1>2 DEF Walks, Lines, OnTime
<1>5. Invites /\ Leavers
  BY <1>2 DEF Invites, Leavers
<1>6. QED BY <1>1, <1>4, <1>5 DEF IInv

-----------------------------------------------------------------------------
(***************************************************************************)
(* Types.                                                                  *)
(***************************************************************************)
LEMMA ActiveIsRecord ==
  ASSUME Typed, NEW t \in Ticks, Active(t)
  PROVE  tick[t] \in TickRecord
BY DEF Typed, Active

LEMMA OneTick ==
  ASSUME Typed, NEW t \in Ticks, NEW r \in TickRecord, tick' = [tick EXCEPT ![t] = r]
  PROVE  tick' \in [Ticks -> TickRecord \cup {Idle}]
BY DEF Typed

LEMMA StartTyped ==
  ASSUME IInv, NEW t \in Ticks, Start(t)
  PROVE  Typed'
<1>1. Since \in Nat \ {0}
  BY DEF IInv, Typed, Since
<1>2. PICK r : r = [step |-> "roster", page |-> 1, users |-> {}, new |-> {},
        since |-> Since, newest |-> Since, next |-> Since, upto |-> 0,
        fresh |-> cursor = 0, older |-> {s \in Ticks \ {t} : tick[s] # Idle},
        late |-> FALSE]
  OBVIOUS
<1>3. r \in TickRecord
  BY <1>1, <1>2 DEF TickRecord
<1>4. tick' \in [Ticks -> TickRecord \cup {Idle}]
  BY <1>2, <1>3, OneTick DEF Start, IInv
<1>5. QED BY <1>4 DEF Start, IInv, Typed, vendor, ghosts

LEMMA RosterTyped ==
  ASSUME IInv, NEW t \in Ticks, ReadRoster(t)
  PROVE  Typed'
<1>1. tick[t] \in TickRecord
  BY ActiveIsRecord DEF IInv, ReadRoster, At, Active
<1>2. PICK r : r = [tick[t] EXCEPT
       !.users = @ \cup (Pages[tick[t].page] \cap okta),
       !.page = @ + 1,
       !.step = IF tick[t].page < Len(Pages) THEN "roster" ELSE "upsert"]
  OBVIOUS
<1>3. r \in TickRecord
  <2>1. tick[t].users \cup (Pages[tick[t].page] \cap okta) \in SUBSET People
    BY <1>1 DEF TickRecord, IInv, Typed
  <2>2. tick[t].page + 1 \in Nat
    BY <1>1 DEF TickRecord
  <2>3. QED BY <1>1, <1>2, <2>1, <2>2 DEF TickRecord
<1>4. tick' = [tick EXCEPT ![t] = r]
  BY <1>1, <1>2 DEF ReadRoster, TickRecord
<1>5. QED BY <1>3, <1>4, OneTick DEF ReadRoster, IInv, Typed, vendor, ghosts

LEMMA UpsertTyped ==
  ASSUME IInv, NEW t \in Ticks, Upsert(t)
  PROVE  Typed'
<1>1. tick[t] \in TickRecord
  BY ActiveIsRecord DEF IInv, Upsert, At, Active
<1>2. PICK r : r = [tick[t] EXCEPT
       !.new = Created(tick[t].users),
       !.step = IF Created(tick[t].users) = {} THEN "log" ELSE "invite"]
  OBVIOUS
<1>3. r \in TickRecord
  BY <1>1, <1>2 DEF TickRecord, Created
<1>4. tick' = [tick EXCEPT ![t] = r]
  BY <1>1, <1>2 DEF Upsert, TickRecord
<1>5. people' \in [People -> {"absent", "active", "offboarded"}]
  BY DEF Upsert, IInv, Typed
<1>6. QED BY <1>3, <1>4, <1>5, OneTick DEF Upsert, IInv, Typed, vendor, ghosts

LEMMA InviteTyped ==
  ASSUME IInv, NEW t \in Ticks, Invite(t)
  PROVE  Typed'
<1>1. tick[t] \in TickRecord
  BY ActiveIsRecord DEF IInv, Invite, At, Active
<1>2. [tick[t] EXCEPT !.step = "log"] \in TickRecord
  BY <1>1 DEF TickRecord
<1>3. tick' = [tick EXCEPT ![t] = [tick[t] EXCEPT !.step = "log"]]
  BY DEF Invite, Goto
<1>4. invited' \in [People -> Nat]
  BY DEF Invite, IInv, Typed
<1>5. QED BY <1>2, <1>3, <1>4, OneTick DEF Invite, IInv, Typed, vendor, ghosts

LEMMA ReadLogTyped ==
  ASSUME IInv, NEW t \in Ticks, ReadLog(t)
  PROVE  Typed'
<1>1. tick[t] \in TickRecord
  BY ActiveIsRecord DEF IInv, ReadLog, At, Active
<1>2. PICK r : r = [tick[t] EXCEPT
       !.upto = IF tick[t].next + LogLimit <= Len(log)
                THEN tick[t].next + LogLimit - 1 ELSE Len(log),
       !.step = IF tick[t].next <= Len(log) THEN "sweep" ELSE "finish"]
  OBVIOUS
<1>3. tick[t].next + LogLimit - 1 \in Nat /\ Len(log) \in Nat
  BY <1>1, DirectoryAssumption DEF TickRecord, IInv, Typed
<1>4. r \in TickRecord
  BY <1>1, <1>2, <1>3 DEF TickRecord
<1>5. tick' = [tick EXCEPT ![t] = r]
  BY <1>1, <1>2 DEF ReadLog, TickRecord
<1>6. QED BY <1>4, <1>5, OneTick DEF ReadLog, IInv, Typed, vendor, ghosts

\* What a poll of one event does to its tick.
LEMMA AdvanceIs ==
  ASSUME IInv, NEW t \in Ticks, At(t, "sweep"), Advance(t)
  PROVE  \E step \in {"sweep", "log", "finish"} :
           /\ tick' = [tick EXCEPT ![t] = [tick[t] EXCEPT
                !.next = tick[t].next + 1, !.step = step,
                !.newest = tick[t].next]]
           /\ [tick[t] EXCEPT !.next = tick[t].next + 1, !.step = step,
                              !.newest = tick[t].next] \in TickRecord
           /\ step = "sweep" <=> tick[t].next < tick[t].upto
           /\ step = "finish" =>
                tick[t].next = tick[t].upto /\ ~FullTo(t, tick[t].upto)
           /\ seen' = seen \cup {tick[t].next}
           /\ tick[t].next \in 1 .. Len(log)
<1>1. tick[t] \in TickRecord /\ Walk(t)
  BY ActiveIsRecord DEF IInv, At, Active, Walks
<1>2. /\ tick[t].next \in Nat \ {0} /\ tick[t].since \in Nat \ {0}
      /\ tick[t].upto \in Nat /\ tick[t].newest \in Nat \ {0} /\ Len(log) \in Nat
  BY <1>1 DEF TickRecord, IInv, Typed
<1>3. /\ tick[t].next <= tick[t].upto /\ tick[t].upto <= Len(log)
      /\ tick[t].newest = IF tick[t].next = tick[t].since THEN tick[t].since
                          ELSE tick[t].next - 1
  BY <1>1 DEF Walk, At
<1>4. (IF tick[t].next > tick[t].newest THEN tick[t].next ELSE tick[t].newest)
        = tick[t].next
  BY <1>2, <1>3
<1>5. PICK step \in IF tick[t].next < tick[t].upto THEN {"sweep"}
                    ELSE IF FullTo(t, tick[t].next) THEN {"log"} ELSE {"log", "finish"} :
        /\ tick' = [tick EXCEPT ![t].next = tick[t].next + 1, ![t].step = step,
                                ![t].newest = IF tick[t].next > @ THEN tick[t].next ELSE @]
        /\ seen' = seen \cup {tick[t].next}
  BY DEF Advance, FullTo
<1>6. tick' = [tick EXCEPT ![t] = [tick[t] EXCEPT
                !.next = tick[t].next + 1, !.step = step, !.newest = tick[t].next]]
  BY <1>1, <1>4, <1>5 DEF TickRecord
<1>7. step \in {"sweep", "log", "finish"}
  BY <1>5
<1>8. [tick[t] EXCEPT !.next = tick[t].next + 1, !.step = step,
                      !.newest = tick[t].next] \in TickRecord
  <2>1. PICK next \in Nat \ {0} : next = tick[t].next + 1
    BY <1>2
  <2>2. PICK r : r = [tick[t] EXCEPT !.next = next, !.step = step, !.newest = tick[t].next]
    OBVIOUS
  <2>3. r \in TickRecord
    BY <1>1, <1>2, <1>7, <2>2 DEF TickRecord
  <2>4. QED BY <2>1, <2>2, <2>3
<1>9. /\ step = "sweep" <=> tick[t].next < tick[t].upto
      /\ step = "finish" =>
           tick[t].next = tick[t].upto /\ ~FullTo(t, tick[t].upto)
  BY <1>2, <1>3, <1>5
<1>10. tick[t].next \in 1 .. Len(log)
  BY <1>2, <1>3
<1>11. QED BY <1>5, <1>6, <1>7, <1>8, <1>9, <1>10

LEMMA SweptTyped ==
  ASSUME IInv, NEW n \in 1 .. Len(log), Swept(log[n])
  PROVE  people' \in [People -> {"absent", "active", "offboarded"}]
BY DEF IInv, Typed, Swept

LEMMA PollTyped ==
  ASSUME IInv, NEW t \in Ticks, Poll(t) \/ PollThrows(t)
  PROVE  Typed'
<1>1. At(t, "sweep") /\ Advance(t)
  BY DEF Poll, PollThrows
<1>2. /\ tick' \in [Ticks -> TickRecord \cup {Idle}]
      /\ seen' = seen \cup {tick[t].next}
      /\ tick[t].next \in 1 .. Len(log)
  BY <1>1, AdvanceIs, OneTick DEF IInv
<1>3. /\ seen' \in SUBSET (1 .. Len(log)) /\ log' = log
  BY <1>2 DEF Poll, PollThrows, vendor, IInv, Typed
<1>4. people' \in [People -> {"absent", "active", "offboarded"}]
  BY <1>2, SweptTyped DEF Poll, PollThrows, IInv, Typed
<1>5. QED BY <1>2, <1>3, <1>4 DEF Poll, PollThrows, Fault, IInv, Typed, vendor

LEMMA OverTyped ==
  ASSUME IInv, NEW t \in Ticks, NEW now \in BOOLEAN, Over(t, now)
  PROVE  tick' \in [Ticks -> TickRecord \cup {Idle}]
<1>1. SUFFICES ASSUME NEW s \in Ticks
               PROVE  (IF s = t \/ tick[s] = Idle THEN Idle
                       ELSE [tick[s] EXCEPT !.older = @ \ {t},
                               !.late = @ \/ (now /\ s \in tick[t].older)])
                      \in TickRecord \cup {Idle}
  BY DEF Over
<1>2. CASE s # t /\ tick[s] # Idle
  <2>1. tick[s] \in TickRecord
    BY <1>2 DEF IInv, Typed
  <2>2. tick[s].older \ {t} \in SUBSET Ticks /\ tick[s].late \in BOOLEAN
    BY <2>1 DEF TickRecord
  <2>3. PICK late \in BOOLEAN : late = (tick[s].late \/ (now /\ s \in tick[t].older))
    OBVIOUS
  <2>4. [tick[s] EXCEPT !.older = @ \ {t}, !.late = late] \in TickRecord
    BY <2>1, <2>2, <2>3 DEF TickRecord
  <2>5. QED BY <1>2, <2>1, <2>3, <2>4 DEF TickRecord
<1>3. QED BY <1>2

LEMMA FinishTyped ==
  ASSUME IInv, NEW t \in Ticks, Finish(t)
  PROVE  Typed'
<1>1. tick[t] \in TickRecord
  BY ActiveIsRecord DEF IInv, Finish, At, Active
<1>2. cursor' \in Nat /\ first' \in Nat
  BY <1>1 DEF TickRecord, Finish, Newest, IInv, Typed
<1>3. tick' \in [Ticks -> TickRecord \cup {Idle}]
  BY OverTyped DEF Finish
<1>4. QED BY <1>2, <1>3 DEF Finish, IInv, Typed, vendor

LEMMA FailTyped ==
  ASSUME IInv, NEW t \in Ticks, Fail(t)
  PROVE  Typed'
<1>1. tick' \in [Ticks -> TickRecord \cup {Idle}]
  BY OverTyped DEF Fail
<1>2. QED BY <1>1 DEF Fail, Fault, IInv, Typed, vendor

LEMMA WorldTyped ==
  ASSUME IInv,
         \/ \E p \in People : Leave(p) \/ Hire(p)
         \/ \E n \in DOMAIN log : Hook(n)
         \/ GoogleTick \/ Connect \/ Disconnect
  PROVE  Typed'
<1>1. ASSUME NEW p \in People, Leave(p)
      PROVE  Typed'
  <2>1. log' \in Seq(People) /\ Len(log') = Len(log) + 1
    BY <1>1 DEF Leave, IInv, Typed
  <2>2. seen' \in SUBSET (1 .. Len(log'))
    BY <1>1, <2>1 DEF Leave, ghosts, IInv, Typed
  <2>3. QED BY <1>1, <2>1, <2>2 DEF Leave, ghosts, IInv, Typed
<1>2. ASSUME NEW p \in People, Hire(p)
      PROVE  Typed'
  BY <1>2 DEF Hire, ghosts, IInv, Typed
<1>3. ASSUME NEW n \in DOMAIN log, Hook(n)
      PROVE  Typed'
  <2>1. n \in 1 .. Len(log)
    BY DEF IInv, Typed
  <2>2. people' \in [People -> {"absent", "active", "offboarded"}]
    BY <1>3, <2>1, SweptTyped DEF Hook
  <2>3. QED BY <1>3, <2>2 DEF Hook, ghosts, vendor, IInv, Typed
<1>4. CASE GoogleTick
  <2>1. people' \in [People -> {"absent", "active", "offboarded"}]
    BY <1>4 DEF GoogleTick, IInv, Typed
  <2>2. QED BY <1>4, <2>1 DEF GoogleTick, ghosts, vendor, IInv, Typed
<1>5. CASE Connect \/ Disconnect
  <2>1. connected' \in BOOLEAN
    BY <1>5, Zenon DEF Connect, Disconnect
  <2>2. faults' \in Nat
    BY <1>5 DEF Connect, Disconnect, Fault, IInv, Typed
  <2>3. UNCHANGED <<vendor, cursor, people, invited, tick, ghosts>>
    BY <1>5 DEF Connect, Disconnect
  <2>4. QED BY <2>1, <2>2, <2>3 DEF ghosts, vendor, IInv, Typed
<1>6. QED BY <1>1, <1>2, <1>3, <1>4, <1>5

LEMMA TypedStep == IInv /\ [Next]_vars => Typed'
<1> SUFFICES ASSUME IInv, [Next]_vars PROVE Typed'
  OBVIOUS
<1>1. ASSUME NEW t \in Ticks, Start(t) \/ Step(t) \/ PollThrows(t) \/ Fail(t)
      PROVE  Typed'
  BY <1>1, StartTyped, RosterTyped, UpsertTyped, InviteTyped, ReadLogTyped,
     PollTyped, FinishTyped, FailTyped DEF Step
<1>2. CASE UNCHANGED vars
  BY <1>2 DEF vars, vendor, ghosts, IInv, Typed
<1>3. QED BY <1>1, <1>2, WorldTyped DEF Next

-----------------------------------------------------------------------------
(***************************************************************************)
(* Which ticks a step moves, and that log and polls only grow: whoever     *)
(* leaves Okta is on the log then.                                         *)
(***************************************************************************)
LogGrows ==
  /\ Len(log) <= Len(log')
  /\ \A n \in 1 .. Len(log) : log'[n] = log[n]
  /\ seen \subseteq seen'
  /\ \A p \in okta \ okta' : \E n \in Len(log) + 1 .. Len(log') : log'[n] = p

\* Tick s is where it was, but for what other ticks' ends mean to it.
Stays(s) ==
  /\ tick'[s].step = tick[s].step
  /\ tick'[s].users = tick[s].users /\ tick'[s].new = tick[s].new
  /\ tick'[s].since = tick[s].since /\ tick'[s].next = tick[s].next
  /\ tick'[s].newest = tick[s].newest /\ tick'[s].upto = tick[s].upto
  /\ tick'[s].fresh = tick[s].fresh

Moves(t) ==
  \/ Start(t) \/ ReadRoster(t) \/ Upsert(t) \/ Invite(t) \/ ReadLog(t)
  \/ Poll(t) \/ PollThrows(t)

World ==
  \/ \E p \in People : Leave(p) \/ Hire(p)
  \/ \E n \in DOMAIN log : Hook(n)
  \/ GoogleTick \/ Connect \/ Disconnect
  \/ UNCHANGED vars

LEMMA Cases ==
  ASSUME [Next]_vars
  PROVE  World \/ \E t \in Ticks : Moves(t) \/ Finish(t) \/ Fail(t)
BY DEF Next, Step, World, Moves

LEMMA OthersStay ==
  ASSUME IInv, NEW t \in Ticks, Moves(t), NEW s \in Ticks, s # t
  PROVE  tick'[s] = tick[s]
<1>1. PICK r : tick' = [tick EXCEPT ![t] = r]
  <2>1. CASE Poll(t) \/ PollThrows(t)
    BY <2>1, AdvanceIs DEF Poll, PollThrows
  <2>2. CASE Start(t) \/ ReadRoster(t) \/ Upsert(t) \/ Invite(t) \/ ReadLog(t)
    BY <2>2 DEF Start, ReadRoster, Upsert, Invite, ReadLog, Goto
  <2>3. QED BY <2>1, <2>2 DEF Moves
<1>2. QED BY <1>1 DEF IInv, Typed

LEMMA OverIs ==
  ASSUME IInv, NEW t \in Ticks, NEW now \in BOOLEAN, Over(t, now), NEW s \in Ticks, Active(s)'
  PROVE  /\ s # t /\ Active(s) /\ Stays(s)
         /\ tick'[s].older = tick[s].older \ {t}
         /\ ~tick'[s].late => ~tick[s].late /\ (now => s \notin tick[t].older)
<1>1. s # t /\ tick[s] # Idle
  BY DEF Over, Active
<1>2. tick[s] \in TickRecord
  BY <1>1 DEF IInv, Typed
<1>3. tick'[s] = [tick[s] EXCEPT !.older = @ \ {t},
                    !.late = @ \/ (now /\ s \in tick[t].older)]
  BY <1>1 DEF Over
<1>4. QED BY <1>1, <1>2, <1>3 DEF Active, Stays, TickRecord

LEMMA Grows == ASSUME IInv, [Next]_vars PROVE LogGrows
<1>1. ASSUME NEW p \in People, Leave(p)
      PROVE  LogGrows
  <2>1. /\ log' = Append(log, p) /\ log \in Seq(People) /\ seen' = seen
        /\ okta' = okta \ {p}
    BY <1>1 DEF Leave, ghosts, IInv, Typed
  <2>2. Len(log) \in Nat /\ Len(log') = Len(log) + 1 /\ log'[Len(log) + 1] = p
    BY <2>1
  <2>3. \A q \in okta \ okta' : \E n \in Len(log) + 1 .. Len(log') : log'[n] = q
    BY <2>1, <2>2
  <2>4. QED BY <2>1, <2>2, <2>3 DEF LogGrows
<1>2. Len(log) \in Nat
  BY DEF IInv, Typed
<1>3. CASE World /\ ~ \E p \in People : Leave(p)
  BY <1>2, <1>3 DEF World, Hire, Hook, GoogleTick, Connect, Disconnect, vars, vendor,
     ghosts, LogGrows
<1>4. ASSUME NEW t \in Ticks, Moves(t) \/ Finish(t) \/ Fail(t)
      PROVE  LogGrows
  <2>1. log' = log /\ okta' = okta
    BY <1>4 DEF Moves, Start, ReadRoster, Upsert, Invite, ReadLog, Poll, PollThrows,
       Finish, Fail, vendor
  <2>2. CASE Poll(t) \/ PollThrows(t)
    <3>1. seen \subseteq seen'
      BY <2>2 DEF Poll, PollThrows, Advance
    <3>2. QED BY <1>2, <2>1, <3>1 DEF LogGrows
  <2>3. CASE ~(Poll(t) \/ PollThrows(t))
    <3>1. seen' = seen
      BY <1>4, <2>3 DEF Moves, Start, ReadRoster, Upsert, Invite, ReadLog, Finish, Fail, ghosts
    <3>2. QED BY <1>2, <2>1, <3>1 DEF LogGrows
  <2>4. QED BY <2>2, <2>3
<1>5. QED BY <1>1, <1>3, <1>4, Cases

\* An event that is the last of its person was so before, if it was there.
LEMMA LatestBefore ==
  ASSUME LogGrows, Typed, Typed', NEW n \in 1 .. Len(log), Latest(n)'
  PROVE  Latest(n) /\ log'[n] = log[n]
<1>1. /\ Len(log) \in Nat /\ Len(log') \in Nat /\ Len(log) <= Len(log')
      /\ DOMAIN log = 1 .. Len(log) /\ DOMAIN log' = 1 .. Len(log')
      /\ log'[n] = log[n]
  <2>1. Len(log) \in Nat /\ DOMAIN log = 1 .. Len(log)
    BY DEF Typed
  <2>2. Len(log') \in Nat /\ DOMAIN log' = 1 .. Len(log')
    <3>1. log' \in Seq(People)
      BY DEF Typed
    <3>2. QED BY <3>1
  <2>3. Len(log) <= Len(log') /\ log'[n] = log[n]
    BY DEF LogGrows
  <2>4. QED BY <2>1, <2>2, <2>3
<1>2. log'[n] \notin okta' /\ \A m \in 1 .. Len(log') : m > n => log'[m] # log'[n]
  BY <1>1 DEF Latest
<1>3. log[n] \notin okta
  <2>1. SUFFICES ASSUME log[n] \in okta PROVE FALSE
    OBVIOUS
  <2>2. PICK m \in Len(log) + 1 .. Len(log') : log'[m] = log[n]
    BY <1>1, <1>2, <2>1 DEF LogGrows
  <2>3. m \in 1 .. Len(log') /\ m > n
    BY <1>1, <2>2
  <2>4. QED BY <1>1, <1>2, <2>2, <2>3
<1>4. ASSUME NEW m \in DOMAIN log, m > n PROVE log[m] # log[n]
  <2>1. m \in 1 .. Len(log') /\ log'[m] = log[m]
    BY <1>1, <1>4 DEF LogGrows
  <2>2. QED BY <1>1, <1>2, <1>4, <2>1
<1>5. QED BY <1>1, <1>3, <1>4 DEF Latest

-----------------------------------------------------------------------------
(***************************************************************************)
(* Walks.                                                                  *)
(***************************************************************************)
LEMMA WalkNumbers ==
  ASSUME IInv, NEW t \in Ticks, Active(t)
  PROVE  /\ tick[t] \in TickRecord /\ Walk(t)
         /\ tick[t].since \in Nat \ {0} /\ tick[t].next \in Nat \ {0}
         /\ tick[t].newest \in Nat \ {0} /\ tick[t].upto \in Nat
         /\ Len(log) \in Nat
BY ActiveIsRecord DEF IInv, Walks, TickRecord, Typed

LEMMA WalkKept ==
  ASSUME IInv, LogGrows, Typed', NEW s \in Ticks, Active(s), Stays(s)
  PROVE  Walk(s)'
<1>1. /\ Walk(s) /\ tick[s].since \in Nat /\ tick[s].next \in Nat
      /\ Len(log) \in Nat /\ Len(log') \in Nat /\ tick[s].upto \in Nat
  BY WalkNumbers DEF Typed
<1>2. Polled(tick[s].since, tick[s].next)'
  BY <1>1 DEF Walk, Polled, LogGrows, Stays
<1>3. ASSUME Rostering(s), NEW p \in tick[s].users
      PROVE  p \in okta' \/ \E n \in tick[s].since .. Len(log') : log'[n] = p
  <2>1. CASE p \in okta
    <3>1. SUFFICES ASSUME p \notin okta' PROVE \E n \in tick[s].since .. Len(log') : log'[n] = p
      OBVIOUS
    <3>2. PICK n \in Len(log) + 1 .. Len(log') : log'[n] = p
      BY <2>1, <3>1 DEF LogGrows
    <3>3. n \in tick[s].since .. Len(log')
      BY <1>1, <3>2 DEF Walk
    <3>4. QED BY <3>2, <3>3
  <2>2. CASE p \notin okta
    <3>1. PICK n \in tick[s].since .. Len(log) : log[n] = p
      BY <1>1, <1>3, <2>2 DEF Walk
    <3>2. n \in 1 .. Len(log) /\ n \in tick[s].since .. Len(log')
      <4>1. tick[s].since \in Nat \ {0}
        BY WalkNumbers
      <4>2. QED BY <1>1, <3>1, <4>1 DEF LogGrows
    <3>3. log'[n] = p
      BY <3>1, <3>2 DEF LogGrows
    <3>4. QED BY <3>2, <3>3
  <2>3. QED BY <2>1, <2>2
<1>4. /\ tick[s].next <= Len(log') + 1
      /\ tick[s].step = "sweep" => tick[s].upto <= Len(log')
  BY <1>1 DEF Walk, LogGrows
<1>5. QED BY <1>1, <1>2, <1>3, <1>4 DEF Walk, Stays, Rostering

LEMMA StartWalk ==
  ASSUME IInv, NEW t \in Ticks, Start(t)
  PROVE  Walk(t)'
<1>1. /\ tick'[t].since = Since /\ tick'[t].next = Since /\ tick'[t].newest = Since
      /\ tick'[t].step = "roster" /\ tick'[t].users = {}
  BY DEF Start, IInv, Typed
<1>2. Since \in Nat /\ Since <= Len(log) + 1 /\ log' = log
  BY DEF IInv, Typed, Lines, Since, Start, vendor
<1>3. QED BY <1>1, <1>2 DEF Walk, Polled, Rostering

LEMMA RosterWalk ==
  ASSUME IInv, NEW t \in Ticks, ReadRoster(t)
  PROVE  Walk(t)'
<1>1. Active(t) /\ tick[t].step = "roster"
  BY DEF ReadRoster, At, Active
<1>2. Walk(t) /\ tick[t] \in TickRecord
  BY <1>1, WalkNumbers
<1>3. /\ tick'[t].users = tick[t].users \cup (Pages[tick[t].page] \cap okta)
      /\ tick'[t].step \in {"roster", "upsert"}
      /\ tick'[t].since = tick[t].since /\ tick'[t].next = tick[t].next
      /\ tick'[t].newest = tick[t].newest
  BY <1>2 DEF ReadRoster, TickRecord, IInv, Typed
<1>4. log' = log /\ seen' = seen /\ okta' = okta
  BY DEF ReadRoster, vendor, ghosts
<1>5. \A p \in tick'[t].users :
        p \in okta \/ \E n \in tick[t].since .. Len(log) : log[n] = p
  BY <1>1, <1>2, <1>3 DEF Walk, Rostering
<1>6. QED BY <1>1, <1>2, <1>3, <1>4, <1>5 DEF Walk, Polled, Rostering

LEMMA UpsertWalk ==
  ASSUME IInv, NEW t \in Ticks, Upsert(t) \/ Invite(t)
  PROVE  /\ Walk(t)'
         /\ tick'[t].since = tick[t].since /\ tick'[t].next = tick[t].next
         /\ tick'[t].fresh = tick[t].fresh /\ tick'[t].older = tick[t].older
         /\ tick'[t].late = tick[t].late
<1>1. Active(t) /\ tick[t].step \in {"upsert", "invite"}
  BY DEF Upsert, Invite, At, Active
<1>2. Walk(t) /\ tick[t] \in TickRecord
  BY <1>1, WalkNumbers
<1>3. /\ tick'[t].step \in {"invite", "log"}
      /\ tick'[t].since = tick[t].since /\ tick'[t].next = tick[t].next
      /\ tick'[t].newest = tick[t].newest
      /\ tick'[t].fresh = tick[t].fresh /\ tick'[t].older = tick[t].older
      /\ tick'[t].late = tick[t].late
  BY <1>2 DEF Upsert, Invite, Goto, TickRecord, IInv, Typed
<1>4. log' = log /\ seen' = seen
  BY DEF Upsert, Invite, vendor, ghosts
<1>5. QED BY <1>1, <1>2, <1>3, <1>4 DEF Walk, Polled, Rostering

LEMMA ReadLogWalk ==
  ASSUME IInv, NEW t \in Ticks, ReadLog(t)
  PROVE  Walk(t)'
<1>1. Active(t) /\ tick[t].step = "log"
  BY DEF ReadLog, At, Active
<1>2. /\ Walk(t) /\ tick[t] \in TickRecord
      /\ tick[t].next \in Nat \ {0} /\ Len(log) \in Nat
  BY <1>1, WalkNumbers
<1>3. /\ tick'[t].step = IF tick[t].next <= Len(log) THEN "sweep" ELSE "finish"
      /\ tick'[t].upto = IF tick[t].next + LogLimit <= Len(log)
                         THEN tick[t].next + LogLimit - 1 ELSE Len(log)
      /\ tick'[t].since = tick[t].since /\ tick'[t].next = tick[t].next
      /\ tick'[t].newest = tick[t].newest
  BY <1>2 DEF ReadLog, TickRecord, IInv, Typed
<1>4. log' = log /\ seen' = seen
  BY DEF ReadLog, vendor, ghosts
<1>5. tick'[t].step = "sweep" =>
        tick[t].next <= tick'[t].upto /\ tick'[t].upto <= Len(log)
  BY <1>2, <1>3, DirectoryAssumption
<1>6. QED BY <1>1, <1>2, <1>3, <1>4, <1>5 DEF Walk, Polled, Rostering

LEMMA PollWalk ==
  ASSUME IInv, NEW t \in Ticks, Poll(t) \/ PollThrows(t)
  PROVE  Walk(t)'
<1>1. Active(t) /\ At(t, "sweep") /\ Advance(t) /\ log' = log
  BY DEF Poll, PollThrows, At, Active, vendor
<1>2. /\ Walk(t) /\ tick[t] \in TickRecord /\ Len(log) \in Nat
      /\ tick[t].next \in Nat \ {0} /\ tick[t].since \in Nat \ {0} /\ tick[t].upto \in Nat
  BY <1>1, WalkNumbers
<1>3. /\ tick'[t].next = tick[t].next + 1 /\ tick'[t].newest = tick[t].next
      /\ tick'[t].since = tick[t].since /\ tick'[t].upto = tick[t].upto
      /\ tick'[t].step \in {"sweep", "log", "finish"}
      /\ tick'[t].step = "sweep" <=> tick[t].next < tick[t].upto
      /\ seen' = seen \cup {tick[t].next}
      /\ tick[t].next \in 1 .. Len(log)
  <2>1. PICK step \in {"sweep", "log", "finish"} :
          /\ tick' = [tick EXCEPT ![t] = [tick[t] EXCEPT
               !.next = tick[t].next + 1, !.step = step, !.newest = tick[t].next]]
          /\ step = "sweep" <=> tick[t].next < tick[t].upto
          /\ seen' = seen \cup {tick[t].next}
          /\ tick[t].next \in 1 .. Len(log)
    BY <1>1, AdvanceIs
  <2>2. tick'[t] = [tick[t] EXCEPT
          !.next = tick[t].next + 1, !.step = step, !.newest = tick[t].next]
    BY <2>1 DEF IInv, Typed
  <2>3. /\ tick'[t].next = tick[t].next + 1 /\ tick'[t].newest = tick[t].next
        /\ tick'[t].since = tick[t].since /\ tick'[t].upto = tick[t].upto
        /\ tick'[t].step = step
    BY <1>2, <2>2 DEF TickRecord
  <2>4. QED BY <2>1, <2>3
<1>4. \A n \in tick[t].since .. tick[t].next : n \in seen'
  <2>1. SUFFICES ASSUME NEW n \in tick[t].since .. tick[t].next
                 PROVE  n \in seen'
    OBVIOUS
  <2>2. n = tick[t].next \/ n \in tick[t].since .. tick[t].next - 1
    BY <1>2, <1>3
  <2>3. QED BY <1>2, <1>3, <2>2 DEF Walk, Polled
<1>5. /\ tick[t].since <= tick[t].next /\ tick[t].next <= tick[t].upto
      /\ tick[t].upto <= Len(log)
  BY <1>1, <1>2 DEF Walk, At
<1>6. QED BY <1>1, <1>2, <1>3, <1>4, <1>5 DEF Walk, Polled, Rostering

LEMMA WalksStep == ASSUME IInv, [Next]_vars PROVE Walks'
<1>1. Typed' /\ LogGrows
  BY TypedStep, Grows
<1>2. CASE World
  <2>1. tick' = tick
    BY <1>2 DEF World, Leave, Hire, Hook, GoogleTick, Connect, Disconnect, vars
  <2>2. QED BY <1>1, <2>1, WalkKept DEF Walks, Active, Stays
<1>3. ASSUME NEW t \in Ticks, Moves(t)
      PROVE  Walks'
  <2>1. Walk(t)'
    BY <1>3, StartWalk, RosterWalk, UpsertWalk, ReadLogWalk, PollWalk DEF Moves
  <2>2. ASSUME NEW s \in Ticks, s # t, Active(s)'
        PROVE  Walk(s)'
    BY <1>1, <1>3, <2>2, OthersStay, WalkKept DEF Active, Stays
  <2>3. QED BY <2>1, <2>2 DEF Walks
<1>4. ASSUME NEW t \in Ticks, Finish(t) \/ Fail(t)
      PROVE  Walks'
  <2>1. \A s \in Ticks : Active(s)' => Active(s) /\ Stays(s)
    BY <1>4, OverIs DEF Finish, Fail
  <2>2. QED BY <1>1, <2>1, WalkKept DEF Walks
<1>5. QED BY <1>2, <1>3, <1>4, Cases

-----------------------------------------------------------------------------
(***************************************************************************)
(* Lines.                                                                  *)
(***************************************************************************)
LEMMA PolledOn ==
  ASSUME LogGrows, NEW a, NEW b, Polled(a, b)
  PROVE  \A n \in a .. (b - 1) : n \in seen'
BY DEF LogGrows, Polled

LEMMA PolledJoin ==
  ASSUME NEW a \in Nat, NEW b \in Nat, NEW c \in Nat, Polled(a, b), Polled(b, c)
  PROVE  Polled(a, c)
BY DEF Polled

\* What the line of polls sees of a run: a run that goes on keeps its start, and
\* loses of the runs before it those that are over.
Continues(s) ==
  /\ Active(s) /\ tick'[s].since = tick[s].since /\ tick'[s].fresh = tick[s].fresh
  /\ \A u \in tick[s].older : Active(u)' => u \in tick'[s].older
  /\ ~tick'[s].late => ~tick[s].late

LEMMA LinesKept ==
  ASSUME IInv, Typed', LogGrows, cursor' = cursor, first' = first,
         \A s \in Ticks : Active(s)' => Continues(s)
  PROVE  Lines'
<1>1. Len(log) \in Nat /\ Len(log') \in Nat /\ cursor \in Nat
  BY DEF IInv, Typed
<1>2. /\ (cursor = 0 <=> first = 0)' /\ (cursor <= Len(log) + 1)'
      /\ (first # 0 => Polled(first, cursor))'
  BY <1>1 DEF IInv, Lines, LogGrows, Polled
<1>3. \A t \in Ticks : Active(t)' /\ ~tick'[t].fresh =>
        first # 0 /\ Polled(first, tick[t].since)
  BY DEF IInv, Lines, Continues
<1>4. \A s \in Ticks : OnTime(s)' => Polled(tick[s].since, cursor)
  BY DEF IInv, Lines, Continues, OnTime
<1>5. \A s, t \in Ticks : OnTime(s)' /\ Active(t)' /\ ~tick'[t].fresh =>
        Polled(tick[s].since, tick[t].since)
  BY DEF IInv, Lines, Continues, OnTime
<1>6. ASSUME NEW s \in Ticks, NEW t \in Ticks, Active(s)', Active(t)',
             tick'[s].fresh, tick'[t].fresh, s # t, s \notin tick'[t].older
      PROVE  tick'[t].since <= tick'[s].since
  BY <1>6 DEF IInv, Lines, Continues
<1>7. /\ \A t \in Ticks : (Active(t) /\ ~tick[t].fresh =>
            first # 0 /\ Polled(first, tick[t].since))'
      /\ \A s \in Ticks : (OnTime(s) => Polled(tick[s].since, cursor))'
      /\ \A s, t \in Ticks : (OnTime(s) /\ Active(t) /\ ~tick[t].fresh =>
            Polled(tick[s].since, tick[t].since))'
  BY <1>3, <1>4, <1>5 DEF Polled, LogGrows, Continues, OnTime
<1>8. QED BY <1>2, <1>6, <1>7 DEF Lines

\* A run that begins continues the line behind the cursor, or begins one; the
\* runs in flight are before it.
LEMMA StartLines ==
  ASSUME IInv, Typed', LogGrows, NEW t \in Ticks, Start(t)
  PROVE  Lines'
<1> DEFINE r == tick'[t]
<1>1. /\ tick'[t].since = Since /\ (tick'[t].fresh <=> cursor = 0)
      /\ tick'[t].older = {s \in Ticks \ {t} : tick[s] # Idle}
  BY DEF Start, IInv, Typed
<1>2. /\ cursor' = cursor /\ first' = first /\ log' = log /\ seen' = seen
      /\ cursor \in Nat /\ first \in Nat /\ Len(log) \in Nat
  BY DEF Start, vendor, ghosts, IInv, Typed
<1>3. \A s \in Ticks : s # t => tick'[s] = tick[s]
  BY OthersStay DEF Moves
<1>4. \A s \in Ticks : Active(s) => tick[s].since \in Nat /\ tick[s].since <= Len(log) + 1
                                    /\ tick[s].since > 0
  <2>1. SUFFICES ASSUME NEW s \in Ticks, Active(s)
                 PROVE  tick[s].since \in Nat /\ tick[s].since <= Len(log) + 1
                        /\ tick[s].since > 0
    OBVIOUS
  <2>2. QED BY <2>1, WalkNumbers DEF Walk
<1>5. ASSUME cursor = 0
      PROVE  Lines'
  <2>1. Since = Len(log) + 1 /\ tick'[t].fresh
    BY <1>1, <1>5 DEF Since
  <2>2. \A s \in Ticks : Active(s)' => tick'[s].fresh
    BY <1>3, <1>5, <2>1 DEF IInv, Lines, Active
  <2>3. \A s \in Ticks : Active(s)' => tick'[s].since > 0 /\ tick'[s].since \in Nat
    BY <1>1, <1>2, <1>3, <1>4, <2>1 DEF Active
  <2>4. \A s \in Ticks : Active(s)' => Polled(tick[s].since, cursor)'
    BY <1>2, <1>5, <2>3 DEF Polled
  <2>5. ASSUME NEW s \in Ticks, NEW u \in Ticks, Active(s)', Active(u)', s # u,
               s \notin tick'[u].older
        PROVE  tick'[u].since <= tick'[s].since
    <3>1. CASE u = t
      BY <1>1, <1>3, <2>5, <3>1 DEF Active
    <3>2. CASE s = t
      BY <1>1, <1>2, <1>3, <1>4, <2>1, <2>5, <3>2 DEF Active
    <3>3. CASE s # t /\ u # t
      BY <1>3, <2>2, <2>5, <3>3 DEF IInv, Lines, Active
    <3>4. QED BY <3>1, <3>2, <3>3
  <2>6. QED BY <1>2, <1>5, <2>2, <2>4, <2>5 DEF Lines, OnTime, IInv
<1>6. ASSUME cursor # 0
      PROVE  Lines'
  <2>1. Since = cursor /\ ~tick'[t].fresh /\ first # 0 /\ Polled(first, cursor)
    BY <1>1, <1>6 DEF Since, IInv, Lines
  <2>2. \A s \in Ticks : OnTime(s)' => s # t /\ OnTime(s)
    BY <1>3, <2>1 DEF OnTime, Active
  <2>3. \A s \in Ticks : Active(s)' /\ ~tick'[s].fresh => Polled(first, tick'[s].since)
    BY <1>1, <1>3, <2>1 DEF IInv, Lines, Active
  <2>4. \A s \in Ticks : OnTime(s)' => Polled(tick'[s].since, cursor)
    BY <1>3, <2>2 DEF IInv, Lines
  <2>5. \A s, u \in Ticks : OnTime(s)' /\ Active(u)' /\ ~tick'[u].fresh =>
          Polled(tick'[s].since, tick'[u].since)
    BY <1>1, <1>3, <2>1, <2>2 DEF IInv, Lines, Active
  <2>6. ASSUME NEW s \in Ticks, NEW u \in Ticks, Active(s)', Active(u)', s # u,
               tick'[s].fresh, tick'[u].fresh, s \notin tick'[u].older
        PROVE  tick'[u].since <= tick'[s].since
    BY <1>3, <2>1, <2>6 DEF IInv, Lines, Active
  <2>7. /\ Polled(first, cursor)'
        /\ \A s \in Ticks : Active(s)' /\ ~tick'[s].fresh => Polled(first, tick[s].since)'
        /\ \A s \in Ticks : OnTime(s)' => Polled(tick[s].since, cursor)'
        /\ \A s, u \in Ticks : OnTime(s)' /\ Active(u)' /\ ~tick'[u].fresh =>
             Polled(tick[s].since, tick[u].since)'
    BY <1>2, <2>1, <2>3, <2>4, <2>5 DEF Polled
  <2>8. QED BY <1>2, <2>1, <2>6, <2>7 DEF Lines, IInv
<1>7. QED BY <1>5, <1>6

\* A run that succeeds becomes the latest one, unless a later one succeeded
\* before it: what is then behind the cursor it has polled, or its line had.
LEMMA FinishLines ==
  ASSUME IInv, Typed', LogGrows, NEW t \in Ticks, Finish(t), ~tick[t].late
  PROVE  Lines'
<1>1. /\ Active(t) /\ cursor' = tick[t].newest /\ log' = log /\ seen' = seen
      /\ first' = IF tick[t].fresh THEN tick[t].since ELSE first
      /\ Over(t, TRUE)
  BY DEF Finish, At, Active, Newest, vendor
<1>2. /\ Walk(t) /\ tick[t].since \in Nat \ {0} /\ tick[t].next \in Nat \ {0}
      /\ tick[t].newest \in Nat \ {0} /\ Len(log) \in Nat /\ first \in Nat
  BY <1>1, WalkNumbers DEF IInv, Typed
<1>3. /\ tick[t].newest <= Len(log) + 1 /\ tick[t].newest >= tick[t].since
      /\ Polled(tick[t].since, tick[t].newest)
  BY <1>2 DEF Walk, Polled
<1>4. \A s \in Ticks : Active(s)' =>
        /\ s # t /\ Active(s) /\ tick'[s].since = tick[s].since
        /\ tick'[s].fresh = tick[s].fresh /\ tick'[s].older = tick[s].older \ {t}
        /\ ~tick'[s].late => ~tick[s].late /\ s \notin tick[t].older
  BY <1>1, OverIs DEF Stays
<1>5. \A s \in Ticks : Active(s) => tick[s].since \in Nat
  BY WalkNumbers
<1>6. \A s \in Ticks : OnTime(s)' => OnTime(s) /\ s # t /\ s \notin tick[t].older
  BY <1>4 DEF OnTime
<1>7. /\ first' # 0 /\ first' \in Nat /\ Polled(first', tick[t].newest)
      /\ \A s \in Ticks : Active(s)' /\ ~tick[s].fresh => Polled(first', tick[s].since)
      /\ \A s \in Ticks : OnTime(s)' => Polled(tick[s].since, tick[t].newest)
  <2>1. CASE tick[t].fresh
    <3>1. first' = tick[t].since /\ OnTime(t)
      BY <1>1, <2>1 DEF OnTime
    <3>2. \A s \in Ticks : Active(s)' /\ ~tick[s].fresh => Polled(first', tick[s].since)
      BY <1>4, <3>1 DEF IInv, Lines
    <3>3. \A s \in Ticks : OnTime(s)' => tick[t].since <= tick[s].since
      BY <1>1, <1>6, <2>1 DEF IInv, Lines, OnTime
    <3>4. \A s \in Ticks : OnTime(s)' => Polled(tick[s].since, tick[t].newest)
      <4>1. SUFFICES ASSUME NEW s \in Ticks, OnTime(s)'
                     PROVE  Polled(tick[s].since, tick[t].newest)
        OBVIOUS
      <4>2. tick[t].since <= tick[s].since /\ tick[s].since \in Nat
        BY <1>5, <1>6, <3>3, <4>1 DEF OnTime
      <4>3. QED BY <1>2, <1>3, <4>2 DEF Polled
    <3>5. QED BY <1>2, <1>3, <3>1, <3>2, <3>4
  <2>2. CASE ~tick[t].fresh
    <3>1. first' = first /\ first # 0 /\ Polled(first, tick[t].since)
      BY <1>1, <2>2 DEF IInv, Lines
    <3>2. Polled(first, tick[t].newest)
      BY <1>2, <1>3, <3>1, PolledJoin
    <3>3. \A s \in Ticks : Active(s)' /\ ~tick[s].fresh => Polled(first, tick[s].since)
      BY <1>4 DEF IInv, Lines
    <3>4. \A s \in Ticks : OnTime(s)' => Polled(tick[s].since, tick[t].newest)
      <4>1. SUFFICES ASSUME NEW s \in Ticks, OnTime(s)'
                     PROVE  Polled(tick[s].since, tick[t].newest)
        OBVIOUS
      <4>2. OnTime(s) /\ tick[s].since \in Nat
        BY <1>5, <1>6, <4>1 DEF OnTime
      <4>3. Polled(tick[s].since, tick[t].since)
        BY <1>1, <2>2, <4>2 DEF IInv, Lines
      <4>4. QED BY <1>2, <1>3, <4>2, <4>3, PolledJoin
    <3>5. QED BY <1>2, <3>1, <3>2, <3>3, <3>4
  <2>3. QED BY <2>1, <2>2
<1>8. /\ Polled(first, cursor)'
      /\ \A s \in Ticks : Active(s)' /\ ~tick'[s].fresh => Polled(first, tick[s].since)'
      /\ \A s \in Ticks : OnTime(s)' => Polled(tick[s].since, cursor)'
  BY <1>1, <1>4, <1>6, <1>7 DEF Polled, OnTime
<1>9. ASSUME NEW s \in Ticks, NEW u \in Ticks, OnTime(s)', Active(u)', ~tick'[u].fresh
      PROVE  Polled(tick[s].since, tick[u].since)'
  <2>1. Polled(tick[s].since, tick[u].since)
    BY <1>4, <1>6, <1>9 DEF IInv, Lines
  <2>2. QED BY <1>1, <1>4, <1>9, <2>1 DEF Polled, OnTime
<1>10. ASSUME NEW s \in Ticks, NEW u \in Ticks, Active(s)', Active(u)', s # u,
              tick'[s].fresh, tick'[u].fresh, s \notin tick'[u].older
       PROVE  tick'[u].since <= tick'[s].since
  BY <1>4, <1>10 DEF IInv, Lines
<1>11. QED BY <1>1, <1>2, <1>3, <1>7, <1>8, <1>9, <1>10 DEF Lines

LEMMA LinesStep == ASSUME IInv, [Next]_vars PROVE Lines'
<1>1. Typed' /\ LogGrows
  BY TypedStep, Grows
<1>2. CASE World
  <2>1. tick' = tick /\ cursor' = cursor /\ first' = first
    BY <1>2 DEF World, Leave, Hire, Hook, GoogleTick, Connect, Disconnect, vars, ghosts
  <2>2. \A s \in Ticks : Active(s)' => Continues(s)
    <3>1. SUFFICES ASSUME NEW s \in Ticks, Active(s)'
                   PROVE  Continues(s)
      OBVIOUS
    <3>2. QED BY <2>1, <3>1 DEF Active, Continues
  <2>3. QED BY <1>1, <2>1, <2>2, LinesKept
<1>3. ASSUME NEW t \in Ticks, Moves(t), ~Start(t)
      PROVE  Lines'
  <2>1. Active(t) /\ tick[t] \in TickRecord
    BY <1>3, ActiveIsRecord DEF Moves, ReadRoster, Upsert, Invite, ReadLog, Poll, PollThrows,
       At, Active, IInv
  <2>2. cursor' = cursor /\ first' = first
    BY <1>3 DEF Moves, ReadRoster, Upsert, Invite, ReadLog, Poll, PollThrows, ghosts
  <2>3. /\ tick'[t].since = tick[t].since /\ tick'[t].fresh = tick[t].fresh
        /\ tick'[t].older = tick[t].older /\ tick'[t].late = tick[t].late
    <3>1. CASE Poll(t) \/ PollThrows(t)
      <4>1. PICK step : tick' = [tick EXCEPT ![t] = [tick[t] EXCEPT
                !.next = tick[t].next + 1, !.step = step, !.newest = tick[t].next]]
        BY <3>1, AdvanceIs DEF Poll, PollThrows
      <4>2. QED BY <2>1, <4>1 DEF TickRecord, IInv, Typed
    <3>2. CASE ReadRoster(t)
      BY <2>1, <3>2 DEF ReadRoster, TickRecord, IInv, Typed
    <3>3. CASE Upsert(t) \/ Invite(t)
      BY <3>3, UpsertWalk
    <3>4. CASE ReadLog(t)
      BY <2>1, <3>4 DEF ReadLog, TickRecord, IInv, Typed
    <3>5. QED BY <1>3, <3>1, <3>2, <3>3, <3>4 DEF Moves
  <2>4. \A s \in Ticks : Active(s)' => Continues(s)
    <3>1. SUFFICES ASSUME NEW s \in Ticks, Active(s)'
                   PROVE  Continues(s)
      OBVIOUS
    <3>2. /\ Active(s) /\ tick'[s].since = tick[s].since /\ tick'[s].fresh = tick[s].fresh
          /\ tick'[s].older = tick[s].older /\ tick'[s].late = tick[s].late
      BY <1>3, <2>1, <2>3, <3>1, OthersStay DEF Active
    <3>3. QED BY <3>2 DEF Continues
  <2>5. QED BY <1>1, <2>2, <2>4, LinesKept
<1>4. ASSUME NEW t \in Ticks, Fail(t) \/ (Finish(t) /\ tick[t].late)
      PROVE  Lines'
  <2>1. cursor' = cursor /\ first' = first /\ (Over(t, TRUE) \/ Over(t, FALSE))
    BY <1>4 DEF Fail, Finish
  <2>2. \A s \in Ticks : Active(s)' => Continues(s)
    <3>1. SUFFICES ASSUME NEW s \in Ticks, Active(s)'
                   PROVE  Continues(s)
      OBVIOUS
    <3>2. ~Active(t)'
      BY <2>1 DEF Over, Active
    <3>3. PICK now \in BOOLEAN : Over(t, now)
      BY <2>1
    <3>4. /\ Active(s) /\ Stays(s) /\ tick'[s].older = tick[s].older \ {t}
          /\ ~tick'[s].late => ~tick[s].late
      BY <3>1, <3>3, OverIs
    <3>5. QED BY <3>2, <3>4 DEF Continues, Stays
  <2>3. QED BY <1>1, <2>1, <2>2, LinesKept
<1>5. ASSUME NEW t \in Ticks, Moves(t) \/ Finish(t) \/ Fail(t)
      PROVE  Lines'
  <2>1. CASE Start(t)
    BY <1>1, <2>1, StartLines
  <2>2. CASE Finish(t) /\ ~tick[t].late
    BY <1>1, <2>2, FinishLines
  <2>3. CASE Moves(t) /\ ~Start(t)
    BY <1>3, <2>3
  <2>4. CASE Fail(t) \/ (Finish(t) /\ tick[t].late)
    BY <1>4, <2>4
  <2>5. QED BY <1>5, <2>1, <2>2, <2>3, <2>4
<1>6. QED BY <1>2, <1>5, Cases

-----------------------------------------------------------------------------
(***************************************************************************)
(* Invites.                                                                *)
(***************************************************************************)
\* Nobody leaves the roster, and nobody comes back from offboarded.
LEMMA RosterStays ==
  ASSUME IInv, [Next]_vars, NEW p \in People
  PROVE  /\ people[p] # "absent" => people'[p] # "absent"
         /\ people[p] = "offboarded" => people'[p] = "offboarded"
<1>1. ASSUME NEW n \in 1 .. Len(log), Swept(log[n])
      PROVE  /\ people[p] # "absent" => people'[p] # "absent"
             /\ people[p] = "offboarded" => people'[p] = "offboarded"
  BY <1>1 DEF Swept, IInv, Typed
<1>2. DOMAIN log = 1 .. Len(log)
  BY DEF IInv, Typed
<1>3. CASE World
  BY <1>1, <1>2, <1>3 DEF World, Leave, Hire, Hook, GoogleTick, Created, Connect, Disconnect, vars
<1>4. ASSUME NEW t \in Ticks, Poll(t) \/ PollThrows(t)
      PROVE  /\ people[p] # "absent" => people'[p] # "absent"
             /\ people[p] = "offboarded" => people'[p] = "offboarded"
  <2>1. tick[t].next \in 1 .. Len(log)
    BY <1>4, AdvanceIs DEF Poll, PollThrows
  <2>2. QED BY <1>1, <1>4, <2>1 DEF Poll, PollThrows
<1>5. ASSUME NEW t \in Ticks, Upsert(t)
      PROVE  /\ people[p] # "absent" => people'[p] # "absent"
             /\ people[p] = "offboarded" => people'[p] = "offboarded"
  BY <1>5 DEF Upsert
<1>6. ASSUME NEW t \in Ticks, Start(t) \/ ReadRoster(t) \/ Invite(t) \/ ReadLog(t)
                              \/ Finish(t) \/ Fail(t)
      PROVE  people' = people
  BY <1>6 DEF Start, ReadRoster, Invite, ReadLog, Finish, Fail
<1>7. QED BY <1>3, <1>4, <1>5, <1>6, Cases DEF Moves

Inviting(t) == Active(t) /\ tick[t].step = "invite"

LEMMA InvitingBefore ==
  ASSUME IInv, [Next]_vars, NEW s \in Ticks, Inviting(s)', ~Upsert(s)
  PROVE  Inviting(s) /\ tick'[s].new = tick[s].new /\ ~Invite(s)
<1>1. CASE World
  BY <1>1 DEF World, Leave, Hire, Hook, GoogleTick, Connect, Disconnect, vars, Inviting,
     Active, Invite, At, Goto, IInv, Typed, TickRecord
<1>2. ASSUME NEW t \in Ticks, Moves(t), s # t
      PROVE  Inviting(s) /\ tick'[s].new = tick[s].new /\ ~Invite(s)
  <2>1. tick'[s] = tick[s] /\ Inviting(s)
    BY <1>2, OthersStay DEF Inviting, Active
  <2>2. ~Invite(s)
    BY <2>1, ActiveIsRecord DEF Invite, Goto, IInv, Typed, TickRecord, Inviting
  <2>3. QED BY <2>1, <2>2
<1>3. CASE Moves(s)
  <2>1. CASE Start(s)
    BY <2>1 DEF Start, Inviting, IInv, Typed
  <2>2. tick[s] \in TickRecord \/ Start(s)
    BY <1>3, ActiveIsRecord DEF Moves, ReadRoster, Upsert, Invite, ReadLog, Poll, PollThrows,
       At, Active, IInv
  <2>3. CASE ReadRoster(s) /\ tick[s] \in TickRecord
    BY <2>3 DEF ReadRoster, Inviting, IInv, Typed, TickRecord
  <2>4. CASE Invite(s) /\ tick[s] \in TickRecord
    BY <2>4 DEF Invite, Goto, Inviting, IInv, Typed, TickRecord
  <2>5. CASE ReadLog(s) /\ tick[s] \in TickRecord
    BY <2>5 DEF ReadLog, Inviting, IInv, Typed, TickRecord
  <2>6. CASE (Poll(s) \/ PollThrows(s)) /\ tick[s] \in TickRecord
    <3>1. PICK step \in {"sweep", "log", "finish"} : tick' = [tick EXCEPT ![s] =
            [tick[s] EXCEPT !.next = tick[s].next + 1, !.step = step,
                            !.newest = tick[s].next]]
      BY <2>6, AdvanceIs DEF Poll, PollThrows
    <3>2. tick'[s].step = step
      BY <2>6, <3>1 DEF IInv, Typed, TickRecord
    <3>3. QED BY <3>1, <3>2 DEF Inviting
  <2>7. QED BY <1>3, <2>1, <2>2, <2>3, <2>4, <2>5, <2>6 DEF Moves
<1>4. ASSUME NEW t \in Ticks, Finish(t) \/ Fail(t)
      PROVE  Inviting(s) /\ tick'[s].new = tick[s].new /\ ~Invite(s)
  <2>1. Active(s) /\ Stays(s) /\ s # t
    BY <1>4, OverIs DEF Finish, Fail, Inviting
  <2>2. Inviting(s) /\ tick'[s].step = "invite"
    BY <2>1 DEF Inviting, Stays
  <2>3. ~Invite(s)
    BY <2>2, ActiveIsRecord DEF Invite, Goto, IInv, Typed, TickRecord, Inviting
  <2>4. QED BY <2>1, <2>2, <2>3 DEF Stays
<1>5. QED BY <1>1, <1>2, <1>3, <1>4, Cases

LEMMA InvitesStep == ASSUME IInv, [Next]_vars PROVE Invites'
<1>1. CASE \E t \in Ticks : Invite(t)
  <2>1. PICK t \in Ticks : Invite(t)
    BY <1>1
  <2>2. /\ invited' = [p \in People |->
             IF p \in tick[t].new /\ people[p] = "active" THEN invited[p] + 1 ELSE invited[p]]
        /\ people' = people /\ Inviting(t) /\ invited \in [People -> Nat]
    BY <2>1 DEF Invite, At, Active, Inviting, IInv, Typed
  <2>3. \A p \in tick[t].new : people[p] # "absent" /\ invited[p] = 0
    BY <2>2 DEF Inviting, IInv, Invites
  <2>4. \A p \in People : invited'[p] <= 1 /\ (invited'[p] = 1 => people'[p] # "absent")
    BY <2>2, <2>3 DEF IInv, Invites
  <2>5. ASSUME NEW s \in Ticks, Upsert(s)
        PROVE  FALSE
    <3>1. tick[s].step = "upsert" /\ Moves(s)
      BY <2>5 DEF Upsert, At, Moves
    <3>2. s # t
      BY <2>2, <3>1 DEF Inviting
    <3>3. tick'[t] = tick[t]
      BY <3>1, <3>2, OthersStay
    <3>4. tick'[t].step = "log"
      BY <2>1, <2>2, ActiveIsRecord DEF Invite, Goto, Inviting, IInv, Typed, TickRecord
    <3>5. QED BY <2>2, <3>3, <3>4 DEF Inviting
  <2>6. \A s \in Ticks : Inviting(s)' =>
          s # t /\ Inviting(s) /\ tick'[s].new = tick[s].new
    BY <2>1, <2>5, InvitingBefore
  <2>7. \A s \in Ticks : Inviting(s)' => tick[s].new \cap tick[t].new = {}
    BY <2>2, <2>6 DEF IInv, Invites, Inviting
  <2>8. \A s \in Ticks : Inviting(s)' =>
          \A p \in tick'[s].new : people'[p] # "absent" /\ invited'[p] = 0
    <3>1. SUFFICES ASSUME NEW s \in Ticks, Inviting(s)', NEW p \in tick'[s].new
                   PROVE  people'[p] # "absent" /\ invited'[p] = 0
      OBVIOUS
    <3>2. Inviting(s) /\ p \in tick[s].new /\ p \notin tick[t].new
      BY <2>6, <2>7, <3>1
    <3>3. p \in People
      BY <3>2, ActiveIsRecord DEF Inviting, IInv, TickRecord
    <3>4. QED BY <2>2, <3>2, <3>3 DEF Inviting, IInv, Invites
  <2>9. \A s, u \in Ticks : Inviting(s)' /\ Inviting(u)' /\ s # u =>
          tick'[s].new \cap tick'[u].new = {}
    BY <2>6 DEF Inviting, IInv, Invites
  <2>10. QED BY <2>4, <2>8, <2>9 DEF Invites, Inviting
<1>2. ASSUME \A t \in Ticks : ~Invite(t)
      PROVE  invited' = invited
  BY <1>2, Cases DEF World, Leave, Hire, Hook, GoogleTick, Connect, Disconnect, vars,
     Moves, Start, ReadRoster, Upsert, ReadLog, Poll, PollThrows, Finish, Fail
<1>3. ASSUME \A t \in Ticks : ~Invite(t) /\ ~Upsert(t)
      PROVE  Invites'
  <2>1. \A s \in Ticks : Inviting(s)' => Inviting(s) /\ tick'[s].new = tick[s].new
    BY <1>3, InvitingBefore
  <2>2. \A p \in People : invited'[p] = invited[p]
                          /\ (people[p] # "absent" => people'[p] # "absent")
    BY <1>2, <1>3, RosterStays
  <2>3. \A s \in Ticks : Inviting(s) => tick[s].new \subseteq People
    BY ActiveIsRecord DEF Inviting, IInv, TickRecord
  <2>4. \A s \in Ticks : Inviting(s)' =>
          \A p \in tick'[s].new : people'[p] # "absent" /\ invited'[p] = 0
    BY <2>1, <2>2, <2>3 DEF Inviting, IInv, Invites
  <2>5. \A s, u \in Ticks : Inviting(s)' /\ Inviting(u)' /\ s # u =>
          tick'[s].new \cap tick'[u].new = {}
    BY <2>1 DEF Inviting, IInv, Invites
  <2>6. \A p \in People : invited'[p] <= 1 /\ (invited'[p] = 1 => people'[p] # "absent")
    BY <2>2 DEF IInv, Invites
  <2>7. QED BY <2>4, <2>5, <2>6 DEF Invites, Inviting
<1>4. ASSUME NEW t \in Ticks, Upsert(t)
      PROVE  Invites'
  <2>1. /\ tick[t] \in TickRecord /\ Active(t) /\ tick[t].step = "upsert"
        /\ invited' = invited /\ Moves(t)
    BY <1>4, ActiveIsRecord DEF Upsert, At, Active, IInv, Moves
  <2>2. tick'[t].new = {p \in tick[t].users : people[p] = "absent"}
    BY <1>4, <2>1 DEF Upsert, Created, TickRecord, IInv, Typed
  <2>3. /\ tick[t].users \subseteq People
        /\ \A p \in tick[t].users : people'[p] # "absent"
    BY <1>4, <2>1 DEF Upsert, TickRecord
  <2>4. invited \in [People -> Nat]
    BY DEF IInv, Typed
  <2>5. \A p \in tick'[t].new :
          p \in People /\ people[p] = "absent" /\ people'[p] # "absent" /\ invited[p] = 0
    BY <2>2, <2>3, <2>4 DEF IInv, Invites
  <2>6. \A s \in Ticks : s # t => tick'[s] = tick[s]
    BY <2>1, OthersStay
  <2>7. \A s \in Ticks : s # t /\ Inviting(s)' => Inviting(s) /\ tick'[s].new = tick[s].new
    BY <2>6 DEF Inviting, Active
  <2>8. \A p \in People : people[p] # "absent" => people'[p] # "absent"
    BY RosterStays
  <2>9. \A s \in Ticks : s # t /\ Inviting(s)' =>
          \A p \in tick'[s].new :
            p \in People /\ people[p] # "absent" /\ people'[p] # "absent" /\ invited[p] = 0
    <3>1. SUFFICES ASSUME NEW s \in Ticks, s # t, Inviting(s)', NEW p \in tick'[s].new
                   PROVE  p \in People /\ people[p] # "absent" /\ people'[p] # "absent"
                          /\ invited[p] = 0
      OBVIOUS
    <3>2. Inviting(s) /\ p \in tick[s].new
      BY <2>7, <3>1
    <3>3. p \in People
      BY <3>2, ActiveIsRecord DEF Inviting, IInv, TickRecord
    <3>4. QED BY <2>8, <3>2, <3>3 DEF Inviting, IInv, Invites
  <2>10. \A s, u \in Ticks : Inviting(s)' /\ Inviting(u)' /\ s # u =>
           tick'[s].new \cap tick'[u].new = {}
    <3>1. SUFFICES ASSUME NEW s \in Ticks, NEW u \in Ticks, Inviting(s)', Inviting(u)', s # u
                   PROVE  tick'[s].new \cap tick'[u].new = {}
      OBVIOUS
    <3>2. CASE s = t \/ u = t
      BY <2>5, <2>9, <3>1, <3>2
    <3>3. CASE s # t /\ u # t
      BY <2>7, <3>1, <3>3 DEF Inviting, IInv, Invites
    <3>4. QED BY <3>2, <3>3
  <2>11. \A s \in Ticks : Inviting(s)' =>
           \A p \in tick'[s].new : people'[p] # "absent" /\ invited'[p] = 0
    BY <2>1, <2>5, <2>9
  <2>12. \A p \in People : invited'[p] <= 1 /\ (invited'[p] = 1 => people'[p] # "absent")
    BY <2>1, <2>8 DEF IInv, Invites
  <2>13. QED BY <2>10, <2>11, <2>12 DEF Invites, Inviting
<1>5. QED BY <1>1, <1>3, <1>4

-----------------------------------------------------------------------------
(***************************************************************************)
(* Leavers.                                                                *)
(***************************************************************************)
LEMMA MultipleOf ==
  ASSUME NEW L \in Nat \ {0}, NEW x \in Nat, NEW k \in Nat, x = L * k
  PROVE  x % L = 0
OBVIOUS

LEMMA NextPageFull ==
  ASSUME NEW L \in Nat \ {0}, NEW x \in Nat, x % L = 0
  PROVE  (x + L) % L = 0
<1>1. PICK k \in Nat : k = x \div L
  OBVIOUS
<1>2. x = L * k
  BY <1>1
<1>3. x + L = L * (k + 1)
  BY <1>2
<1>4. x + L \in Nat /\ k + 1 \in Nat
  OBVIOUS
<1>5. QED BY <1>3, <1>4, MultipleOf

Owed(n) == \E t \in Ticks : Owes(t, n)

\* A tick whose walk stays where it was still owes what it owed.
LEMMA OwesKept ==
  ASSUME IInv, LogGrows, NEW s \in Ticks, Active(s)', Stays(s), NEW n \in seen, Owes(s, n)
  PROVE  Owes(s, n)'
<1>1. log'[n] = log[n]
  BY DEF LogGrows, IInv, Typed
<1>2. QED BY <1>1 DEF Owes, FullTo, Stays

LEMMA LeaversKept ==
  ASSUME IInv, Typed', LogGrows, seen' = seen,
         dropped \subseteq dropped', returned \subseteq returned',
         \A n \in seen : people'[log[n]] = "active" =>
           people[log[n]] = "active" \/ n \in returned',
         \A n \in seen, t \in Ticks :
           Owes(t, n) => Owes(t, n)' \/ n \in dropped'
  PROVE  Leavers'
<1>1. SUFFICES ASSUME NEW n \in seen, Latest(n)', people'[log'[n]] = "active"
               PROVE  n \in dropped' \cup returned' \/ \E t \in Ticks : Owes(t, n)'
  BY DEF Leavers
<1>2. Typed /\ n \in 1 .. Len(log)
  BY DEF IInv, Typed
<1>3. Latest(n) /\ log'[n] = log[n]
  BY <1>1, <1>2, LatestBefore
<1>4. CASE people[log[n]] = "active"
  <2>1. n \in dropped \cup returned \/ \E t \in Ticks : Owes(t, n)
    BY <1>3, <1>4 DEF IInv, Leavers
  <2>2. QED BY <2>1
<1>5. QED BY <1>1, <1>3, <1>4

LEMMA WorldLeavers ==
  ASSUME IInv, Typed', LogGrows, World
  PROVE  Leavers'
<1>1. tick' = tick /\ seen' = seen /\ dropped' = dropped
  BY DEF World, Leave, Hire, Hook, GoogleTick, Connect, Disconnect, vars, ghosts
<1>2. \A n \in seen, t \in Ticks : Owes(t, n) => Owes(t, n)'
  BY <1>1, OwesKept DEF Owes, Active, Stays
<1>3. returned \subseteq returned'
  BY DEF World, Leave, Hire, Hook, GoogleTick, Connect, Disconnect, vars, ghosts
<1>4. ASSUME NEW n \in seen, people'[log[n]] = "active"
      PROVE  people[log[n]] = "active" \/ n \in returned'
  <2>1. log[n] \in People
    BY DEF IInv, Typed
  <2>2. ASSUME NEW m \in DOMAIN log, Hook(m)
        PROVE  people[log[n]] = "active"
    <3>1. log[m] \in People
      BY DEF IInv, Typed
    <3>2. QED BY <1>4, <2>1, <2>2, <3>1 DEF Hook, Swept, IInv, Typed
  <2>3. CASE GoogleTick
    BY <1>4, <2>1, <2>3 DEF GoogleTick, IInv, Typed
  <2>4. CASE UNCHANGED people
    BY <1>4, <2>4
  <2>5. QED BY <2>2, <2>3, <2>4 DEF World, Leave, Hire, Connect, Disconnect, vars
<1>5. QED BY <1>1, <1>2, <1>3, <1>4, LeaversKept

\* Ticks that neither poll nor create anybody.
LEMMA QuietLeavers ==
  ASSUME IInv, Typed', LogGrows, NEW t \in Ticks,
         Start(t) \/ ReadRoster(t) \/ Invite(t) \/ ReadLog(t)
  PROVE  Leavers'
<1>1. /\ seen' = seen /\ dropped' = dropped /\ returned' = returned /\ people' = people
      /\ log' = log /\ Moves(t)
  BY DEF Start, ReadRoster, Invite, ReadLog, ghosts, vendor, Moves
<1>2. ASSUME NEW n \in seen, NEW s \in Ticks, s # t, Owes(s, n)
      PROVE  Owes(s, n)'
  BY <1>1, <1>2, OthersStay, OwesKept DEF Owes, Active, Stays
<1>3. ASSUME NEW n \in seen, Owes(t, n)
      PROVE  Owes(t, n)'
  <2>1. /\ tick[t] \in TickRecord /\ Walk(t) /\ tick[t].step \in {"invite", "log", "sweep"}
        /\ tick[t].next \in Nat \ {0} /\ tick[t].since \in Nat \ {0} /\ Len(log) \in Nat
        /\ n \in 1 .. Len(log)
    BY <1>3, WalkNumbers DEF Owes, IInv, Typed
  <2>2. ~Start(t) /\ ~ReadRoster(t)
    BY <1>3, <2>1 DEF Owes, Active, Start, ReadRoster, At
  <2>3. CASE Invite(t)
    <3>1. tick'[t] = [tick[t] EXCEPT !.step = "log"] /\ tick[t].step = "invite"
      BY <2>3 DEF Invite, At, Goto, IInv, Typed
    <3>2. tick'[t] \in TickRecord
      BY <2>1, <3>1 DEF TickRecord
    <3>3. QED BY <1>1, <1>3, <2>1, <3>1, <3>2, IdleAssumption DEF Owes, FullTo, Active, TickRecord
  <2>4. CASE ReadLog(t)
    <3>1. /\ tick[t].step = "log" /\ FullTo(t, tick[t].next - 1) /\ tick[t].next <= n
          /\ log[n] \in tick[t].new
      BY <1>3, <2>4 DEF Owes, ReadLog, At
    <3>2. /\ tick'[t].step = "sweep" /\ tick'[t].new = tick[t].new
          /\ tick'[t].since = tick[t].since /\ tick'[t].next = tick[t].next
          /\ tick'[t].upto = IF tick[t].next + LogLimit <= Len(log)
                             THEN tick[t].next + LogLimit - 1 ELSE Len(log)
      BY <2>1, <2>4, <3>1 DEF ReadLog, IInv, Typed, TickRecord
    <3>3. tick'[t] \in TickRecord \/ tick'[t] = Idle
      BY DEF Typed
    <3>4. Active(t)'
      <4>1. tick'[t] = [tick[t] EXCEPT
              !.upto = IF tick[t].next + LogLimit <= Len(log)
                       THEN tick[t].next + LogLimit - 1 ELSE Len(log),
              !.step = IF tick[t].next <= Len(log) THEN "sweep" ELSE "finish"]
        BY <2>4 DEF ReadLog, IInv, Typed
      <4>2. PICK upto \in Nat : upto = IF tick[t].next + LogLimit <= Len(log)
                       THEN tick[t].next + LogLimit - 1 ELSE Len(log)
        BY <2>1, DirectoryAssumption
      <4>3. tick'[t] \in TickRecord
        BY <2>1, <4>1, <4>2 DEF TickRecord
      <4>4. QED BY <4>3, IdleAssumption DEF Active
    <3>5. ASSUME tick[t].next + LogLimit <= Len(log)
          PROVE  (tick'[t].upto + 1 - tick[t].since) % LogLimit = 0
      <4>1. PICK a \in Nat, b \in Nat : a = tick[t].next /\ b = tick[t].since /\ b <= a
        BY <2>1 DEF Walk
      <4>2. LogLimit \in Nat \ {0} /\ a - b \in Nat
        BY <4>1, DirectoryAssumption
      <4>3. (a - 1 + 1 - b) % LogLimit = 0
        BY <3>1, <4>1 DEF FullTo
      <4>4. a - 1 + 1 - b = a - b
        BY <4>1
      <4>5. (a - b + LogLimit) % LogLimit = 0
        BY <4>2, <4>3, <4>4, NextPageFull
      <4>6. tick'[t].upto = a + LogLimit - 1
        BY <3>2, <3>5, <4>1
      <4>7. tick'[t].upto + 1 - b = a - b + LogLimit
        BY <4>1, <4>2, <4>6
      <4>8. QED BY <4>1, <4>5, <4>7
    <3>6. n <= tick'[t].upto \/ FullTo(t, tick[t].upto)'
      BY <2>1, <3>2, <3>5 DEF FullTo
    <3>7. QED BY <1>1, <3>1, <3>2, <3>4, <3>6 DEF Owes
  <2>5. QED BY <2>2, <2>3, <2>4
<1>4. QED BY <1>1, <1>2, <1>3, LeaversKept

\* Whom an upsert creates although their event was taken up, its tick owes the
\* sweep: it has read the roster before the event and comes to it yet.
LEMMA UpsertLeavers ==
  ASSUME IInv, Typed', LogGrows, NEW t \in Ticks, Upsert(t)
  PROVE  Leavers'
<1>1. SUFFICES ASSUME NEW n \in seen, Latest(n)', people'[log'[n]] = "active"
               PROVE  n \in dropped' \cup returned' \/ \E s \in Ticks : Owes(s, n)'
  BY DEF Leavers, Upsert, ghosts
<1>2. /\ log' = log /\ dropped' = dropped /\ returned' = returned
      /\ n \in 1 .. Len(log) /\ log[n] \in People
      /\ Moves(t) /\ Active(t) /\ tick[t].step = "upsert"
  BY DEF Upsert, vendor, ghosts, IInv, Typed, Moves, At, Active
<1>. Latest(n)
  BY <1>1, <1>2, LatestBefore DEF IInv
<1>3. CASE people[log[n]] = "active"
  <2>1. n \in dropped \cup returned \/ \E s \in Ticks : Owes(s, n)
    BY <1>3 DEF IInv, Leavers
  <2>2. ASSUME NEW s \in Ticks, Owes(s, n)
        PROVE  Owes(s, n)'
    <3>1. s # t
      BY <1>2, <2>2 DEF Owes
    <3>2. QED BY <1>2, <2>2, <3>1, OthersStay, OwesKept DEF Owes, Active, Stays
  <2>3. QED BY <1>2, <2>1, <2>2
<1>4. CASE people[log[n]] # "active"
  <2>1. log[n] \in tick[t].users /\ people[log[n]] = "absent"
    BY <1>1, <1>2, <1>4 DEF Upsert
  <2>2. /\ tick[t] \in TickRecord /\ Walk(t)
        /\ tick[t].next \in Nat \ {0} /\ tick[t].since \in Nat \ {0}
    BY <1>2, WalkNumbers
  <2>3. tick[t].next = tick[t].since /\ tick[t].since <= n
    <3>1. tick[t].next = tick[t].since
      BY <1>2, <2>2 DEF Walk
    <3>2. log[n] \notin okta /\ \A m \in 1 .. Len(log) : m > n => log[m] # log[n]
      BY DEF Latest, IInv, Typed
    <3>3. PICK m \in tick[t].since .. Len(log) : log[m] = log[n]
      BY <1>2, <2>1, <2>2, <3>2 DEF Walk, Rostering
    <3>4. m \in 1 .. Len(log) /\ Len(log) \in Nat
      BY <2>2, <3>3 DEF IInv, Typed
    <3>5. QED BY <1>2, <2>2, <3>1, <3>2, <3>3, <3>4
  <2>4. log[n] \in Created(tick[t].users)
    BY <2>1 DEF Created
  <2>5. PICK r : r = [tick[t] EXCEPT
         !.new = Created(tick[t].users),
         !.step = IF Created(tick[t].users) = {} THEN "log" ELSE "invite"]
    OBVIOUS
  <2>6. tick'[t] = r /\ r \in TickRecord
    BY <2>2, <2>5 DEF Upsert, IInv, Typed, TickRecord, Created
  <2>7. /\ log[n] \in tick'[t].new /\ tick'[t].step = "invite"
        /\ tick'[t].next = tick[t].next /\ tick'[t].since = tick[t].since
    <3>1. Created(tick[t].users) # {}
      BY <2>4
    <3>2. r = [tick[t] EXCEPT !.new = Created(tick[t].users), !.step = "invite"]
      BY <2>5, <3>1
    <3>3. /\ r.new = Created(tick[t].users) /\ r.step = "invite"
          /\ r.next = tick[t].next /\ r.since = tick[t].since
      BY <2>2, <3>2 DEF TickRecord
    <3>4. QED BY <2>4, <2>6, <3>3
  <2>8. FullTo(t, tick[t].next - 1)'
    <3>1. tick'[t].next - 1 + 1 - tick'[t].since = 0
      BY <2>2, <2>3, <2>7
    <3>2. 0 % LogLimit = 0
      BY DirectoryAssumption
    <3>3. QED BY <3>1, <3>2 DEF FullTo
  <2>9. Owes(t, n)'
    BY <1>2, <2>3, <2>6, <2>7, <2>8, IdleAssumption DEF Owes, Active
  <2>10. QED BY <2>9
<1>5. QED BY <1>3, <1>4

\* A poll sweeps the one of its event, or drops them; what it owes further on it
\* still comes to.
LEMMA PollLeavers ==
  ASSUME IInv, Typed', LogGrows, NEW t \in Ticks, Poll(t) \/ PollThrows(t)
  PROVE  Leavers'
<1> DEFINE here == tick[t].next
<1>1. /\ Moves(t) /\ Active(t) /\ At(t, "sweep") /\ Advance(t)
      /\ log' = log /\ dropped \subseteq dropped' /\ returned' = returned
  BY DEF Poll, PollThrows, Moves, At, Active, vendor
<1>2. PICK step \in {"sweep", "log", "finish"} :
        /\ tick' = [tick EXCEPT ![t] = [tick[t] EXCEPT
             !.next = here + 1, !.step = step, !.newest = here]]
        /\ [tick[t] EXCEPT !.next = here + 1, !.step = step, !.newest = here] \in TickRecord
        /\ step = "sweep" <=> here < tick[t].upto
        /\ step = "finish" => here = tick[t].upto /\ ~FullTo(t, tick[t].upto)
        /\ seen' = seen \cup {here}
        /\ here \in 1 .. Len(log)
  BY <1>1, AdvanceIs
<1>3. SUFFICES ASSUME NEW n \in seen', Latest(n)', people'[log[n]] = "active",
                      n \notin dropped' \cup returned'
               PROVE  \E s \in Ticks : Owes(s, n)'
  BY <1>1 DEF Leavers
<1>4. n \in 1 .. Len(log) /\ log[n] \in People /\ log[here] \in People
  <2>1. seen \subseteq 1 .. Len(log) /\ log \in Seq(People)
    BY DEF IInv, Typed
  <2>2. here \in 1 .. Len(log) /\ n \in seen \cup {here}
    BY <1>2, <1>3
  <2>3. n \in 1 .. Len(log)
    BY <2>1, <2>2
  <2>4. QED BY <2>1, <2>2, <2>3
<1>5. n # here /\ people[log[n]] = "active" /\ Latest(n)
  <2>1. n # here /\ people[log[n]] = "active"
    BY <1>3, <1>4 DEF Poll, PollThrows, Swept, IInv, Typed
  <2>2. QED BY <1>3, <1>4, <2>1, LatestBefore DEF IInv
<1>6. n \in seen /\ n # here
  BY <1>2, <1>5
<1>7. PICK s \in Ticks : Owes(s, n)
  BY <1>1, <1>3, <1>5, <1>6 DEF IInv, Leavers
<1>8. CASE s # t
  BY <1>1, <1>6, <1>7, <1>8, OthersStay, OwesKept DEF Owes, Active, Stays
<1>9. CASE s = t
  <2>1. /\ tick[t] \in TickRecord /\ Walk(t) /\ tick[t].step = "sweep"
        /\ here \in Nat \ {0} /\ tick[t].since \in Nat /\ tick[t].upto \in Nat
    BY <1>1, WalkNumbers DEF At
  <2>2. /\ log[n] \in tick[t].new /\ here <= n
        /\ n <= tick[t].upto \/ FullTo(t, tick[t].upto)
    BY <1>7, <1>9, <2>1 DEF Owes
  <2>3. tick'[t] = [tick[t] EXCEPT !.next = here + 1, !.step = step, !.newest = here]
    BY <1>2 DEF IInv, Typed
  <2>4. /\ tick'[t].next = here + 1 /\ tick'[t].step = step /\ tick'[t].new = tick[t].new
        /\ tick'[t].since = tick[t].since /\ tick'[t].upto = tick[t].upto
    BY <2>1, <2>3 DEF TickRecord
  <2>5. Active(t)'
    BY <1>2, <2>3, IdleAssumption DEF Active
  <2>6. here + 1 <= n /\ here <= tick[t].upto
    BY <1>4, <1>6, <2>1, <2>2 DEF Walk
  <2>7. CASE here < tick[t].upto
    BY <1>1, <1>2, <2>2, <2>4, <2>5, <2>6, <2>7 DEF Owes, FullTo
  <2>8. CASE ~(here < tick[t].upto)
    <3>1. here = tick[t].upto /\ FullTo(t, tick[t].upto)
      BY <1>4, <2>1, <2>2, <2>6, <2>8
    <3>2. step = "log"
      BY <1>2, <2>8, <3>1
    <3>3. FullTo(t, tick[t].next - 1)'
      <4>1. tick'[t].next - 1 = tick[t].upto
        BY <2>1, <2>4, <3>1
      <4>2. QED BY <2>4, <3>1, <4>1 DEF FullTo
    <3>4. QED BY <1>1, <2>2, <2>4, <2>5, <2>6, <3>2, <3>3 DEF Owes
  <2>9. QED BY <2>7, <2>8, <1>9
<1>10. QED BY <1>8, <1>9

\* A run that ends has come to whatever it owed, or drops it.
LEMMA OverLeavers ==
  ASSUME IInv, Typed', LogGrows, NEW t \in Ticks, Finish(t) \/ Fail(t)
  PROVE  Leavers'
<1>1. /\ seen' = seen /\ people' = people /\ dropped \subseteq dropped' /\ returned' = returned
      /\ \E now \in BOOLEAN : Over(t, now)
  BY DEF Finish, Fail
<1>2. ASSUME NEW n \in seen, NEW s \in Ticks, s # t, Owes(s, n)
      PROVE  Owes(s, n)'
  <2>1. PICK now \in BOOLEAN : Over(t, now)
    BY <1>1
  <2>2. tick[s] \in TickRecord /\ Active(s)
    BY <1>2, ActiveIsRecord DEF Owes, IInv
  <2>3. tick'[s] = [tick[s] EXCEPT !.older = @ \ {t},
                      !.late = @ \/ (now /\ s \in tick[t].older)]
    BY <1>2, <2>1, <2>2 DEF Over, Active
  <2>4. PICK late \in BOOLEAN : late = (tick[s].late \/ (now /\ s \in tick[t].older))
    OBVIOUS
  <2>5. [tick[s] EXCEPT !.older = @ \ {t}, !.late = late] \in TickRecord
    BY <2>2, <2>4 DEF TickRecord
  <2>6. tick'[s] \in TickRecord
    BY <2>2, <2>3, <2>4, <2>5 DEF TickRecord
  <2>7. Active(s)'
    BY <2>6, IdleAssumption DEF Active
  <2>8. QED BY <1>2, <2>1, <2>7, OverIs, OwesKept
<1>3. ASSUME NEW n \in seen, Owes(t, n)
      PROVE  n \in dropped'
  <2>1. ~Finish(t)
    BY <1>3 DEF Owes, Finish, At
  <2>2. log[n] \in tick[t].new
    BY <1>3 DEF Owes
  <2>3. QED BY <2>1, <2>2 DEF Fail
<1>4. QED BY <1>1, <1>2, <1>3, LeaversKept

LEMMA LeaversStep == ASSUME IInv, [Next]_vars PROVE Leavers'
<1>1. Typed' /\ LogGrows
  BY TypedStep, Grows
<1>2. ASSUME NEW t \in Ticks, Moves(t) \/ Finish(t) \/ Fail(t)
      PROVE  Leavers'
  BY <1>1, <1>2, QuietLeavers, UpsertLeavers, PollLeavers, OverLeavers DEF Moves
<1>3. QED BY <1>1, <1>2, WorldLeavers, Cases

-----------------------------------------------------------------------------
THEOREM Invariance == Spec => []IInv
<1>1. IInv /\ [Next]_vars => IInv'
  BY TypedStep, WalksStep, LinesStep, InvitesStep, LeaversStep DEF IInv
<1>2. QED BY InitIInv, <1>1, PTL DEF Spec

LEMMA TypedGivesTypeOK == IInv => TypeOK
BY DEF IInv, Typed, Lines, TypeOK

\* No event is behind the cursor of the System Log without a poll having taken it
\* up, for any number of overlapping ticks, of failures and of pages.
THEOREM CursorSkipsNothing == Spec => []NoEventSkipped
<1>1. IInv => NoEventSkipped
  <2>1. SUFFICES ASSUME IInv, NEW n \in DOMAIN log, first <= n, n < cursor, first # 0
                 PROVE  n \in seen
    BY TypedGivesTypeOK DEF NoEventSkipped
  <2>2. Polled(first, cursor) /\ first \in Nat /\ cursor \in Nat /\ n \in Nat
    BY <2>1 DEF IInv, Lines, Typed
  <2>3. n \in first .. cursor - 1
    BY <2>1, <2>2
  <2>4. QED BY <2>2, <2>3 DEF Polled
<1>2. QED BY <1>1, Invariance, PTL

\* A hire is auto-invited at most once, by the run whose upsert created them.
THEOREM HiresInvitedOnce == Spec => []InvitedOnce
<1>1. IInv => InvitedOnce
  BY DEF IInv, Invites, InvitedOnce
<1>2. QED BY <1>1, Invariance, PTL

\* Whoever left, for good, is not active once the cursor has passed their last
\* event, but for a sweep that threw, a run that created them and died or one that
\* still comes to the event, and whom Google put on the roster after it - whether
\* or not the two directories share people, and however often they are hired again.
THEOREM LeaversStayOut == Spec => []LeaversAreOut
<1>1. IInv => LeaversAreOut
  <2>1. SUFFICES ASSUME IInv, NEW n \in DOMAIN log, Gone(n), people[log[n]] = "active",
                        n \notin dropped \cup returned
                 PROVE  \E t \in Ticks : tick[t] # Idle /\ tick[t].next <= n
    BY DEF LeaversAreOut
  <2>2. n >= first /\ n < cursor /\ first # 0 /\ Latest(n)
    BY <2>1 DEF Gone
  <2>3. Polled(first, cursor) /\ first \in Nat /\ cursor \in Nat /\ n \in Nat
    BY <2>1, <2>2 DEF IInv, Lines, Typed
  <2>4. n \in seen
    <3>1. n \in first .. cursor - 1
      BY <2>2, <2>3
    <3>2. QED BY <2>3, <3>1 DEF Polled
  <2>5. PICK t \in Ticks : Owes(t, n)
    BY <2>1, <2>2, <2>4 DEF IInv, Leavers
  <2>6. QED BY <2>5 DEF Owes, Active
<1>2. QED BY <1>1, Invariance, PTL
=============================================================================
