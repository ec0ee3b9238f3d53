---- MODULE Connectors_proofs ----
(***************************************************************************)
(* What the connectors and the success ledger keep, for every board,       *)
(* window and clock.                                                       *)
(*                                                                         *)
(* The ledger: its two tables agree, a verdict once given is taken back    *)
(* only by an earned failure, and a run that reads its window undisturbed  *)
(* promotes no issue that regressed in time. A history only grows, at the  *)
(* end: what was read of it before stays a prefix, so the first times it   *)
(* gives stay what they were.                                              *)
(*                                                                         *)
(* The boards' walks: every issue the token has passed is judged on all    *)
(* that happened to it, as long as the board does not move.                *)
(***************************************************************************)
EXTENDS IssueLedger, MCConnectors, WellFoundedInduction, FiniteSetTheorems, SequenceTheorems, TLAPS

-----------------------------------------------------------------------------
(***************************************************************************)
(* First times.                                                            *)
(***************************************************************************)
LEMMA LeastNat ==
  ASSUME NEW T, T \subseteq Nat, T # {}
  PROVE  \E m \in T : \A n \in T : m <= n
<1>1. PICK R : R = OpToRel(<, Nat)
  BY Zenon
<1>2. IsWellFoundedOn(R, Nat)
  BY <1>1, NatLessThanWellFounded, Zenon
<1>3. PICK m \in T : \A y \in T : ~(<<y, m>> \in R)
  BY <1>2, WFMin
<1>4. R = {ss \in Nat \X Nat : ss[1] < ss[2]}
  BY <1>1 DEF OpToRel
<1>5. \A y \in T : ~(y < m)
  BY <1>3, <1>4
<1>6. QED BY <1>5

LEMMA Bounds ==
  /\ Time = 0..LastTime /\ Time \subseteq Nat /\ Never \in Nat /\ LastTime \in Nat
  /\ LastTime + WindowLength < Never /\ Never \notin Time /\ WindowLength \in Nat
  /\ Instant = 0..Never
BY TimesAssumption DEF Time, Never, Instant

LEMMA EarliestIs ==
  ASSUME NEW T, T \subseteq Time
  PROVE  IF T = {} THEN Earliest(T) = Never
                   ELSE Earliest(T) \in T /\ \A u \in T : Earliest(T) <= u
<1>1. CASE T = {}
  BY <1>1 DEF Earliest
<1>2. CASE T # {}
  <2>1. \E m \in T : \A n \in T : m <= n
    BY <1>2, Bounds, LeastNat
  <2>2. QED BY <1>2, <2>1 DEF Earliest
<1>3. QED BY <1>1, <1>2

LEMMA FirstIs ==
  ASSUME NEW h, NEW S, NEW a \in Int
  PROVE  LET f == FirstEntered(h, S, a)
         IN  \/ /\ f = Never
                /\ \A t \in Time : t > a => h[t] \notin S
             \/ /\ f \in Time /\ h[f] \in S /\ f > a
                /\ \A t \in Time : h[t] \in S /\ t > a => f <= t
<1>1. PICK T : T = {t \in Time : h[t] \in S /\ t > a}
  OBVIOUS
<1>2. FirstEntered(h, S, a) = Earliest(T)
  BY <1>1 DEF FirstEntered
<1>3. T \subseteq Time
  BY <1>1
<1>4. CASE T = {}
  <2>1. Earliest(T) = Never
    BY <1>3, <1>4, EarliestIs
  <2>2. \A t \in Time : t > a => h[t] \notin S
    BY <1>1, <1>4
  <2>3. QED BY <1>2, <2>1, <2>2
<1>5. CASE T # {}
  <2>1. Earliest(T) \in T /\ \A u \in T : Earliest(T) <= u
    BY <1>3, <1>5, EarliestIs
  <2>2. QED BY <1>1, <1>2, <2>1
<1>6. QED BY <1>4, <1>5

LEMMA FirstTyped ==
  ASSUME NEW h, NEW S, NEW a \in Int
  PROVE  FirstEntered(h, S, a) \in Time \cup {Never}
BY FirstIs

LEMMA TimesOf ==
  ASSUME NEW h
  PROVE  /\ SubmittedAt(h) \in Time \cup {Never} /\ DoneAt(h) \in Time \cup {Never}
         /\ Anchor(h) \in Time \cup {Never} /\ RegressedAt(h) \in Time \cup {Never}
         /\ Anchor(h) # Never =>
              WindowEnd(h) \in Instant /\ WindowEnd(h) < Never /\ Anchor(h) <= LastTime
<1>1. SubmittedAt(h) \in Time \cup {Never} /\ DoneAt(h) \in Time \cup {Never}
  BY FirstTyped DEF SubmittedAt, DoneAt
<1>2. Anchor(h) \in Time \cup {Never}
  BY <1>1 DEF Anchor, Lower
<1>3. Anchor(h) \in Int
  BY <1>2, Bounds
<1>4. RegressedAt(h) \in Time \cup {Never}
  BY <1>3, FirstTyped DEF RegressedAt
<1>5. ASSUME Anchor(h) # Never
      PROVE  WindowEnd(h) \in Instant /\ WindowEnd(h) < Never /\ Anchor(h) <= LastTime
  <2>1. PICK n \in 0..LastTime : n = Anchor(h)
    BY <1>2, <1>5, Bounds
  <2>2. WindowEnd(h) = n + WindowLength
    BY <2>1 DEF WindowEnd
  <2>3. QED BY <2>1, <2>2, Bounds
<1>6. QED BY <1>1, <1>2, <1>4, <1>5

\* Which verdict a history gets, and why.
LEMMA EvaluateIs ==
  ASSUME NEW h, NEW n \in Time, NEW v, v = Evaluate(h, n)
  PROVE  /\ v.status = "none" <=> Anchor(h) = Never
         /\ Anchor(h) # Never =>
              /\ v \in Tracking /\ v.windowEnd = WindowEnd(h)
              /\ v.status = "fail" <=> RegressedAt(h) <= WindowEnd(h)
              /\ v.status = "fail" => v.decidedAt = RegressedAt(h) /\ v.decidedAt # Never
              /\ v.status = "success" => DoneAt(h) <= WindowEnd(h) \/ WindowEnd(h) <= n
              /\ v.status = "pending" => WindowEnd(h) < DoneAt(h) /\ n < WindowEnd(h)
<1>1. CASE Anchor(h) = Never
  BY <1>1 DEF Evaluate, Undecided
<1>2. CASE Anchor(h) # Never
  <2>1. PICK w \in Instant : w = WindowEnd(h) /\ w < Never
    BY <1>2, TimesOf
  <2>2. PICK r \in Instant : r = RegressedAt(h)
    BY TimesOf, Bounds
  <2>3. PICK d \in Instant : d = DoneAt(h)
    BY TimesOf, Bounds
  <2>4. v = IF r <= w THEN Decided("fail", w, r)
            ELSE IF d <= w THEN Decided("success", w, d)
            ELSE IF n >= w THEN Decided("success", w, w)
            ELSE Undecided("pending", w)
    BY <1>2, <2>1, <2>2, <2>3 DEF Evaluate
  <2>5. Never \in Instant /\ n \in Nat
    BY Bounds
  <2>6. r \in Nat /\ w \in Nat /\ d \in Nat
    BY <2>1, <2>2, <2>3, Bounds
  <2>7. CASE r <= w
    <3>1. v = [status |-> "fail", windowEnd |-> w, decidedAt |-> r]
      BY <2>4, <2>7 DEF Decided
    <3>2. QED BY <1>2, <2>1, <2>2, <2>6, <2>7, <3>1, Bounds DEF Tracking
  <2>8. CASE ~(r <= w) /\ d <= w
    <3>1. v = [status |-> "success", windowEnd |-> w, decidedAt |-> d]
      BY <2>4, <2>8 DEF Decided
    <3>2. QED BY <1>2, <2>1, <2>2, <2>3, <2>6, <2>8, <3>1 DEF Tracking
  <2>9. CASE ~(r <= w) /\ ~(d <= w) /\ n >= w
    <3>1. v = [status |-> "success", windowEnd |-> w, decidedAt |-> w]
      BY <2>4, <2>9 DEF Decided
    <3>2. QED BY <1>2, <2>1, <2>2, <2>5, <2>6, <2>9, <3>1 DEF Tracking
  <2>10. CASE ~(r <= w) /\ ~(d <= w) /\ ~(n >= w)
    <3>1. v = [status |-> "pending", windowEnd |-> w, decidedAt |-> Never]
      BY <2>4, <2>10 DEF Undecided
    <3>2. QED BY <1>2, <2>1, <2>2, <2>3, <2>5, <2>6, <2>10, <3>1 DEF Tracking
  <2>11. QED BY <2>7, <2>8, <2>9, <2>10
<1>3. QED BY <1>1, <1>2

-----------------------------------------------------------------------------
(***************************************************************************)
(* A history read earlier.                                                 *)
(***************************************************************************)
\* h says what g said, up to the last entry of g.
Later(h, g) == \A t \in Time : g[t] # NoStatus => \A u \in 0..t : h[u] = g[u]

\* A history bears a row out, for a run whose clock says n.
Backs(h, row, n) ==
  /\ Anchor(h) # Never /\ row.windowEnd = WindowEnd(h)
  /\ row.status = "fail" => RegressedAt(h) <= WindowEnd(h)
  /\ row.status = "success" => DoneAt(h) <= WindowEnd(h) \/ WindowEnd(h) <= n

LEMMA FirstLater ==
  ASSUME NEW h, NEW g, Later(h, g), NEW S, S \subseteq Statuses, NEW a \in Int
  PROVE  /\ FirstEntered(g, S, a) # Never => FirstEntered(h, S, a) = FirstEntered(g, S, a)
         /\ \A t \in Time : g[t] # NoStatus /\ FirstEntered(g, S, a) = Never
                              => t < FirstEntered(h, S, a)
<1>1. PICK f : f = FirstEntered(g, S, a)
  OBVIOUS
<1>2. PICK k : k = FirstEntered(h, S, a)
  OBVIOUS
<1>3. \/ f = Never /\ \A t \in Time : t > a => g[t] \notin S
      \/ f \in Time /\ g[f] \in S /\ f > a /\ \A t \in Time : g[t] \in S /\ t > a => f <= t
  BY <1>1, FirstIs
<1>4. \/ k = Never /\ \A t \in Time : t > a => h[t] \notin S
      \/ k \in Time /\ h[k] \in S /\ k > a /\ \A t \in Time : h[t] \in S /\ t > a => k <= t
  BY <1>2, FirstIs
<1>5. ASSUME f # Never
      PROVE  k = f
  <2>1. f \in Time /\ g[f] # NoStatus /\ f \in Nat
    BY <1>3, <1>5, StatusesAssumption, Bounds
  <2>2. \A u \in 0..f : h[u] = g[u]
    BY <2>1 DEF Later
  <2>3. h[f] \in S
    BY <1>3, <1>5, <2>1, <2>2
  <2>4. k \in Time /\ k <= f /\ h[k] \in S /\ k > a
    BY <1>3, <1>4, <1>5, <2>1, <2>3
  <2>5. g[k] \in S
    BY <2>1, <2>2, <2>4, Bounds
  <2>6. f <= k
    BY <1>3, <1>5, <2>4, <2>5
  <2>7. QED BY <2>1, <2>4, <2>6, Bounds
<1>6. ASSUME NEW t \in Time, g[t] # NoStatus, f = Never
      PROVE  t < k
  <2>1. \A u \in 0..t : h[u] = g[u]
    BY <1>6 DEF Later
  <2>2. CASE k = Never
    BY <2>2, Bounds
  <2>3. CASE k \in Time /\ h[k] \in S /\ k > a
    <3>1. ~(k <= t)
      BY <1>3, <1>6, <2>1, <2>3, Bounds
    <3>2. QED BY <2>3, <3>1, Bounds
  <2>4. QED BY <1>4, <2>2, <2>3
<1>7. QED BY <1>1, <1>2, <1>5, <1>6

LEMMA AnchorLater ==
  ASSUME NEW h, NEW g, Later(h, g), Anchor(g) # Never
  PROVE  Anchor(h) = Anchor(g) /\ WindowEnd(h) = WindowEnd(g)
<1>1. PICK s, t : s = SubmittedAt(g) /\ t = SubmittedAt(h)
  OBVIOUS
<1>2. PICK d, e : d = DoneAt(g) /\ e = DoneAt(h)
  OBVIOUS
<1>3. SubmitStatuses \subseteq Statuses /\ DoneStatuses \subseteq Statuses
  BY StatusesAssumption
<1>4. /\ s # Never => t = s
      /\ \A u \in Time : g[u] # NoStatus /\ s = Never => u < t
  BY <1>1, <1>3, FirstLater DEF SubmittedAt
<1>5. /\ d # Never => e = d
      /\ \A u \in Time : g[u] # NoStatus /\ d = Never => u < e
  BY <1>2, <1>3, FirstLater DEF DoneAt
<1>6. /\ s \in Time \cup {Never} /\ t \in Time \cup {Never}
      /\ d \in Time \cup {Never} /\ e \in Time \cup {Never}
  BY <1>1, <1>2, TimesOf
<1>7. s \in Time => g[s] # NoStatus
  BY <1>1, <1>3, FirstIs, StatusesAssumption, Bounds DEF SubmittedAt
<1>8. d \in Time => g[d] # NoStatus
  BY <1>2, <1>3, FirstIs, StatusesAssumption, Bounds DEF DoneAt
<1>9. Anchor(g) = Lower(s, d) /\ Anchor(h) = Lower(t, e)
  BY <1>1, <1>2 DEF Anchor
<1>10. Lower(t, e) = Lower(s, d)
  <2>1. CASE s # Never /\ d # Never
    BY <1>4, <1>5, <2>1
  <2>2. CASE s # Never /\ d = Never
    <3>1. s \in Time /\ t = s /\ s < e
      BY <1>4, <1>5, <1>6, <1>7, <2>2
    <3>2. QED BY <1>6, <2>2, <3>1, Bounds DEF Lower
  <2>3. CASE s = Never /\ d # Never
    <3>1. d \in Time /\ e = d /\ d < t
      BY <1>4, <1>5, <1>6, <1>8, <2>3
    <3>2. QED BY <1>6, <2>3, <3>1, Bounds DEF Lower
  <2>4. CASE s = Never /\ d = Never
    BY <1>9, <2>4 DEF Lower
  <2>5. QED BY <2>1, <2>2, <2>3, <2>4
<1>11. QED BY <1>9, <1>10 DEF WindowEnd

LEMMA RegressedLater ==
  ASSUME NEW h, NEW g, Later(h, g), Anchor(g) # Never,
         RegressedAt(g) <= WindowEnd(g)
  PROVE  RegressedAt(h) = RegressedAt(g) /\ RegressedAt(h) <= WindowEnd(h)
<1>1. Anchor(h) = Anchor(g) /\ WindowEnd(h) = WindowEnd(g)
  BY AnchorLater
<1>2. PICK a \in Int : a = Anchor(g)
  BY TimesOf, Bounds
<1>3. RegressedAt(g) # Never
  <2>1. PICK w \in Instant : w = WindowEnd(g) /\ w < Never
    BY TimesOf
  <2>2. QED BY <2>1, Bounds
<1>4. FailStatuses \subseteq Statuses
  BY StatusesAssumption
<1>5. RegressedAt(h) = RegressedAt(g)
  BY <1>1, <1>2, <1>3, <1>4, FirstLater DEF RegressedAt
<1>6. QED BY <1>1, <1>5

LEMMA DoneLater ==
  ASSUME NEW h, NEW g, Later(h, g), Anchor(g) # Never, DoneAt(g) <= WindowEnd(g)
  PROVE  DoneAt(h) <= WindowEnd(h)
<1>1. Anchor(h) = Anchor(g) /\ WindowEnd(h) = WindowEnd(g)
  BY AnchorLater
<1>2. PICK w \in Instant : w = WindowEnd(g) /\ w < Never
  BY TimesOf
<1>3. DoneAt(g) # Never
  BY <1>2, Bounds
<1>4. DoneStatuses \subseteq Statuses
  BY StatusesAssumption
<1>5. DoneAt(h) = DoneAt(g)
  BY <1>3, <1>4, FirstLater DEF DoneAt
<1>6. QED BY <1>1, <1>5

LEMMA BacksLater ==
  ASSUME NEW h, NEW g, Later(h, g), NEW row, NEW n, Backs(g, row, n)
  PROVE  Backs(h, row, n)
<1>1. Anchor(g) # Never /\ Anchor(h) = Anchor(g) /\ WindowEnd(h) = WindowEnd(g)
  BY AnchorLater DEF Backs
<1>2. QED BY <1>1, RegressedLater, DoneLater DEF Backs

\* What the ledger has of an issue and what a page says of it: a failure stays
\* one, a success is never pending again.
LEMMA VerdictsLast ==
  ASSUME NEW h, NEW n \in Time, NEW row, Backs(h, row, n), NEW v, v = Evaluate(h, n)
  PROVE  /\ v.status # "none" /\ v \in Tracking
         /\ row.status = "fail" => v.status = "fail"
         /\ row.status = "success" => v.status # "pending"
<1>1. Anchor(h) # Never
  BY DEF Backs
<1>2. v.status # "none" /\ v \in Tracking
  BY <1>1, EvaluateIs
<1>3. row.status = "fail" => v.status = "fail"
  BY <1>1, EvaluateIs DEF Backs
<1>4. ASSUME row.status = "success", v.status = "pending"
      PROVE  FALSE
  <2>1. PICK w \in Instant : w = WindowEnd(h)
    BY <1>1, TimesOf
  <2>2. PICK d \in Instant : d = DoneAt(h)
    BY TimesOf, Bounds
  <2>3. w < d /\ n < w
    BY <1>1, <1>4, <2>1, <2>2, EvaluateIs
  <2>4. d <= w \/ w <= n
    BY <1>4, <2>1, <2>2 DEF Backs
  <2>5. QED BY <2>1, <2>2, <2>3, <2>4, Bounds
<1>5. QED BY <1>2, <1>3, <1>4

-----------------------------------------------------------------------------
(***************************************************************************)
(* What the ledger keeps. The rows are borne out by the histories as they  *)
(* are now, and by the histories a page in memory carries, which are       *)
(* earlier readings of the same.                                           *)
(***************************************************************************)
Tracked(i) == tracking[i] # NoRow

Agree(row, o) ==
  IF row = NoRow \/ row.status = "pending" THEN o = NoRow
  ELSE IF row.status = "success" THEN o = [ts |-> row.decidedAt, revertedAt |-> Never]
  ELSE ~(o # NoRow /\ o.revertedAt = Never)

Clocks ==
  /\ now <= clock
  /\ \A i \in Issues : /\ updated[i] <= clock
                       /\ \A t \in Time : history[i][t] # NoStatus => t <= clock

Stages ==
  /\ phase \in {"fetching", "committing"} => cursor.inProgress # NoWindow
  /\ phase = "committing" => page.served \subseteq cursor.inProgress.unread
  /\ phase # "committing" => page = NoPage
  /\ DOMAIN page.carries \subseteq page.served

Backed ==
  /\ \A i \in Issues : Tracked(i) => Backs(history[i], tracking[i], now)
  /\ \A i \in DOMAIN page.carries :
       /\ Later(history[i], page.carries[i])
       /\ Tracked(i) => Backs(page.carries[i], tracking[i], now)

Agreed == \A i \in Issues : Agree(tracking[i], outcomes[i])

LedgerIInv == TypeOK /\ Agreed /\ Clocks /\ Stages /\ Backed

LEMMA AgreedIsCounted == TypeOK /\ Agreed => CountsMatchTracking
BY DEF Agreed, Agree, CountsMatchTracking, Live

LEMMA DaysOf ==
  ASSUME NEW t \in Time
  PROVE  /\ DayOf(t) \in Days /\ DayOf(t) \in Nat
         /\ \A u \in Time : u <= t => DayOf(u) <= DayOf(t)
         /\ NoDay \notin Days /\ Days \subseteq Nat
<1>1. TicksPerDay \in Nat \ {0} /\ LastTime \in Nat
  BY TimesAssumption
<1>2. \A u, w \in Nat : u <= w => u \div TicksPerDay <= w \div TicksPerDay
  BY <1>1
<1>3. \A u \in Nat : u \div TicksPerDay \in Nat
  BY <1>1
<1>4. QED BY <1>1, <1>2, <1>3, Bounds DEF DayOf, Days, Time, NoDay

LEMMA NoPageIs == NoPage.served = {} /\ DOMAIN NoPage.carries = {}
BY DEF NoPage

LEMMA LedgerInit == Init => LedgerIInv
<1> SUFFICES ASSUME Init PROVE LedgerIInv
  OBVIOUS
<1>1. 0 \in Time /\ NoDay \notin Days
  BY Bounds, DaysOf
<1>2. history \in [Issues -> History]
  BY DEF Init, History
<1>3. cursor \in [mark : Days \cup {NoDay}, inProgress : Window \cup {NoWindow}]
  BY DEF Init
<1>4. 0 \in 0..MaxTouches /\ 0 \in 0..MaxFaults
  BY TimesAssumption
<1>5. TypeOK
  BY <1>1, <1>2, <1>3, <1>4, NoPageIs DEF Init, TypeOK
<1>6. Agreed
  BY DEF Init, Agreed, Agree
<1>7. Clocks
  BY <1>1 DEF Init, Clocks
<1>8. Stages /\ Backed
  BY NoPageIs DEF Init, Stages, Backed, Tracked
<1>9. QED BY <1>5, <1>6, <1>7, <1>8 DEF LedgerIInv

LEMMA LaterRefl == \A h : Later(h, h)
BY DEF Later

LEMMA LaterTrans ==
  ASSUME NEW h, NEW g, NEW f, Later(h, g), Later(g, f)
  PROVE  Later(h, f)
<1> SUFFICES ASSUME NEW t \in Time, f[t] # NoStatus, NEW u \in 0..t
             PROVE  h[u] = f[u]
  BY DEF Later
<1>1. t \in 0..t
  BY Bounds
<1>2. g[t] = f[t] /\ g[u] = f[u]
  BY <1>1 DEF Later
<1>3. QED BY <1>2 DEF Later

\* What the vendor does leaves every history a later reading of what it was.
LEMMA HistoryGrows ==
  ASSUME LedgerIInv, Vendor
  PROVE  /\ \A i \in Issues : Later(history'[i], history[i])
         /\ \A i \in Issues : \A t \in Time :
              history'[i][t] = history[i][t] \/ (t = clock /\ (phase # "idle" => now < t))
<1>1. CASE history' = history
  BY <1>1, LaterRefl
<1>2. ASSUME NEW i \in Issues, NEW s \in Statuses, Transition(i, s)
      PROVE  /\ \A j \in Issues : Later(history'[j], history[j])
             /\ \A j \in Issues : \A t \in Time :
                  history'[j][t] = history[j][t] \/ (t = clock /\ (phase # "idle" => now < t))
  <2>1. history[i] \in [Time -> Statuses \cup {NoStatus}] /\ clock \in Time
        /\ history \in [Issues -> History] /\ now \in Time
    BY DEF LedgerIInv, TypeOK, History
  <2>2. PICK h : h = [history[i] EXCEPT ![clock] = s]
    OBVIOUS
  <2>3. history' = [history EXCEPT ![i] = h]
    BY <1>2, <2>2 DEF Transition
  <2>4. \A t \in Time : t # clock => h[t] = history[i][t]
    BY <2>1, <2>2
  <2>5. history'[i] = h /\ \A j \in Issues : j # i => history'[j] = history[j]
    BY <2>1, <2>3
  <2>6. Later(h, history[i])
    <3>1. SUFFICES ASSUME NEW t \in Time, history[i][t] # NoStatus, NEW u \in 0..t
                   PROVE  h[u] = history[i][u]
      BY DEF Later
    <3>2. t <= clock /\ t # clock
      BY <1>2, <3>1 DEF Transition, LedgerIInv, Clocks
    <3>3. u \in Time /\ u # clock
      BY <2>1, <3>2, Bounds
    <3>4. QED BY <2>4, <3>3
  <2>7. phase # "idle" => now < clock
    BY <1>2, <2>1, Bounds DEF Transition
  <2>8. QED BY <2>4, <2>5, <2>6, <2>7, LaterRefl
<1>3. QED BY <1>1, <1>2 DEF Vendor, Tick, Edit

LEMMA VendorKeeps ==
  ASSUME LedgerIInv, Vendor
  PROVE  LedgerIInv'
<1>1. /\ UNCHANGED <<tracking, outcomes, cursor, phase, now, page, clean, faults>>
  BY DEF Vendor, Tick, Transition, Edit, ledger
<1>2. clock \in Time /\ clock' \in Time /\ clock <= clock' /\ now \in Time
  <2>1. clock \in Time /\ now \in Time
    BY DEF LedgerIInv, TypeOK
  <2>2. QED BY <2>1, Bounds DEF Vendor, Tick, Transition, Edit
<1>3. history' \in [Issues -> History]
  <2>1. history \in [Issues -> History]
    BY DEF LedgerIInv, TypeOK
  <2>2. ASSUME NEW i \in Issues, NEW s \in Statuses
        PROVE  [history EXCEPT ![i][clock] = s] \in [Issues -> History]
    BY <1>2, <2>1 DEF History
  <2>3. QED BY <2>1, <2>2 DEF Vendor, Tick, Transition, Edit
<1>4. updated' \in [Issues -> Time] /\ touches' \in 0..MaxTouches
  <2>1. updated \in [Issues -> Time] /\ touches \in 0..MaxTouches /\ MaxTouches \in Nat
    BY TimesAssumption DEF LedgerIInv, TypeOK
  <2>2. ASSUME NEW i \in Issues
        PROVE  [updated EXCEPT ![i] = clock] \in [Issues -> Time]
    BY <1>2, <2>1
  <2>3. QED BY <2>1, <2>2 DEF Vendor, Tick, Transition, Edit
<1>5. TypeOK'
  BY <1>1, <1>2, <1>3, <1>4 DEF LedgerIInv, TypeOK
<1>6. Agreed' /\ Stages'
  BY <1>1 DEF LedgerIInv, Agreed, Stages
<1>7. Clocks'
  <2>1. now' <= clock'
    BY <1>1, <1>2, Bounds DEF LedgerIInv, Clocks
  <2>2. ASSUME NEW i \in Issues
        PROVE  updated'[i] <= clock'
    <3>1. updated[i] \in Time /\ updated[i] <= clock /\ updated \in [Issues -> Time]
      BY DEF LedgerIInv, TypeOK, Clocks
    <3>2. updated'[i] = updated[i] \/ updated'[i] = clock
      BY <3>1 DEF Vendor, Tick, Transition, Edit
    <3>3. QED BY <1>2, <3>1, <3>2, Bounds
  <2>3. ASSUME NEW i \in Issues, NEW t \in Time, history'[i][t] # NoStatus
        PROVE  t <= clock'
    <3>1. history'[i][t] = history[i][t] \/ t = clock
      <4>1. ASSUME NEW j \in Issues, NEW s \in Statuses, Transition(j, s), t # clock
            PROVE  history'[i][t] = history[i][t]
        <5>1. history \in [Issues -> [Time -> Statuses \cup {NoStatus}]]
          BY DEF LedgerIInv, TypeOK, History
        <5>2. QED BY <4>1, <5>1 DEF Transition
      <4>2. QED BY <4>1 DEF Vendor, Tick, Edit
    <3>2. t <= clock
      BY <1>2, <2>3, <3>1, Bounds DEF LedgerIInv, Clocks
    <3>3. QED BY <1>2, <3>2, Bounds
  <2>4. QED BY <2>1, <2>2, <2>3 DEF Clocks
<1>8. Backed'
  <2>1. \A i \in Issues : Later(history'[i], history[i])
    BY HistoryGrows
  <2>2. \A i \in DOMAIN page.carries : i \in Issues
    BY DEF LedgerIInv, TypeOK
  <2>3. \A i \in Issues : Tracked(i)' => Backs(history'[i], tracking[i], now)
    BY <1>1, <2>1, BacksLater DEF LedgerIInv, Backed, Tracked
  <2>4. \A i \in DOMAIN page.carries : Later(history'[i], page.carries[i])
    BY <2>1, <2>2, LaterTrans DEF LedgerIInv, Backed
  <2>5. QED BY <1>1, <2>3, <2>4 DEF LedgerIInv, Backed, Tracked, Backs, Later
<1>9. QED BY <1>5, <1>6, <1>7, <1>8 DEF LedgerIInv

LEMMA WindowTyped ==
  ASSUME TypeOK
  PROVE  NextWindow \in Window /\ Today \in Days /\ NextWindow # NoWindow
<1>1. Today \in Days /\ Today \in Int
  BY DaysOf DEF TypeOK, Today
<1>2. cursor.mark \in Int
  BY DaysOf, Bounds DEF TypeOK, NoDay
<1>3. RepullDays \in Int /\ HistoryLimit \in Int
  BY TimesAssumption
<1>4. cursor.inProgress \in Window \cup {NoWindow}
  BY DEF TypeOK
<1>5. NextWindow \in Window
  BY <1>1, <1>2, <1>3, <1>4 DEF NextWindow, Window, Higher, Lower
<1>6. QED BY <1>1, <1>5, NullsAssumption

LEMMA OpenKeeps ==
  ASSUME LedgerIInv, Open
  PROVE  LedgerIInv'
<1>1. /\ UNCHANGED <<clock, history, updated, touches, tracking, outcomes, page, faults>>
      /\ now' = clock /\ phase = "idle" /\ phase' = "fetching" /\ page = NoPage
      /\ clean' = (cursor.inProgress = NoWindow)
  BY DEF Open, vendorVars, ledger, LedgerIInv, Stages
<1>2. cursor' = [cursor EXCEPT !.inProgress = NextWindow]
      /\ cursor'.inProgress = NextWindow /\ cursor'.inProgress # NoWindow
  BY WindowTyped DEF LedgerIInv, TypeOK, Open
<1>3. TypeOK'
  <2>1. cursor' \in [mark : Days \cup {NoDay}, inProgress : Window \cup {NoWindow}]
    BY <1>2, WindowTyped DEF LedgerIInv, TypeOK
  <2>2. clean' \in BOOLEAN
    BY <1>1
  <2>3. QED BY <1>1, <2>1, <2>2 DEF LedgerIInv, TypeOK
<1>4. Agreed'
  BY <1>1 DEF LedgerIInv, Agreed
<1>5. Clocks'
  <2>1. clock \in Nat
    BY Bounds DEF LedgerIInv, TypeOK
  <2>2. QED BY <1>1, <2>1 DEF LedgerIInv, Clocks
<1>6. Stages'
  BY <1>1, <1>2, NoPageIs DEF LedgerIInv, Stages
<1>7. Backed'
  <2>1. ASSUME NEW i \in Issues, Tracked(i)
        PROVE  Backs(history[i], tracking[i], clock)
    <3>1. Backs(history[i], tracking[i], now)
      BY <2>1 DEF LedgerIInv, Backed
    <3>2. PICK w \in Nat : w = WindowEnd(history[i])
      BY <3>1, TimesOf, Bounds DEF Backs
    <3>3. now <= clock /\ now \in Nat /\ clock \in Nat
      BY Bounds DEF LedgerIInv, TypeOK, Clocks
    <3>4. w <= now => w <= clock
      BY <3>2, <3>3
    <3>5. QED BY <3>1, <3>2, <3>4 DEF Backs
  <2>2. QED BY <1>1, <2>1, NoPageIs DEF Backed, Tracked
<1>8. QED BY <1>3, <1>4, <1>5, <1>6, <1>7 DEF LedgerIInv

LEMMA FetchKeeps ==
  ASSUME LedgerIInv, NEW S \in SUBSET Issues, Fetch(S)
  PROVE  LedgerIInv'
<1>1. /\ UNCHANGED <<clock, history, updated, touches, tracking, outcomes, cursor, now, faults>>
      /\ phase = "fetching" /\ phase' = "committing" /\ S \subseteq cursor.inProgress.unread
      /\ page'.served = S /\ DOMAIN page'.carries = {j \in S : InWindow(j)}
      /\ \A i \in {j \in S : InWindow(j)} : page'.carries[i] = history[i]
      /\ clean' = (clean /\ Today = cursor.inProgress.until)
  BY DEF Fetch, vendorVars, ledger
<1>2. TypeOK'
  <2>1. clean' \in BOOLEAN
    BY <1>1 DEF LedgerIInv, TypeOK
  <2>2. \A i \in DOMAIN page'.carries : i \in Issues /\ page'.carries[i] \in History
    BY <1>1 DEF LedgerIInv, TypeOK
  <2>3. QED BY <1>1, <2>1, <2>2 DEF LedgerIInv, TypeOK
<1>3. Agreed' /\ Clocks'
  BY <1>1 DEF LedgerIInv, Agreed, Clocks
<1>4. Stages'
  BY <1>1 DEF LedgerIInv, Stages
<1>5. Backed'
  <2>1. \A i \in Issues : Tracked(i)' => Backs(history[i], tracking[i], now)
    BY <1>1 DEF LedgerIInv, Backed, Tracked
  <2>2. \A i \in DOMAIN page'.carries :
          i \in Issues /\ page'.carries[i] = history[i] /\ Later(history[i], page'.carries[i])
    BY <1>1, LaterRefl
  <2>3. QED BY <1>1, <2>1, <2>2 DEF Backed, Tracked, Backs, Later
<1>6. QED BY <1>2, <1>3, <1>4, <1>5 DEF LedgerIInv

\* Restating a row and its count on a verdict that does not contradict them.
LEMMA RestatedAgrees ==
  ASSUME NEW row \in Tracking \cup {NoRow}, NEW o \in Outcome \cup {NoRow}, Agree(row, o),
         NEW v \in Tracking, NEW n,
         v.status = "fail" => v.decidedAt # Never,
         row # NoRow => /\ row.status = "fail" => v.status = "fail"
                        /\ row.status = "success" => v.status # "pending",
         n = IF v.status = "success" THEN Emitted(o, v.decidedAt)
             ELSE IF v.status = "fail" THEN Flipped(o, v.decidedAt) ELSE o
  PROVE  n \in Outcome \cup {NoRow} /\ Agree(v, n)
<1>1. v # NoRow /\ v.decidedAt \in Instant /\ Never \in Instant
  BY NullsAssumption, Bounds DEF Tracking
<1>2. CASE v.status = "success"
  <2>1. PICK r \in Instant : r = IF o = NoRow THEN Never ELSE o.revertedAt
    BY <1>1 DEF Outcome
  <2>2. n = [ts |-> v.decidedAt, revertedAt |-> r]
    BY <1>2, <2>1 DEF Emitted
  <2>3. r = Never
    <3>1. CASE o = NoRow
      BY <2>1, <3>1
    <3>2. CASE o # NoRow
      <4>1. row # NoRow /\ row.status \in {"pending", "success", "fail"}
        BY <3>2 DEF Agree, Tracking
      <4>2. row.status = "success"
        BY <1>2, <3>2, <4>1 DEF Agree
      <4>3. QED BY <2>1, <3>2, <4>1, <4>2 DEF Agree
    <3>3. QED BY <3>1, <3>2
  <2>4. n \in Outcome
    BY <1>1, <2>1, <2>2 DEF Outcome
  <2>5. QED BY <1>1, <1>2, <2>2, <2>3, <2>4 DEF Agree
<1>3. CASE v.status = "fail"
  <2>1. n = Flipped(o, v.decidedAt) /\ v.decidedAt # Never
    BY <1>3
  <2>2. CASE o = NoRow \/ o.revertedAt # Never
    BY <1>1, <1>3, <2>1, <2>2 DEF Flipped, Agree
  <2>3. CASE o # NoRow /\ o.revertedAt = Never
    <3>1. n = [o EXCEPT !.revertedAt = v.decidedAt]
      BY <2>1, <2>3 DEF Flipped
    <3>2. n \in Outcome /\ n.revertedAt = v.decidedAt
      BY <1>1, <2>3, <3>1 DEF Outcome
    <3>3. QED BY <1>1, <1>3, <2>1, <3>2 DEF Agree
  <2>4. QED BY <2>2, <2>3
<1>4. CASE v.status = "pending"
  <2>1. n = o /\ o = NoRow
    BY <1>4 DEF Agree, Tracking
  <2>2. QED BY <1>1, <1>4, <2>1 DEF Agree
<1>5. QED BY <1>2, <1>3, <1>4 DEF Tracking

\* What Commit leaves of one issue of the page.
LEMMA CommitIssue ==
  ASSUME LedgerIInv, Commit, NEW i \in DOMAIN page.carries
  PROVE  LET g == page.carries[i]
             v == Evaluate(g, now)
         IN  /\ tracking'[i] = (IF v.status = "none" THEN tracking[i] ELSE v)
             /\ v.status = "none" => outcomes'[i] = outcomes[i]
             /\ v.status # "none" => v \in Tracking /\ Backs(g, v, now)
             /\ v.status = "fail" => v.decidedAt # Never
             /\ tracking'[i] \in Tracking \cup {NoRow}
             /\ outcomes'[i] \in Outcome \cup {NoRow}
             /\ Agree(tracking'[i], outcomes'[i])
             /\ Tracked(i) /\ tracking[i].status = "fail" => v.status = "fail"
<1>1. i \in Issues /\ now \in Time /\ tracking[i] \in Tracking \cup {NoRow}
      /\ outcomes[i] \in Outcome \cup {NoRow} /\ Agree(tracking[i], outcomes[i])
  BY DEF LedgerIInv, TypeOK, Agreed
<1>2. PICK g : g = page.carries[i]
  OBVIOUS
<1>3. PICK v : v = Evaluate(g, now)
  OBVIOUS
<1>4. PICK n : n = IF v.status = "success" THEN Emitted(outcomes[i], v.decidedAt)
                   ELSE IF v.status = "fail" THEN Flipped(outcomes[i], v.decidedAt)
                   ELSE outcomes[i]
  OBVIOUS
<1>5. tracking'[i] = IF v.status = "none" THEN tracking[i] ELSE v
  BY <1>1, <1>2, <1>3 DEF Commit, Restated
<1>6. outcomes'[i] = n
  BY <1>1, <1>2, <1>3, <1>4 DEF Commit, Recounted
<1>7. v.status # "none" => v \in Tracking /\ Backs(g, v, now)
  BY <1>1, <1>3, EvaluateIs DEF Backs
<1>8. v.status = "fail" => v.decidedAt # Never
  BY <1>1, <1>3, EvaluateIs
<1>9. Tracked(i) => /\ v.status # "none"
                    /\ tracking[i].status = "fail" => v.status = "fail"
                    /\ tracking[i].status = "success" => v.status # "pending"
  <2>1. Tracked(i) => Backs(g, tracking[i], now)
    BY <1>2 DEF LedgerIInv, Backed
  <2>2. QED BY <1>1, <1>3, <2>1, VerdictsLast
<1>10. CASE v.status = "none"
  BY <1>1, <1>2, <1>3, <1>4, <1>5, <1>6, <1>9, <1>10
<1>11. CASE v.status # "none"
  <2>1. v \in Tracking /\ Backs(g, v, now) /\ tracking'[i] = v
    BY <1>5, <1>7, <1>11
  <2>2. n \in Outcome \cup {NoRow} /\ Agree(v, n)
    BY <1>1, <1>4, <1>8, <1>9, <2>1, RestatedAgrees DEF Tracked
  <2>3. QED BY <1>2, <1>3, <1>5, <1>6, <1>8, <1>9, <1>11, <2>1, <2>2
<1>12. QED BY <1>10, <1>11

LEMMA CommitOthers ==
  ASSUME LedgerIInv, Commit, NEW i \in Issues, i \notin DOMAIN page.carries
  PROVE  tracking'[i] = tracking[i] /\ outcomes'[i] = outcomes[i]
BY DEF Commit

\* The cursor and the phase behind a page.
LEMMA CommitCursor ==
  ASSUME LedgerIInv, Commit
  PROVE  /\ UNCHANGED <<vendorVars, now, clean, faults>> /\ page' = NoPage
         /\ phase = "committing" /\ cursor.inProgress \in Window
         /\ LET w == cursor.inProgress
                left == w.unread \ page.served
            IN  \/ /\ left = {} /\ phase' = "promoting"
                   /\ cursor' = [mark |-> w.until, inProgress |-> NoWindow]
                \/ /\ left # {} /\ phase' = "fetching"
                   /\ cursor' \in [mark : Days \cup {NoDay}, inProgress : Window]
                   /\ cursor'.mark = cursor.mark
                   /\ cursor'.inProgress = [w EXCEPT !.unread = left]
<1>1. UNCHANGED <<vendorVars, now, clean, faults>> /\ page' = NoPage /\ phase = "committing"
  BY DEF Commit
<1>2. cursor \in [mark : Days \cup {NoDay}, inProgress : Window]
  BY <1>1 DEF LedgerIInv, TypeOK, Stages
<1>3. PICK w \in Window : w = cursor.inProgress
  BY <1>2
<1>4. PICK left \in SUBSET Issues : left = w.unread \ page.served
  BY DEF Window
<1>5. CASE left = {}
  BY <1>1, <1>3, <1>4, <1>5 DEF Commit
<1>6. CASE left # {}
  <2>1. PICK x : x = [w EXCEPT !.unread = left]
    OBVIOUS
  <2>2. x \in Window
    BY <1>3, <1>4, <2>1 DEF Window
  <2>3. cursor' = [cursor EXCEPT !.inProgress.unread = left] /\ phase' = "fetching"
    BY <1>3, <1>4, <1>6 DEF Commit
  <2>4. cursor' = [cursor EXCEPT !.inProgress = x]
    BY <1>2, <1>3, <2>1, <2>3
  <2>5. QED BY <1>1, <1>2, <1>3, <1>4, <1>6, <2>1, <2>2, <2>3, <2>4
<1>7. QED BY <1>5, <1>6

LEMMA CommitKeeps ==
  ASSUME LedgerIInv, Commit
  PROVE  LedgerIInv'
<1>1. /\ UNCHANGED <<clock, history, updated, touches, now, clean, faults>> /\ page' = NoPage
      /\ phase' \in {"promoting", "fetching"}
      /\ phase' = "fetching" => cursor'.inProgress # NoWindow
      /\ cursor' \in [mark : Days \cup {NoDay}, inProgress : Window \cup {NoWindow}]
  <2>1. cursor.inProgress \in Window => cursor.inProgress.until \in Days
    BY DEF Window
  <2>2. QED BY <2>1, CommitCursor, NullsAssumption DEF vendorVars
<1>2. \A i \in Issues : /\ tracking'[i] \in Tracking \cup {NoRow}
                        /\ outcomes'[i] \in Outcome \cup {NoRow}
                        /\ Agree(tracking'[i], outcomes'[i])
  <2>1. SUFFICES ASSUME NEW i \in Issues
                 PROVE  /\ tracking'[i] \in Tracking \cup {NoRow}
                        /\ outcomes'[i] \in Outcome \cup {NoRow}
                        /\ Agree(tracking'[i], outcomes'[i])
    OBVIOUS
  <2>2. CASE i \in DOMAIN page.carries
    BY <2>2, CommitIssue
  <2>3. CASE i \notin DOMAIN page.carries
    BY <2>3, CommitOthers DEF LedgerIInv, TypeOK, Agreed
  <2>4. QED BY <2>2, <2>3
<1>3. TypeOK'
  <2>1. tracking' = [i \in Issues |-> tracking'[i]] /\ outcomes' = [i \in Issues |-> outcomes'[i]]
    BY DEF Commit
  <2>2. tracking' \in [Issues -> Tracking \cup {NoRow}] /\ outcomes' \in [Issues -> Outcome \cup {NoRow}]
    BY <1>2, <2>1
  <2>3. QED BY <1>1, <2>2, NoPageIs DEF LedgerIInv, TypeOK
<1>4. Agreed'
  BY <1>2 DEF Agreed, Agree
<1>5. Clocks' /\ Stages'
  BY <1>1, NoPageIs DEF LedgerIInv, Clocks, Stages
<1>6. Backed'
  <2>1. SUFFICES ASSUME NEW i \in Issues, tracking'[i] # NoRow
                 PROVE  Backs(history[i], tracking'[i], now)
    BY <1>1, NoPageIs DEF Backed, Tracked, Backs
  <2>2. CASE tracking'[i] = tracking[i]
    BY <2>1, <2>2 DEF LedgerIInv, Backed, Tracked
  <2>3. CASE tracking'[i] # tracking[i]
    <3>1. i \in DOMAIN page.carries
      BY <2>3, CommitOthers
    <3>2. PICK g : g = page.carries[i] /\ Later(history[i], g)
      BY <3>1 DEF LedgerIInv, Backed
    <3>3. Backs(g, tracking'[i], now)
      BY <2>3, <3>1, <3>2, CommitIssue
    <3>4. QED BY <3>2, <3>3, BacksLater
  <2>4. QED BY <2>2, <2>3
<1>7. QED BY <1>3, <1>4, <1>5, <1>6 DEF LedgerIInv

\* A promotion counts a pending row, at the end of its window.
LEMMA PromoteIssue ==
  ASSUME LedgerIInv, Promote, NEW i \in Issues
  PROVE  IF Due(i)
         THEN /\ tracking'[i] \in Tracking /\ tracking'[i].status = "success"
              /\ tracking'[i].windowEnd = tracking[i].windowEnd
              /\ outcomes'[i] = [ts |-> tracking'[i].decidedAt, revertedAt |-> Never]
              /\ outcomes'[i] \in Outcome
         ELSE tracking'[i] = tracking[i] /\ outcomes'[i] = outcomes[i]
<1>1. CASE Due(i)
  <2>1. tracking[i] \in Tracking /\ outcomes[i] = NoRow
    BY <1>1 DEF LedgerIInv, TypeOK, Agreed, Agree, Due
  <2>2. PICK w \in Instant : w = tracking[i].windowEnd
    BY <2>1 DEF Tracking
  <2>3. tracking'[i] = [status |-> "success", windowEnd |-> w, decidedAt |-> w]
    BY <1>1, <2>2 DEF Promote, Decided
  <2>4. outcomes'[i] = [ts |-> w, revertedAt |-> Never]
    BY <1>1, <2>1, <2>2 DEF Promote, Emitted
  <2>5. QED BY <1>1, <2>2, <2>3, <2>4, Bounds DEF Tracking, Outcome
<1>2. CASE ~Due(i)
  BY <1>2 DEF Promote
<1>3. QED BY <1>1, <1>2

LEMMA PromoteKeeps ==
  ASSUME LedgerIInv, Promote
  PROVE  LedgerIInv'
<1>1. /\ UNCHANGED <<clock, history, updated, touches, cursor, now, page, clean, faults>>
      /\ phase = "promoting" /\ phase' = "idle" /\ page = NoPage
  BY DEF Promote, vendorVars, LedgerIInv, Stages
<1>2. \A i \in Issues : /\ tracking'[i] \in Tracking \cup {NoRow}
                        /\ outcomes'[i] \in Outcome \cup {NoRow}
                        /\ Agree(tracking'[i], outcomes'[i])
  <2>1. SUFFICES ASSUME NEW i \in Issues
                 PROVE  /\ tracking'[i] \in Tracking \cup {NoRow}
                        /\ outcomes'[i] \in Outcome \cup {NoRow}
                        /\ Agree(tracking'[i], outcomes'[i])
    OBVIOUS
  <2>2. CASE Due(i)
    BY <2>2, PromoteIssue, NullsAssumption DEF Agree
  <2>3. CASE ~Due(i)
    BY <2>3, PromoteIssue DEF LedgerIInv, TypeOK, Agreed
  <2>4. QED BY <2>2, <2>3
<1>3. TypeOK'
  <2>1. tracking' = [i \in Issues |-> tracking'[i]] /\ outcomes' = [i \in Issues |-> outcomes'[i]]
    BY DEF Promote
  <2>2. tracking' \in [Issues -> Tracking \cup {NoRow}] /\ outcomes' \in [Issues -> Outcome \cup {NoRow}]
    BY <1>2, <2>1
  <2>3. QED BY <1>1, <2>2 DEF LedgerIInv, TypeOK
<1>4. Agreed'
  BY <1>2 DEF Agreed, Agree
<1>5. Clocks' /\ Stages'
  BY <1>1 DEF LedgerIInv, Clocks, Stages
<1>6. Backed'
  <2>1. SUFFICES ASSUME NEW i \in Issues, tracking'[i] # NoRow
                 PROVE  Backs(history[i], tracking'[i], now)
    BY <1>1, NoPageIs DEF Backed, Tracked, Backs
  <2>2. CASE Due(i)
    <3>1. Backs(history[i], tracking[i], now) /\ tracking[i].windowEnd <= now
      BY <2>2 DEF LedgerIInv, Backed, Tracked, Due
    <3>2. QED BY <2>2, <3>1, PromoteIssue DEF Backs
  <2>3. CASE ~Due(i)
    BY <2>1, <2>3, PromoteIssue DEF LedgerIInv, Backed, Tracked
  <2>4. QED BY <2>2, <2>3
<1>7. QED BY <1>3, <1>4, <1>5, <1>6 DEF LedgerIInv

LEMMA FailKeeps ==
  ASSUME LedgerIInv, Fail \/ UNCHANGED vars
  PROVE  LedgerIInv'
<1>1. CASE Fail
  <2>1. /\ UNCHANGED <<clock, history, updated, touches, tracking, outcomes, cursor, now, clean>>
        /\ phase' = "idle" /\ page' = NoPage
    BY <1>1 DEF Fail, vendorVars, ledger
  <2>2. faults' \in 0..MaxFaults
    BY <1>1, TimesAssumption DEF Fail, LedgerIInv, TypeOK
  <2>3. TypeOK'
    BY <2>1, <2>2, NoPageIs DEF LedgerIInv, TypeOK
  <2>4. QED BY <2>1, <2>3, NoPageIs
            DEF LedgerIInv, Agreed, Agree, Clocks, Stages, Backed, Tracked, Backs
<1>2. CASE UNCHANGED vars
  BY <1>2 DEF vars, vendorVars, ledger, LedgerIInv, TypeOK, Agreed, Agree, Clocks, Stages,
              Backed, Tracked, Backs, Later
<1>3. QED BY <1>1, <1>2

LEMMA LedgerInductive == LedgerIInv /\ [Next]_vars => LedgerIInv'
BY VendorKeeps, OpenKeeps, FetchKeeps, CommitKeeps, PromoteKeeps, FailKeeps DEF Next, Run

THEOREM LedgerInvariance == Spec => []LedgerIInv
BY LedgerInit, LedgerInductive, PTL DEF Spec

\* Whatever pages, resumed windows and promotions come in which order, the
\* outcome of an issue says what its tracking row says.
THEOREM TablesAgree == Spec => []CountsMatchTracking
<1>1. LedgerIInv => CountsMatchTracking
  BY AgreedIsCounted DEF LedgerIInv
<1>2. QED BY <1>1, LedgerInvariance, PTL

\* A counted success is taken back only for a regression inside its window,
\* and a failure is final.
LEMMA StepsAreEarned ==
  ASSUME LedgerIInv, LedgerIInv', [Next]_vars, NEW i \in Issues
  PROVE  /\ Live(i) /\ ~Live(i)' => RegressedInWindow(i)
         /\ tracking[i] # NoRow /\ tracking[i].status = "fail"
              => tracking'[i].status = "fail" /\ ~Live(i)'
<1>1. ASSUME tracking'[i] = tracking[i], outcomes'[i] = outcomes[i]
      PROVE  /\ Live(i) /\ ~Live(i)' => RegressedInWindow(i)
             /\ tracking[i] # NoRow /\ tracking[i].status = "fail"
                  => tracking'[i].status = "fail" /\ ~Live(i)'
  <2>1. tracking[i] # NoRow /\ tracking[i].status = "fail" => ~Live(i)
    BY DEF LedgerIInv, Agreed, Agree, Live
  <2>2. QED BY <1>1, <2>1 DEF Live
<1>2. CASE Commit /\ i \in DOMAIN page.carries
  <2>1. PICK g : g = page.carries[i] /\ Later(history[i], g)
    BY <1>2 DEF LedgerIInv, Backed
  <2>2. PICK v : v = Evaluate(g, now)
    OBVIOUS
  <2>3. /\ tracking'[i] = (IF v.status = "none" THEN tracking[i] ELSE v)
        /\ v.status = "none" => outcomes'[i] = outcomes[i]
        /\ v.status # "none" => v \in Tracking /\ Backs(g, v, now)
        /\ Agree(tracking'[i], outcomes'[i])
        /\ Tracked(i) /\ tracking[i].status = "fail" => v.status = "fail"
    BY <1>2, <2>1, <2>2, CommitIssue
  <2>4. CASE v.status = "none"
    BY <1>1, <2>3, <2>4
  <2>5. CASE v.status = "fail"
    <3>1. v # NoRow /\ tracking'[i] = v
      BY <2>3, <2>5, NullsAssumption
    <3>2. ~Live(i)' /\ tracking'[i].status = "fail"
      BY <2>3, <2>5, <3>1 DEF Agree, Live
    <3>3. RegressedInWindow(i)
      <4>1. Anchor(g) # Never /\ RegressedAt(g) <= WindowEnd(g)
        BY <2>3, <2>5 DEF Backs
      <4>2. QED BY <2>1, <4>1, RegressedLater DEF RegressedInWindow
    <3>4. QED BY <3>2, <3>3
  <2>6. CASE v.status = "success"
    <3>1. v # NoRow /\ tracking'[i] = v
      BY <2>3, <2>6, NullsAssumption
    <3>2. outcomes'[i] = [ts |-> v.decidedAt, revertedAt |-> Never]
      BY <2>3, <2>6, <3>1 DEF Agree
    <3>3. outcomes'[i] # NoRow
      <4>1. v.decidedAt \in Instant /\ Never \in Instant
        BY <2>3, <2>6, Bounds DEF Tracking
      <4>2. outcomes'[i] \in Outcome
        BY <3>2, <4>1 DEF Outcome
      <4>3. QED BY <4>2, NullsAssumption
    <3>4. Live(i)'
      BY <3>2, <3>3 DEF Live
    <3>5. QED BY <2>3, <2>6, <3>4 DEF Tracked
  <2>7. CASE v.status = "pending"
    <3>1. ~(Tracked(i) /\ tracking[i].status \in {"success", "fail"})
      <4>1. Tracked(i) => Backs(g, tracking[i], now)
        BY <1>2, <2>1 DEF LedgerIInv, Backed
      <4>2. now \in Time
        BY DEF LedgerIInv, TypeOK
      <4>3. QED BY <2>2, <2>7, <4>1, <4>2, VerdictsLast
    <3>2. tracking[i] \in Tracking \cup {NoRow} /\ Agree(tracking[i], outcomes[i])
      BY DEF LedgerIInv, TypeOK, Agreed
    <3>3. outcomes[i] = NoRow
      BY <3>1, <3>2 DEF Tracked, Tracking, Agree
    <3>4. QED BY <2>3, <2>7, <3>3 DEF Live, Tracked
  <2>8. QED BY <2>3, <2>4, <2>5, <2>6, <2>7 DEF Tracking
<1>3. CASE Commit /\ i \notin DOMAIN page.carries
  BY <1>1, <1>3, CommitOthers
<1>4. CASE Promote
  <2>1. CASE Due(i)
    <3>1. outcomes[i] = NoRow /\ tracking[i].status = "pending"
      BY <2>1 DEF LedgerIInv, Agreed, Agree, Due
    <3>2. QED BY <3>1 DEF Live
  <2>2. CASE ~Due(i)
    BY <1>1, <1>4, <2>2, PromoteIssue
  <2>3. QED BY <2>1, <2>2
<1>5. CASE ~Commit /\ ~Promote
  <2>1. UNCHANGED ledger
    BY <1>5 DEF Next, Run, Vendor, Tick, Edit, Transition, Open, Fetch, Fail, vars
  <2>2. QED BY <1>1, <2>1 DEF ledger
<1>6. QED BY <1>2, <1>3, <1>4, <1>5

THEOREM VerdictsEarned == Spec => VerdictsAreEarned
<1>1. LedgerIInv /\ LedgerIInv' /\ [Next]_vars =>
        [\A i \in Issues :
           /\ Live(i) /\ ~Live(i)' => RegressedInWindow(i)
           /\ tracking[i] # NoRow /\ tracking[i].status = "fail"
                => tracking'[i].status = "fail" /\ ~Live(i)']_vars
  BY StepsAreEarned
<1>2. QED BY <1>1, LedgerInvariance, PTL DEF Spec, VerdictsAreEarned

-----------------------------------------------------------------------------
(***************************************************************************)
(* Runs that read their window undisturbed. What the pages missed is on    *)
(* the last day of the window or after it, the next window begins there:   *)
(* of an issue last updated before, the row is fresh. The board is younger *)
(* than the history limit here; past it a window may begin after the       *)
(* watermark, and what was updated between is never read.                  *)
(***************************************************************************)
Young == DayOf(LastTime) <= HistoryLimit

Pending(i) == Tracked(i) /\ tracking[i].status = "pending"
Fresh(i) == Pending(i) => ~RegressedInWindow(i)
FreshNow(i) == Pending(i) /\ RegressedInWindow(i) => now < RegressedAt(history[i])

Marked ==
  /\ cursor.mark <= Today
  /\ \A i \in Issues : DayOf(updated[i]) < cursor.mark => Fresh(i)

InProgress ==
  LET w == cursor.inProgress
  IN  w # NoWindow =>
        /\ w.since <= Higher(cursor.mark, 0) /\ cursor.mark <= w.until /\ w.until <= Today
        /\ \A i \in Issues \ w.unread : DayOf(updated[i]) < w.until => Fresh(i)

PageHolds ==
  phase = "committing" =>
    /\ \A i \in page.served : DayOf(updated[i]) < cursor.inProgress.until =>
         IF i \in DOMAIN page.carries THEN page.carries[i] = history[i]
                                      ELSE DayOf(updated[i]) < cursor.mark
    /\ \A i \in DOMAIN page.carries : \A t \in 0..now : history[i][t] = page.carries[i][t]
    /\ clean => \A i \in page.served \ DOMAIN page.carries : FreshNow(i)

CleanSoFar ==
  clean =>
    /\ phase \in {"fetching", "committing"} =>
         \A i \in Issues \ cursor.inProgress.unread : FreshNow(i)
    /\ phase = "promoting" => \A i \in Issues : FreshNow(i)

CleanIInv == LedgerIInv /\ Marked /\ InProgress /\ PageHolds /\ CleanSoFar

\* A regression the clock n has passed is in every reading that agrees up to n.
LEMMA RegressedBy ==
  ASSUME NEW h, NEW g, Later(h, g), Anchor(g) # Never, NEW n \in Time,
         \A t \in 0..n : h[t] = g[t],
         RegressedAt(h) <= WindowEnd(h), ~(n < RegressedAt(h))
  PROVE  RegressedAt(g) <= WindowEnd(g) /\ ~(n < RegressedAt(g))
<1>1. Anchor(h) = Anchor(g) /\ WindowEnd(h) = WindowEnd(g)
  BY AnchorLater
<1>2. PICK a \in Int : a = Anchor(g)
  BY TimesOf, Bounds
<1>3. PICK r \in Instant : r = RegressedAt(h)
  BY TimesOf, Bounds
<1>4. PICK q \in Instant : q = RegressedAt(g)
  BY TimesOf, Bounds
<1>5. PICK w \in Instant : w = WindowEnd(g)
  BY TimesOf
<1>6. r <= n /\ r \in Time /\ r # Never
  BY <1>3, Bounds
<1>7. h[r] \in FailStatuses /\ r > a
  BY <1>1, <1>2, <1>3, <1>6, FirstIs DEF RegressedAt
<1>8. g[r] \in FailStatuses
  BY <1>6, <1>7, Bounds
<1>9. q <= r
  BY <1>2, <1>4, <1>6, <1>7, <1>8, FirstIs DEF RegressedAt
<1>10. r <= w
  BY <1>1, <1>3, <1>5
<1>11. QED BY <1>4, <1>5, <1>6, <1>9, <1>10, Bounds

LEMMA FreshIsNow ==
  ASSUME NEW i \in Issues, Fresh(i)
  PROVE  FreshNow(i)
BY DEF Fresh, FreshNow

LEMMA CleanTyped ==
  ASSUME LedgerIInv
  PROVE  /\ Today \in Days /\ Today \in Nat /\ Today <= DayOf(LastTime)
         /\ cursor.mark \in Int /\ (cursor.mark = NoDay \/ cursor.mark \in Nat)
         /\ \A i \in Issues : DayOf(updated[i]) \in Nat /\ DayOf(updated[i]) <= Today
         /\ cursor.inProgress # NoWindow =>
              cursor.inProgress \in Window /\ cursor.inProgress.since \in Int
              /\ cursor.inProgress.until \in Nat
         /\ now \in Time /\ clock \in Time /\ clean \in BOOLEAN
<1>1. clock \in Time /\ now \in Time /\ clean \in BOOLEAN
  BY DEF LedgerIInv, TypeOK
<1>2. Today \in Days /\ Today \in Nat /\ Today <= DayOf(LastTime)
  <2>1. LastTime \in Time /\ clock <= LastTime
    BY <1>1, Bounds
  <2>2. QED BY <1>1, <2>1, DaysOf DEF Today
<1>3. cursor.mark \in Days \cup {NoDay} /\ Days \subseteq Nat
  BY <1>1, DaysOf DEF LedgerIInv, TypeOK
<1>4. \A i \in Issues : DayOf(updated[i]) \in Nat /\ DayOf(updated[i]) <= Today
  <2>1. SUFFICES ASSUME NEW i \in Issues
                 PROVE  DayOf(updated[i]) \in Nat /\ DayOf(updated[i]) <= Today
    OBVIOUS
  <2>2. updated[i] \in Time /\ updated[i] <= clock
    BY DEF LedgerIInv, TypeOK, Clocks
  <2>3. QED BY <1>1, <2>2, DaysOf DEF Today
<1>5. cursor.inProgress # NoWindow =>
        cursor.inProgress \in Window /\ cursor.inProgress.since \in Int
        /\ cursor.inProgress.until \in Nat
  BY <1>3 DEF LedgerIInv, TypeOK, Window
<1>6. cursor.mark \in Int /\ (cursor.mark = NoDay \/ cursor.mark \in Nat)
  <2>1. cursor.mark = NoDay \/ cursor.mark \in Nat
    BY <1>3
  <2>2. NoDay \in Int
    BY DEF NoDay
  <2>3. QED BY <2>1, <2>2
<1>7. QED BY <1>1, <1>2, <1>4, <1>5, <1>6

LEMMA CleanInit == Init => CleanIInv
<1> SUFFICES ASSUME Init PROVE CleanIInv
  OBVIOUS
<1>1. LedgerIInv
  BY LedgerInit
<1>2. cursor.mark = NoDay /\ cursor.inProgress = NoWindow /\ phase = "idle"
  BY DEF Init
<1>3. Marked
  BY <1>1, <1>2, CleanTyped DEF Marked, NoDay
<1>4. QED BY <1>1, <1>2, <1>3 DEF CleanIInv, InProgress, PageHolds, CleanSoFar

\* An issue the vendor touches is updated today.
LEMMA VendorIssue ==
  ASSUME LedgerIInv, Vendor, NEW i \in Issues
  PROVE  \/ history'[i] = history[i] /\ updated'[i] = updated[i]
         \/ updated'[i] = clock
<1>1. history \in [Issues -> History] /\ updated \in [Issues -> Time]
  BY DEF LedgerIInv, TypeOK
<1>2. QED BY <1>1 DEF Vendor, Tick, Transition, Edit

LEMMA CleanVendor ==
  ASSUME CleanIInv, LedgerIInv', Vendor
  PROVE  CleanIInv'
<1>1. UNCHANGED <<tracking, outcomes, cursor, phase, now, page, clean>>
  BY DEF Vendor, Tick, Transition, Edit, ledger
<1>2. LedgerIInv
  BY DEF CleanIInv
<1>3. Today <= Today' /\ Today \in Nat /\ Today' \in Nat
  <2>1. clock \in Time /\ clock' \in Time
    BY <1>2 DEF LedgerIInv, TypeOK
  <2>2. clock <= clock'
    BY <2>1, Bounds DEF Vendor, Tick, Transition, Edit
  <2>3. QED BY <2>1, <2>2, DaysOf DEF Today
<1>4. ASSUME NEW i \in Issues, NEW d \in Int, d <= Today, DayOf(updated'[i]) < d
      PROVE  /\ history'[i] = history[i] /\ updated'[i] = updated[i] /\ DayOf(updated[i]) < d
             /\ Fresh(i) => Fresh(i)'
  <2>1. updated'[i] # clock
    BY <1>2, <1>4, CleanTyped DEF Today
  <2>2. history'[i] = history[i] /\ updated'[i] = updated[i]
    BY <1>2, <2>1, VendorIssue
  <2>3. QED BY <1>1, <1>4, <2>2 DEF Fresh, Pending, Tracked, RegressedInWindow
<1>5. ASSUME NEW i \in Issues, phase # "idle", FreshNow(i)
      PROVE  FreshNow(i)'
  <2>1. SUFFICES ASSUME Pending(i), RegressedInWindow(i)', ~(now < RegressedAt(history'[i]))
                 PROVE  FALSE
    BY <1>1 DEF FreshNow, Pending, Tracked
  <2>2. PICK h : h = history[i]
    OBVIOUS
  <2>3. PICK k : k = history'[i]
    OBVIOUS
  <2>4. Later(k, h) /\ now \in Time
    BY <1>2, <2>2, <2>3, HistoryGrows, CleanTyped
  <2>5. \A t \in 0..now : k[t] = h[t]
    <3>1. \A t \in 0..now : t \in Time /\ ~(now < t)
      BY <2>4, Bounds
    <3>2. QED BY <1>2, <1>5, <2>2, <2>3, <3>1, HistoryGrows
  <2>6. Anchor(h) # Never
    BY <1>2, <2>1, <2>2 DEF LedgerIInv, Backed, Backs, Pending
  <2>7. RegressedAt(k) <= WindowEnd(k) /\ ~(now < RegressedAt(k))
    BY <2>1, <2>3 DEF RegressedInWindow
  <2>8. RegressedAt(h) <= WindowEnd(h) /\ ~(now < RegressedAt(h))
    BY <2>4, <2>5, <2>6, <2>7, RegressedBy
  <2>9. QED BY <1>5, <2>1, <2>2, <2>8 DEF FreshNow, RegressedInWindow
<1>6. Marked'
  <2>1. cursor.mark <= Today /\ cursor.mark \in Int
    BY <1>2, CleanTyped DEF CleanIInv, Marked
  <2>2. cursor.mark <= Today'
    BY <1>3, <2>1
  <2>3. \A i \in Issues : DayOf(updated'[i]) < cursor.mark => Fresh(i)'
    BY <1>4, <2>1 DEF CleanIInv, Marked
  <2>4. QED BY <1>1, <2>2, <2>3 DEF Marked, DayOf
<1>7. InProgress'
  <2>1. SUFFICES ASSUME NEW w, w = cursor.inProgress, w # NoWindow
                 PROVE  /\ w.since <= Higher(cursor.mark, 0) /\ cursor.mark <= w.until
                        /\ w.until <= Today'
                        /\ \A i \in Issues \ w.unread : DayOf(updated'[i]) < w.until => Fresh(i)'
    BY <1>1 DEF InProgress, DayOf
  <2>2. /\ w.since <= Higher(cursor.mark, 0) /\ cursor.mark <= w.until /\ w.until <= Today
        /\ \A i \in Issues \ w.unread : DayOf(updated[i]) < w.until => Fresh(i)
        /\ w.until \in Int
    BY <1>2, <2>1, CleanTyped DEF CleanIInv, InProgress
  <2>3. w.until <= Today'
    BY <1>3, <2>2
  <2>4. \A i \in Issues \ w.unread : DayOf(updated'[i]) < w.until => Fresh(i)'
    BY <1>4, <2>2
  <2>5. QED BY <2>2, <2>3, <2>4
<1>8. PageHolds'
  <2>1. SUFFICES ASSUME phase = "committing"
                 PROVE  /\ \A i \in page.served : DayOf(updated'[i]) < cursor.inProgress.until =>
                             IF i \in DOMAIN page.carries THEN page.carries[i] = history'[i]
                             ELSE DayOf(updated'[i]) < cursor.mark
                        /\ \A i \in DOMAIN page.carries : \A t \in 0..now :
                             history'[i][t] = page.carries[i][t]
                        /\ clean => \A i \in page.served \ DOMAIN page.carries : FreshNow(i)'
    BY <1>1 DEF PageHolds, DayOf
  <2>2. /\ page.served \subseteq Issues /\ DOMAIN page.carries \subseteq page.served
        /\ cursor.inProgress # NoWindow
    BY <1>2, <2>1 DEF LedgerIInv, TypeOK, Stages
  <2>3. ASSUME NEW i \in page.served, DayOf(updated'[i]) < cursor.inProgress.until
        PROVE  IF i \in DOMAIN page.carries THEN page.carries[i] = history'[i]
               ELSE DayOf(updated'[i]) < cursor.mark
    <3>1. cursor.inProgress.until \in Int /\ cursor.inProgress.until <= Today
      BY <1>2, <2>2, CleanTyped DEF CleanIInv, InProgress
    <3>2. history'[i] = history[i] /\ updated'[i] = updated[i]
      BY <1>4, <2>2, <2>3, <3>1
    <3>3. QED BY <2>1, <2>3, <3>2 DEF CleanIInv, PageHolds
  <2>4. ASSUME NEW i \in DOMAIN page.carries, NEW t \in 0..now
        PROVE  history'[i][t] = page.carries[i][t]
    <3>1. t \in Time /\ ~(now < t)
      BY <1>2, CleanTyped, Bounds
    <3>2. history'[i][t] = history[i][t]
      BY <1>2, <2>1, <2>2, <3>1, HistoryGrows
    <3>3. QED BY <2>1, <3>2 DEF CleanIInv, PageHolds
  <2>5. ASSUME clean, NEW i \in page.served \ DOMAIN page.carries
        PROVE  FreshNow(i)'
    BY <1>5, <2>1, <2>2, <2>5 DEF CleanIInv, PageHolds
  <2>6. QED BY <2>3, <2>4, <2>5
<1>9. CleanSoFar'
  BY <1>1, <1>5 DEF CleanIInv, CleanSoFar
<1>10. QED BY <1>6, <1>7, <1>8, <1>9 DEF CleanIInv

LEMMA CleanOpen ==
  ASSUME Young, CleanIInv, LedgerIInv', Open
  PROVE  CleanIInv'
<1>1. /\ UNCHANGED <<clock, history, updated, tracking>>
      /\ phase' = "fetching" /\ clean' = (cursor.inProgress = NoWindow)
  BY DEF Open, vendorVars, ledger
<1>2. LedgerIInv
  BY DEF CleanIInv
<1>3. cursor'.mark = cursor.mark /\ cursor'.inProgress = NextWindow /\ Today' = Today
  BY <1>1, <1>2 DEF Open, LedgerIInv, TypeOK, Today, DayOf
<1>4. \A i \in Issues : /\ Fresh(i)' <=> Fresh(i)
                        /\ DayOf(updated[i])' = DayOf(updated[i])
  BY <1>1 DEF Fresh, Pending, Tracked, RegressedInWindow, DayOf
<1>5. Marked'
  BY <1>3, <1>4 DEF CleanIInv, Marked
<1>6. CASE cursor.inProgress # NoWindow
  <2>1. cursor'.inProgress = cursor.inProgress
    BY <1>3, <1>6 DEF NextWindow
  <2>2. InProgress'
    BY <1>3, <1>4, <2>1 DEF CleanIInv, InProgress
  <2>3. QED BY <1>1, <1>5, <1>6, <2>2 DEF CleanIInv, PageHolds, CleanSoFar
<1>7. CASE cursor.inProgress = NoWindow
  <2>1. PICK m \in Int : m = cursor.mark /\ (m = NoDay \/ m \in Nat) /\ m <= Today
    BY <1>2, CleanTyped DEF CleanIInv, Marked
  <2>2. PICK t \in Nat : t = Today /\ t <= HistoryLimit
    <3>1. HistoryLimit \in Nat /\ DayOf(LastTime) \in Nat
      BY TimesAssumption, Bounds, DaysOf
    <3>2. QED BY <1>2, <3>1, CleanTyped DEF Young
  <2>3. HistoryLimit \in Nat /\ RepullDays \in Nat
    BY TimesAssumption
  <2>4. PICK s \in Int : s = (IF m = NoDay THEN t - HistoryLimit
                              ELSE Higher(Lower(m, t - RepullDays), t - HistoryLimit))
    BY <2>1, <2>2, <2>3 DEF Higher, Lower
  <2>5. NextWindow = [since |-> s, until |-> t, unread |-> Issues]
    BY <1>7, <2>1, <2>2, <2>4 DEF NextWindow
  <2>6. s <= Higher(m, 0)
    BY <2>1, <2>2, <2>3, <2>4 DEF Higher, Lower, NoDay
  <2>7. InProgress'
    BY <1>3, <2>1, <2>2, <2>5, <2>6 DEF InProgress
  <2>8. CleanSoFar'
    BY <1>1, <1>3, <2>5 DEF CleanSoFar
  <2>9. QED BY <1>1, <1>5, <2>7, <2>8 DEF CleanIInv, PageHolds
<1>8. QED BY <1>6, <1>7

LEMMA CleanFetch ==
  ASSUME CleanIInv, LedgerIInv', NEW S \in SUBSET Issues, Fetch(S)
  PROVE  CleanIInv'
<1>1. /\ UNCHANGED <<clock, history, updated, tracking, cursor, now>>
      /\ phase = "fetching" /\ phase' = "committing"
      /\ page'.served = S /\ DOMAIN page'.carries = {j \in S : InWindow(j)}
      /\ \A i \in {j \in S : InWindow(j)} : page'.carries[i] = history[i]
      /\ clean' = (clean /\ Today = cursor.inProgress.until)
  BY DEF Fetch, vendorVars, ledger
<1>2. LedgerIInv /\ cursor.inProgress # NoWindow
  BY <1>1 DEF CleanIInv, LedgerIInv, Stages
<1>3. \A i \in Issues : /\ Fresh(i)' <=> Fresh(i)
                        /\ FreshNow(i)' <=> FreshNow(i)
                        /\ DayOf(updated[i])' = DayOf(updated[i])
  BY <1>1 DEF Fresh, FreshNow, Pending, Tracked, RegressedInWindow, DayOf
<1>4. Today' = Today
  BY <1>1 DEF Today, DayOf
<1>5. Marked' /\ InProgress'
  BY <1>1, <1>3, <1>4 DEF CleanIInv, Marked, InProgress
<1>6. ASSUME NEW i \in S, ~InWindow(i), DayOf(updated[i]) <= cursor.inProgress.until
      PROVE  DayOf(updated[i]) < cursor.mark
  <2>1. PICK d \in Nat : d = DayOf(updated[i])
    BY <1>2, CleanTyped
  <2>2. PICK m \in Int : m = cursor.mark
    BY <1>2, CleanTyped
  <2>3. PICK a \in Int, b \in Nat : a = cursor.inProgress.since /\ b = cursor.inProgress.until
    BY <1>2, CleanTyped
  <2>4. a <= Higher(m, 0)
    BY <1>2, <2>2, <2>3 DEF CleanIInv, InProgress
  <2>5. d \notin a..b
    BY <1>6, <2>1, <2>3 DEF InWindow
  <2>6. d < a
    BY <1>6, <2>1, <2>3, <2>5
  <2>7. d < m
    BY <2>4, <2>6 DEF Higher
  <2>8. QED BY <2>1, <2>2, <2>7
<1>7. PageHolds'
  <2>1. cursor.inProgress.until \in Nat /\ \A i \in Issues : DayOf(updated[i]) \in Nat
    BY <1>2, CleanTyped
  <2>2. ASSUME NEW i \in S, DayOf(updated[i]) < cursor.inProgress.until
        PROVE  IF InWindow(i) THEN page'.carries[i] = history[i]
                              ELSE DayOf(updated[i]) < cursor.mark
    BY <1>1, <1>6, <2>1, <2>2
  <2>3. ASSUME clean', NEW i \in S, ~InWindow(i)
        PROVE  FreshNow(i)
    <3>1. DayOf(updated[i]) <= cursor.inProgress.until
      BY <1>1, <1>2, <2>3, CleanTyped
    <3>2. Fresh(i)
      BY <1>6, <2>3, <3>1 DEF CleanIInv, Marked
    <3>3. QED BY <3>2, FreshIsNow
  <2>4. QED BY <1>1, <1>3, <2>2, <2>3 DEF PageHolds
<1>8. CleanSoFar'
  BY <1>1, <1>3 DEF CleanIInv, CleanSoFar
<1>9. QED BY <1>5, <1>7, <1>8 DEF CleanIInv

LEMMA CleanCommit ==
  ASSUME CleanIInv, LedgerIInv', Commit
  PROVE  CleanIInv'
<1>1. LedgerIInv
  BY DEF CleanIInv
<1>2. PICK w \in Window : w = cursor.inProgress
  BY <1>1, CommitCursor
<1>3. PICK left : left = w.unread \ page.served
  OBVIOUS
<1>4. /\ UNCHANGED <<clock, history, updated, now, clean>> /\ phase = "committing"
      /\ \/ /\ left = {} /\ phase' = "promoting"
            /\ cursor'.mark = w.until /\ cursor'.inProgress = NoWindow
         \/ /\ left # {} /\ phase' = "fetching"
            /\ cursor'.mark = cursor.mark
            /\ cursor'.inProgress = [w EXCEPT !.unread = left]
  BY <1>1, <1>2, <1>3, CommitCursor DEF vendorVars
<1>5. /\ page.served \subseteq w.unread /\ page.served \subseteq Issues
      /\ DOMAIN page.carries \subseteq page.served
  BY <1>1, <1>2, <1>4 DEF LedgerIInv, TypeOK, Stages
<1>6. /\ w # NoWindow /\ w.since <= Higher(cursor.mark, 0)
      /\ cursor.mark <= w.until /\ w.until <= Today
      /\ \A i \in Issues \ w.unread : DayOf(updated[i]) < w.until => Fresh(i)
  BY <1>2, NullsAssumption DEF CleanIInv, InProgress
<1>7. w.until \in Nat /\ cursor.mark \in Int /\ \A i \in Issues : DayOf(updated[i]) \in Nat
  BY <1>1, <1>2, <1>6, CleanTyped
<1>8. ASSUME NEW i \in Issues, i \notin DOMAIN page.carries
      PROVE  (Fresh(i) => Fresh(i)') /\ (FreshNow(i) => FreshNow(i)')
  <2>1. tracking'[i] = tracking[i]
    BY <1>1, <1>8, CommitOthers
  <2>2. QED BY <1>4, <2>1 DEF Fresh, FreshNow, Pending, Tracked, RegressedInWindow
<1>9. ASSUME NEW i \in DOMAIN page.carries
      PROVE  FreshNow(i)' /\ (page.carries[i] = history[i] => Fresh(i)')
  <2>1. PICK g : g = page.carries[i] /\ Later(history[i], g)
    BY <1>1 DEF LedgerIInv, Backed
  <2>2. PICK v : v = Evaluate(g, now)
    OBVIOUS
  <2>3. tracking'[i] = (IF v.status = "none" THEN tracking[i] ELSE v)
    BY <1>1, <2>1, <2>2, CommitIssue
  <2>4. now \in Time
    BY <1>1, CleanTyped
  <2>5. ASSUME Pending(i)'
        PROVE  Anchor(g) # Never /\ ~(RegressedAt(g) <= WindowEnd(g))
    <3>1. Anchor(g) # Never
      <4>1. CASE v.status = "none"
        <5>1. Tracked(i)
          BY <2>3, <2>5, <4>1 DEF Pending, Tracked
        <5>2. QED BY <1>1, <2>1, <5>1 DEF LedgerIInv, Backed, Backs
      <4>2. CASE v.status # "none"
        BY <2>2, <2>4, <4>2, EvaluateIs
      <4>3. QED BY <4>1, <4>2
    <3>2. v.status = "pending"
      BY <2>2, <2>3, <2>4, <2>5, <3>1, EvaluateIs DEF Pending
    <3>3. QED BY <2>2, <2>4, <3>1, <3>2, EvaluateIs
  <2>6. FreshNow(i)'
    <3>1. SUFFICES ASSUME Pending(i)', RegressedAt(history[i]) <= WindowEnd(history[i]),
                          ~(now < RegressedAt(history[i]))
                   PROVE  FALSE
      BY <1>4 DEF FreshNow, RegressedInWindow
    <3>2. \A t \in 0..now : history[i][t] = g[t]
      BY <1>4, <2>1 DEF CleanIInv, PageHolds
    <3>3. RegressedAt(g) <= WindowEnd(g)
      BY <2>1, <2>4, <2>5, <3>1, <3>2, RegressedBy
    <3>4. QED BY <2>5, <3>1, <3>3
  <2>7. page.carries[i] = history[i] => Fresh(i)'
    BY <1>4, <2>1, <2>5 DEF Fresh, RegressedInWindow
  <2>8. QED BY <2>6, <2>7
<1>10. ASSUME NEW i \in Issues, i \notin left, DayOf(updated[i]) < w.until
       PROVE  Fresh(i)'
  <2>1. CASE i \notin w.unread
    BY <1>5, <1>6, <1>8, <1>10, <2>1
  <2>2. CASE i \in page.served /\ i \in DOMAIN page.carries
    <3>1. page.carries[i] = history[i]
      BY <1>2, <1>4, <1>10, <2>2 DEF CleanIInv, PageHolds
    <3>2. QED BY <1>9, <2>2, <3>1
  <2>3. CASE i \in page.served /\ i \notin DOMAIN page.carries
    <3>1. DayOf(updated[i]) < cursor.mark
      BY <1>2, <1>4, <1>10, <2>3 DEF CleanIInv, PageHolds
    <3>2. QED BY <1>8, <2>3, <3>1 DEF CleanIInv, Marked
  <2>4. QED BY <1>3, <1>10, <2>1, <2>2, <2>3
<1>11. ASSUME NEW i \in Issues, DayOf(updated[i]) < cursor.mark
       PROVE  Fresh(i)'
  <2>1. CASE i \in DOMAIN page.carries
    <3>1. DayOf(updated[i]) < w.until
      BY <1>6, <1>7, <1>11
    <3>2. i \notin left
      BY <1>3, <1>5, <2>1
    <3>3. QED BY <1>10, <3>1, <3>2
  <2>2. CASE i \notin DOMAIN page.carries
    BY <1>8, <1>11, <2>2 DEF CleanIInv, Marked
  <2>3. QED BY <2>1, <2>2
<1>12. Today' = Today /\ \A i \in Issues : DayOf(updated[i])' = DayOf(updated[i])
  BY <1>4 DEF Today, DayOf
<1>13. ASSUME clean, NEW i \in Issues, i \notin left
       PROVE  FreshNow(i)'
  <2>1. CASE i \notin w.unread
    <3>1. FreshNow(i)
      BY <1>2, <1>4, <1>13, <2>1 DEF CleanIInv, CleanSoFar
    <3>2. QED BY <1>5, <1>8, <2>1, <3>1
  <2>2. CASE i \in DOMAIN page.carries
    BY <1>9, <2>2
  <2>3. CASE i \in page.served /\ i \notin DOMAIN page.carries
    <3>1. FreshNow(i)
      BY <1>4, <1>13, <2>3 DEF CleanIInv, PageHolds
    <3>2. QED BY <1>8, <2>3, <3>1
  <2>4. QED BY <1>3, <1>13, <2>1, <2>2, <2>3
<1>14. CASE left = {}
  <2>1. /\ phase' = "promoting" /\ cursor'.mark = w.until /\ cursor'.inProgress = NoWindow
    BY <1>4, <1>14
  <2>2. Marked'
    BY <1>6, <1>10, <1>12, <1>14, <2>1 DEF Marked
  <2>3. InProgress' /\ PageHolds'
    BY <2>1 DEF InProgress, PageHolds
  <2>4. CleanSoFar'
    BY <1>4, <1>13, <1>14, <2>1 DEF CleanSoFar
  <2>5. QED BY <2>2, <2>3, <2>4 DEF CleanIInv
<1>15. CASE left # {}
  <2>1. PICK x : x = [w EXCEPT !.unread = left]
    OBVIOUS
  <2>2. /\ phase' = "fetching" /\ cursor'.mark = cursor.mark /\ cursor'.inProgress = x
        /\ x.unread = left /\ x.since = w.since /\ x.until = w.until
    BY <1>4, <1>15, <2>1 DEF Window
  <2>3. Marked'
    BY <1>11, <1>12, <2>2 DEF CleanIInv, Marked
  <2>4. InProgress'
    BY <1>6, <1>10, <1>12, <2>2 DEF InProgress
  <2>5. CleanSoFar' /\ PageHolds'
    BY <1>4, <1>13, <2>2 DEF CleanSoFar, PageHolds
  <2>6. QED BY <2>3, <2>4, <2>5 DEF CleanIInv
<1>16. QED BY <1>14, <1>15

LEMMA CleanEnds ==
  ASSUME CleanIInv, LedgerIInv', Promote \/ Fail \/ UNCHANGED vars
  PROVE  CleanIInv'
<1>1. CASE UNCHANGED vars
  BY <1>1 DEF vars, vendorVars, ledger, CleanIInv, Marked, InProgress, PageHolds, CleanSoFar,
              Fresh, FreshNow, Pending, Tracked, RegressedInWindow, Today, DayOf
<1>2. CASE Promote \/ Fail
  <2>1. /\ UNCHANGED <<clock, history, updated, cursor>> /\ phase' = "idle"
    BY <1>2 DEF Promote, Fail, vendorVars
  <2>2. ASSUME NEW i \in Issues, Pending(i)'
        PROVE  Pending(i)
    <3>1. LedgerIInv
      BY DEF CleanIInv
    <3>2. tracking'[i] = tracking[i]
      <4>1. CASE Fail
        BY <4>1 DEF Fail, ledger
      <4>2. CASE Promote
        BY <2>2, <3>1, <4>2, PromoteIssue DEF Pending
      <4>3. QED BY <1>2, <4>1, <4>2
    <3>3. QED BY <2>2, <3>2 DEF Pending, Tracked
  <2>3. \A i \in Issues : /\ Fresh(i) => Fresh(i)'
                          /\ DayOf(updated[i])' = DayOf(updated[i])
    BY <2>1, <2>2 DEF Fresh, RegressedInWindow, DayOf
  <2>4. Today' = Today
    BY <2>1 DEF Today, DayOf
  <2>5. Marked' /\ InProgress'
    BY <2>1, <2>3, <2>4 DEF CleanIInv, Marked, InProgress
  <2>6. QED BY <2>1, <2>5 DEF CleanIInv, PageHolds, CleanSoFar
<1>3. QED BY <1>1, <1>2

LEMMA CleanInductive ==
  ASSUME Young, CleanIInv, [Next]_vars
  PROVE  CleanIInv'
<1>1. LedgerIInv'
  BY LedgerInductive DEF CleanIInv
<1>2. QED BY <1>1, CleanVendor, CleanOpen, CleanFetch, CleanCommit, CleanEnds DEF Next, Run

THEOREM CleanInvariance ==
  ASSUME Young
  PROVE  Spec => []CleanIInv
<1>1. CleanIInv /\ [Next]_vars => CleanIInv'
  BY CleanInductive
<1>2. QED BY <1>1, CleanInit, PTL DEF Spec

\* While the board is younger than the history limit, a run that opened its own
\* window and read it on the window's last day promotes no issue that regressed
\* inside its success window: what its pages did not show happened later than
\* the windows it promotes had ended.
THEOREM CleanRunsPromote ==
  ASSUME Young
  PROVE  Spec => CleanRunsPromoteRightly
<1>1. ASSUME CleanIInv, [Next]_vars, clean, NEW i \in Issues, phase = "promoting",
             Live(i)', ~Live(i)
      PROVE  ~RegressedInWindow(i)
  <2>1. LedgerIInv /\ FreshNow(i)
    BY <1>1 DEF CleanIInv, CleanSoFar
  <2>2. CASE Promote /\ Due(i)
    <3>1. Backs(history[i], tracking[i], now) /\ Pending(i) /\ tracking[i].windowEnd <= now
      BY <2>1, <2>2 DEF LedgerIInv, Backed, Tracked, Pending, Due
    <3>2. PICK e \in Instant : e = WindowEnd(history[i]) /\ e <= now
      BY <3>1, TimesOf DEF Backs
    <3>3. PICK r \in Instant : r = RegressedAt(history[i])
      BY TimesOf, Bounds
    <3>4. now \in Nat
      BY <2>1, CleanTyped, Bounds
    <3>5. r <= e => now < r
      BY <2>1, <3>1, <3>2, <3>3 DEF FreshNow, RegressedInWindow
    <3>6. ~(r <= e)
      BY <3>2, <3>3, <3>4, <3>5, Bounds
    <3>7. QED BY <3>2, <3>3, <3>6 DEF RegressedInWindow
  <2>3. CASE ~(Promote /\ Due(i))
    <3>1. outcomes'[i] = outcomes[i]
      <4>1. CASE Promote
        BY <2>1, <2>3, <4>1, PromoteIssue
      <4>2. CASE ~Promote
        <5>1. UNCHANGED ledger
          BY <1>1, <4>2 DEF Next, Run, Vendor, Tick, Edit, Transition, Open, Fetch, Commit,
                            Fail, vars
        <5>2. QED BY <5>1 DEF ledger
      <4>3. QED BY <4>1, <4>2
    <3>2. QED BY <1>1, <3>1 DEF Live
  <2>4. QED BY <2>2, <2>3
<1>2. CleanIInv /\ [Next]_vars =>
        [clean => \A i \in Issues : phase = "promoting" /\ Live(i)' /\ ~Live(i)
                                      => ~RegressedInWindow(i)]_vars
  BY <1>1
<1>3. QED BY <1>2, CleanInvariance, PTL DEF Spec, CleanRunsPromoteRightly

-----------------------------------------------------------------------------
(***************************************************************************)
(* From a history, in whatever order it is served, to its timeline.        *)
(***************************************************************************)
LEMMA MinIs ==
  ASSUME NEW T, T \subseteq Nat, T # {}
  PROVE  Min(T) \in T /\ \A n \in T : Min(T) <= n
<1>1. \E m \in T : \A n \in T : m <= n
  BY LeastNat
<1>2. QED BY <1>1 DEF Min

\* entries of different instants are ranked by them, one in each place
LEMMA SortedIs ==
  ASSUME NEW moves, IsFiniteSet(moves), \A m \in moves : m.ts \in Nat,
         \A m, k \in moves : m.ts = k.ts => m = k
  PROVE  /\ Cardinality(moves) \in Nat
         /\ Sorted(moves) \in [1 .. Cardinality(moves) -> moves]
         /\ \A m \in moves : \E n \in 1 .. Cardinality(moves) : Sorted(moves)[n] = m
         /\ \A n, k \in 1 .. Cardinality(moves) : n < k => Sorted(moves)[n].ts < Sorted(moves)[k].ts
<1> DEFINE Below(m) == {k \in moves : k.ts < m.ts}
           N == Cardinality(moves)
           rank == [m \in moves |-> Cardinality(Below(m)) + 1]
<1>1. N \in Nat
  BY FS_CardinalityType
<1>2. ASSUME NEW m \in moves
      PROVE  IsFiniteSet(Below(m)) /\ Cardinality(Below(m)) \in Nat /\ Cardinality(Below(m)) < N
  <2>1. Below(m) \in SUBSET moves /\ m \notin Below(m)
    OBVIOUS
  <2>2. /\ IsFiniteSet(Below(m)) /\ Cardinality(Below(m)) <= N
        /\ N = Cardinality(Below(m)) => moves = Below(m)
    BY <2>1, FS_Subset
  <2>3. Cardinality(Below(m)) \in Nat
    BY <2>2, FS_CardinalityType
  <2>4. QED BY <1>1, <2>1, <2>2, <2>3
<1>3. ASSUME NEW m \in moves, NEW k \in moves, m.ts < k.ts
      PROVE  Cardinality(Below(m)) < Cardinality(Below(k))
  <2>1. Below(m) \cup {m} \in SUBSET Below(k) /\ m \notin Below(m)
    BY <1>3
  <2>2. Cardinality(Below(m) \cup {m}) = Cardinality(Below(m)) + 1
    BY <1>2, <2>1, FS_AddElement
  <2>3. Cardinality(Below(m) \cup {m}) <= Cardinality(Below(k))
    BY <1>2, <2>1, FS_Subset
  <2>4. Cardinality(Below(m)) \in Nat /\ Cardinality(Below(k)) \in Nat
    BY <1>2
  <2>5. QED BY <2>2, <2>3, <2>4, SMT
<1>20. PICK size : size = [m \in moves |-> Cardinality(Below(m))]
  OBVIOUS
<1>21. \A m \in moves : size[m] = Cardinality(Below(m)) /\ rank[m] = size[m] + 1
  BY <1>20
<1>22. \A m \in moves : size[m] \in Nat /\ size[m] < N
  BY <1>2, <1>20, Zenon
<1>23. \A m, k \in moves : m.ts < k.ts => size[m] < size[k]
  BY <1>3, <1>20, Zenon
<1>4. rank \in [moves -> 1 .. N]
  <2>1. \A m \in moves : rank[m] \in 1 .. N
    BY <1>1, <1>21, <1>22
  <2>2. QED BY <2>1, Zenon
<1>24. \A m \in moves : rank[m] = size[m] + 1
  BY <1>21
<1> HIDE DEF Below, rank
<1>5. \A m, k \in moves : m.ts < k.ts => rank[m] < rank[k]
  BY <1>22, <1>23, <1>24
<1>6. \A m, k \in moves : rank[m] = rank[k] => m = k
  <2>1. SUFFICES ASSUME NEW m \in moves, NEW k \in moves, rank[m] = rank[k]
                 PROVE  m = k
    OBVIOUS
  <2>2. rank[m] \in Nat /\ rank[k] \in Nat /\ m.ts \in Nat /\ k.ts \in Nat
    BY <1>1, <1>4
  <2>3. ~(m.ts < k.ts) /\ ~(k.ts < m.ts)
    BY <1>5, <2>1, <2>2
  <2>4. m.ts = k.ts
    BY <2>2, <2>3
  <2>5. QED BY <2>4
<1>7. rank \in Injection(moves, 1 .. N)
  BY <1>4, <1>6 DEF Injection, IsInjective
<1>8. IsFiniteSet(1 .. N) /\ Cardinality(1 .. N) = N
  BY <1>1, FS_Interval
<1>9. rank \in Surjection(moves, 1 .. N)
  BY <1>7, <1>8, FS_Injection
<1>10. \A n \in 1 .. N : \E m \in moves : rank[m] = n
  BY <1>9 DEF Surjection
<1>25. \A n \in 1 .. N : \E m \in moves : size[m] = n - 1
  BY <1>1, <1>10, <1>22, <1>24
<1>11. \A n \in 1 .. N : \E m \in moves : Cardinality(Below(m)) = n - 1
  BY <1>21, <1>25
<1>12. ASSUME NEW n \in 1 .. N
       PROVE  Sorted(moves)[n] \in moves /\ Cardinality(Below(Sorted(moves)[n])) = n - 1
  BY <1>1, <1>11, Zenon DEF Sorted, Below
<1>26. \A n \in 1 .. N : Sorted(moves)[n] \in moves /\ size[Sorted(moves)[n]] = n - 1
  BY <1>12, <1>21
<1>13. \A n \in 1 .. N : Sorted(moves)[n] \in moves /\ rank[Sorted(moves)[n]] = n
  BY <1>24, <1>26
<1>14. Sorted(moves) \in [1 .. N -> moves]
  BY <1>12 DEF Sorted
<1>15. \A m \in moves : \E n \in 1 .. N : Sorted(moves)[n] = m
  BY <1>4, <1>6, <1>13
<1>16. ASSUME NEW n \in 1 .. N, NEW k \in 1 .. N, n < k
       PROVE  Sorted(moves)[n].ts < Sorted(moves)[k].ts
  <2>1. PICK a \in moves : a = Sorted(moves)[n]
    BY <1>13
  <2>2. PICK b \in moves : b = Sorted(moves)[k]
    BY <1>13
  <2>3. rank[a] = n /\ rank[b] = k /\ a.ts \in Nat /\ b.ts \in Nat
    BY <1>13, <2>1, <2>2
  <2>4. ~(b.ts < a.ts)
    BY <1>1, <1>5, <1>16, <2>3
  <2>5. a.ts # b.ts
    <3>1. a # b
      BY <1>1, <1>16, <2>3
    <3>2. QED BY <3>1
  <2>6. QED BY <2>1, <2>2, <2>3, <2>4, <2>5
<1>17. QED BY <1>1, <1>14, <1>15, <1>16

\* a timeline: instants in order
Ordered(tl) ==
  /\ \E n \in Nat : DOMAIN tl = 1 .. n
  /\ \A n \in DOMAIN tl : tl[n].ts \in Nat
  /\ \A n, k \in DOMAIN tl : n < k => tl[n].ts < tl[k].ts

LEMMA FirstInTimeline ==
  ASSUME NEW tl, Ordered(tl), NEW wanted, wanted \subseteq ToSet(tl)
  PROVE  /\ First(tl, wanted) = FirstTime(wanted)
         /\ FirstTime(wanted) \in Nat \cup {None}
<1> DEFINE hits == {n \in DOMAIN tl : tl[n] \in wanted}
           times == {t.ts : t \in wanted}
<1>1. hits \subseteq Nat /\ \A n \in DOMAIN tl : tl[n].ts \in Nat
  BY DEF Ordered
<1>2. \A t \in wanted : \E n \in hits : tl[n] = t
  BY DEF ToSet
<1>3. CASE hits = {}
  <2>1. wanted = {}
    BY <1>2, <1>3
  <2>2. QED BY <1>3, <2>1 DEF First, FirstTime
<1>4. CASE hits # {}
  <2>1. Min(hits) \in hits /\ \A n \in hits : Min(hits) <= n
    BY <1>1, <1>4, MinIs
  <2>2. PICK p \in hits : p = Min(hits) /\ \A n \in hits : p <= n
    BY <2>1
  <2>3. tl[p] \in wanted /\ wanted # {}
    BY <2>2
  <2>4. times \subseteq Nat
    BY <1>1, <1>2
  <2>5. \A n \in hits : tl[p].ts <= tl[n].ts
    <3>1. TAKE n \in hits
    <3>2. n \in DOMAIN tl /\ p \in DOMAIN tl /\ n \in Nat /\ p \in Nat /\ p <= n
      BY <1>1, <2>2
    <3>3. tl[p].ts \in Nat /\ tl[n].ts \in Nat
      BY <1>1, <3>2
    <3>4. CASE p = n
      BY <3>3, <3>4
    <3>5. CASE p < n
      <4>1. tl[p].ts < tl[n].ts
        BY <3>2, <3>5 DEF Ordered
      <4>2. QED BY <3>3, <4>1
    <3>6. QED BY <3>2, <3>4, <3>5
  <2>6. tl[p].ts \in times /\ \A u \in times : tl[p].ts <= u
    BY <1>2, <2>3, <2>5
  <2>7. Min(times) \in times /\ \A u \in times : Min(times) <= u
    BY <2>4, <2>6, MinIs
  <2>8. Min(times) = tl[p].ts
    <3>1. PICK u : u = Min(times) /\ u \in times /\ u <= tl[p].ts /\ tl[p].ts <= u
      BY <2>6, <2>7
    <3>2. u \in Nat /\ tl[p].ts \in Nat
      BY <2>4, <2>6, <3>1
    <3>3. u = tl[p].ts
      BY <3>1, <3>2
    <3>4. QED BY <3>1, <3>3
  <2>9. FirstTime(wanted) = tl[p].ts
    BY <2>3, <2>8 DEF FirstTime
  <2>10. First(tl, wanted) = tl[p].ts
    BY <1>4, <2>2 DEF First
  <2>11. QED BY <1>1, <2>2, <2>9, <2>10
<1>5. QED BY <1>3, <1>4

\* what really happened, judged
Judgement(past) ==
  LET submitted == FirstTime(Submissions(past))
      done == FirstTime(Completions(past))
      anchor == Earlier(submitted, done) IN
  [submitted |-> submitted, done |-> done,
   regressed |-> IF anchor = None THEN None ELSE FirstTime(Regressions(past, anchor))]

LEMMA DistilledIsVerdict ==
  ASSUME NEW tl, Ordered(tl)
  PROVE  distillTransitions(tl) = Judgement(ToSet(tl))
<1> DEFINE past == ToSet(tl)
           submitted == FirstTime(Submissions(past))
           done == FirstTime(Completions(past))
           anchor == Earlier(submitted, done)
<1>1. First(tl, Submissions(past)) = submitted
  BY FirstInTimeline DEF Submissions
<1>2. First(tl, Completions(past)) = done
  BY FirstInTimeline DEF Completions
<1>3. First(tl, Regressions(past, anchor)) = FirstTime(Regressions(past, anchor))
  BY FirstInTimeline DEF Regressions
<1>4. anchor = None => submitted = None /\ done = None
  <2>1. submitted # None /\ done # None => submitted \in Nat /\ done \in Nat
    BY FirstInTimeline DEF Submissions, Completions
  <2>2. submitted # None /\ done # None => Min({submitted, done}) \in Nat
    BY <2>1, MinIs
  <2>3. QED BY <2>2, IssueBoardsAssumption DEF Earlier
<1>5. QED BY <1>1, <1>2, <1>3, <1>4, Zenon DEF distillTransitions, Judgement

-----------------------------------------------------------------------------
\* an issue's history h, the status s it is in, at an instant c
Entries == [ts : Nat, from : IbStatuses \cup {None}, to : IbStatuses \cup {None}]
Chronicle(h, s, c) ==
  /\ h \in Seq(Entries)
  /\ \A n \in DOMAIN h : h[n].ts \in 1 .. c
  /\ \A n, k \in DOMAIN h : n < k => h[n].ts < h[k].ts
  /\ \A n \in DOMAIN h : h[n].to # None =>
       h[n].from = "todo" \/ \E k \in DOMAIN h : k < n /\ h[k].to # None
  /\ s = "todo" \/ \E n \in DOMAIN h : h[n].to # None

\* what happened, in a history: Happened of an issue
Told(h, b) ==
  {[ts |-> 0, name |-> "todo", bucket |-> b["todo"]]}
    \cup {[ts |-> h[n].ts, name |-> h[n].to, bucket |-> b[h[n].to]] : n \in {k \in DOMAIN h : h[k].to # None}}

\* the first move of a history leaves the status it was created in
LEMMA MovesOf ==
  ASSUME NEW h, NEW s, NEW c \in Nat, Chronicle(h, s, c), NEW entries, ToSet(entries) = ToSet(h)
  PROVE  /\ IsFiniteSet(Moves(entries))
         /\ \A m \in Moves(entries) : m.ts \in 1 .. c /\ m.to \in IbStatuses
         /\ \A m, k \in Moves(entries) : m.ts = k.ts => m = k
         /\ \A m \in Moves(entries) : (\A k \in Moves(entries) : m.ts <= k.ts) => m.from = "todo"
         /\ Moves(entries) = {} => s = "todo"
         /\ Moves(entries) = {h[n] : n \in {k \in DOMAIN h : h[k].to # None}}
<1>1. Len(h) \in Nat /\ DOMAIN h = 1 .. Len(h) /\ \A n \in DOMAIN h : h[n] \in Entries
  BY LenProperties, ElementOfSeq DEF Chronicle
<1>2. Moves(entries) = {h[n] : n \in {k \in DOMAIN h : h[k].to # None}}
  BY DEF Moves, ToSet
<1>3. IsFiniteSet(Moves(entries))
  <2>1. IsFiniteSet(DOMAIN h)
    BY <1>1, FS_Interval
  <2>2. h \in Surjection(DOMAIN h, ToSet(h))
    <3>1. h \in [DOMAIN h -> ToSet(h)]
      BY <1>1, LenProperties DEF ToSet, Chronicle
    <3>2. QED BY <3>1 DEF Surjection, ToSet
  <2>3. IsFiniteSet(ToSet(h))
    BY <2>1, <2>2, FS_Surjection
  <2>4. Moves(entries) \in SUBSET ToSet(h)
    BY DEF Moves
  <2>5. QED BY <2>3, <2>4, FS_Subset
<1>4. \A m \in Moves(entries) : m.ts \in 1 .. c /\ m.to \in IbStatuses
  BY <1>1, <1>2 DEF Chronicle, Entries
<1>5. \A m, k \in Moves(entries) : m.ts = k.ts => m = k
  <2>1. \A n, k \in DOMAIN h : h[n].ts = h[k].ts => n = k
    <3>1. SUFFICES ASSUME NEW n \in DOMAIN h, NEW k \in DOMAIN h, h[n].ts = h[k].ts
                   PROVE  n = k
      OBVIOUS
    <3>2. n \in Nat /\ k \in Nat /\ h[n].ts \in Nat /\ h[k].ts \in Nat
      BY <1>1 DEF Chronicle
    <3>3. ~(n < k) /\ ~(k < n)
      BY <3>1, <3>2 DEF Chronicle
    <3>4. QED BY <3>2, <3>3
  <2>2. QED BY <1>2, <2>1
<1>6. ASSUME NEW m \in Moves(entries), \A k \in Moves(entries) : m.ts <= k.ts
      PROVE  m.from = "todo"
  <2>1. PICK n \in DOMAIN h : h[n] = m /\ h[n].to # None
    BY <1>2
  <2>2. ASSUME NEW k \in DOMAIN h, k < n, h[k].to # None
        PROVE  FALSE
    <3>1. h[k] \in Moves(entries) /\ h[k].ts < m.ts
      BY <1>2, <2>1, <2>2 DEF Chronicle
    <3>2. m.ts <= h[k].ts /\ m.ts \in Nat /\ h[k].ts \in Nat
      BY <1>4, <1>6, <3>1
    <3>3. QED BY <3>1, <3>2
  <2>3. QED BY <2>1, <2>2 DEF Chronicle
<1>7. Moves(entries) = {} => s = "todo"
  BY <1>2 DEF Chronicle
<1>8. QED BY <1>2, <1>3, <1>4, <1>5, <1>6, <1>7

\* Whatever the order the vendor serves it in, the timeline of a whole history
\* is what happened, in order.
LEMMA TimelineIs ==
  ASSUME NEW h, NEW s, NEW c \in Nat, Chronicle(h, s, c), NEW entries, ToSet(entries) = ToSet(h), NEW b
  PROVE  Ordered(Timeline(entries, s, b)) /\ ToSet(Timeline(entries, s, b)) = Told(h, b)
<1> DEFINE At(m) == [ts |-> m.ts, name |-> m.to, bucket |-> b[m.to]]
           Created == [ts |-> 0, name |-> "todo", bucket |-> b["todo"]]
<1>1. PICK moves : moves = Moves(entries)
  OBVIOUS
<1>2. /\ IsFiniteSet(moves)
      /\ \A m \in moves : m.ts \in 1 .. c /\ m.to \in IbStatuses
      /\ \A m, k \in moves : m.ts = k.ts => m = k
      /\ \A m \in moves : (\A k \in moves : m.ts <= k.ts) => m.from = "todo"
      /\ moves = {} => s = "todo"
      /\ moves = {h[n] : n \in {k \in DOMAIN h : h[k].to # None}}
  BY <1>1, MovesOf
<1>3. PICK N, f : N = Cardinality(moves) /\ f = Sorted(moves)
  OBVIOUS
<1>4. /\ N \in Nat /\ f \in [1 .. N -> moves]
      /\ \A m \in moves : \E n \in 1 .. N : f[n] = m
      /\ \A n, k \in 1 .. N : n < k => f[n].ts < f[k].ts
  <2>1. \A m \in moves : m.ts \in Nat
    BY <1>2
  <2>2. /\ Cardinality(moves) \in Nat
        /\ Sorted(moves) \in [1 .. Cardinality(moves) -> moves]
        /\ \A m \in moves : \E n \in 1 .. Cardinality(moves) : Sorted(moves)[n] = m
        /\ \A n, k \in 1 .. Cardinality(moves) : n < k => Sorted(moves)[n].ts < Sorted(moves)[k].ts
    BY <1>2, <2>1, SortedIs
  <2>3. QED BY <1>3, <2>2, Zenon
<1>5. f \in Seq(moves) /\ Len(f) = N /\ DOMAIN f = 1 .. N
  BY <1>4
<1>6. IF f = <<>> THEN s = "todo" ELSE Head(f).from = "todo"
  <2>1. CASE f = <<>>
    <3>1. N = 0
      BY <1>5, <2>1, EmptySeq
    <3>2. moves = {}
      BY <1>4, <3>1
    <3>3. QED BY <1>2, <2>1, <3>2
  <2>2. CASE f # <<>>
    <3>1. N \in Nat \ {0}
      BY <1>5, <2>2, EmptySeq
    <3>2. Head(f) = f[1] /\ f[1] \in moves
      BY <1>4, <1>5, <2>2, <3>1
    <3>3. ASSUME NEW k \in moves
          PROVE  f[1].ts <= k.ts
      <4>1. PICK n \in 1 .. N : f[n] = k
        BY <1>4
      <4>2. f[1].ts \in Nat /\ k.ts \in Nat
        BY <1>2, <3>2
      <4>3. n = 1 \/ (1 < n /\ 1 \in 1 .. N)
        BY <3>1
      <4>4. QED BY <1>4, <4>1, <4>2, <4>3
    <3>4. QED BY <1>2, <2>2, <3>2, <3>3
  <2>3. QED BY <2>1, <2>2
<1>7. PICK rest : rest = [n \in 1 .. N |-> At(f[n])]
  OBVIOUS
<1>8. Timeline(entries, s, b) = <<Created>> \o rest
  BY <1>1, <1>3, <1>5, <1>6, <1>7, Zenon DEF Timeline
<1>9. PICK S : S = {Created} \cup {At(m) : m \in moves}
  OBVIOUS
<1>10. rest \in Seq(S) /\ Len(rest) = N /\ \A n \in 1 .. N : rest[n] = At(f[n])
  BY <1>4, <1>7, <1>9
<1>11. <<Created>> \in Seq(S) /\ Len(<<Created>>) = 1 /\ <<Created>>[1] = Created
  BY <1>9
<1>12. PICK tl : tl = <<Created>> \o rest
  OBVIOUS
<1>13. /\ tl \in Seq(S) /\ Len(tl) = N + 1 /\ DOMAIN tl = 1 .. N + 1
       /\ \A n \in 1 .. N + 1 : tl[n] = IF n = 1 THEN Created ELSE At(f[n - 1])
  <2>1. /\ tl \in Seq(S) /\ Len(tl) = 1 + N
        /\ \A n \in 1 .. 1 + N : tl[n] = IF n <= 1 THEN <<Created>>[n] ELSE rest[n - 1]
    <3>1. PICK one : one = <<Created>>
      OBVIOUS
    <3>2. one \in Seq(S) /\ Len(one) = 1 /\ tl = one \o rest
      BY <1>11, <1>12, <3>1
    <3>3. /\ tl \in Seq(S) /\ Len(tl) = Len(one) + Len(rest)
          /\ \A n \in 1 .. Len(one) + Len(rest) : tl[n] = IF n <= Len(one) THEN one[n] ELSE rest[n - Len(one)]
      BY <1>10, <3>2, ConcatProperties
    <3>4. QED BY <1>10, <3>1, <3>2, <3>3
  <2>2. DOMAIN tl = 1 .. Len(tl)
    BY <2>1, LenProperties
  <2>3. \A n \in 1 .. N + 1 : n = 1 \/ (~(n <= 1) /\ n - 1 \in 1 .. N)
    BY <1>4
  <2>4. \A n \in 1 .. N + 1 : tl[n] = IF n = 1 THEN Created ELSE At(f[n - 1])
    BY <1>4, <1>10, <1>11, <2>1, <2>3
  <2>5. QED BY <1>4, <2>1, <2>2, <2>4
<1>14. \A n \in 1 .. N : f[n] \in moves /\ f[n].ts \in 1 .. c /\ f[n].to \in IbStatuses
  BY <1>2, <1>4
<1>15. \A n \in 1 .. N + 1 : tl[n].ts = IF n = 1 THEN 0 ELSE f[n - 1].ts
  BY <1>13
<1>16. Ordered(tl)
  <2>1. \A n \in DOMAIN tl : tl[n].ts \in Nat /\ (n # 1 => tl[n].ts > 0)
    <3>1. TAKE n \in DOMAIN tl
    <3>2. n = 1 \/ n - 1 \in 1 .. N
      BY <1>4, <1>13
    <3>3. QED BY <1>13, <1>14, <1>15, <3>2
  <2>2. ASSUME NEW n \in DOMAIN tl, NEW k \in DOMAIN tl, n < k
        PROVE  tl[n].ts < tl[k].ts
    <3>1. CASE n = 1
      <4>1. tl[n].ts = 0 /\ k # 1
        BY <1>13, <1>15, <2>2, <3>1
      <4>2. QED BY <2>1, <4>1
    <3>2. CASE n # 1
      <4>1. n - 1 \in 1 .. N /\ k - 1 \in 1 .. N /\ n - 1 < k - 1 /\ k # 1
        <5>1. n \in 1 .. N + 1 /\ k \in 1 .. N + 1
          BY <1>13
        <5>2. QED BY <1>4, <2>2, <3>2, <5>1
      <4>2. tl[n].ts = f[n - 1].ts /\ tl[k].ts = f[k - 1].ts
        BY <1>13, <1>15, <3>2, <4>1
      <4>3. f[n - 1].ts < f[k - 1].ts
        BY <1>4, <4>1
      <4>4. QED BY <4>2, <4>3
    <3>3. QED BY <3>1, <3>2
  <2>3. QED BY <1>4, <1>13, <2>1, <2>2 DEF Ordered
<1>17. ToSet(tl) = Told(h, b)
  <2>1. Told(h, b) = S
    BY <1>2, <1>9 DEF Told
  <2>2. ToSet(tl) \subseteq S
    BY <1>13, ElementOfSeq DEF ToSet
  <2>3. ASSUME NEW e \in S
        PROVE  e \in ToSet(tl)
    <3>1. CASE e = Created
      <4>1. 1 \in DOMAIN tl /\ tl[1] = Created
        BY <1>4, <1>13
      <4>2. QED BY <3>1, <4>1 DEF ToSet
    <3>2. CASE e # Created
      <4>1. PICK m \in moves : e = At(m)
        BY <1>9, <2>3, <3>2
      <4>2. PICK n \in 1 .. N : f[n] = m
        BY <1>4
      <4>3. PICK p : p = n + 1
        OBVIOUS
      <4>4. p \in 1 .. N + 1 /\ p # 1 /\ p - 1 = n
        BY <1>4, <4>3
      <4>5. p \in DOMAIN tl /\ tl[p] = At(f[n])
        BY <1>13, <4>4
      <4>6. QED BY <4>1, <4>2, <4>5 DEF ToSet
    <3>3. QED BY <3>1, <3>2
  <2>4. QED BY <2>1, <2>2, <2>3
<1>18. QED BY <1>8, <1>12, <1>16, <1>17

-----------------------------------------------------------------------------
(***************************************************************************)
(* The world of the boards.                                                *)
(***************************************************************************)
IbWorlds ==
  [board : {"linear", "jira"}, newest : BOOLEAN, clock : Nat, bucket : [IbStatuses -> IbStatuses \cup {None}],
   status : [IbIssues -> IbStatuses], history : [IbIssues -> Seq(Entries)], updated : [IbIssues -> Nat],
   on : [IbIssues -> [creator : IbPeople, assignee : IbActors, delegate : IbActors]]]

\* histories are chronicles, and issues are updated one at a time
Recorded(w) ==
  /\ w \in IbWorlds
  /\ \A i \in IbIssues : Chronicle(w.history[i], w.status[i], w.clock)
  /\ \A i \in IbIssues : w.updated[i] \in 1 .. w.clock
  /\ \A i, k \in IbIssues : w.updated[i] = w.updated[k] => i = k

LEMMA IssueIds == IbIssues \subseteq Nat \ {0}
BY IssueBoardsAssumption

LEMMA CategoryTyped == Category \in [IbStatuses -> IbStatuses \cup {None}]
BY DEF Category, IbStatuses

\* the entry a move appends
LEMMA ChronicleGrows ==
  ASSUME NEW h, NEW s, NEW c \in Nat, Chronicle(h, s, c), NEW e \in Entries, e.ts = c + 1,
         NEW s2, \/ e.to = None /\ s2 = s
                 \/ e.to # None /\ e.from = s
  PROVE  Chronicle(Append(h, e), s2, c + 1)
<1>1. h \in Seq(Entries) /\ Len(h) \in Nat /\ DOMAIN h = 1 .. Len(h)
  BY LenProperties DEF Chronicle
<1>2. PICK g : g = Append(h, e)
  OBVIOUS
<1>3. /\ g \in Seq(Entries) /\ Len(g) = Len(h) + 1 /\ DOMAIN g = 1 .. Len(h) + 1
      /\ \A n \in DOMAIN h : n \in DOMAIN g /\ g[n] = h[n]
      /\ g[Len(h) + 1] = e /\ Len(h) + 1 \in DOMAIN g
  BY <1>1, <1>2
<1>4. PICK N \in Nat : N = Len(h)
  BY <1>1
<1>5. \A n \in DOMAIN g : n \in DOMAIN h \/ n = N + 1
  BY <1>1, <1>3, <1>4
<1>6. ASSUME NEW n \in DOMAIN g
      PROVE  g[n].ts \in 1 .. c + 1 /\ (n \in DOMAIN h => g[n].ts <= c)
  <2>1. CASE n \in DOMAIN h
    <3>1. g[n].ts \in 1 .. c
      BY <1>3, <2>1 DEF Chronicle
    <3>2. QED BY <3>1
  <2>2. CASE n \notin DOMAIN h
    BY <1>3, <1>4, <1>5, <2>2
  <2>3. QED BY <2>1, <2>2
<1>7. ASSUME NEW n \in DOMAIN g, NEW k \in DOMAIN g, n < k
      PROVE  g[n].ts < g[k].ts
  <2>1. n \in DOMAIN h
    BY <1>1, <1>3, <1>4, <1>5, <1>7
  <2>2. CASE k \in DOMAIN h
    BY <1>3, <1>7, <2>1, <2>2 DEF Chronicle
  <2>3. CASE k \notin DOMAIN h
    <3>1. g[k].ts = c + 1 /\ g[n].ts \in Nat /\ g[n].ts <= c
      BY <1>3, <1>4, <1>5, <1>6, <2>1, <2>3
    <3>2. QED BY <3>1
  <2>4. QED BY <2>2, <2>3
<1>8. ASSUME NEW n \in DOMAIN g, g[n].to # None
      PROVE  g[n].from = "todo" \/ \E k \in DOMAIN g : k < n /\ g[k].to # None
  <2>1. CASE n \in DOMAIN h
    BY <1>3, <1>8, <2>1 DEF Chronicle
  <2>2. CASE n \notin DOMAIN h
    <3>1. n = N + 1 /\ g[n] = e /\ e.from = s
      BY <1>3, <1>4, <1>5, <1>8, <2>2
    <3>2. CASE s = "todo"
      BY <3>1, <3>2
    <3>3. CASE s # "todo"
      <4>1. PICK k \in DOMAIN h : h[k].to # None
        BY <3>3 DEF Chronicle
      <4>2. k \in DOMAIN g /\ g[k].to # None /\ k < n
        BY <1>1, <1>3, <1>4, <3>1, <4>1
      <4>3. QED BY <4>2
    <3>4. QED BY <3>2, <3>3
  <2>3. QED BY <2>1, <2>2
<1>9. s2 = "todo" \/ \E n \in DOMAIN g : g[n].to # None
  <2>1. CASE e.to # None
    BY <1>3, <2>1
  <2>2. CASE e.to = None
    BY <1>3, <2>2 DEF Chronicle
  <2>3. QED BY <2>1, <2>2
<1>10. QED BY <1>2, <1>3, <1>6, <1>7, <1>8, <1>9 DEF Chronicle

\* with time, a history stays what it is
LEMMA ChronicleAges ==
  ASSUME NEW h, NEW s, NEW c \in Nat, Chronicle(h, s, c)
  PROVE  Chronicle(h, s, c + 1)
<1>1. 1 .. c \subseteq 1 .. c + 1
  OBVIOUS
<1>2. QED BY <1>1, Zenon DEF Chronicle

\* the history of issue 1 as the run finds it
LEMMA PlayedIs ==
  ASSUME NEW script \in IbScripts
  PROVE  Chronicle(Played(script), StatusAfter(script, Len(script)), IbToday)
         /\ StatusAfter(script, Len(script)) \in IbStatuses
<1>1. /\ script \in Seq(IbStatuses \cup {None}) /\ Len(script) <= IbToday /\ IbToday \in Nat
      /\ None \notin IbStatuses
  BY IssueBoardsAssumption
<1>2. Len(script) \in Nat /\ DOMAIN script = 1 .. Len(script) /\ \A n \in DOMAIN script : script[n] \in IbStatuses \cup {None}
  BY <1>1, LenProperties, ElementOfSeq
<1>3. ASSUME NEW n \in 0 .. Len(script)
      PROVE  /\ StatusAfter(script, n) \in IbStatuses
             /\ StatusAfter(script, n) = "todo" \/ \E k \in DOMAIN script : k <= n /\ script[k] # None
  <2>1. PICK S : S = {k \in 1 .. n : script[k] # None}
    OBVIOUS
  <2>2. n \in Nat /\ S \subseteq 1 .. n /\ 1 .. n \subseteq DOMAIN script
    BY <1>2, <1>3, <2>1
  <2>3. CASE S = {}
    BY <2>1, <2>3 DEF StatusAfter, IbStatuses
  <2>4. CASE S # {}
    <3>1. \E m \in S : \A k \in S : m >= k
      <4>1. PICK D : D = {n - k : k \in S}
        OBVIOUS
      <4>2. D \subseteq Nat /\ D # {}
        <5>1. \A k \in S : n - k \in Nat
          BY <2>2
        <5>2. QED BY <2>4, <4>1, <5>1
      <4>3. PICK d \in D : \A x \in D : d <= x
        BY <4>2, LeastNat
      <4>4. PICK m \in S : d = n - m
        BY <4>1
      <4>5. \A k \in S : n - m <= n - k
        BY <4>1, <4>3, <4>4
      <4>6. QED BY <2>2, <4>5
    <3>2. Max(S) \in S
      BY <3>1 DEF Max
    <3>3. PICK m \in S : m = Max(S)
      BY <3>2
    <3>4. StatusAfter(script, n) = script[m]
      BY <2>1, <2>4, <3>3 DEF StatusAfter
    <3>5. m \in DOMAIN script /\ script[m] # None /\ m <= n
      BY <2>1, <2>2, <3>3
    <3>6. QED BY <1>2, <3>4, <3>5
  <2>5. QED BY <2>3, <2>4
<1>4. PICK h : h = Played(script)
  OBVIOUS
<1>5. /\ DOMAIN h = 1 .. Len(script) /\ Len(script) \in Nat
      /\ \A n \in 1 .. Len(script) :
           h[n] = [ts |-> n, to |-> script[n],
                   from |-> IF script[n] = None THEN None ELSE StatusAfter(script, n - 1)]
  BY <1>2, <1>4 DEF Played
<1>6. \A n \in DOMAIN h : n - 1 \in 0 .. Len(script) /\ n \in Nat
  BY <1>2, <1>5
<1>7. \A n \in DOMAIN h : h[n] \in Entries /\ h[n].ts = n /\ h[n].to = script[n]
  BY <1>2, <1>3, <1>5, <1>6 DEF Entries
<1>8. h \in Seq(Entries)
  BY <1>5, <1>7, <1>4 DEF Played
<1>9. \A n \in DOMAIN h : h[n].ts \in 1 .. IbToday
  BY <1>1, <1>5, <1>7
<1>10. \A n, k \in DOMAIN h : n < k => h[n].ts < h[k].ts
  BY <1>7
<1>11. ASSUME NEW n \in DOMAIN h, h[n].to # None
       PROVE  h[n].from = "todo" \/ \E k \in DOMAIN h : k < n /\ h[k].to # None
  <2>1. h[n].from = StatusAfter(script, n - 1)
    BY <1>5, <1>7, <1>11
  <2>2. CASE StatusAfter(script, n - 1) = "todo"
    BY <2>1, <2>2
  <2>3. CASE StatusAfter(script, n - 1) # "todo"
    <3>1. PICK k \in DOMAIN script : k <= n - 1 /\ script[k] # None
      BY <1>3, <1>6, <2>3
    <3>2. k \in DOMAIN h /\ k < n /\ h[k].to # None
      BY <1>2, <1>5, <1>6, <1>7, <3>1
    <3>3. QED BY <3>2
  <2>4. QED BY <2>2, <2>3
<1>12. /\ StatusAfter(script, Len(script)) \in IbStatuses
       /\ StatusAfter(script, Len(script)) = "todo" \/ \E n \in DOMAIN h : h[n].to # None
  <2>1. Len(script) \in 0 .. Len(script)
    BY <1>2
  <2>2. QED BY <1>2, <1>3, <1>5, <1>7, <2>1
<1>13. QED BY <1>4, <1>8, <1>9, <1>10, <1>11, <1>12 DEF Chronicle

-----------------------------------------------------------------------------
(***************************************************************************)
(* The walk: every issue the token has passed is judged on what happened,  *)
(* unless the vendor moved since the walk began.                           *)
(***************************************************************************)
TokenOK ==
  \/ token = None
  \/ /\ token \in IbCursors
     /\ token.phase # "page" =>
          world.board = "jira" /\ ("statuses" \notin moved => token.bucket = world.bucket)
     /\ token.phase = "changelog" =>
          /\ token.issue \in IbIssues
          /\ "issues" \notin moved =>
               token.issue \in Ahead /\ \A k \in Ahead : Place(token.issue) <= Place(k)

\* the token is past the issue
Passed(i) == IF token = None THEN walks > 0 ELSE Place(i) <= token.after

Judged(i) ==
  "issues" \notin moved =>
    /\ i \in DOMAIN stored
    /\ stored[i].credited = creditedActor(world.on[i])
    /\ "statuses" \notin moved /\ (world.board = "jira" \/ ~Truncated(i)) =>
         stored[i].events = Judgement(Happened(i))

PassedAreJudged == \A i \in IbIssues : Passed(i) => Judged(i)

BoardsInv == Recorded(world) /\ TokenOK /\ PassedAreJudged /\ walks \in Nat
BoardsIInv == vendor = "issues" => BoardsInv

LEMMA PlaceTyped ==
  ASSUME Recorded(world), NEW i \in IbIssues
  PROVE  /\ Place(i) \in Nat \ {0}
         /\ \A k \in IbIssues : Place(i) = Place(k) => i = k
<1>1. i \in Nat \ {0} /\ world.updated[i] \in 1 .. world.clock /\ world.clock \in Nat
  BY IssueIds DEF Recorded, IbWorlds
<1>2. \A k \in IbIssues : world.updated[i] = world.updated[k] => i = k
  BY DEF Recorded
<1>3. QED BY <1>1, <1>2 DEF Place

LEMMA NoneIsNoToken == None \notin IbCursors /\ None \notin Nat
BY IssueBoardsAssumption

LEMMA InitialCursorTyped == IbInitialCursor \in IbCursors /\ IbInitialCursor.after = 0 /\ IbInitialCursor.phase = "page"
BY CategoryTyped DEF IbInitialCursor, IbCursors

LEMMA PlayedInit == IbInit => BoardsInv
<1> SUFFICES ASSUME IbInit PROVE BoardsInv
  OBVIOUS
<1>1. PICK script \in IbScripts :
        world \in [board : {"linear", "jira"}, newest : BOOLEAN, clock : {IbToday}, bucket : {Category},
                status : {[i \in IbIssues |-> IF i = 1 THEN StatusAfter(script, Len(script)) ELSE "todo"]},
                history : {[i \in IbIssues |-> IF i = 1 THEN Played(script) ELSE <<>>]},
                updated : {[i \in IbIssues |-> i]},
                on : {[i \in IbIssues |-> [creator |-> c, assignee |-> None, delegate |-> None]] : c \in IbPeople}]
  BY DEF IbInit
<1>2. token = None /\ walks = 0
  BY DEF IbInit
<1>3. PICK p, q : p = Played(script) /\ q = StatusAfter(script, Len(script))
  OBVIOUS
<1>4. Chronicle(p, q, IbToday) /\ q \in IbStatuses /\ p \in Seq(Entries)
  BY <1>3, PlayedIs DEF Chronicle
<1>5. Chronicle(<<>>, "todo", IbToday) /\ "todo" \in IbStatuses /\ <<>> \in Seq(Entries)
  BY DEF Chronicle, IbStatuses
<1>6. /\ world.clock = IbToday /\ world.bucket = Category /\ world.board \in {"linear", "jira"}
      /\ world.newest \in BOOLEAN
      /\ world.status = [i \in IbIssues |-> IF i = 1 THEN q ELSE "todo"]
      /\ world.history = [i \in IbIssues |-> IF i = 1 THEN p ELSE <<>>]
      /\ world.updated = [i \in IbIssues |-> i]
      /\ \E c \in IbPeople : world.on = [i \in IbIssues |-> [creator |-> c, assignee |-> None, delegate |-> None]]
  BY <1>1, <1>3
<1>7. world = [board |-> world.board, newest |-> world.newest, clock |-> world.clock, bucket |-> world.bucket,
               status |-> world.status, history |-> world.history, updated |-> world.updated, on |-> world.on]
  BY <1>1
<1>8. world.on \in [IbIssues -> [creator : IbPeople, assignee : IbActors, delegate : IbActors]]
  BY <1>6 DEF IbActors
<1>9. /\ world.status \in [IbIssues -> IbStatuses]
      /\ world.history \in [IbIssues -> Seq(Entries)]
      /\ world.updated \in [IbIssues -> Nat]
  BY <1>4, <1>5, <1>6, IssueIds
<1>10. world \in IbWorlds
  BY <1>6, <1>7, <1>8, <1>9, CategoryTyped, IssueBoardsAssumption DEF IbWorlds
<1>11. \A i \in IbIssues : Chronicle(world.history[i], world.status[i], world.clock)
  BY <1>4, <1>5, <1>6
<1>12. /\ \A i \in IbIssues : world.updated[i] \in 1 .. world.clock
       /\ \A i, k \in IbIssues : world.updated[i] = world.updated[k] => i = k
  BY <1>6, IssueBoardsAssumption
<1>13. Recorded(world)
  BY <1>10, <1>11, <1>12 DEF Recorded
<1>14. QED BY <1>2, <1>13 DEF BoardsInv, TokenOK, PassedAreJudged, Passed

LEMMA StartsUnjudged == BoardsInv /\ Start(IbInitialCursor) => BoardsInv'
<1> SUFFICES ASSUME BoardsInv, Start(IbInitialCursor) PROVE BoardsInv'
  OBVIOUS
<1>1. world' = world /\ token' = IbInitialCursor /\ walks' = walks + 1 /\ walks \in Nat
  BY DEF Start, BoardsInv
<1>2. Recorded(world)'
  BY <1>1 DEF BoardsInv
<1>3. TokenOK'
  BY <1>1, InitialCursorTyped DEF TokenOK
<1>4. \A i \in IbIssues : ~Passed(i)'
  <2>1. TAKE i \in IbIssues
  <2>2. Place(i) \in Nat \ {0}
    BY PlaceTyped DEF BoardsInv
  <2>3. Place(i)' = Place(i)
    BY <1>1 DEF Place
  <2>4. token'.after = 0 /\ token' # None
    BY <1>1, InitialCursorTyped, NoneIsNoToken
  <2>5. QED BY <2>2, <2>3, <2>4 DEF Passed
<1>5. QED BY <1>1, <1>2, <1>3, <1>4 DEF BoardsInv, PassedAreJudged

LEMMA JudgedStays ==
  ASSUME NEW i \in IbIssues, UNCHANGED <<world, moved, stored>>, Judged(i)
  PROVE  Judged(i)'
<1>1. Happened(i)' = Happened(i)
  BY DEF Happened
<1>2. Truncated(i)' = Truncated(i) /\ creditedActor(world.on[i])' = creditedActor(world.on[i])
  BY DEF Truncated, creditedActor
<1>3. QED BY <1>1, <1>2 DEF Judged

LEMMA TokenAfterIs ==
  ASSUME Recorded(world), NEW i \in IbIssues
  PROVE  \/ TokenAfter(i) = None /\ \A k \in IbIssues : Place(k) <= Place(i)
         \/ /\ TokenAfter(i) \in IbCursors /\ TokenAfter(i) # None
            /\ TokenAfter(i).after = Place(i) /\ TokenAfter(i).phase = "page"
<1>1. \A k \in IbIssues : Place(k) \in Nat
  BY PlaceTyped
<1>2. CASE \E k \in IbIssues : Place(k) > Place(i)
  <2>1. PICK t : t = [IbInitialCursor EXCEPT !.after = Place(i)]
    OBVIOUS
  <2>2. t \in IbCursors /\ t.after = Place(i) /\ t.phase = "page"
    BY <1>1, <2>1, InitialCursorTyped DEF IbCursors
  <2>3. TokenAfter(i) = t
    BY <1>2, <2>1 DEF TokenAfter
  <2>4. QED BY <2>2, <2>3, NoneIsNoToken
<1>3. CASE ~\E k \in IbIssues : Place(k) > Place(i)
  BY <1>1, <1>3 DEF TokenAfter
<1>4. QED BY <1>2, <1>3

\* what a dropped status stands for
BucketNow == IF world.board = "jira" THEN world.bucket ELSE Category

LEMMA JudgedOnce ==
  ASSUME BoardsInv, token # None, NEW i \in IbIssues, NEW entries, NEW b,
         "issues" \notin moved => i \in Ahead /\ \A k \in Ahead : Place(i) <= Place(k),
         "statuses" \notin moved => b = BucketNow,
         world.board = "jira" \/ ~Truncated(i) => ToSet(entries) = ToSet(world.history[i]),
         Judge(i, entries, b)
  PROVE  BoardsInv'
<1>1. PICK row :
        /\ row = [events |-> distillTransitions(Timeline(entries, world.status[i], b)),
                  credited |-> creditedActor(world.on[i])]
        /\ CommitPage(TokenAfter(i), Upsert(stored, Row(i, row)))
  BY DEF Judge
<1>2. /\ token' = TokenAfter(i) /\ world' = world /\ moved' = moved /\ walks' = walks
      /\ stored' = Upsert(stored, Row(i, row))
  BY <1>1 DEF CommitPage
<1>3. Recorded(world) /\ walks \in Nat /\ PassedAreJudged
  BY DEF BoardsInv
<1>4. TokenOK'
  BY <1>2, <1>3, TokenAfterIs DEF TokenOK
<1>5. /\ DOMAIN stored' = DOMAIN stored \cup {i} /\ stored'[i] = row
      /\ \A x \in DOMAIN stored : x # i => stored'[x] = stored[x]
  <2>1. PICK after : after = Upsert(stored, Row(i, row))
    OBVIOUS
  <2>2. /\ DOMAIN after = DOMAIN stored \cup {i} /\ after[i] = row
        /\ \A x \in DOMAIN stored : x # i => after[x] = stored[x]
    BY <2>1 DEF Upsert, Row
  <2>3. stored' = after
    BY <1>2, <2>1
  <2>4. QED BY <2>2, <2>3
<1>6. \A k \in IbIssues : /\ Place(k)' = Place(k) /\ Happened(k)' = Happened(k) /\ Truncated(k)' = Truncated(k)
                          /\ creditedActor(world.on[k])' = creditedActor(world.on[k])
  BY <1>2 DEF Place, Happened, Truncated, creditedActor
<1>7. Judged(i)'
  <2>1. row.credited = creditedActor(world.on[i])
    BY <1>1
  <2>2. ASSUME "statuses" \notin moved, world.board = "jira" \/ ~Truncated(i)
        PROVE  row.events = Judgement(Happened(i))
    <3>1. PICK h, s, c : h = world.history[i] /\ s = world.status[i] /\ c = world.clock
      OBVIOUS
    <3>2. Chronicle(h, s, c) /\ c \in Nat
      BY <1>3, <3>1 DEF Recorded, IbWorlds
    <3>3. ToSet(entries) = ToSet(h) /\ b = BucketNow
      BY <2>2, <3>1
    <3>4. Ordered(Timeline(entries, s, b)) /\ ToSet(Timeline(entries, s, b)) = Told(h, b)
      BY <3>2, <3>3, TimelineIs
    <3>5. distillTransitions(Timeline(entries, s, b)) = Judgement(Told(h, b))
      BY <3>4, DistilledIsVerdict
    <3>6. Told(h, b) = Happened(i)
      BY <3>1, <3>3 DEF Told, Happened, BucketNow
    <3>7. QED BY <1>1, <3>1, <3>5, <3>6
  <2>3. QED BY <1>2, <1>5, <1>6, <2>1, <2>2 DEF Judged
<1>8. ASSUME NEW k \in IbIssues, k # i, Judged(k)
      PROVE  Judged(k)'
  BY <1>2, <1>5, <1>6, <1>8 DEF Judged
<1>9. ASSUME NEW k \in IbIssues, Passed(k)', "issues" \notin moved, k # i
      PROVE  Judged(k)
  <2>1. Place(k) \in Nat /\ Place(i) \in Nat /\ Place(k) # Place(i)
    BY <1>3, <1>9, PlaceTyped
  <2>2. Place(k) <= Place(i)
    BY <1>2, <1>3, <1>6, <1>9, TokenAfterIs DEF Passed
  <2>3. k \notin Ahead
    BY <1>9, <2>1, <2>2
  <2>4. token.after \in Nat
    BY DEF BoardsInv, TokenOK, IbCursors
  <2>5. Place(k) <= token.after
    BY <2>1, <2>3, <2>4 DEF Ahead
  <2>6. Passed(k)
    BY <2>5 DEF Passed
  <2>7. QED BY <1>3, <2>6 DEF PassedAreJudged
<1>10. ASSUME NEW k \in IbIssues, Passed(k)'
       PROVE  Judged(k)'
  <2>1. CASE "issues" \in moved
    BY <1>2, <2>1 DEF Judged
  <2>2. CASE "issues" \notin moved
    BY <1>7, <1>8, <1>9, <1>10, <2>2
  <2>3. QED BY <2>1, <2>2
<1>11. QED BY <1>2, <1>3, <1>4, <1>10 DEF BoardsInv, PassedAreJudged

LEMMA NextIssueIs ==
  ASSUME Recorded(world), Ahead # {}
  PROVE  NextIssue \in IbIssues /\ NextIssue \in Ahead /\ \A k \in Ahead : Place(NextIssue) <= Place(k)
<1>1. \A k \in Ahead : k \in IbIssues /\ Place(k) \in Nat
  BY PlaceTyped DEF Ahead
<1>2. PICK T : T = {Place(k) : k \in Ahead}
  OBVIOUS
<1>3. T \subseteq Nat /\ T # {}
  BY <1>1, <1>2
<1>4. PICK m \in T : \A n \in T : m <= n
  BY <1>3, LeastNat
<1>5. \E i \in Ahead : \A k \in Ahead : Place(i) <= Place(k)
  BY <1>2, <1>4
<1>6. QED BY <1>1, <1>5 DEF NextIssue

LEMMA EmbeddedIs ==
  ASSUME Recorded(world), NEW i \in IbIssues, ~Truncated(i)
  PROVE  ToSet(Embedded(i)) = ToSet(world.history[i])
<1>1. PICK h : h = world.history[i]
  OBVIOUS
<1>2. h \in Seq(Entries) /\ Len(h) \in Nat /\ DOMAIN h = 1 .. Len(h)
  BY <1>1, LenProperties DEF Recorded, Chronicle
<1>3. PICK N \in Nat : N = Len(h)
  BY <1>2
<1>4. PICK r : r = [n \in 1 .. N |-> h[(N - n) + 1]]
  OBVIOUS
<1>5. Reverse(h) = r
  BY <1>3, <1>4 DEF Reverse
<1>6. DOMAIN r = 1 .. N /\ \A n \in 1 .. N : (N - n) + 1 \in 1 .. N /\ r[n] = h[(N - n) + 1]
  BY <1>4
<1>7. \A n \in 1 .. N : r[(N - n) + 1] = h[n]
  <2>1. TAKE n \in 1 .. N
  <2>2. PICK k \in 1 .. N : k = (N - n) + 1 /\ (N - k) + 1 = n
    OBVIOUS
  <2>3. QED BY <1>6, <2>2
<1>8. ToSet(r) = ToSet(h)
  <2>1. ToSet(r) \subseteq ToSet(h)
    BY <1>2, <1>3, <1>6 DEF ToSet
  <2>2. ASSUME NEW n \in 1 .. N
        PROVE  h[n] \in ToSet(r)
    BY <1>6, <1>7 DEF ToSet
  <2>3. ToSet(h) \subseteq ToSet(r)
    BY <1>2, <1>3, <2>2 DEF ToSet
  <2>4. QED BY <2>1, <2>3
<1>9. QED BY <1>1, <1>5, <1>8 DEF Embedded

\* the last page of a walk: nothing is ahead
LEMMA NothingAhead ==
  ASSUME BoardsInv, token # None, Ahead = {}, CommitPage(None, stored)
  PROVE  BoardsInv'
<1>1. token' = None /\ UNCHANGED <<world, moved, walks, stored>>
  BY DEF CommitPage
<1>2. Recorded(world) /\ walks \in Nat /\ PassedAreJudged /\ token.after \in Nat
  BY DEF BoardsInv, TokenOK, IbCursors
<1>3. \A i \in IbIssues : Judged(i)
  <2>1. TAKE i \in IbIssues
  <2>2. Place(i) \in Nat /\ ~(Place(i) > token.after)
    BY <1>2, PlaceTyped DEF Ahead
  <2>3. Passed(i)
    BY <1>2, <2>2 DEF Passed
  <2>4. QED BY <1>2, <2>3 DEF PassedAreJudged
<1>4. \A i \in IbIssues : Judged(i)'
  BY <1>1, <1>3, JudgedStays
<1>5. QED BY <1>1, <1>2, <1>4 DEF BoardsInv, TokenOK, PassedAreJudged

LEMMA LinearKeeps == BoardsInv /\ LinearPage => BoardsInv'
<1> SUFFICES ASSUME BoardsInv, LinearPage PROVE BoardsInv'
  OBVIOUS
<1>1. token # None /\ world.board = "linear" /\ Recorded(world)
  BY DEF LinearPage, InPhase, BoardsInv
<1>2. CASE Ahead = {}
  <2>1. CommitPage(None, stored)
    BY <1>2 DEF LinearPage
  <2>2. QED BY <1>1, <1>2, <2>1, NothingAhead
<1>3. CASE Ahead # {}
  <2>1. PICK i : i = NextIssue
    OBVIOUS
  <2>2. i \in IbIssues /\ i \in Ahead /\ \A k \in Ahead : Place(i) <= Place(k)
    BY <1>1, <1>3, <2>1, NextIssueIs
  <2>3. Judge(i, Embedded(i), Category)
    BY <1>3, <2>1 DEF LinearPage
  <2>4. Category = BucketNow
    BY <1>1 DEF BucketNow
  <2>5. world.board = "jira" \/ ~Truncated(i) => ToSet(Embedded(i)) = ToSet(world.history[i])
    BY <1>1, <2>2, EmbeddedIs
  <2>6. QED BY <1>1, <2>2, <2>3, <2>4, <2>5, JudgedOnce
<1>4. QED BY <1>2, <1>3

LEMMA StatusesKeep == BoardsInv /\ ReadStatuses => BoardsInv'
<1> SUFFICES ASSUME BoardsInv, ReadStatuses PROVE BoardsInv'
  OBVIOUS
<1>1. PICK t : t = [token EXCEPT !.phase = "search", !.bucket = world.bucket]
  OBVIOUS
<1>2. token # None /\ world.board = "jira" /\ token' = t /\ UNCHANGED <<world, moved, walks, stored>>
  BY <1>1 DEF ReadStatuses, InPhase, CommitPage
<1>3. token \in IbCursors /\ Recorded(world) /\ walks \in Nat /\ PassedAreJudged
  BY <1>2 DEF BoardsInv, TokenOK
<1>4. t \in IbCursors /\ t.phase = "search" /\ t.bucket = world.bucket /\ t.after = token.after /\ t # None
  BY <1>1, <1>3, NoneIsNoToken DEF IbCursors, Recorded, IbWorlds
<1>5. TokenOK'
  BY <1>2, <1>4 DEF TokenOK
<1>6. \A i \in IbIssues : (Passed(i)' => Passed(i)) /\ (Judged(i) => Judged(i)')
  <2>1. TAKE i \in IbIssues
  <2>2. Judged(i) => Judged(i)'
    BY <1>2, JudgedStays
  <2>3. Place(i)' = Place(i)
    BY <1>2 DEF Place
  <2>4. Passed(i)' => Passed(i)
    BY <1>2, <1>4, <2>3 DEF Passed
  <2>5. QED BY <2>2, <2>4
<1>7. QED BY <1>2, <1>3, <1>5, <1>6 DEF BoardsInv, PassedAreJudged

LEMMA JiraKeeps == BoardsInv /\ JiraPage => BoardsInv'
<1> SUFFICES ASSUME BoardsInv, JiraPage PROVE BoardsInv'
  OBVIOUS
<1>1. token # None /\ token.phase = "search" /\ Recorded(world) /\ walks \in Nat /\ PassedAreJudged
  BY DEF JiraPage, InPhase, BoardsInv
<1>2. token \in IbCursors /\ world.board = "jira" /\ ("statuses" \notin moved => token.bucket = world.bucket)
  BY <1>1 DEF BoardsInv, TokenOK
<1>3. CASE Ahead = {}
  <2>1. CommitPage(None, stored)
    BY <1>3 DEF JiraPage
  <2>2. QED BY <1>1, <1>3, <2>1, NothingAhead
<1>4. CASE Ahead # {}
  <2>1. PICK i : i = NextIssue
    OBVIOUS
  <2>2. i \in IbIssues /\ i \in Ahead /\ \A k \in Ahead : Place(i) <= Place(k)
    BY <1>1, <1>4, <2>1, NextIssueIs
  <2>3. CASE Complete(i)
    <3>1. Judge(i, Embedded(i), token.bucket)
      BY <1>4, <2>1, <2>3 DEF JiraPage
    <3>2. ToSet(Embedded(i)) = ToSet(world.history[i])
      BY <1>1, <1>2, <2>2, <2>3, EmbeddedIs DEF Complete
    <3>3. "statuses" \notin moved => token.bucket = BucketNow
      BY <1>2 DEF BucketNow
    <3>4. QED BY <1>1, <2>2, <3>1, <3>2, <3>3, JudgedOnce
  <2>4. CASE ~Complete(i)
    <3>1. PICK t : t = [token EXCEPT !.phase = "changelog", !.issue = i]
      OBVIOUS
    <3>2. token' = t /\ UNCHANGED <<world, moved, walks, stored>>
      BY <1>4, <2>1, <2>4, <3>1 DEF JiraPage, CommitPage
    <3>3. /\ t \in IbCursors /\ t # None /\ t.issue = i
          /\ t.bucket = token.bucket /\ t.after = token.after
      BY <1>2, <2>2, <3>1, IssueIds, NoneIsNoToken DEF IbCursors
    <3>4. Ahead' = Ahead /\ \A k \in IbIssues : Place(k)' = Place(k)
      BY <3>2, <3>3 DEF Ahead, Place
    <3>5. \A k \in Ahead : Place(i)' <= Place(k)'
      BY <2>2, <3>4 DEF Ahead
    <3>6. TokenOK'
      BY <1>2, <2>2, <3>2, <3>3, <3>4, <3>5 DEF TokenOK
    <3>7. \A k \in IbIssues : (Passed(k)' => Passed(k)) /\ (Judged(k) => Judged(k)')
      <4>1. TAKE k \in IbIssues
      <4>2. Judged(k) => Judged(k)'
        BY <3>2, JudgedStays
      <4>3. Passed(k)' => Passed(k)
        BY <1>1, <3>2, <3>3, <3>4 DEF Passed
      <4>4. QED BY <4>2, <4>3
    <3>8. QED BY <1>1, <3>2, <3>6, <3>7 DEF BoardsInv, PassedAreJudged
  <2>5. QED BY <2>3, <2>4
<1>5. QED BY <1>3, <1>4

LEMMA ChangelogKeeps == BoardsInv /\ FullChangelog => BoardsInv'
<1> SUFFICES ASSUME BoardsInv, FullChangelog PROVE BoardsInv'
  OBVIOUS
<1>1. token # None /\ token.phase = "changelog"
  BY DEF FullChangelog, InPhase
<1>2. PICK i, h, b : i = token.issue /\ h = world.history[i] /\ b = token.bucket
  OBVIOUS
<1>3. /\ i \in IbIssues /\ ("statuses" \notin moved => b = BucketNow)
      /\ "issues" \notin moved => i \in Ahead /\ \A k \in Ahead : Place(i) <= Place(k)
  BY <1>1, <1>2 DEF BoardsInv, TokenOK, BucketNow
<1>4. Judge(i, h, b)
  BY <1>2 DEF FullChangelog
<1>5. QED BY <1>1, <1>2, <1>3, <1>4, JudgedOnce

LEMMA PagesJudge == BoardsInv /\ IbPages => BoardsInv'
BY LinearKeeps, StatusesKeep, JiraKeeps, ChangelogKeeps DEF IbPages

\* the board moves: what was judged has to be judged again
LEMMA BoardMoves ==
  ASSUME BoardsInv, NEW w, Recorded(w), w.board = world.board, w.bucket = world.bucket, Move(w, {"issues"})
  PROVE  BoardsInv'
<1>1. world' = w /\ moved' = moved \cup {"issues"} /\ UNCHANGED <<token, stored, walks>>
  BY DEF Move
<1>2. Recorded(world') /\ walks' \in Nat
  BY <1>1 DEF BoardsInv
<1>3. TokenOK'
  BY <1>1 DEF BoardsInv, TokenOK
<1>4. \A i \in IbIssues : Judged(i)'
  BY <1>1 DEF Judged
<1>5. QED BY <1>1, <1>2, <1>3, <1>4 DEF BoardsInv, PassedAreJudged, Recorded

LEMMA TouchKeeps ==
  ASSUME NEW w \in IbWorlds, NEW c \in Nat, c = w.clock, NEW i \in IbIssues,
         \A k \in IbIssues : Chronicle(w.history[k], w.status[k], IF k = i THEN c + 1 ELSE c),
         \A k \in IbIssues : w.updated[k] \in 1 .. c,
         \A j, k \in IbIssues : w.updated[j] = w.updated[k] => j = k
  PROVE  Recorded(Touch(w, i)) /\ Touch(w, i).board = w.board /\ Touch(w, i).bucket = w.bucket
<1>1. PICK u : u = [w.updated EXCEPT ![i] = c + 1]
  OBVIOUS
<1>2. w.updated \in [IbIssues -> Nat]
  BY DEF IbWorlds
<1>3. u \in [IbIssues -> Nat] /\ u[i] = c + 1 /\ \A k \in IbIssues : k # i => u[k] = w.updated[k]
  BY <1>1, <1>2
<1>4. PICK v : v = [w EXCEPT !.updated = u, !.clock = c + 1]
  OBVIOUS
<1>5. Touch(w, i) = v
  BY <1>1, <1>4 DEF Touch, IbWorlds
<1>6. /\ v \in IbWorlds /\ v.updated = u /\ v.clock = c + 1 /\ v.history = w.history /\ v.status = w.status
      /\ v.board = w.board /\ v.bucket = w.bucket
  BY <1>3, <1>4 DEF IbWorlds
<1>7. \A k \in IbIssues : Chronicle(w.history[k], w.status[k], c + 1)
  BY ChronicleAges
<1>8. \A k \in IbIssues : u[k] \in 1 .. c + 1 /\ (k # i => u[k] \in 1 .. c)
  BY <1>3
<1>9. \A j, k \in IbIssues : u[j] = u[k] => j = k
  <2>1. SUFFICES ASSUME NEW j \in IbIssues, NEW k \in IbIssues, u[j] = u[k]
                 PROVE  j = k
    OBVIOUS
  <2>2. CASE j = i /\ k = i
    BY <2>2
  <2>3. CASE j # i /\ k # i
    BY <1>3, <2>1, <2>3
  <2>4. CASE j = i /\ k # i
    <3>1. u[j] = c + 1 /\ u[k] <= c
      BY <1>3, <1>8, <2>4
    <3>2. QED BY <2>1, <3>1
  <2>5. CASE j # i /\ k = i
    <3>1. u[k] = c + 1 /\ u[j] <= c
      BY <1>3, <1>8, <2>5
    <3>2. QED BY <2>1, <3>1
  <2>6. QED BY <2>2, <2>3, <2>4, <2>5
<1>10. Recorded(v)
  BY <1>6, <1>7, <1>8, <1>9 DEF Recorded
<1>11. QED BY <1>5, <1>6, <1>10

\* an entry is appended to the history of an issue, which goes to status s
LEMMA AppendKeeps ==
  ASSUME BoardsInv, NEW i \in IbIssues, NEW s \in IbStatuses, NEW e, NEW c, c = world.clock,
         \/ e = [ts |-> c + 1, from |-> None, to |-> None] /\ s = world.status[i]
         \/ e = [ts |-> c + 1, from |-> world.status[i], to |-> s],
         Move(Touch([world EXCEPT !.status[i] = s, !.history[i] = Append(@, e)], i), {"issues"})
  PROVE  BoardsInv'
<1>1. Recorded(world) /\ world \in IbWorlds /\ c \in Nat
  BY DEF BoardsInv, Recorded, IbWorlds
<1>2. PICK h : h = world.history[i]
  OBVIOUS
<1>3. Chronicle(h, world.status[i], c) /\ h \in Seq(Entries) /\ world.status[i] \in IbStatuses
  BY <1>1, <1>2 DEF Recorded, IbWorlds, Chronicle
<1>4. /\ e \in Entries /\ e.ts = c + 1
      /\ \/ e.to = None /\ s = world.status[i]
         \/ e.to # None /\ e.from = world.status[i]
  BY <1>1, <1>3, IssueBoardsAssumption DEF Entries
<1>5. Chronicle(Append(h, e), s, c + 1) /\ Append(h, e) \in Seq(Entries)
  <2>1. PICK q : q = world.status[i]
    OBVIOUS
  <2>2. Chronicle(h, q, c) /\ ((e.to = None /\ s = q) \/ (e.to # None /\ e.from = q))
    BY <1>3, <1>4, <2>1
  <2>3. Chronicle(Append(h, e), s, c + 1)
    BY <1>1, <1>4, <2>2, ChronicleGrows
  <2>4. QED BY <2>3 DEF Chronicle
<1>6. PICK w : w = [world EXCEPT !.status[i] = s, !.history[i] = Append(@, e)]
  OBVIOUS
<1>7. /\ w \in IbWorlds /\ w.clock = c /\ w.board = world.board /\ w.bucket = world.bucket
      /\ w.updated = world.updated
      /\ w.status = [world.status EXCEPT ![i] = s]
      /\ w.history = [world.history EXCEPT ![i] = Append(h, e)]
  <2>1. PICK a : a = [world.status EXCEPT ![i] = s]
    OBVIOUS
  <2>2. PICK b : b = [world.history EXCEPT ![i] = Append(h, e)]
    OBVIOUS
  <2>3. a \in [IbIssues -> IbStatuses] /\ b \in [IbIssues -> Seq(Entries)]
    BY <1>1, <1>5, <2>1, <2>2 DEF IbWorlds
  <2>4. w = [world EXCEPT !.status = a, !.history = b]
    BY <1>1, <1>2, <1>6, <2>1, <2>2 DEF IbWorlds
  <2>5. QED BY <1>1, <2>1, <2>2, <2>3, <2>4 DEF IbWorlds
<1>8. /\ w.status[i] = s /\ w.history[i] = Append(h, e)
      /\ \A k \in IbIssues : k # i => w.status[k] = world.status[k] /\ w.history[k] = world.history[k]
  BY <1>1, <1>7 DEF IbWorlds
<1>9. \A k \in IbIssues : Chronicle(w.history[k], w.status[k], IF k = i THEN c + 1 ELSE c)
  BY <1>1, <1>5, <1>8 DEF Recorded
<1>10. /\ \A k \in IbIssues : w.updated[k] \in 1 .. c
       /\ \A j, k \in IbIssues : w.updated[j] = w.updated[k] => j = k
  BY <1>1, <1>7 DEF Recorded
<1>11. PICK t : t = Touch(w, i)
  OBVIOUS
<1>12. Recorded(t) /\ t.board = world.board /\ t.bucket = world.bucket
  <2>1. w \in IbWorlds /\ c \in Nat /\ c = w.clock
    BY <1>1, <1>7
  <2>2. Recorded(Touch(w, i)) /\ Touch(w, i).board = w.board /\ Touch(w, i).bucket = w.bucket
    BY <1>9, <1>10, <2>1, TouchKeeps
  <2>3. QED BY <1>7, <1>11, <2>2
<1>13. Move(t, {"issues"})
  BY <1>6, <1>11
<1>14. QED BY <1>12, <1>13, BoardMoves

LEMMA EnterKeeps ==
  ASSUME BoardsInv, NEW i \in IbIssues, NEW s \in IbStatuses, Enter(i, s)
  PROVE  BoardsInv'
<1>1. PICK e, c : e = [ts |-> world.clock + 1, from |-> world.status[i], to |-> s] /\ c = world.clock
  OBVIOUS
<1>2. Move(Touch([world EXCEPT !.status[i] = s, !.history[i] = Append(@, e)], i), {"issues"})
  BY <1>1 DEF Enter
<1>3. QED BY <1>1, <1>2, AppendKeeps

LEMMA EditKeeps ==
  ASSUME BoardsInv, NEW i \in IbIssues, EditIssue(i)
  PROVE  BoardsInv'
<1>1. PICK e, c : e = [ts |-> world.clock + 1, from |-> None, to |-> None] /\ c = world.clock
  OBVIOUS
<1>2. PICK s : s = world.status[i]
  OBVIOUS
<1>3. world \in IbWorlds /\ s \in IbStatuses
  BY <1>2 DEF BoardsInv, Recorded, IbWorlds
<1>4. [world EXCEPT !.history[i] = Append(@, e)] = [world EXCEPT !.status[i] = s, !.history[i] = Append(@, e)]
  <2>1. [world.status EXCEPT ![i] = s] = world.status
    BY <1>2, <1>3 DEF IbWorlds
  <2>2. QED BY <1>3, <2>1 DEF IbWorlds
<1>5. Move(Touch([world EXCEPT !.status[i] = s, !.history[i] = Append(@, e)], i), {"issues"})
  BY <1>1, <1>4 DEF EditIssue
<1>6. QED BY <1>1, <1>2, <1>3, <1>5, AppendKeeps

LEMMA AssignKeeps ==
  ASSUME BoardsInv, NEW i \in IbIssues, NEW a \in IbActors, NEW role \in {"assignee", "delegate"},
         Assign(i, [world.on[i] EXCEPT ![role] = a])
  PROVE  BoardsInv'
<1>1. Recorded(world) /\ world \in IbWorlds
  BY DEF BoardsInv, Recorded
<1>2. PICK o, c : o = [world.on[i] EXCEPT ![role] = a] /\ c = world.clock
  OBVIOUS
<1>3. o \in [creator : IbPeople, assignee : IbActors, delegate : IbActors]
  <2>1. world.on[i] \in [creator : IbPeople, assignee : IbActors, delegate : IbActors]
    BY <1>1 DEF IbWorlds
  <2>2. QED BY <1>2, <2>1
<1>4. PICK w : w = [world EXCEPT !.on[i] = o]
  OBVIOUS
<1>5. /\ w \in IbWorlds /\ w.clock = c /\ w.board = world.board /\ w.bucket = world.bucket
      /\ w.updated = world.updated /\ w.status = world.status /\ w.history = world.history /\ c \in Nat
  <2>1. PICK f : f = [world.on EXCEPT ![i] = o]
    OBVIOUS
  <2>2. f \in [IbIssues -> [creator : IbPeople, assignee : IbActors, delegate : IbActors]]
    BY <1>1, <1>3, <2>1 DEF IbWorlds
  <2>3. w = [world EXCEPT !.on = f]
    BY <1>4, <2>1
  <2>4. QED BY <1>1, <1>2, <2>2, <2>3 DEF IbWorlds
<1>6. /\ \A k \in IbIssues : Chronicle(w.history[k], w.status[k], c)
      /\ \A k \in IbIssues : w.updated[k] \in 1 .. c
      /\ \A j, k \in IbIssues : w.updated[j] = w.updated[k] => j = k
  BY <1>1, <1>2, <1>5 DEF Recorded
<1>7. \A k \in IbIssues : Chronicle(w.history[k], w.status[k], IF k = i THEN c + 1 ELSE c)
  BY <1>5, <1>6, ChronicleAges
<1>8. PICK t : t = Touch(w, i)
  OBVIOUS
<1>9. Recorded(t) /\ t.board = world.board /\ t.bucket = world.bucket
  BY <1>5, <1>6, <1>7, <1>8, TouchKeeps
<1>10. Move(t, {"issues"})
  BY <1>2, <1>4, <1>8 DEF Assign
<1>11. QED BY <1>9, <1>10, BoardMoves

\* a status is dropped: issues stay where they are and whose they are
LEMMA DropKeeps ==
  ASSUME BoardsInv, NEW s \in IbStatuses, DropStatus(s)
  PROVE  BoardsInv'
<1>1. Recorded(world) /\ world \in IbWorlds /\ PassedAreJudged /\ walks \in Nat
  BY DEF BoardsInv, Recorded
<1>2. PICK w : w = [world EXCEPT !.bucket[s] = None]
  OBVIOUS
<1>3. world' = w /\ moved' = moved \cup {"statuses"} /\ UNCHANGED <<token, stored, walks>>
  BY <1>2 DEF DropStatus, Move
<1>4. /\ w \in IbWorlds /\ w.clock = world.clock /\ w.board = world.board /\ w.updated = world.updated
      /\ w.status = world.status /\ w.history = world.history /\ w.on = world.on
  <2>1. PICK f : f = [world.bucket EXCEPT ![s] = None]
    OBVIOUS
  <2>2. f \in [IbStatuses -> IbStatuses \cup {None}]
    BY <1>1, <2>1 DEF IbWorlds
  <2>3. w = [world EXCEPT !.bucket = f]
    BY <1>2, <2>1
  <2>4. QED BY <1>1, <2>2, <2>3 DEF IbWorlds
<1>5. Recorded(w)
  BY <1>1, <1>4 DEF Recorded
<1>6. \A i \in IbIssues : Place(i)' = Place(i) /\ creditedActor(world.on[i])' = creditedActor(world.on[i])
  BY <1>3, <1>4 DEF Place, creditedActor
<1>7. Ahead' = Ahead
  BY <1>3, <1>6 DEF Ahead
<1>8. TokenOK'
  BY <1>3, <1>4, <1>6, <1>7 DEF BoardsInv, TokenOK, Ahead
<1>9. \A i \in IbIssues : (Passed(i)' => Passed(i)) /\ (Judged(i) => Judged(i)')
  BY <1>3, <1>6 DEF Passed, Judged
<1>10. QED BY <1>1, <1>3, <1>5, <1>8, <1>9 DEF BoardsInv, PassedAreJudged

LEMMA BoardsMove == BoardsInv /\ IbMovesNext => BoardsInv'
<1> SUFFICES ASSUME BoardsInv, IbMovesNext PROVE BoardsInv'
  OBVIOUS
<1>1. CASE \E i \in IbIssues : EditIssue(i) \/ \E s \in IbStatuses : Enter(i, s)
  BY <1>1, EditKeeps, EnterKeeps
<1>2. CASE \E i \in IbIssues \cap {1}, a \in IbActors, role \in {"assignee", "delegate"} :
             world.on[i][role] # a /\ Assign(i, [world.on[i] EXCEPT ![role] = a])
  BY <1>2, AssignKeeps
<1>3. CASE DropStatus("review")
  BY <1>3, DropKeeps DEF IbStatuses
<1>4. QED BY <1>1, <1>2, <1>3 DEF IbMovesNext

-----------------------------------------------------------------------------
(***************************************************************************)
(* The connectors together: a run is of one vendor.                        *)
(***************************************************************************)
LEMMA GithubStays == GhNext => vendor' = vendor
BY DEF GhNext, GhPages, GhMoves, Start, CommitPage, Move, SeatsPage, CreditsTotal, CreditsOfUser, DailyReport,
  DailyRows, SearchPage, PRDetail, PRCommits, addCopilotSeat, removeCopilotSeat, Billed, ReportBuilt, Merge, Vanish

LEMMA CursorStays == CuNext => vendor' = vendor
BY DEF CuNext, CuPages, CuMoves, Start, CommitPage, Move, membersPage, spendMetrics, dailyMetrics, eventFacts,
  Join, Work, UsageEvent, Waive, NextCycle, setCursorUserSpendLimit

LEMMA OpenAiStays == OaNext => vendor' = vendor
BY DEF OaNext, OaPages, OaMoves, Start, CommitPage, Move, OaListUsers, ListProjects, OaListKeys, OaUsagePage, OaCosts,
  inviteOpenAiUser, deleteOpenAiUser, mintOpenAiKey, deleteOpenAiApiKey, OaUse, Bill, Release

LEMMA AnthropicStays == AnNext => vendor' = vendor
BY DEF AnNext, AnPages, AnMoves, Start, CommitPage, Move, AnListUsers, AnListKeys, AnUsagePage, AnCosts, ClaudeCode,
  inviteAnthropicUser, deleteAnthropicUser, CreateKey, archiveAnthropicApiKey, AnUse, Charge, Code

LEMMA IssuesStay == IbNext => vendor' = vendor
BY DEF IbNext, IbPages, IbMovesNext, Start, CommitPage, Move, Judge, LinearPage, ReadStatuses, JiraPage, FullChangelog,
  Enter, EditIssue, Assign, DropStatus

LEMMA BoardsInit == MCInit => BoardsIInv
BY PlayedInit DEF MCInit, BoardsIInv, GhInit, CuInit, OaInit, AnInit

LEMMA BoardsStutter == BoardsInv /\ UNCHANGED walkVars => BoardsInv'
<1> SUFFICES ASSUME BoardsInv, UNCHANGED walkVars PROVE BoardsInv'
  OBVIOUS
<1>1. UNCHANGED <<world, token, stored, moved, walks>>
  BY DEF walkVars
<1>2. \A i \in IbIssues : (Passed(i)' => Passed(i)) /\ (Judged(i) => Judged(i)')
  <2>1. TAKE i \in IbIssues
  <2>2. Judged(i) => Judged(i)'
    BY <1>1, JudgedStays
  <2>3. Passed(i)' => Passed(i)
    BY <1>1 DEF Passed, Place
  <2>4. QED BY <2>2, <2>3
<1>3. TokenOK'
  BY <1>1 DEF BoardsInv, TokenOK, Ahead, Place
<1>4. QED BY <1>1, <1>2, <1>3 DEF BoardsInv, PassedAreJudged

LEMMA BoardsInductive == BoardsIInv /\ [MCNext]_walkVars => BoardsIInv'
<1> SUFFICES ASSUME BoardsIInv, [MCNext]_walkVars, vendor' = "issues" PROVE BoardsInv'
  BY DEF BoardsIInv
<1>1. vendor' = vendor
  BY GithubStays, CursorStays, OpenAiStays, AnthropicStays, IssuesStay DEF MCNext, walkVars
<1>2. vendor = "issues" /\ BoardsInv
  BY <1>1 DEF BoardsIInv
<1>3. IbNext \/ UNCHANGED walkVars
  BY <1>2 DEF MCNext
<1>4. QED BY <1>2, <1>3, StartsUnjudged, PagesJudge, BoardsMove, BoardsStutter DEF IbNext

THEOREM BoardsInvariance == MCSpec => []BoardsIInv
<1>1. MCInit => BoardsIInv
  BY BoardsInit
<1>2. BoardsIInv /\ [MCNext]_walkVars => BoardsIInv'
  BY BoardsInductive
<1>3. QED BY <1>1, <1>2, PTL DEF MCSpec

LEMMA CreditedIs ==
  ASSUME NEW on
  PROVE  LET agents == {a \in {on.creator, on.assignee} : a \in IbAgents}
                         \cup (IF world.board = "linear" /\ on.delegate \in IbAgents THEN {on.delegate} ELSE {})
         IN  /\ agents # {} => creditedActor(on) \in agents
             /\ agents = {} => creditedActor(on) = (IF on.creator # None THEN on.creator ELSE on.assignee)
<1> DEFINE agents == {a \in {on.creator, on.assignee} : a \in IbAgents}
                       \cup (IF world.board = "linear" /\ on.delegate \in IbAgents THEN {on.delegate} ELSE {})
<1>1. PICK order : order = (IF world.board = "linear" THEN <<on.delegate>> ELSE <<>>) \o <<on.assignee, on.creator>>
  OBVIOUS
<1>2. /\ DOMAIN order \subseteq Nat
      /\ {order[n] : n \in DOMAIN order}
           = {on.assignee, on.creator} \cup (IF world.board = "linear" THEN {on.delegate} ELSE {})
  <2>1. CASE world.board = "linear"
    <3>1. PICK one, two, S : one = <<on.delegate>> /\ two = <<on.assignee, on.creator>>
                             /\ S = {on.delegate, on.assignee, on.creator}
      OBVIOUS
    <3>2. one \in Seq(S) /\ two \in Seq(S) /\ Len(one) = 1 /\ Len(two) = 2 /\ order = one \o two
      BY <1>1, <2>1, <3>1
    <3>3. /\ order \in Seq(S) /\ Len(order) = Len(one) + Len(two)
          /\ \A n \in 1 .. Len(one) + Len(two) : order[n] = IF n <= Len(one) THEN one[n] ELSE two[n - Len(one)]
      BY <3>2, ConcatProperties
    <3>4. DOMAIN order = 1 .. 3 /\ order[1] = one[1] /\ order[2] = two[1] /\ order[3] = two[2]
      BY <3>2, <3>3, LenProperties
    <3>5. 1 .. 3 = {1, 2, 3}
      OBVIOUS
    <3>6. QED BY <2>1, <3>1, <3>4, <3>5
  <2>2. CASE world.board # "linear"
    <3>1. order = <<on.assignee, on.creator>>
      BY <1>1, <2>2
    <3>2. QED BY <2>2, <3>1
  <2>3. QED BY <2>1, <2>2
<1>3. PICK hits : hits = {n \in DOMAIN order : order[n] \in IbAgents}
  OBVIOUS
<1>4. agents = {order[n] : n \in hits}
  BY <1>2, <1>3
<1>5. CASE hits = {}
  BY <1>1, <1>3, <1>4, <1>5 DEF creditedActor
<1>6. CASE hits # {}
  <2>1. Min(hits) \in hits
    BY <1>2, <1>3, <1>6, MinIs
  <2>2. creditedActor(on) = order[Min(hits)]
    BY <1>1, <1>3, <1>6 DEF creditedActor
  <2>3. QED BY <1>4, <2>1, <2>2
<1>7. QED BY <1>5, <1>6

\* Every finished walk that the board let be has judged every issue on its
\* whole history, for all histories, pages and orders they are served in
\* (linear.ts:195-281, jira.ts:227-375, issues.ts:95-122).
THEOREM IssuesJudged == MCSpec => []IssueTimelines
<1>1. BoardsIInv => IssueTimelines
  <2>1. SUFFICES ASSUME BoardsIInv PROVE TimelinesExact /\ AgentsCredited
    BY DEF IssueTimelines
  <2>2. ASSUME vendor = "issues", token = None, walks > 0, "issues" \notin moved, NEW i \in IbIssues
        PROVE  Judged(i)
    BY <2>1, <2>2 DEF BoardsIInv, BoardsInv, PassedAreJudged, Passed
  <2>3. TimelinesExact
    BY <2>2 DEF TimelinesExact, Settled, Judged, Judgement
  <2>4. ASSUME Settled("issues", {"issues"}), NEW i \in IbIssues
        PROVE  stored[i].credited = creditedActor(world.on[i])
    BY <2>2, <2>4 DEF Settled, Judged
  <2>5. AgentsCredited
    BY <2>4, CreditedIs, Zenon DEF AgentsCredited
  <2>6. QED BY <2>3, <2>5
<1>2. QED BY <1>1, BoardsInvariance, PTL
====
