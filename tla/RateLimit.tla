------------------------------ MODULE RateLimit ------------------------------
(***************************************************************************)
(* The limiter of the credential routes (rate-limit.ts): a fixed window for *)
(* each caller and route, kept in memory, and forgotten when too many are   *)
(* tracked or the process restarts.                                         *)
(***************************************************************************)
EXTENDS Integers, Sequences, FiniteSets

CONSTANTS
  Keys,         \* scope and address of a caller
  WindowLength, \* WINDOW_MS
  MaxAttempts,  \* MAX_ATTEMPTS
  MaxTracked,   \* MAX_TRACKED_KEYS
  LastTick,  \* bound: the clock
  MaxForgets    \* bound: how often live windows are dropped, less one

ASSUME LimitAssumption ==
  MaxAttempts \in Nat \ {0} /\ WindowLength \in Nat /\ MaxTracked \in Nat

VARIABLES
  instant,  \* Date.now()
  windows,  \* [count, resetAt] of the keys that are tracked
  allowed,  \* history: the instants at which a key's attempts were let through
  forgets   \* history: how often windows that were not over were dropped

limitVars == <<instant, windows, allowed, forgets>>

LimitInit ==
  /\ instant = 0
  /\ windows = <<>>
  /\ allowed = [k \in Keys |-> <<>>]
  /\ forgets = 0

Elapse ==
  /\ instant < LastTick
  /\ instant' = instant + 1
  /\ UNCHANGED <<windows, allowed, forgets>>

Over(k) == windows[k].resetAt <= instant
Unexpired == {k \in DOMAIN windows : ~Over(k)}

\* mutant: all windows are dropped as soon as the map is full
Kept_None == {}

\* the keys that stay when one more is to be tracked
Kept ==
  IF Cardinality(DOMAIN windows) < MaxTracked THEN DOMAIN windows
  ELSE IF Cardinality(Unexpired) < MaxTracked THEN Unexpired ELSE {}

Through(k) == allowed' = [allowed EXCEPT ![k] = Append(@, instant)]

rateLimit(k) ==
  /\ IF k \in DOMAIN windows /\ ~Over(k)
     THEN /\ windows' = [windows EXCEPT ![k].count = @ + 1]
          /\ IF windows[k].count + 1 <= MaxAttempts THEN Through(k) ELSE UNCHANGED allowed
          /\ UNCHANGED forgets
     ELSE /\ windows' = [l \in Kept \cup {k} |->
               IF l = k THEN [count |-> 1, resetAt |-> instant + WindowLength] ELSE windows[l]]
          /\ Through(k)
          /\ forgets' = forgets + (IF Cardinality(Unexpired) >= MaxTracked THEN 1 ELSE 0)
  /\ UNCHANGED instant

LimitNext ==
  Elapse \/ \E k \in Keys :
    forgets <= MaxForgets /\ (k \in DOMAIN windows => windows[k].count <= MaxAttempts) /\ rateLimit(k)

\* A caller gets at most twice the limit through in any span as long as a
\* window, and no more than the limit if the window starts with the span, as
\* long as fewer callers are tracked than the map may hold.
Throttled ==
  forgets > 0 \/ \A k \in Keys : \A i, j \in DOMAIN allowed[k] :
    LET span == allowed[k][j] - allowed[k][i]
    IN  i < j /\ span < WindowLength => j - i + 1 <= 2 * MaxAttempts

\* The same without the way out. It fails: the map is cleared when it is full
\* of windows that are not over (rate-limit.ts:25).
AlwaysThrottled ==
  \A k \in Keys : \A i, j \in DOMAIN allowed[k] :
    i < j /\ allowed[k][j] - allowed[k][i] < WindowLength => j - i + 1 <= 2 * MaxAttempts
=============================================================================
