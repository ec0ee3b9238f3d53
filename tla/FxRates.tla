------------------------------- MODULE FxRates -------------------------------
(***************************************************************************)
(* The daily exchange rates (fx.ts): a tick every few minutes, and a button, *)
(* fetch the ECB's file and write all of its days, under an advisory lock    *)
(* and recorded as a run. The ECB publishes feed after feed, each of some    *)
(* days and currencies; the response may be refused, or may not parse. The   *)
(* clock is the age of the last run in hours, up to the six after which it   *)
(* no longer matters. One process runs it; a restart ends all fetches.       *)
(***************************************************************************)
EXTENDS Integers, Sequences, FiniteSets

CONSTANTS
  Fetchers,     \* the ticks and button presses that may be under way
  Feeds,        \* sequence: the rates of each published feed, a set of [day, ccy]
  SyncInterval, \* FX_SYNC_INTERVAL_MS, in hours
  RetryAfter,   \* FX_RETRY_MS
  MaxBad,       \* bound: responses that cannot be used
  MaxRestarts,  \* bound: restarts of the process
  NoRun, NoFetch

\* a fetch under way: how far it is, and the feed it has read
Fetching == [at : {"due", "asking", "read", "bad"}, feed : Nat]

ASSUME FxAssumption ==
  NoFetch \notin Fetchers /\ NoFetch \notin Fetching /\ Len(Feeds) \in Nat \ {0}

VARIABLES
  feed,       \* how many feeds are published
  rates,      \* fx_rates: [day, ccy] -> the feed the stored rate is of
  lastRun,    \* the newest run of ecb_fx: [status, age]; or NoRun
  fxLock,     \* who holds the advisory lock
  fetching,   \* fetcher -> what it has fetched so far
  bad, restarts

fxVars == <<feed, rates, lastRun, fxLock, fetching, bad, restarts>>

FxInit ==
  /\ feed \in {1, Len(Feeds)}
  /\ rates = <<>>
  /\ lastRun = NoRun
  /\ fxLock = NoFetch
  /\ fetching = [f \in Fetchers |-> NoFetch]
  /\ bad \in {0, MaxBad} /\ restarts \in {0, MaxRestarts}

Hold(f, at, n) == fetching' = [fetching EXCEPT ![f] = [at |-> at, feed |-> n]]
LetGo(f) == fetching' = [fetching EXCEPT ![f] = NoFetch]
IsAt(f, at) == fetching[f] # NoFetch /\ fetching[f].at = at

\* parseEcbRates: rates to the euro become rates to the dollar, so the euro
\* gets one and the dollar needs none; a feed without days, or a day without
\* the dollar, is refused as a whole
DaysOf(n) == {r.day : r \in Feeds[n]}
Parses(n) == Feeds[n] # {} /\ \A d \in DaysOf(n) : [day |-> d, ccy |-> "USD"] \in Feeds[n]
parseEcbRates(n) ==
  {[day |-> d, ccy |-> "EUR"] : d \in DaysOf(n)} \cup {r \in Feeds[n] : r.ccy # "USD"}

\* The ECB.
Publish ==
  /\ feed < Len(Feeds) /\ feed' = feed + 1
  /\ UNCHANGED <<rates, lastRun, fxLock, fetching, bad, restarts>>

Hour ==
  /\ lastRun # NoRun /\ lastRun.age < SyncInterval
  /\ lastRun' = [lastRun EXCEPT !.age = @ + 1]
  /\ UNCHANGED <<feed, rates, fxLock, fetching, bad, restarts>>

\* mutant: a run that never ended is waited for
fxDue_NotRunning ==
  lastRun # NoRun => lastRun.status # "running" /\ lastRun.age >= RetryAfter

fxDue ==
  lastRun # NoRun =>
    lastRun.age >= SyncInterval \/ (lastRun.status = "error" /\ lastRun.age >= RetryAfter)

\* fxTick has read that a fetch is due; or the button was pressed
fxTick(f) ==
  /\ fetching[f] = NoFetch /\ fxDue
  /\ Hold(f, "due", 0)
  /\ UNCHANGED <<feed, rates, lastRun, fxLock, bad, restarts>>

FetchNow(f) ==
  /\ fetching[f] = NoFetch
  /\ Hold(f, "due", 0)
  /\ UNCHANGED <<feed, rates, lastRun, fxLock, bad, restarts>>

\* mutant: the fetch goes on without the lock
TakeFxLock_Shared(f) == TRUE

TakeFxLock(f) == fxLock = NoFetch

\* syncFxRates: the lock or nothing, and the run
StartRun(f) ==
  /\ IsAt(f, "due")
  /\ IF TakeFxLock(f)
     THEN /\ fxLock' = f
          /\ lastRun' = [status |-> "running", age |-> 0]
          /\ Hold(f, "asking", 0)
     ELSE /\ LetGo(f)
          /\ UNCHANGED <<fxLock, lastRun>>
  /\ UNCHANGED <<feed, rates, bad, restarts>>

\* the response: the feed of the moment, or one that fails the run
Fetched(f) ==
  /\ IsAt(f, "asking")
  /\ \/ Hold(f, "read", feed) /\ UNCHANGED bad
     \/ bad < MaxBad /\ bad' = bad + 1 /\ Hold(f, "bad", 0)
  /\ UNCHANGED <<feed, rates, lastRun, fxLock, restarts>>

\* every day of the feed is written over what is stored, with the end of the
\* run, in one transaction
StoreRates(f) ==
  /\ IsAt(f, "read")
  /\ LET n == fetching[f].feed
     IN  /\ Parses(n)
         /\ rates' = [r \in DOMAIN rates \cup parseEcbRates(n) |->
                        IF r \in parseEcbRates(n) THEN n ELSE rates[r]]
  /\ lastRun' = [lastRun EXCEPT !.status = "success"]
  /\ fxLock' = NoFetch /\ LetGo(f)
  /\ UNCHANGED <<feed, bad, restarts>>

FailRun(f) ==
  /\ \/ IsAt(f, "bad")
     \/ IsAt(f, "read") /\ ~Parses(fetching[f].feed)
  /\ lastRun' = [lastRun EXCEPT !.status = "error"]
  /\ fxLock' = NoFetch /\ LetGo(f)
  /\ UNCHANGED <<feed, rates, bad, restarts>>

\* the sessions end and the lock is free; the run stays 'running'
RestartFx ==
  /\ restarts < MaxRestarts /\ restarts' = restarts + 1
  /\ fetching' = [f \in Fetchers |-> NoFetch]
  /\ fxLock' = NoFetch
  /\ UNCHANGED <<feed, rates, lastRun, bad>>

FetchStep(f) == StartRun(f) \/ Fetched(f) \/ StoreRates(f) \/ FailRun(f)

FxNext ==
  \/ Publish \/ Hour \/ RestartFx
  \/ \E f \in Fetchers : fxTick(f) \/ FetchNow(f) \/ FetchStep(f)

\* Time goes by, the ticker ticks, and a fetch that is under way goes on.
FxFair ==
  /\ WF_fxVars(Hour)
  /\ \A f \in Fetchers : WF_fxVars(fxTick(f)) /\ WF_fxVars(FetchStep(f))

\* unknownCurrencies, of one
Known(ccy) == ccy = "USD" \/ \E r \in DOMAIN rates : r.ccy = ccy

\* A stored rate is never written over with one of an older feed: fetches do
\* not overlap (fx.ts lock), although the response is read long before it is stored.
RatesNeverRegress == [][\A r \in DOMAIN rates : r \in DOMAIN rates' /\ rates[r] <= rates'[r]]_fxVars

\* What the last feed holds is stored, whatever went wrong before (fx.ts:
\* "missed days and re-runs are all the same idempotent operation"). It holds
\* for good soon after the last feed is published.
FeedLands == Parses(feed) => \A r \in parseEcbRates(feed) : r \in DOMAIN rates /\ rates[r] = feed
=============================================================================
