------------------------------ MODULE SdkIngest ------------------------------
(***************************************************************************)
(* SDK processes that share an ingest key, and the server that takes their *)
(* batches: POST /api/ingest and ingestEvents (src/lib/ingest.ts), one     *)
(* PostgreSQL statement per step.                                          *)
(*                                                                         *)
(* A request runs in a transaction (READ COMMITTED): it locks the identity *)
(* row of each employee it names, inserts the events whose UUID is new,    *)
(* restates the outcomes, sums each touched bucket over the events it can  *)
(* see and writes the sum to the bucket's spend fact; after the commit it  *)
(* rebuilds the rollups of the days of its new events. A statement sees    *)
(* what is committed when it starts and what its own transaction wrote;    *)
(* one that writes a row or a UUID another open transaction wrote waits.   *)
(*                                                                         *)
(* The client may give up on a request (its connection breaks) that the    *)
(* server goes on with, and the retry then runs beside it.                 *)
(***************************************************************************)
EXTENDS SdkClient, FiniteSets

CONSTANTS
  Slots,      \* requests the server works on at once
  Buckets,    \* (key, day, vendor, model, identity) of a spend fact
  Refs,       \* source_ref of an outcome
  Employees,
  BucketOf,   \* BucketOf[e]: the bucket a 'call' event counts in
  RefOf,      \* RefOf[e]: the outcome an 'outcome' event states
  OwnerOf,    \* OwnerOf[b]: the employee of bucket b, or Nobody
  Nobody, NoSlot, NoEvent, Free,
  MaxFaults   \* bound: refused, failed and abandoned requests

Event == Clients \X (1..MaxEvents)
Calls == DOMAIN BucketOf
Outcomes == DOMAIN RefOf

\* An event that is neither is one parseEvent rejects.
ASSUME EventsAssumption ==
  /\ Calls \cup Outcomes \subseteq Event
  /\ Calls \cap Outcomes = {}
  /\ BucketOf \in [Calls -> Buckets]
  /\ RefOf \in [Outcomes -> Refs]
  /\ OwnerOf \in [Buckets -> Employees \cup {Nobody}]
  /\ Nobody \notin Employees
  /\ NoSlot \notin Slots
  /\ NoEvent \notin Event
  /\ MaxFaults \in Nat

Request ==
  [client : Clients,
   stage : {"received", "working", "recomputing", "answering"},
   todo : Seq(Event),                  \* events still to insert
   locks : SUBSET Employees,           \* identity rows locked
   inserted : SUBSET Event,            \* new events, uncommitted
   stated : [Refs -> Event \cup {NoEvent}],   \* outcomes written, uncommitted
   touched : Seq(Buckets),             \* buckets still to derive, in order
   summed : [Buckets -> SUBSET Event], \* sums read, not yet written
   summing : SUBSET Buckets,           \* the bucket between SUM and upsert
   derived : SUBSET Buckets]           \* facts written, uncommitted

ASSUME FreeAssumption == Free \notin Request

VARIABLES
  at,        \* at[c]: slot working on the batch c has in flight, or NoSlot
  req,       \* req[s]: the request in slot s, or Free
  revoked,   \* the ingest key is revoked, or its product archived
  ingested,  \* rows of ingest_events
  fact,      \* fact[b]: events the spend fact of bucket b sums up
  outcome,   \* outcome[r]: event that last stated outcome r, or NoEvent
  rollup,    \* rollup[b]: what rollup_daily says of bucket b
  faults

db == <<ingested, fact, outcome, rollup>>
serverVars == <<at, req, revoked, db, faults>>
vars == <<clientVars, serverVars>>

Init ==
  /\ ClientInit
  /\ at = [c \in Clients |-> NoSlot]
  /\ req = [s \in Slots |-> Free]
  /\ revoked = FALSE
  /\ ingested = {}
  /\ fact = [b \in Buckets |-> {}]
  /\ outcome = [r \in Refs |-> NoEvent]
  /\ rollup = [b \in Buckets |-> {}]
  /\ faults = 0

(***************************************************************************)
(* Who holds what.                                                         *)
(***************************************************************************)
Open(s) == req[s] # Free /\ req[s].stage = "working"
Others(s) == {r \in Slots \ {s} : Open(r)}

HoldsIdentity(r, p) == p \in req[r].locks
HoldsEvent(r, e) == e \in req[r].inserted
HoldsOutcome(r, ref) == req[r].stated[ref] # NoEvent
HoldsFact(r, b) == b \in req[r].derived

Owners(events) == {OwnerOf[BucketOf[e]] : e \in events \cap Calls}

\* the employees a request names
Named(s) == IF Open(s) THEN Owners(Elements(req[s].todo)) \ {Nobody} ELSE {}

\* of those not locked yet, the first in the order of the batch
NextNamed(s) ==
  {p \in Named(s) \ req[s].locks :
     \E i \in 1..Len(req[s].todo) :
       /\ Owners({req[s].todo[i]}) = {p}
       /\ \A j \in 1..i-1 : Owners({req[s].todo[j]}) \subseteq req[s].locks \cup {Nobody}}

\* the transactions the next statement of s waits for
WaitsFor(s) ==
  IF Named(s) \ req[s].locks # {}
  THEN {r \in Others(s) : \E p \in NextNamed(s) : HoldsIdentity(r, p)}
  ELSE IF req[s].todo # <<>>
  THEN LET e == Head(req[s].todo)
       IN  {r \in Others(s) : HoldsEvent(r, e)
              \/ (e \in Outcomes /\ HoldsOutcome(r, RefOf[e]))}
  ELSE {r \in Others(s) : \E b \in req[s].summing : HoldsFact(r, b)}

Fault == faults < MaxFaults /\ faults' = faults + 1

-----------------------------------------------------------------------------
(***************************************************************************)
(* Client and network.                                                     *)
(***************************************************************************)
Track(c) == Push(c) /\ UNCHANGED serverVars

NewRequest(c) ==
  [client |-> c, stage |-> "received",
   todo |-> [i \in 1..Len(inflight'[c]) |-> <<c, inflight'[c][i]>>],
   locks |-> {}, inserted |-> {}, stated |-> [r \in Refs |-> NoEvent],
   touched |-> <<>>, summed |-> [b \in Buckets |-> {}], summing |-> {}, derived |-> {}]

Post(c, s) ==
  /\ at[c] = NoSlot
  /\ req[s] = Free
  /\ Take(c)
  /\ at' = [at EXCEPT ![c] = s]
  /\ req' = [req EXCEPT ![s] = NewRequest(c)]
  /\ UNCHANGED <<revoked, db, faults>>

\* mutant: the lost batch is put back, the flush never ends
GiveUp_Stuck(c) ==
  /\ at[c] # NoSlot
  /\ Fault
  /\ Requeue(c)
  /\ UNCHANGED <<at, req, revoked, db>>

\* mutant: the lost batch is put back and still in flight
GiveUp_Twice(c) ==
  /\ at[c] # NoSlot
  /\ Fault
  /\ Refill(c, inflight[c] \o buffer[c])
  /\ at' = [at EXCEPT ![c] = NoSlot]
  /\ UNCHANGED <<made, inflight, acked, req, revoked, db>>

\* the request or its answer is lost; the server does not notice
GiveUp(c) ==
  /\ at[c] # NoSlot
  /\ Fault
  /\ Requeue(c)
  /\ at' = [at EXCEPT ![c] = NoSlot]
  /\ UNCHANGED <<req, revoked, db>>

\* an admin revokes the key or archives the product: from here on 401 or 409
Revoke ==
  /\ ~revoked
  /\ Fault
  /\ revoked' = TRUE
  /\ UNCHANGED <<clientVars, at, req, db>>

(***************************************************************************)
(* Answers. The one who asked may have given up: then nobody hears it.     *)
(***************************************************************************)
Answer(s, heard) ==
  LET c == req[s].client
  IN  /\ req' = [req EXCEPT ![s] = Free]
      /\ IF at[c] = s
         THEN heard /\ at' = [at EXCEPT ![c] = NoSlot]
         ELSE UNCHANGED <<clientVars, at>>

TurnAway(s) ==
  /\ req[s] # Free /\ req[s].stage = "received"
  /\ revoked
  /\ Answer(s, Discard(req[s].client))
  /\ UNCHANGED <<revoked, db, faults>>

\* mutant: the SDK takes a refused batch for a delivered one
Reject_Acked(s) ==
  /\ req[s] # Free /\ req[s].stage \in {"received", "working"}
  /\ Fault
  /\ Answer(s, Done(req[s].client))
  /\ UNCHANGED <<revoked, db>>

\* 429, or an error before the commit: the transaction rolls back
Reject(s) ==
  /\ req[s] # Free /\ req[s].stage \in {"received", "working"}
  /\ Fault
  /\ Answer(s, Requeue(req[s].client))
  /\ UNCHANGED <<revoked, db>>

\* deadlock detected: PostgreSQL aborts one of the two
Abort(s) ==
  /\ Open(s)
  /\ \E r \in WaitsFor(s) : s \in WaitsFor(r)
  /\ Answer(s, Requeue(req[s].client))
  /\ UNCHANGED <<revoked, db, faults>>

-----------------------------------------------------------------------------
(***************************************************************************)
(* The transaction.                                                        *)
(***************************************************************************)
Begin(s) ==
  /\ req[s] # Free /\ req[s].stage = "received"
  /\ ~revoked
  /\ req' = [req EXCEPT ![s].stage = "working"]
  /\ UNCHANGED <<clientVars, at, revoked, db, faults>>

\* mutant: identities are looked up, not upserted: their rows are not locked
LockIdentity_Unlocked(s, p) ==
  /\ Open(s)
  /\ p \in NextNamed(s)
  /\ req' = [req EXCEPT ![s].locks = @ \cup {p}]
  /\ UNCHANGED <<clientVars, at, revoked, db, faults>>

\* upsertIdentity (and the sweep of its history) for one employee
LockIdentity(s, p) ==
  /\ Open(s)
  /\ p \in NextNamed(s)
  /\ \A r \in Others(s) : ~HoldsIdentity(r, p)
  /\ req' = [req EXCEPT ![s].locks = @ \cup {p}]
  /\ UNCHANGED <<clientVars, at, revoked, db, faults>>

Ready(s) == Open(s) /\ Named(s) \subseteq req[s].locks

\* mutant: an event already ingested states its outcome again
IsNew_Always(e) == e \in Calls \cup Outcomes

\* valid, and ON CONFLICT (id) DO NOTHING returns its id
IsNew(e) == e \in (Calls \cup Outcomes) \ ingested

\* the event insert and, for an outcome, its upsert
Insert(s) ==
  /\ Ready(s)
  /\ req[s].todo # <<>>
  /\ WaitsFor(s) = {}
  /\ LET e == Head(req[s].todo)
     IN  req' = [req EXCEPT
           ![s].todo = Tail(@),
           ![s].inserted = IF IsNew(e) THEN @ \cup {e} ELSE @,
           ![s].stated = IF IsNew(e) /\ e \in Outcomes
                         THEN [@ EXCEPT ![RefOf[e]] = e] ELSE @,
           ![s].touched = IF /\ IsNew(e) /\ e \in Calls
                             /\ BucketOf[e] \notin Elements(@)
                          THEN Append(@, BucketOf[e]) ELSE @]
  /\ UNCHANGED <<clientVars, at, revoked, db, faults>>

Visible(s) == ingested \cup req[s].inserted

\* SELECT SUM(...): the committed events of the bucket and its own
Sum(s, b) ==
  /\ Ready(s)
  /\ req[s].todo = <<>> /\ req[s].summing = {}
  /\ req[s].touched # <<>> /\ b = Head(req[s].touched)
  /\ req' = [req EXCEPT
       ![s].touched = Tail(@),
       ![s].summing = {b},
       ![s].summed[b] = {e \in Visible(s) \cap Calls : BucketOf[e] = b}]
  /\ UNCHANGED <<clientVars, at, revoked, db, faults>>

\* INSERT INTO spend_facts ... ON CONFLICT DO UPDATE with the sum read before
WriteFact(s, b) ==
  /\ Open(s)
  /\ b \in req[s].summing
  /\ WaitsFor(s) = {}
  /\ req' = [req EXCEPT ![s].summing = {},
                        ![s].derived = @ \cup {b}]
  /\ UNCHANGED <<clientVars, at, revoked, db, faults>>

Commit(s) ==
  /\ Ready(s)
  /\ req[s].todo = <<>> /\ req[s].summing = {} /\ req[s].touched = <<>>
  /\ ingested' = ingested \cup req[s].inserted
  /\ fact' = [b \in Buckets |-> IF b \in req[s].derived THEN req[s].summed[b]
                                                         ELSE fact[b]]
  /\ outcome' = [r \in Refs |-> IF req[s].stated[r] # NoEvent
                                THEN req[s].stated[r] ELSE outcome[r]]
  /\ req' = [req EXCEPT ![s].stage = "recomputing"]
  /\ UNCHANGED <<clientVars, at, revoked, rollup, faults>>

\* recomputeRollups for the days of the new events
Recompute(s) ==
  /\ req[s] # Free /\ req[s].stage = "recomputing"
  /\ rollup' = [b \in Buckets |-> IF b \in req[s].derived THEN fact[b] ELSE rollup[b]]
  /\ req' = [req EXCEPT ![s].stage = "answering"]
  /\ UNCHANGED <<clientVars, at, revoked, ingested, fact, outcome, faults>>

\* the recompute fails after the commit: 500, nothing is undone
RecomputeFails(s) ==
  /\ req[s] # Free /\ req[s].stage = "recomputing"
  /\ Fault
  /\ Answer(s, Requeue(req[s].client))
  /\ UNCHANGED <<revoked, db>>

Accept(s) ==
  /\ req[s] # Free /\ req[s].stage = "answering"
  /\ Answer(s, Done(req[s].client))
  /\ UNCHANGED <<revoked, db, faults>>

-----------------------------------------------------------------------------
Work(s) ==
  \/ Begin(s) \/ Insert(s) \/ Commit(s) \/ Recompute(s) \/ Accept(s)
  \/ TurnAway(s) \/ Abort(s)
  \/ \E p \in Named(s) : LockIdentity(s, p)
  \/ \E b \in Buckets : Sum(s, b) \/ WriteFact(s, b)

Flush == \E c \in Clients, s \in Slots : Post(c, s)

Next ==
  \/ Flush
  \/ \E c \in Clients : Track(c) \/ GiveUp(c)
  \/ \E s \in Slots : Work(s) \/ Reject(s) \/ RecomputeFails(s)
  \/ Revoke

Spec == Init /\ [][Next]_vars

\* The flush timer keeps posting, the server keeps working, and a statement
\* that waits for a row gets it when its turn in the lock's queue comes.
FairSpec ==
  /\ Spec
  /\ WF_vars(Flush)
  /\ \A s \in Slots : WF_vars(Work(s))
  /\ \A s \in Slots, p \in Employees : SF_vars(LockIdentity(s, p))
  /\ \A s \in Slots, b \in Buckets : SF_vars(WriteFact(s, b))

-----------------------------------------------------------------------------
TypeOK ==
  /\ ClientTypeOK
  /\ at \in [Clients -> Slots \cup {NoSlot}]
  /\ \A s \in Slots : req[s] # Free =>
       /\ DOMAIN req[s] = {"client", "stage", "todo", "locks", "inserted",
                           "stated", "touched", "summed", "summing", "derived"}
       /\ req[s].client \in Clients
       /\ req[s].todo \in Seq(Event)
       /\ req[s].locks \subseteq Employees
       /\ req[s].inserted \subseteq Event
       /\ req[s].stated \in [Refs -> Event \cup {NoEvent}]
       /\ req[s].touched \in Seq(Buckets)
       /\ req[s].summing \cup req[s].derived \subseteq Buckets
  /\ revoked \in BOOLEAN
  /\ ingested \subseteq Event
  /\ fact \in [Buckets -> SUBSET Event]
  /\ outcome \in [Refs -> Event \cup {NoEvent}]
  /\ rollup \in [Buckets -> SUBSET Event]
  /\ faults \in 0..MaxFaults

Counted(b) == {e \in ingested \cap Calls : BucketOf[e] = b}

\* Whatever batches, retries and abandoned requests overlap, the spend fact of
\* an employee's bucket sums exactly the events ingested into it, each once.
EmployeeFactsExact == \A b \in Buckets : OwnerOf[b] # Nobody => fact[b] = Counted(b)

\* What the SDK was told is delivered is in the ledger.
AckedIsIngested ==
  \A c \in Clients : \A n \in acked[c] :
    <<c, n>> \in Calls \cup Outcomes => <<c, n>> \in ingested

\* A retry never takes an outcome back: the outcome says what the newest
\* ingested event of its (only) client states. Not so once the client's buffer
\* has overflowed: the dropped batch may still be under way at the server, and
\* land after events made later.
OutcomesNewest ==
  \A e \in ingested \cap Outcomes :
    LET last == outcome[RefOf[e]]
    IN  dropped[e[1]] = {} =>
          last # NoEvent /\ (last[1] = e[1] => last[2] >= e[2])

\* The server's answers are those SdkClient leaves free.
ImplementsClient == ClientSpec

\* Nothing waits for ever: when the tracking stops the buffers run empty.
BuffersDrain == <>[](\A c \in Clients : buffer[c] = <<>> /\ inflight[c] = <<>>)

(***************************************************************************)
(* What comments of the source say and the code does not do.               *)
(***************************************************************************)
\* ingest.ts:601, "Re-derive every touched call bucket from ALL its events":
\* every spend fact sums the events ingested into its bucket.
FactsExact == \A b \in Buckets : fact[b] = Counted(b)

\* api/ingest/route.ts, "the server upserts on the UUID so retries are safe":
\* when every batch is answered, the rollups say what the facts say.
RetriesAreSafe ==
  (\A c \in Clients : buffer[c] = <<>> /\ inflight[c] = <<>>)
    /\ (\A s \in Slots : req[s] = Free)
  => rollup = fact
=============================================================================
