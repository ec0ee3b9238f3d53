------------------------------- MODULE Offboard -------------------------------
(***************************************************************************)
(* People leaving and joining (src/lib/provision.ts): the offboard sweep,  *)
(* the retry of one item, invites and minted keys, run by requests, the    *)
(* Okta hook and its poll at the same time, each a series of statements    *)
(* with vendor calls in between and no transaction around them.            *)
(*                                                                         *)
(* An identity is a key or a seat at a vendor. `access` is what the vendor *)
(* really grants; the rest are the tables people, identities and           *)
(* offboard_items. The sweep's part about logins is in module Access.      *)
(***************************************************************************)
EXTENDS Naturals, Sequences, FiniteSets

CONSTANTS
  Persons, Identities,
  Jobs,        \* requests, hooks and ticks in flight
  OwnerOf,     \* OwnerOf[i]: whose identity i is at first, or Nobody
  Granted,     \* identities with access at first
  Forgiving,   \* identities whose vendor confirms removing what is gone
  Nobody, NoJob,
  MaxSweeps,   \* bound: sweeps, mints and invites
  MaxFaults,   \* bound: vendor and database errors
  MaxStops     \* bound: deaths of the process

ASSUME OffboardAssumption ==
  /\ Nobody \notin Persons
  /\ OwnerOf \in [Identities -> Persons \cup {Nobody}]
  /\ IsFiniteSet(Identities)
  /\ Granted \subseteq Identities /\ Forgiving \subseteq Identities
  /\ MaxSweeps \in Nat /\ MaxFaults \in Nat /\ MaxStops \in Nat

VARIABLES
  status,     \* people.status; "archived" once merged away
  stored,     \* identities with a row
  owner,      \* identities.person_id
  deprov,     \* identities with deprovisioned_at
  access,     \* identities the vendor still honours
  items,      \* offboard_items: identity, person, status
  job,
  regranted,  \* identities an invite gave back after a sweep removed them
  exposed,    \* items removed while another job held them, or by a job that then failed
  sweeps, faults, stops

records == <<status, stored, owner, deprov>>
bounds == <<sweeps, faults, stops>>
ghosts == <<regranted, exposed>>
offboardVars == <<records, access, items, job, ghosts, bounds>>

OffboardInit ==
  /\ status = [p \in Persons |-> "active"]
  /\ stored = Granted
  /\ owner = OwnerOf
  /\ deprov = {}
  /\ access = Granted
  /\ items = <<>>
  /\ job = [j \in Jobs |-> NoJob]
  /\ regranted = {} /\ exposed = {}
  /\ sweeps = 0 /\ faults = 0 /\ stops = 0

LiveItem(i) == \E k \in DOMAIN items : items[k].identity = i /\ items[k].status # "removed"
Holders(k) == {j \in Jobs : job[j] # NoJob /\ (job[j].item = k \/ k \in job[j].queue)}

Goto(j, step) == job' = [job EXCEPT ![j].step = step]
BeginJob(j, kind, p, step) ==
  job' = [job EXCEPT ![j] =
    [kind |-> kind, person |-> p, step |-> step, queue |-> {}, item |-> 0]]
CountSweep ==
  /\ sweeps < MaxSweeps /\ sweeps' = sweeps + 1
  /\ UNCHANGED <<faults, stops>>
Fault ==
  /\ faults < MaxFaults /\ faults' = faults + 1
  /\ UNCHANGED <<sweeps, stops>>

-----------------------------------------------------------------------------
(***************************************************************************)
(* runOffboard: a row per live identity, then the status, then the items.  *)
(***************************************************************************)
\* loadPerson: a merged-away person is refused
Sweep(j, p) ==
  /\ job[j] = NoJob
  /\ status[p] # "archived"
  /\ CountSweep
  /\ BeginJob(j, "sweep", p, "plan")
  /\ UNCHANGED <<records, access, items, ghosts>>

\* INSERT .. SELECT .. ON CONFLICT (identity_id) WHERE status <> 'removed' DO NOTHING
Planned(p) == {i \in stored \ deprov : owner[i] = p /\ ~LiveItem(i)}

Plan(j) ==
  LET p == job[j].person
  IN  /\ job[j] # NoJob /\ job[j].step = "plan"
      /\ \E f \in [1 .. Cardinality(Planned(p)) -> Planned(p)] :
           /\ \A i \in Planned(p) : \E n \in DOMAIN f : f[n] = i
           /\ items' = items \o [n \in DOMAIN f |->
                [identity |-> f[n], person |-> p, status |-> "pending"]]
      /\ Goto(j, "mark")
      /\ UNCHANGED <<records, access, ghosts, bounds>>

MarkItems(j) ==
  /\ job[j] # NoJob /\ job[j].step = "mark"
  /\ status' = [status EXCEPT ![job[j].person] = "offboarded"]
  /\ Goto(j, "list")
  /\ UNCHANGED <<stored, owner, deprov, access, items, ghosts, bounds>>

\* mutant: the sweep takes every item of the person
PendingItems_All(p) == {k \in DOMAIN items : items[k].person = p}

PendingItems(p) == {k \in DOMAIN items : items[k].person = p /\ items[k].status # "removed"}

\* job j goes on with its queue, or ends (the overview, the audit entry)
Continue(j, queue) ==
  job' = [job EXCEPT ![j] = IF queue = {} THEN NoJob
                            ELSE [@ EXCEPT !.queue = queue, !.item = 0, !.step = "next"]]

List(j) ==
  /\ job[j] # NoJob /\ job[j].step = "list"
  /\ Continue(j, PendingItems(job[j].person))
  /\ UNCHANGED <<records, access, items, ghosts, bounds>>

\* mutant: only a failed item can be retried, not one stuck in pending
RetryItem_FailedOnly(j, k) ==
  /\ job[j] = NoJob
  /\ items[k].status = "failed"
  /\ job' = [job EXCEPT ![j] =
       [kind |-> "retry", person |-> items[k].person, step |-> "next",
        queue |-> {k}, item |-> 0]]
  /\ UNCHANGED <<records, access, items, ghosts, bounds>>

\* retryOffboardItem: refused once the item is removed
RetryItem(j, k) ==
  /\ job[j] = NoJob
  /\ items[k].status # "removed"
  /\ job' = [job EXCEPT ![j] =
       [kind |-> "retry", person |-> items[k].person, step |-> "next",
        queue |-> {k}, item |-> 0]]
  /\ UNCHANGED <<records, access, items, ghosts, bounds>>

-----------------------------------------------------------------------------
(***************************************************************************)
(* executeItem: removeOne at the vendor, then two updates; an error of any *)
(* of the three ends in the catch block.                                   *)
(***************************************************************************)
AtItem(j, step) == job[j] # NoJob /\ job[j].step = step
IdentityAt(j) == items[job[j].item].identity

\* mutant: whatever the vendor answers is taken for a removal
AfterError_Record == "record"

\* the catch block
AfterError == "fail"

\* whether the vendor confirms a removal: it carries it out now, or it says so
\* of what is gone already
Confirms(i) == i \in access \/ i \in Forgiving

\* the loop takes the next item (any order stands for ORDER BY) to its vendor,
\* which removes it; what is not there any more is an error for most of them
CallVendor(j) ==
  /\ AtItem(j, "next")
  /\ \E k \in job[j].queue :
       LET i == items[k].identity
       IN  /\ access' = access \ {i}
           /\ job' = [job EXCEPT ![j].queue = @ \ {k}, ![j].item = k,
                        ![j].step = IF Confirms(i) THEN "record" ELSE AfterError]
  /\ UNCHANGED <<records, items, ghosts, bounds>>

\* not connected, no login on record, refused, or carried out with the answer lost
CallFails(j) ==
  /\ AtItem(j, "next")
  /\ Fault
  /\ \E k \in job[j].queue :
       /\ access' \in {access, access \ {items[k].identity}}
       /\ job' = [job EXCEPT ![j].queue = @ \ {k}, ![j].item = k, ![j].step = AfterError]
  /\ UNCHANGED <<records, items, ghosts>>

Record(j) ==
  LET k == job[j].item
  IN  /\ AtItem(j, "record")
      /\ items' = [items EXCEPT ![k].status = "removed"]
      /\ exposed' = IF Holders(k) # {j} THEN exposed \cup {k} ELSE exposed
      /\ Goto(j, "deprovision")
      /\ UNCHANGED <<records, access, regranted, bounds>>

Deprovision(j) ==
  /\ AtItem(j, "deprovision")
  /\ deprov' = deprov \cup {IdentityAt(j)}
  /\ Continue(j, job[j].queue)
  /\ UNCHANGED <<status, stored, owner, access, items, ghosts, bounds>>

UpdateFails(j) ==
  /\ AtItem(j, "record") \/ AtItem(j, "deprovision")
  /\ Fault
  /\ exposed' = exposed \cup {job[j].item}
  /\ Goto(j, "fail")
  /\ UNCHANGED <<records, access, items, regranted>>

\* the index of live items allows one per identity: the update of an item that
\* was removed and replanned since throws out of the sweep
RecordFailure(j) ==
  LET k == job[j].item
      clash == \E n \in DOMAIN items \ {k} :
                 items[n].identity = items[k].identity /\ items[n].status # "removed"
  IN  /\ AtItem(j, "fail")
      /\ IF clash
         THEN items' = items /\ job' = [job EXCEPT ![j] = NoJob]
         ELSE /\ items' = [items EXCEPT ![k].status = "failed"]
              /\ Continue(j, job[j].queue)
      /\ UNCHANGED <<records, access, ghosts, bounds>>

-----------------------------------------------------------------------------
(***************************************************************************)
(* inviteFanout, mintOpenAiKeyForPerson; what Resolve and syncs map.       *)
(***************************************************************************)
\* the people rows are read once, before every vendor call
Join(j, p, kind) ==
  /\ kind \in {"invite", "mint"}
  /\ job[j] = NoJob
  /\ status[p] = "active"
  /\ CountSweep
  /\ BeginJob(j, kind, p, "vendor")
  /\ UNCHANGED <<records, access, items, ghosts>>

\* a user or seat the vendor does not have yet; a key is always new
Regrant(j, i) ==
  /\ job[j] # NoJob /\ job[j].step = "vendor"
  /\ i \notin access
  /\ job[j].kind = "mint" => i \notin stored
  /\ access' = access \cup {i}
  /\ regranted' = IF \E k \in DOMAIN items : items[k].identity = i
                  THEN regranted \cup {i} ELSE regranted
  /\ job' = [job EXCEPT ![j] =
       IF @.kind = "mint" THEN [@ EXCEPT !.step = "map", !.queue = {i}] ELSE NoJob]
  /\ UNCHANGED <<records, items, exposed, bounds>>

GrantFails(j) ==
  /\ job[j] # NoJob /\ job[j].step = "vendor"
  /\ Fault
  /\ job' = [job EXCEPT ![j] = NoJob]
  /\ UNCHANGED <<records, access, items, ghosts>>

\* INSERT .. ON CONFLICT DO UPDATE person_id = COALESCE(identities.person_id, ..)
Map(j) ==
  /\ job[j] # NoJob /\ job[j].step = "map"
  /\ stored' = stored \cup job[j].queue
  /\ owner' = [i \in Identities |->
       IF i \in job[j].queue /\ owner[i] = Nobody THEN job[j].person ELSE owner[i]]
  /\ job' = [job EXCEPT ![j] = NoJob]
  /\ UNCHANGED <<status, deprov, access, items, ghosts, bounds>>

\* a sync stores an identity it finds, matched by email to a person or to nobody
SyncIdentity(i, p) ==
  /\ i \in access \ stored
  /\ p # Nobody => status[p] # "archived"
  /\ stored' = stored \cup {i}
  /\ owner' = [owner EXCEPT ![i] = p]
  /\ UNCHANGED <<status, deprov, access, items, job, ghosts, bounds>>

\* mergePeople: items keep the person they were planned for
Merge(p, q) ==
  /\ p # q
  /\ status[p] # "archived" /\ status[q] # "archived"
  /\ status' = [status EXCEPT ![p] = "archived"]
  /\ owner' = [i \in Identities |-> IF owner[i] = p THEN q ELSE owner[i]]
  /\ UNCHANGED <<stored, deprov, access, items, job, ghosts, bounds>>

\* the process dies with everything in flight
Crash ==
  /\ stops < MaxStops /\ stops' = stops + 1
  /\ \E j \in Jobs : job[j] # NoJob
  /\ job' = [j \in Jobs |-> NoJob]
  /\ UNCHANGED <<records, access, items, ghosts, sweeps, faults>>

Step(j) ==
  \/ Plan(j) \/ MarkItems(j) \/ List(j)
  \/ CallVendor(j) \/ Record(j) \/ Deprovision(j) \/ RecordFailure(j)
  \/ \E i \in Identities : Regrant(j, i)
  \/ Map(j)

OffboardNext ==
  \/ \E j \in Jobs :
       \/ Step(j) \/ CallFails(j) \/ UpdateFails(j) \/ GrantFails(j)
       \/ \E p \in Persons, kind \in {"invite", "mint"} : Sweep(j, p) \/ Join(j, p, kind)
       \/ \E k \in DOMAIN items : RetryItem(j, k)
  \/ \E i \in Identities, p \in Persons \cup {Nobody} : SyncIdentity(i, p)
  \/ \E p, q \in Persons : Merge(p, q)
  \/ Crash

OffboardSpec == OffboardInit /\ [][OffboardNext]_offboardVars

\* requests run on; somebody retries the live item of an identity as long as
\* there is one
Retried(i) ==
  \E k \in DOMAIN items, j \in Jobs : items[k].identity = i /\ RetryItem(j, k)
OffboardFairSpec ==
  /\ OffboardSpec
  /\ \A j \in Jobs : WF_offboardVars(Step(j))
  /\ \A i \in Identities : SF_offboardVars(Retried(i))

-----------------------------------------------------------------------------
Items == [identity : Identities, person : Persons,
          status : {"pending", "failed", "removed"}]
Job == [kind : {"sweep", "retry", "invite", "mint"}, person : Persons,
        step : {"plan", "mark", "list", "next", "record", "deprovision", "fail",
                "vendor", "map"},
        queue : SUBSET (Nat \cup Identities), item : Nat]

\* Every table holds what its columns allow, and at
\* most one item per identity is live (offboard_items_live_identity_key)
OffboardTypeOK ==
  /\ status \in [Persons -> {"active", "offboarded", "archived"}]
  /\ owner \in [Identities -> Persons \cup {Nobody}]
  /\ deprov \subseteq stored /\ stored \subseteq Identities /\ access \subseteq Identities
  /\ items \in Seq(Items)
  /\ job \in [Jobs -> Job \cup {NoJob}]
  /\ \A j \in Jobs : job[j] # NoJob => job[j].item \in {0} \cup DOMAIN items
  /\ \A k, n \in DOMAIN items :
       items[k].status # "removed" /\ items[n].status # "removed"
         /\ items[k].identity = items[n].identity => k = n

\* What the project says is removed is gone at the vendor, and what a sweep
\* planned and the vendor still honours has an item that can be retried -
\* through lost answers, stops, sweeps of one person at once, merges. Only an
\* invite that checked the person before the sweep can give it back
\* (executeItem marks after the vendor confirmed).
RemovedIsGone ==
  /\ OffboardTypeOK
  /\ \A k \in DOMAIN items :
       items[k].identity \in access \ regranted =>
         /\ items[k].status # "removed"
         /\ items[k].identity \notin deprov

\* An item is taken back from removed to failed only if another job held it when
\* it was removed, or the job that removed it failed on the identity: sweeps and
\* retries that come later skip it (the filters of runOffboard and
\* retryOffboardItem), however often they are repeated.
OnlyOverlapsUndo ==
  [][\A k \in DOMAIN items :
       items[k].status = "removed" /\ items'[k].status = "failed" =>
         k \in exposed]_offboardVars

\* Everyone who is swept loses, in the end, every access the sweep planned, if
\* the vendor fails and the process dies finitely often and items that are not
\* removed are retried (the sweep is said to stay retryable one by one).
LeaversLoseAccess ==
  \A i \in Identities : LiveItem(i) ~> (i \notin access \/ i \in regranted)

\* what provision.ts:338 says of removed items; two sweeps at once break it
RemovedIsFinal ==
  [][\A k \in DOMAIN items :
       items[k].status = "removed" => items'[k].status = "removed"]_offboardVars

\* what the sweep is said to do (provision.ts:480): when it is through, nothing
\* its person holds was left untried; an item planned for a person merged into
\* this one is
Untried(p) == {i \in stored \ deprov : owner[i] = p /\ i \in access
                 /\ \E k \in DOMAIN items : items[k].identity = i /\ items[k].person # p}
SweepsTryAll ==
  [][\A j \in Jobs :
       job[j] # NoJob /\ job'[j] = NoJob /\ job[j].kind = "sweep" /\ stops' = stops =>
         Untried(job[j].person) = {}]_offboardVars

\* what the tests say of minting (provision.test.ts:666, "invites and minting
\* refuse offboarded people"): a minted key is mapped to an active person
MintedIsActive ==
  [][\A j \in Jobs :
       job[j] # NoJob /\ job'[j] = NoJob /\ job[j].step = "map" /\ stored' # stored =>
         status[job[j].person] = "active"]_offboardVars
=============================================================================
