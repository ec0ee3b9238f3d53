------------------------------ MODULE Lifecycle ------------------------------
(***************************************************************************)
(* The first days of an instance (onboarding.ts, demo.ts, connect.ts): the   *)
(* claim starts onboarding, a demo dataset may be seeded, and connecting the *)
(* first vendor wipes it before anything real is stored. By then real rows   *)
(* may hang on demo people and products.                                     *)
(*                                                                          *)
(* A request is a handler under way: its statements, or transactions,        *)
(* interleave with those of others, and the process may die in between. Of   *)
(* the demo dataset there are its people and products, and one mark for all  *)
(* of its facts, outcomes and metrics; its rollup rows are the number of the *)
(* dataset a recompute saw. A recompute deletes, reads and commits in steps; *)
(* the locks it takes are in Rollups, as are the recomputes of others.       *)
(***************************************************************************)
EXTENDS Integers, FiniteSets

CONSTANTS
  Handlers,      \* requests that may be under way at once
  DemoPeople, DemoProducts,
  LinkedVendors, \* the connectors an admin may connect
  RealKinds,     \* person or product row -> how real rows may hang on it
  MaxRequests,   \* bound: requests
  MaxDeaths,     \* bound: deaths of the process
  Resting

\* what a request does, how far it is, and the vendor or stage it is about
Handling ==
  [op : {"patch", "seed", "connect", "disconnect"},
   at : {"write", "insert", "recompute", "rebuild", "commit", "answer", "wipe", "config", "row"},
   what : {"welcome", "setup", "done"} \cup LinkedVendors,
   drops : SUBSET Nat, adds : SUBSET Nat]

ASSUME RestingAssumption == Resting \notin Handling

VARIABLES
  marker,     \* the demo_data setting
  demoFacts,  \* facts, outcomes, metrics, issues and checks with a demo: reference
  demoRows,   \* the demo people and products that exist
  adopted,    \* the people whose source an import has set to 'csv'
  hanging,    \* real rows on demo people and products: [kind, on]
  dataset,    \* number of the demo dataset seeded last
  counted,    \* the datasets whose facts the committed rollups count
  connectors, \* vendors with a row in connectors
  configs,    \* vendors with stored credentials
  stage,      \* onboarding_stage; "unclaimed" before there is an admin
  handler,    \* [op, at, what, and the rollup rows a recompute deletes and inserts]
  requests, deaths,
  mixed,      \* history: a seed and a connect were under way at once
  clashed,    \* history: a connect and a disconnect were
  tangled,    \* history: two recomputes had rollup rows deleted at once
  failed      \* history: a recompute failed

demoVars == <<marker, demoFacts, demoRows, adopted, hanging, dataset, counted>>
vendorVars == <<connectors, configs>>
lifeGhosts == <<mixed, clashed, tangled, failed>>
lifeVars == <<demoVars, vendorVars, stage, handler, requests, deaths, lifeGhosts>>

DemoSet == DemoPeople \cup DemoProducts

LifeInit ==
  /\ marker = FALSE /\ demoFacts = FALSE /\ dataset = 0 /\ counted = {}
  /\ demoRows = {} /\ adopted = {} /\ hanging = {}
  /\ connectors = {} /\ configs = {}
  /\ stage = "unclaimed"
  /\ handler = [h \in Handlers |-> Resting]
  /\ requests = 0 /\ deaths = 0
  /\ mixed = FALSE /\ clashed = FALSE /\ tangled = FALSE /\ failed = FALSE

Doing(h, op, at) == handler[h] # Resting /\ handler[h].op = op /\ handler[h].at = at
GoOn(h, at) == handler' = [handler EXCEPT ![h].at = at]
Finish(h) == handler' = [handler EXCEPT ![h] = Resting]
Others(h, ops) == \E g \in Handlers \ {h} : handler[g] # Resting /\ handler[g].op \in ops

\* a request comes in, and what it does first
Opens(h, op, at, what) ==
  /\ stage # "unclaimed" /\ handler[h] = Resting /\ requests < MaxRequests
  /\ requests' = requests + 1
  /\ handler' = [handler EXCEPT ![h] = [op |-> op, at |-> at, what |-> what, drops |-> {}, adds |-> {}]]
  /\ mixed' = (mixed \/ (op = "seed" /\ Others(h, {"connect"})) \/ (op = "connect" /\ Others(h, {"seed"})))
  /\ clashed' = (clashed \/ (op \in {"connect", "disconnect"} /\ Others(h, {"connect", "disconnect"})))
  /\ UNCHANGED <<demoVars, vendorVars, stage, deaths, tangled, failed>>

\* the request is over with nothing done
Answer(h) == UNCHANGED <<demoVars, vendorVars, stage, requests, deaths, lifeGhosts>> /\ Finish(h)

(***************************************************************************)
(* Onboarding.                                                              *)
(***************************************************************************)
\* startOnboarding, in the transaction of the claim: only on an empty ledger
startOnboarding ==
  /\ stage = "unclaimed"
  /\ stage' = IF connectors = {} /\ demoRows = {} THEN "welcome" ELSE "done"
  /\ UNCHANGED <<demoVars, vendorVars, handler, requests, deaths, lifeGhosts>>

\* mutant: the stage may move either way
canTransition_Any(from, to) == from # to

canTransition(from, to) ==
  <<from, to>> \in {<<"welcome", "setup">>, <<"welcome", "done">>, <<"setup", "done">>}

\* PATCH /api/onboarding: the stage is read, then written
SetStage(h, to) == canTransition(stage, to) /\ Opens(h, "patch", "write", to)

WriteStage(h) ==
  /\ Doing(h, "patch", "write") \/ Doing(h, "seed", "write")
  /\ stage' = handler[h].what
  /\ Finish(h)
  /\ UNCHANGED <<demoVars, vendorVars, requests, deaths, lifeGhosts>>

(***************************************************************************)
(* Demo data.                                                               *)
(***************************************************************************)
\* seedDemoData: not while there is demo data, nor a connector
Seed(h) == ~marker /\ connectors = {} /\ Opens(h, "seed", "insert", "setup")

\* the rows of the transaction: people and products, what is made up for them,
\* and the marker that goes with them
InsertRows == demoRows' = DemoSet
InsertFacts == demoFacts' = TRUE /\ dataset' = dataset + 1
InsertMarker == marker' = TRUE

\* one transaction; it is refused when a demo person or product of an earlier
\* seed, or the marker, is in the way
InsertDemo(h) ==
  /\ Doing(h, "seed", "insert")
  /\ IF marker \/ demoRows # {} THEN Answer(h)
     ELSE /\ InsertRows /\ InsertFacts /\ InsertMarker
          /\ GoOn(h, "recompute")
          /\ UNCHANGED <<adopted, hanging, counted, vendorVars, stage, requests, deaths, lifeGhosts>>

\* recomputeRollups over the span of the dataset, in a transaction of its own:
\* the rows that stand are deleted
DeleteRollups(h) ==
  /\ Doing(h, "seed", "recompute") \/ Doing(h, "connect", "recompute")
  /\ handler' = [handler EXCEPT ![h].at = "rebuild", ![h].drops = counted]
  /\ tangled' = (tangled \/ \E g \in Handlers \ {h} :
                    handler[g] # Resting /\ handler[g].at \in {"rebuild", "commit"})
  /\ UNCHANGED <<demoVars, vendorVars, stage, requests, deaths, mixed, clashed, failed>>

\* then built anew from the facts that are committed by now
InsertRollups(h) ==
  /\ Doing(h, "seed", "rebuild") \/ Doing(h, "connect", "rebuild")
  /\ handler' = [handler EXCEPT ![h].at = "commit", ![h].adds = IF demoFacts THEN {dataset} ELSE {}]
  /\ UNCHANGED <<demoVars, vendorVars, stage, requests, deaths, lifeGhosts>>

\* the request fails; a connect has stored nothing yet
RecomputeFails(h) ==
  /\ handler[h] # Resting /\ handler[h].at \in {"recompute", "rebuild", "commit"}
  /\ Finish(h) /\ failed' = TRUE
  /\ UNCHANGED <<demoVars, vendorVars, stage, requests, deaths, mixed, clashed, tangled>>

\* refused when rows with the same keys stand
CommitRollups(h) ==
  /\ Doing(h, "seed", "commit") \/ Doing(h, "connect", "commit")
  /\ handler[h].adds \cap (counted \ handler[h].drops) = {}
  /\ counted' = (counted \ handler[h].drops) \cup handler[h].adds
  /\ GoOn(h, IF handler[h].op = "seed" THEN "answer" ELSE "config")
  /\ UNCHANGED <<marker, demoFacts, demoRows, adopted, hanging, dataset, vendorVars, stage, requests, deaths, lifeGhosts>>

\* POST /api/demo: the popup is answered with it
SeedAnswered(h) ==
  /\ Doing(h, "seed", "answer")
  /\ IF stage = "welcome" THEN GoOn(h, "write") ELSE Finish(h)
  /\ UNCHANGED <<demoVars, vendorVars, stage, requests, deaths, lifeGhosts>>

\* real rows that come to hang on a demo person or product; an import that
\* lists a demo person
HangOn(on, kind) ==
  /\ on \in demoRows /\ kind \in RealKinds[on] /\ [kind |-> kind, on |-> on] \notin hanging
  /\ hanging' = hanging \cup {[kind |-> kind, on |-> on]}
  /\ UNCHANGED <<marker, demoFacts, demoRows, adopted, dataset, counted, vendorVars, stage, handler, requests, deaths, lifeGhosts>>

Adopt(p) ==
  /\ p \in (demoRows \cap DemoPeople) \ adopted
  /\ adopted' = adopted \cup {p}
  /\ UNCHANGED <<marker, demoFacts, demoRows, hanging, dataset, counted, vendorVars, stage, handler, requests, deaths, lifeGhosts>>

\* the real rows that keep a row from being wiped; others go with it
Keeping == {"fact", "identity", "merged", "key", "entry", "tag", "issue"}

\* mutant: every demo row goes
Claimed_None == {}

Claimed == adopted \cup {on \in demoRows : \E r \in hanging : r.on = on /\ r.kind \in Keeping}

\* wipeDemoData: one transaction, under a lock of the marker; without one, nothing
WipeDemo(h) ==
  /\ Doing(h, "connect", "wipe")
  /\ IF ~marker THEN GoOn(h, "config") /\ UNCHANGED demoVars
     ELSE /\ marker' = FALSE /\ demoFacts' = FALSE
          /\ demoRows' = demoRows \cap Claimed
          /\ adopted' = adopted \cap Claimed
          /\ hanging' = {r \in hanging : r.on \in Claimed /\ r.kind # "seat"}
          /\ GoOn(h, "recompute")
          /\ UNCHANGED <<dataset, counted>>
  /\ UNCHANGED <<vendorVars, stage, requests, deaths, lifeGhosts>>

(***************************************************************************)
(* Connecting a vendor.                                                     *)
(***************************************************************************)
\* connectConnector: the token was found good; the demo data goes first
Connect(h, v) == Opens(h, "connect", "wipe", v)

StoreConfig(h) ==
  /\ Doing(h, "connect", "config")
  /\ configs' = configs \cup {handler[h].what}
  /\ GoOn(h, "row")
  /\ UNCHANGED <<demoVars, connectors, stage, requests, deaths, lifeGhosts>>

StoreConnector(h) ==
  /\ Doing(h, "connect", "row")
  /\ connectors' = connectors \cup {handler[h].what}
  /\ Finish(h)
  /\ UNCHANGED <<demoVars, configs, stage, requests, deaths, lifeGhosts>>

\* disconnectConnector: the row, then the credentials
Disconnect(h, v) == v \in connectors /\ Opens(h, "disconnect", "row", v)

DropConnector(h) ==
  /\ Doing(h, "disconnect", "row")
  /\ connectors' = connectors \ {handler[h].what}
  /\ GoOn(h, "config")
  /\ UNCHANGED <<demoVars, configs, stage, requests, deaths, lifeGhosts>>

DropConfig(h) ==
  /\ Doing(h, "disconnect", "config")
  /\ configs' = configs \ {handler[h].what}
  /\ Finish(h)
  /\ UNCHANGED <<demoVars, connectors, stage, requests, deaths, lifeGhosts>>

Die ==
  /\ deaths < MaxDeaths /\ deaths' = deaths + 1
  /\ \E h \in Handlers : handler[h] # Resting
  /\ handler' = [h \in Handlers |-> Resting]
  /\ UNCHANGED <<demoVars, vendorVars, stage, requests, lifeGhosts>>

LifeNext ==
  \/ startOnboarding \/ Die
  \/ \E on \in DemoSet : Adopt(on) \/ \E kind \in RealKinds[on] : HangOn(on, kind)
  \/ \E h \in Handlers :
       \/ Seed(h) \/ InsertDemo(h) \/ SeedAnswered(h) \/ WipeDemo(h)
       \/ DeleteRollups(h) \/ InsertRollups(h) \/ CommitRollups(h) \/ RecomputeFails(h)
       \/ WriteStage(h) \/ StoreConfig(h) \/ StoreConnector(h) \/ DropConnector(h) \/ DropConfig(h)
       \/ \E to \in {"welcome", "setup", "done"} : SetStage(h, to)
       \/ \E v \in LinkedVendors : Connect(h, v) \/ Disconnect(h, v)

\* A connected instance is real: no demo row is left, unless a seed was under
\* way with the connect, or real rows hang on it (connect.ts:82-83: "never mixes demo with real").
NoMix ==
  connectors # {} /\ ~mixed =>
    /\ ~marker /\ ~demoFacts
    /\ \A on \in demoRows : on \in adopted \/ \E r \in hanging : r.on = on

\* The wipe takes no fact, key, entry or tag that is real: what hangs on a demo
\* person or product, or was listed by an import, keeps it (demo.ts: "keeping
\* any person or product that real rows reference by now").
WipeKeepsReal == [][\A r \in hanging \ hanging' : r.kind \notin Keeping]_lifeVars

\* Once nobody is at work the rollups count the demo facts exactly when they are
\* there, and no facts of a dataset that was wiped, also when a wipe comes while
\* the seed recomputes: unless the process died, a recompute failed, or two of
\* them had rows deleted at once.
RollupsFollow ==
  (\A h \in Handlers : handler[h] = Resting) /\ deaths = 0 /\ ~failed /\ ~tangled =>
    counted = IF demoFacts THEN {dataset} ELSE {}

\* A connected vendor has credentials, unless a connect and a disconnect crossed.
ConnectedHasConfig == clashed \/ connectors \subseteq configs

\* The popup never comes back once answered (onboarding.ts:30).
PopupStays == [][stage # "unclaimed" /\ stage' = "welcome" => stage = "welcome"]_lifeVars

\* Without the ways out; each fails: a row of a kind that does not keep it
\* goes with a demo person; a seed and a connect cross; two answers cross.
NothingRealGoes == [][hanging \subseteq hanging']_lifeVars
NeverMixed == ~(connectors # {} /\ demoFacts)
ForwardOnly == [][~(stage = "done" /\ stage' = "setup")]_lifeVars
\* and the recomputes of a seed and of the wipe cross: what the first read stays
WipedIsNotCounted ==
  (\A h \in Handlers : handler[h] = Resting) /\ deaths = 0 /\ ~failed /\ ~demoFacts => counted = {}
=============================================================================
