--------------------------- MODULE Operations_proofs ---------------------------
(***************************************************************************)
(* Proofs about the parts that MCOperations runs, for every value of the   *)
(* constants. Each part is proved on its own, from its initial states and  *)
(* its steps; a behavior of MCOperations is a behavior of every part, of   *)
(* which all but one stand still. The last part is Offboard, which has a   *)
(* run of its own.                                                         *)
(***************************************************************************)
EXTENDS
  MCOperations, Offboard, FiniteSetTheorems, SequenceTheorems, WellFoundedInduction, TLAPS

LEMMA StepOfEach ==
  ASSUME [Next]_vars
  PROVE  /\ [MigrateNext]_migrateVars
         /\ [LifeNext]_lifeVars
         /\ [AccessNext]_accessVars
         /\ [LimitNext]_limitVars
         /\ [SurvivalNext]_survivalVars
         /\ [FxNext]_fxVars
         /\ [AlertsNext]_alertVars
         /\ [ReportsNext]_reportVars
         /\ [(FxNext /\ UNCHANGED settingVars) \/ (SettingsNext /\ UNCHANGED fxVars)]_<<fxVars, settingVars>>
<1>1. CASE UNCHANGED vars
  BY <1>1 DEF vars, migrateVars, lifeVars, accessVars, limitVars, survivalVars, fxVars,
              settingVars, alertVars, reportVars
<1>2. CASE Next
  BY <1>2 DEF Next
<1>3. QED BY <1>1, <1>2

(***************************************************************************)
(* Migrations.                                                              *)
(***************************************************************************)
LEMMA LeastNat ==
  ASSUME NEW T, T \subseteq Nat, T # {}
  PROVE  \E m \in T : \A n \in T : m <= n
<1>1. PICK rel : rel = OpToRel(<, Nat)
  BY Zenon
<1>2. IsWellFoundedOn(rel, Nat)
  BY <1>1, NatLessThanWellFounded, Zenon
<1>3. PICK m \in T : \A y \in T : ~(<<y, m>> \in rel)
  BY <1>2, WFMin
<1>4. rel = {ss \in Nat \X Nat : ss[1] < ss[2]}
  BY <1>1 DEF OpToRel
<1>5. \A y \in T : ~(y < m)
  BY <1>3, <1>4
<1>6. QED BY <1>5

LEMMA MinIs ==
  ASSUME NEW T, T \subseteq Nat, T # {}
  PROVE  Min(T) \in T /\ \A n \in T : Min(T) <= n
BY LeastNat DEF Min

Place == {"connecting", "creating", "inserting", "locking", "applying", "serving", "failed", "gaveUp"}
MigrateTyped ==
  /\ boot \in [Boots -> [at : Place, done : SUBSET Nat]]
  /\ held \in Boots \cup {NoBoot}
  /\ schema \subseteq Nat /\ applied \subseteq Nat

\* Who applies files holds the lock, and what it takes for applied is.
LockedIsFresh ==
  \A b \in Boots : boot[b].at = "applying" => held = b /\ boot[b].done = applied

MigrateIInv == MigrateTyped /\ LockedIsFresh /\ ServesMigrated /\ NoNeedlessFailure

LEMMA MigrateStarts == MigrateInit => MigrateIInv
<1> SUFFICES ASSUME MigrateInit PROVE MigrateIInv
  OBVIOUS
<1>1. \A b \in Boots : boot[b].at = "connecting"
  BY DEF MigrateInit, NewBoot
<1>2. MigrateTyped
  BY DEF MigrateInit, NewBoot, MigrateTyped, Place
<1>3. LockedIsFresh /\ NoNeedlessFailure
  BY <1>1 DEF LockedIsFresh, NoNeedlessFailure
<1>4. ServesMigrated
  BY <1>1 DEF ServesMigrated, MigrateInit
<1>5. QED BY <1>2, <1>3, <1>4 DEF MigrateIInv

\* A boot that goes to a place where nothing is promised of it.
LEMMA MovedOn ==
  ASSUME MigrateIInv, NEW b \in Boots, NEW place \in Place,
         GoesTo(b, place), place \notin {"applying", "serving"},
         place = "failed" => b \in collided',
         collided \subseteq collided', UNCHANGED <<schema, applied, held>>
  PROVE  MigrateIInv'
<1>1. /\ MigrateTyped'
      /\ boot'[b].at = place
      /\ \A c \in Boots \ {b} : boot'[c] = boot[c]
  BY DEF MigrateIInv, MigrateTyped, GoesTo, Place
<1>2. LockedIsFresh'
  BY <1>1 DEF MigrateIInv, LockedIsFresh
<1>3. ServesMigrated'
  BY <1>1 DEF MigrateIInv, ServesMigrated
<1>4. NoNeedlessFailure'
  BY <1>1 DEF MigrateIInv, NoNeedlessFailure
<1>5. QED BY <1>1, <1>2, <1>3, <1>4 DEF MigrateIInv

LEMMA ApplyFileSafe ==
  ASSUME MigrateIInv, NEW b \in Boots, ApplyFile(b)
  PROVE  MigrateIInv'
<1>1. /\ boot[b].at = "applying" /\ held = b /\ boot[b].done = applied
      /\ schema = applied
      /\ \A c \in Boots \ {b} : boot[c].at # "applying"
  BY DEF ApplyFile, MigrateIInv, LockedIsFresh, ServesMigrated
<1>2. PICK f : f = Min(Pending(b))
  OBVIOUS
<1>3. Pending(b) \subseteq Nat /\ Pending(b) # {}
  BY MigrateAssumption DEF Pending, ApplyFile
<1>4. f \in Pending(b) /\ \A g \in Pending(b) : f <= g
  BY <1>2, <1>3, MinIs
<1>5. f \in FilesOf[b] /\ f \notin schema /\ f \in Nat
  BY <1>1, <1>3, <1>4 DEF Pending
<1>c. collided' = collided
  BY DEF ApplyFile
<1>6. CASE f \in Broken
  <2>1. GoesTo(b, "failed") /\ held' = NoBoot /\ UNCHANGED <<schema, applied>>
    BY <1>1, <1>2, <1>6 DEF ApplyFile, Unlock
  <2>2. /\ MigrateTyped'
        /\ boot'[b].at = "failed"
        /\ \A c \in Boots \ {b} : boot'[c] = boot[c]
    BY <2>1 DEF MigrateIInv, MigrateTyped, GoesTo, Place
  <2>3. LockedIsFresh'
    BY <1>1, <2>2 DEF LockedIsFresh
  <2>4. ServesMigrated'
    BY <2>1, <2>2 DEF MigrateIInv, ServesMigrated
  <2>5. NoNeedlessFailure'
    BY <1>5, <1>6, <1>c, <2>2 DEF MigrateIInv, NoNeedlessFailure
  <2>6. QED BY <2>2, <2>3, <2>4, <2>5 DEF MigrateIInv
<1>7. CASE f \notin Broken
  <2>1. /\ schema' = schema \cup {f} /\ applied' = applied \cup {f}
        /\ boot' = [boot EXCEPT ![b].done = @ \cup {f}]
        /\ held' = held
    BY <1>2, <1>5, <1>7 DEF ApplyFile
  <2>2. /\ MigrateTyped'
        /\ boot'[b].at = "applying" /\ boot'[b].done = applied'
        /\ \A c \in Boots \ {b} : boot'[c] = boot[c]
    BY <1>1, <1>5, <2>1 DEF MigrateIInv, MigrateTyped, Place
  <2>3. LockedIsFresh'
    BY <1>1, <2>1, <2>2 DEF LockedIsFresh
  <2>4. \A g \in FilesOf[b] : g < f => g \in schema
    <3>1. SUFFICES ASSUME NEW g \in FilesOf[b], g < f, g \notin schema PROVE FALSE
      OBVIOUS
    <3>2. g \in Pending(b)
      BY <1>1, <3>1 DEF Pending
    <3>3. g \in Nat /\ f <= g
      BY <1>3, <1>4, <3>2
    <3>4. QED BY <1>5, <3>1, <3>3
  <2>5. ASSUME NEW h \in schema'
        PROVE  \E c \in Boots : h \in FilesOf[c] /\ \A g \in FilesOf[c] : g < h => g \in schema'
    <3>1. CASE h = f
      BY <1>5, <2>1, <2>4, <3>1
    <3>2. CASE h \in schema
      BY <2>1, <3>2 DEF MigrateIInv, ServesMigrated
    <3>3. QED BY <2>1, <3>1, <3>2
  <2>6. ServesMigrated'
    <3>1. schema' = applied'
      BY <1>1, <2>1
    <3>2. \A c \in Boots : boot'[c].at = "serving" => FilesOf[c] \subseteq schema'
      BY <2>1, <2>2 DEF MigrateIInv, ServesMigrated
    <3>3. QED BY <2>5, <3>1, <3>2 DEF ServesMigrated
  <2>7. NoNeedlessFailure'
    BY <1>c, <2>2 DEF MigrateIInv, NoNeedlessFailure
  <2>8. QED BY <2>2, <2>3, <2>6, <2>7 DEF MigrateIInv
<1>8. QED BY <1>6, <1>7

LEMMA MigrateSteps == MigrateIInv /\ [MigrateNext]_migrateVars => MigrateIInv'
<1> SUFFICES ASSUME MigrateIInv, [MigrateNext]_migrateVars PROVE MigrateIInv'
  OBVIOUS
<1>1. CASE UNCHANGED migrateVars \/ ServerStarts
  <2>1. UNCHANGED <<schema, applied, held, boot, collided>>
    BY <1>1 DEF migrateVars, ServerStarts
  <2>2. QED BY <2>1 DEF MigrateIInv, MigrateTyped, LockedIsFresh, ServesMigrated, NoNeedlessFailure
<1>2. ASSUME NEW b \in Boots, connectToDatabase(b)
      PROVE  MigrateIInv'
  <2>1. PICK place \in {"gaveUp", "creating", "locking"} : GoesTo(b, place)
    BY <1>2 DEF connectToDatabase
  <2>2. UNCHANGED <<schema, applied, held, collided>>
    BY <1>2 DEF connectToDatabase
  <2>3. QED BY <2>1, <2>2, MovedOn DEF Place
<1>3. ASSUME NEW b \in Boots, createTargetDatabase(b)
      PROVE  MigrateIInv'
  <2>1. PICK place \in {"connecting", "inserting"} : GoesTo(b, place)
    BY <1>3 DEF createTargetDatabase
  <2>2. UNCHANGED <<schema, applied, held, collided>>
    BY <1>3 DEF createTargetDatabase
  <2>3. QED BY <2>1, <2>2, MovedOn DEF Place
<1>i. ASSUME NEW b \in Boots, InsertDatabase(b)
      PROVE  MigrateIInv'
  <2>1. UNCHANGED <<schema, applied, held>> /\ collided \subseteq collided'
    BY <1>i DEF InsertDatabase
  <2>2. PICK place \in {"connecting", "failed"} :
          GoesTo(b, place) /\ (place = "failed" => b \in collided')
    BY <1>i DEF InsertDatabase
  <2>3. QED BY <2>1, <2>2, MovedOn DEF Place
<1>4. ASSUME NEW b \in Boots, ReadDone(b)
      PROVE  MigrateIInv'
  <2>1. /\ held = NoBoot /\ held' = b /\ UNCHANGED <<schema, applied, collided>>
        /\ boot' = [boot EXCEPT ![b] = [at |-> "applying", done |-> applied]]
    BY <1>4 DEF ReadDone, TakeLock
  <2>2. /\ MigrateTyped'
        /\ boot'[b].at = "applying" /\ boot'[b].done = applied'
        /\ \A c \in Boots \ {b} : boot'[c] = boot[c]
    BY <2>1 DEF MigrateIInv, MigrateTyped, Place
  <2>3. LockedIsFresh'
    BY <2>1, <2>2, MigrateAssumption DEF MigrateIInv, LockedIsFresh
  <2>4. ServesMigrated'
    BY <2>1, <2>2 DEF MigrateIInv, ServesMigrated
  <2>5. NoNeedlessFailure'
    BY <2>1, <2>2 DEF MigrateIInv, NoNeedlessFailure
  <2>6. QED BY <2>2, <2>3, <2>4, <2>5 DEF MigrateIInv
<1>5. ASSUME NEW b \in Boots, UpToDate(b)
      PROVE  MigrateIInv'
  <2>1. /\ boot[b].at = "applying" /\ held = b /\ boot[b].done = applied
        /\ \A c \in Boots \ {b} : boot[c].at # "applying"
    BY <1>5 DEF UpToDate, MigrateIInv, LockedIsFresh
  <2>2. GoesTo(b, "serving") /\ held' = NoBoot /\ UNCHANGED <<schema, applied, collided>>
    BY <1>5, <2>1 DEF UpToDate, Unlock
  <2>3. /\ MigrateTyped'
        /\ boot'[b].at = "serving"
        /\ \A c \in Boots \ {b} : boot'[c] = boot[c]
    BY <2>2 DEF MigrateIInv, MigrateTyped, GoesTo, Place
  <2>4. LockedIsFresh'
    BY <2>1, <2>3 DEF LockedIsFresh
  <2>5. FilesOf[b] \subseteq schema
    BY <1>5, <2>1 DEF UpToDate, Pending, MigrateIInv, ServesMigrated
  <2>6. ServesMigrated'
    BY <2>2, <2>3, <2>5 DEF MigrateIInv, ServesMigrated
  <2>7. NoNeedlessFailure'
    BY <2>2, <2>3 DEF MigrateIInv, NoNeedlessFailure
  <2>8. QED BY <2>3, <2>4, <2>6, <2>7 DEF MigrateIInv
<1>6. ASSUME NEW b \in Boots, RestartBoot(b)
      PROVE  MigrateIInv'
  <2>1. /\ boot' = [boot EXCEPT ![b] = NewBoot] /\ UNCHANGED <<schema, applied>>
        /\ held' \in Boots \cup {NoBoot} /\ (held # b => held' = held)
        /\ collided' = collided \ {b}
    BY <1>6 DEF RestartBoot, Unlock, MigrateIInv, MigrateTyped
  <2>2. /\ MigrateTyped'
        /\ boot'[b].at = "connecting"
        /\ \A c \in Boots \ {b} : boot'[c] = boot[c]
    BY <2>1 DEF MigrateIInv, MigrateTyped, NewBoot, Place
  <2>3. LockedIsFresh'
    BY <2>1, <2>2 DEF MigrateIInv, LockedIsFresh
  <2>4. ServesMigrated'
    BY <2>1, <2>2 DEF MigrateIInv, ServesMigrated
  <2>5. NoNeedlessFailure'
    BY <2>1, <2>2 DEF MigrateIInv, NoNeedlessFailure
  <2>6. QED BY <2>2, <2>3, <2>4, <2>5 DEF MigrateIInv
<1>7. QED BY <1>1, <1>2, <1>3, <1>4, <1>5, <1>6, <1>i, ApplyFileSafe DEF MigrateNext, BootStep

(***************************************************************************)
(* The first days of an instance.                                           *)
(***************************************************************************)
Busy(h, ops) == handler[h] # Resting /\ handler[h].op \in ops

LifeTyped ==
  /\ handler \in [Handlers -> Handling \cup {Resting}] /\ deaths \in Nat
  /\ dataset \in Nat /\ counted \subseteq Nat

\* Without the marker there is no demo dataset: what is left of it is real.
Unmarked ==
  ~marker => /\ ~demoFacts
             /\ \A on \in demoRows : on \in adopted \/ \E r \in hanging : r.on = on

\* Unless a seed and a connect were under way at once, a seed finds no connector
\* and a connect that is past its wipe no demo dataset.
Apart ==
  ~mixed =>
    /\ marker => /\ connectors = {}
                 /\ \A h \in Handlers : Busy(h, {"connect"}) => handler[h].at = "wipe"
    /\ \A g, h \in Handlers : ~(Busy(g, {"seed"}) /\ Busy(h, {"connect"}))
    /\ \A h \in Handlers : Busy(h, {"seed"}) => connectors = {}

\* Who has changed the demo facts is about to recompute, or to read them, or has
\* read what they are now, unless the process died or a recompute failed; and
\* while recomputes do not cross, one at a time has the rollup rows deleted.
Right(s) == s = IF demoFacts THEN {dataset} ELSE {}
Among(h, places) == handler[h] # Resting /\ handler[h].at \in places
Recounts == {"recompute", "rebuild", "commit"}
Straight == deaths = 0 /\ ~failed /\ ~tangled

OneRebuilds ==
  /\ \A g, h \in Handlers : Among(g, {"rebuild", "commit"}) /\ Among(h, {"rebuild", "commit"}) => g = h
  /\ \A h \in Handlers : Among(h, {"rebuild", "commit"}) => handler[h].drops = counted

FactsFollow ==
  \/ \E h \in Handlers : Among(h, {"recompute", "rebuild"})
  \/ \E h \in Handlers : Among(h, {"commit"}) /\ Right(handler[h].adds)
  \/ Right(counted) /\ \A h \in Handlers : ~Among(h, {"commit"})

Recounted == Straight => OneRebuilds /\ FactsFollow

\* Unless a connect and a disconnect crossed, there is one of them at most, and
\* the credentials come before the row and go after it.
InOrder ==
  ~clashed =>
    /\ connectors \subseteq configs
    /\ \A g, h \in Handlers :
         Busy(g, {"connect", "disconnect"}) /\ Busy(h, {"connect", "disconnect"}) => g = h
    /\ \A h \in Handlers : Doing(h, "connect", "row") => handler[h].what \in configs
    /\ \A h \in Handlers : Doing(h, "disconnect", "config") => handler[h].what \notin connectors

\* No request is about to write the first stage.
Onward == \A h \in Handlers : Busy(h, {"seed", "patch"}) => handler[h].what # "welcome"

OnRows == \A r \in hanging : r.on \in demoRows

LifeIInv == LifeTyped /\ Unmarked /\ Apart /\ Recounted /\ InOrder /\ Onward /\ OnRows

\* What a request is when it comes in.
Request(op, at, what) == [op |-> op, at |-> at, what |-> what, drops |-> {}, adds |-> {}]

LEMMA LifeStarts == LifeInit => LifeIInv
<1> SUFFICES ASSUME LifeInit PROVE LifeIInv
  OBVIOUS
<1>1. \A h \in Handlers : handler[h] = Resting
  BY DEF LifeInit
<1>2. LifeTyped
  BY DEF LifeInit, LifeTyped
<1>3. Unmarked /\ OnRows
  BY DEF LifeInit, Unmarked, OnRows
<1>r. Recounted
  BY <1>1 DEF LifeInit, Recounted, OneRebuilds, FactsFollow, Right, Among
<1>4. Apart /\ InOrder /\ Onward
  BY <1>1 DEF LifeInit, Apart, InOrder, Onward, Busy, Doing
<1>5. QED BY <1>2, <1>3, <1>r, <1>4 DEF LifeIInv

\* How a request moves: it opens, goes on, or is over.
LEMMA Opened ==
  ASSUME LifeTyped, NEW h \in Handlers, NEW op, NEW at, NEW what,
         Request(op, at, what) \in Handling, Opens(h, op, at, what)
  PROVE  /\ LifeTyped'
         /\ handler[h] = Resting /\ handler'[h] # Resting
         /\ handler'[h].op = op /\ handler'[h].at = at /\ handler'[h].what = what
         /\ \A g \in Handlers \ {h} : handler'[g] = handler[g]
<1>1. PICK rec : rec = Request(op, at, what)
  OBVIOUS
<1>2. rec \in Handling /\ rec # Resting /\ rec.op = op /\ rec.at = at /\ rec.what = what
  BY <1>1, RestingAssumption DEF Request
<1>3. handler[h] = Resting /\ handler' = [handler EXCEPT ![h] = rec]
      /\ UNCHANGED <<deaths, dataset, counted>>
  BY <1>1 DEF Opens, Request, demoVars
<1>4. QED BY <1>2, <1>3 DEF LifeTyped

LEMMA WentOn ==
  ASSUME LifeTyped, NEW h \in Handlers, NEW at,
         at \in {"write", "insert", "recompute", "answer", "wipe", "config", "row"},
         handler[h] # Resting, GoOn(h, at), deaths' = deaths,
         dataset' \in Nat, counted' \subseteq Nat
  PROVE  /\ LifeTyped'
         /\ handler'[h] # Resting
         /\ handler'[h].op = handler[h].op /\ handler'[h].at = at /\ handler'[h].what = handler[h].what
         /\ \A g \in Handlers \ {h} : handler'[g] = handler[g]
<1>1. handler[h] \in Handling
  BY DEF LifeTyped
<1>2. PICK rec : rec = [handler[h] EXCEPT !.at = at]
  OBVIOUS
<1>3. rec \in Handling /\ rec.op = handler[h].op /\ rec.at = at /\ rec.what = handler[h].what
  BY <1>1, <1>2 DEF Handling
<1>4. rec # Resting
  BY <1>3, RestingAssumption
<1>5. handler' = [handler EXCEPT ![h] = rec]
  BY <1>2 DEF GoOn
<1>6. QED BY <1>3, <1>4, <1>5 DEF LifeTyped

LEMMA IsOver ==
  ASSUME LifeTyped, NEW h \in Handlers, Finish(h), UNCHANGED <<deaths, dataset, counted>>
  PROVE  /\ LifeTyped'
         /\ handler'[h] = Resting
         /\ \A g \in Handlers \ {h} : handler'[g] = handler[g]
BY DEF LifeTyped, Finish

\* A request that neither is at its recompute nor comes to it leaves the rollups
\* to the others.
LEMMA RecountedKept ==
  ASSUME Recounted, NEW h \in Handlers, ~Among(h, Recounts), ~Among(h, Recounts)',
         \A g \in Handlers \ {h} : handler'[g] = handler[g],
         UNCHANGED <<demoFacts, dataset, counted, deaths, tangled, failed>>
  PROVE  Recounted'
<1>1. \A g \in Handlers, places \in SUBSET Recounts :
        Among(g, places)' <=> Among(g, places) /\ g # h
  BY DEF Among, Recounts
<1>2. {"rebuild", "commit"} \in SUBSET Recounts /\ {"recompute", "rebuild"} \in SUBSET Recounts
      /\ {"commit"} \in SUBSET Recounts
  BY DEF Recounts
<1>3. \A places \in SUBSET Recounts : ~Among(h, places)
  BY DEF Among
<1>4. OneRebuilds => OneRebuilds'
  BY <1>1, <1>2 DEF OneRebuilds
<1>5. FactsFollow => FactsFollow'
  <2>1. ASSUME NEW g \in Handlers, Among(g, {"recompute", "rebuild"})
        PROVE  Among(g, {"recompute", "rebuild"})'
    BY <1>1, <1>2, <1>3, <2>1
  <2>2. ASSUME NEW g \in Handlers, Among(g, {"commit"}), Right(handler[g].adds)
        PROVE  Among(g, {"commit"})' /\ Right(handler[g].adds)'
    BY <1>1, <1>2, <1>3, <2>2 DEF Right
  <2>3. Right(counted) => Right(counted)'
    BY DEF Right
  <2>4. QED BY <1>1, <1>2, <2>1, <2>2, <2>3 DEF FactsFollow
<1>6. QED BY <1>4, <1>5 DEF Recounted, Straight

\* Who is about to recompute sees to what has changed.
LEMMA RecountedBegins ==
  ASSUME Recounted, NEW h \in Handlers, ~Among(h, Recounts), Among(h, {"recompute"})',
         \A g \in Handlers \ {h} : handler'[g] = handler[g],
         UNCHANGED <<counted, deaths, tangled, failed>>
  PROVE  Recounted'
<1>1. \A g \in Handlers : Among(g, {"rebuild", "commit"})' => Among(g, {"rebuild", "commit"}) /\ g # h
  BY DEF Among, Recounts
<1>2. OneRebuilds => OneRebuilds'
  BY <1>1 DEF OneRebuilds
<1>3. FactsFollow'
  BY DEF FactsFollow, Among
<1>4. QED BY <1>2, <1>3 DEF Recounted, Straight

\* A request that opens leaves everything else alone.
LEMMA OpensSafe ==
  ASSUME LifeIInv, NEW h \in Handlers, NEW op, NEW at, NEW what,
         Request(op, at, what) \in Handling, Opens(h, op, at, what),
         op = "seed" => ~marker /\ connectors = {}, at \notin Recounts,
         op = "connect" => at = "wipe", op = "disconnect" => at = "row",
         op \in {"seed", "patch"} => what # "welcome"
  PROVE  LifeIInv'
<1>1. /\ LifeTyped'
      /\ handler[h] = Resting /\ handler'[h] # Resting
      /\ handler'[h].op = op /\ handler'[h].at = at /\ handler'[h].what = what
      /\ \A g \in Handlers \ {h} : handler'[g] = handler[g]
  BY Opened DEF LifeIInv
<1>2. /\ UNCHANGED <<marker, demoFacts, demoRows, adopted, hanging, dataset, counted, connectors, configs, deaths>>
      /\ UNCHANGED <<tangled, failed>>
      /\ mixed' = (mixed \/ (op = "seed" /\ Others(h, {"connect"})) \/ (op = "connect" /\ Others(h, {"seed"})))
      /\ clashed' = (clashed \/ (op \in {"connect", "disconnect"} /\ Others(h, {"connect", "disconnect"})))
  BY DEF Opens, demoVars, vendorVars
<1>3. Unmarked' /\ OnRows'
  BY <1>2 DEF LifeIInv, Unmarked, OnRows
<1>4. ASSUME ~mixed'
      PROVE  /\ ~mixed /\ ~(op = "seed" /\ Others(h, {"connect"}))
             /\ ~(op = "connect" /\ Others(h, {"seed"}))
  BY <1>2, <1>4
<1>5. Apart'
  BY <1>1, <1>2, <1>4 DEF LifeIInv, Apart, Busy, Others
<1>6. Recounted'
  <2>1. ~Among(h, Recounts) /\ ~Among(h, Recounts)'
    BY <1>1 DEF Among
  <2>2. QED BY <1>1, <1>2, <2>1, RecountedKept DEF LifeIInv
<1>7. ASSUME ~clashed'
      PROVE  ~clashed /\ ~(op \in {"connect", "disconnect"} /\ Others(h, {"connect", "disconnect"}))
  BY <1>2, <1>7
<1>8. InOrder'
  BY <1>1, <1>2, <1>7 DEF LifeIInv, InOrder, Busy, Doing, Others
<1>9. Onward'
  BY <1>1 DEF LifeIInv, Onward, Busy
<1>10. QED BY <1>1, <1>3, <1>5, <1>6, <1>8, <1>9 DEF LifeIInv

LEMMA InsertDemoSafe ==
  ASSUME LifeIInv, NEW h \in Handlers, Doing(h, "seed", "insert"), ~marker, demoRows = {},
         InsertRows, InsertFacts, InsertMarker, GoOn(h, "recompute"),
         UNCHANGED <<adopted, hanging, counted, vendorVars, stage, requests, deaths, lifeGhosts>>
  PROVE  LifeIInv'
<1>1. /\ LifeTyped'
      /\ handler[h] # Resting /\ handler'[h] # Resting
      /\ handler[h].op = "seed" /\ handler'[h].op = "seed"
      /\ handler'[h].at = "recompute" /\ handler'[h].what = handler[h].what
      /\ \A g \in Handlers \ {h} : handler'[g] = handler[g]
  <2>1. dataset' \in Nat /\ counted' \subseteq Nat
    BY DEF LifeIInv, LifeTyped, InsertFacts
  <2>2. QED BY <2>1, WentOn DEF LifeIInv, Doing
<1>2. UNCHANGED <<connectors, configs, counted, deaths, mixed, clashed, tangled, failed, hanging>> /\ marker'
  BY DEF vendorVars, InsertMarker, lifeGhosts
<1>3. Unmarked'
  BY <1>2 DEF Unmarked
<1>4. hanging = {}
  BY DEF LifeIInv, OnRows
<1>5. OnRows'
  BY <1>2, <1>4 DEF OnRows
<1>6. Apart'
  <2>1. SUFFICES ASSUME ~mixed PROVE Apart'
    BY <1>2 DEF Apart
  <2>2. connectors = {} /\ \A g \in Handlers : ~Busy(g, {"connect"})
    BY <1>1, <2>1 DEF LifeIInv, Apart, Busy
  <2>3. connectors' = {} /\ \A g \in Handlers : ~Busy(g, {"connect"})'
    BY <1>1, <1>2, <2>2 DEF Busy
  <2>4. QED BY <2>3 DEF Apart
<1>7. Recounted'
  <2>1. ~Among(h, Recounts) /\ Among(h, {"recompute"})'
    BY <1>1 DEF Among, Doing, Recounts
  <2>2. QED BY <1>1, <1>2, <2>1, RecountedBegins DEF LifeIInv
<1>8. InOrder'
  BY <1>1, <1>2 DEF LifeIInv, InOrder, Busy, Doing
<1>9. Onward'
  BY <1>1 DEF LifeIInv, Onward, Busy
<1>10. QED BY <1>1, <1>3, <1>5, <1>6, <1>7, <1>8, <1>9 DEF LifeIInv

\* A request that is over, or goes on, and has changed nothing that is stored.
LEMMA AnsweredSafe ==
  ASSUME LifeIInv, NEW h \in Handlers, handler[h] # Resting,
         handler[h].at \notin Recounts,
         UNCHANGED <<marker, demoFacts, demoRows, adopted, hanging, dataset, counted, connectors, configs>>,
         UNCHANGED <<deaths, mixed, clashed, tangled, failed>>,
         \/ Finish(h)
         \/ /\ handler[h].op = "seed"
            /\ GoOn(h, "answer") \/ GoOn(h, "write")
         \/ /\ handler[h].op = "connect" /\ ~marker
            /\ GoOn(h, "config")
  PROVE  LifeIInv'
<1>1. /\ LifeTyped'
      /\ \/ handler'[h] = Resting
         \/ /\ handler'[h] # Resting
            /\ handler'[h].op = handler[h].op /\ handler'[h].what = handler[h].what
            /\ \/ handler[h].op = "seed" /\ handler'[h].at \in {"answer", "write"}
               \/ handler[h].op = "connect" /\ ~marker /\ handler'[h].at = "config"
      /\ \A g \in Handlers \ {h} : handler'[g] = handler[g]
  <2> dataset' \in Nat /\ counted' \subseteq Nat
    BY DEF LifeIInv, LifeTyped
  <2>1. CASE Finish(h)
    BY <2>1, IsOver DEF LifeIInv
  <2>2. CASE handler[h].op = "seed" /\ (GoOn(h, "answer") \/ GoOn(h, "write"))
    BY <2>2, WentOn DEF LifeIInv
  <2>3. CASE handler[h].op = "connect" /\ ~marker /\ GoOn(h, "config")
    BY <2>3, WentOn DEF LifeIInv
  <2>4. QED BY <2>1, <2>2, <2>3
<1>2. Unmarked' /\ OnRows'
  BY DEF LifeIInv, Unmarked, OnRows
<1>3. Apart'
  BY <1>1 DEF LifeIInv, Apart, Busy
<1>4. Recounted'
  <2>1. ~Among(h, Recounts) /\ ~Among(h, Recounts)'
    BY <1>1 DEF Among, Recounts
  <2>2. QED BY <1>1, <2>1, RecountedKept DEF LifeIInv
<1>5. InOrder'
  BY <1>1 DEF LifeIInv, InOrder, Busy, Doing
<1>6. Onward'
  BY <1>1 DEF LifeIInv, Onward, Busy
<1>7. QED BY <1>1, <1>2, <1>3, <1>4, <1>5, <1>6 DEF LifeIInv

\* What is left after a wipe is what real rows hang on, or an import has listed.
LEMMA WipedSafe ==
  ASSUME LifeIInv, NEW h \in Handlers, Doing(h, "connect", "wipe"), GoOn(h, "recompute"),
         marker' = FALSE, demoFacts' = FALSE,
         demoRows' = demoRows \cap Claimed, adopted' = adopted \cap Claimed,
         hanging' = {r \in hanging : r.on \in Claimed /\ r.kind # "seat"},
         UNCHANGED <<dataset, counted, vendorVars, stage, requests, deaths, lifeGhosts>>
  PROVE  LifeIInv'
<1>1. /\ LifeTyped'
      /\ handler[h] # Resting /\ handler'[h] # Resting
      /\ handler[h].op = "connect" /\ handler'[h].op = "connect"
      /\ handler'[h].at = "recompute" /\ handler'[h].what = handler[h].what
      /\ \A g \in Handlers \ {h} : handler'[g] = handler[g]
  <2>1. dataset' \in Nat /\ counted' \subseteq Nat
    BY DEF LifeIInv, LifeTyped
  <2>2. QED BY <2>1, WentOn DEF LifeIInv, Doing
<1>2. UNCHANGED <<connectors, configs, counted, deaths, mixed, clashed, tangled, failed>>
  BY DEF vendorVars, lifeGhosts
<1>3. ASSUME NEW on \in demoRows', on \notin adopted'
      PROVE  \E r \in hanging' : r.on = on
  <2>1. PICK r \in hanging : r.on = on /\ r.kind \in Keeping
    BY <1>3 DEF Claimed
  <2>2. r \in hanging'
    BY <1>3, <2>1 DEF Keeping
  <2>3. QED BY <2>1, <2>2
<1>4. Unmarked'
  BY <1>3 DEF Unmarked
<1>5. OnRows'
  BY DEF LifeIInv, OnRows
<1>6. Apart'
  BY <1>1, <1>2 DEF LifeIInv, Apart, Busy
<1>7. Recounted'
  <2>1. ~Among(h, Recounts) /\ Among(h, {"recompute"})'
    BY <1>1 DEF Among, Doing, Recounts
  <2>2. QED BY <1>1, <1>2, <2>1, RecountedBegins DEF LifeIInv
<1>8. InOrder'
  BY <1>1, <1>2 DEF LifeIInv, InOrder, Busy, Doing
<1>9. Onward'
  BY <1>1 DEF LifeIInv, Onward, Busy
<1>10. QED BY <1>1, <1>4, <1>5, <1>6, <1>7, <1>8, <1>9 DEF LifeIInv

\* The steps that store or drop credentials and rows of connectors.
LEMMA VendorStepSafe ==
  ASSUME LifeIInv, NEW h \in Handlers,
         StoreConfig(h) \/ StoreConnector(h) \/ DropConnector(h) \/ DropConfig(h)
  PROVE  LifeIInv'
<1>1. /\ UNCHANGED <<marker, demoFacts, demoRows, adopted, hanging, dataset, counted>>
      /\ UNCHANGED <<deaths, mixed, clashed, tangled, failed>>
      /\ handler[h] # Resting /\ handler[h].at \notin Recounts
      /\ handler[h].op \in {"connect", "disconnect"}
  BY DEF StoreConfig, StoreConnector, DropConnector, DropConfig, Doing, demoVars, lifeGhosts, Recounts
<1>2. /\ LifeTyped'
      /\ \/ handler'[h] = Resting
         \/ /\ handler'[h] # Resting /\ handler[h].at # "wipe" /\ handler'[h].at \in {"row", "config"}
            /\ handler'[h].op = handler[h].op /\ handler'[h].what = handler[h].what
      /\ \A g \in Handlers \ {h} : handler'[g] = handler[g]
  <2> dataset' \in Nat /\ counted' \subseteq Nat
    BY <1>1 DEF LifeIInv, LifeTyped
  <2>1. CASE StoreConfig(h)
    BY <2>1, <1>1, WentOn DEF LifeIInv, StoreConfig, Doing
  <2>2. CASE StoreConnector(h)
    BY <2>2, <1>1, IsOver DEF LifeIInv, StoreConnector
  <2>3. CASE DropConnector(h)
    BY <2>3, <1>1, WentOn DEF LifeIInv, DropConnector, Doing
  <2>4. CASE DropConfig(h)
    BY <2>4, <1>1, IsOver DEF LifeIInv, DropConfig
  <2>5. QED BY <2>1, <2>2, <2>3, <2>4
<1>3. Unmarked' /\ OnRows'
  BY <1>1 DEF LifeIInv, Unmarked, OnRows
<1>4. Recounted'
  <2>1. ~Among(h, Recounts) /\ ~Among(h, Recounts)'
    BY <1>1, <1>2 DEF Among, Recounts
  <2>2. QED BY <1>1, <1>2, <2>1, RecountedKept DEF LifeIInv
<1>5. Onward'
  BY <1>1, <1>2 DEF LifeIInv, Onward, Busy
<1>6. Apart'
  <2>1. CASE StoreConnector(h)
    <3>1. SUFFICES ASSUME ~mixed PROVE Apart'
      BY <1>1 DEF Apart
    <3>2. ~marker /\ \A g \in Handlers : ~Busy(g, {"seed"})
      BY <2>1, <3>1 DEF LifeIInv, Apart, Busy, StoreConnector, Doing
    <3>3. ~marker' /\ \A g \in Handlers : ~Busy(g, {"seed"})'
      BY <1>1, <1>2, <3>2 DEF Busy
    <3>4. QED BY <3>3 DEF Apart
  <2>2. CASE connectors' \subseteq connectors
    BY <1>1, <1>2, <2>2 DEF LifeIInv, Apart, Busy
  <2>3. QED BY <2>1, <2>2 DEF StoreConfig, DropConnector, DropConfig
<1>7. InOrder'
  <2>1. SUFFICES ASSUME ~clashed PROVE InOrder'
    BY <1>1 DEF InOrder
  <2>2. /\ connectors \subseteq configs
        /\ \A g \in Handlers \ {h} : ~Busy(g, {"connect", "disconnect"})
        /\ Doing(h, "connect", "row") => handler[h].what \in configs
        /\ Doing(h, "disconnect", "config") => handler[h].what \notin connectors
    BY <1>1, <2>1 DEF LifeIInv, InOrder, Busy
  <2>3. /\ \A g \in Handlers \ {h} : ~Busy(g, {"connect", "disconnect"})'
        /\ \A g \in Handlers \ {h} : ~Doing(g, "connect", "row")' /\ ~Doing(g, "disconnect", "config")'
    BY <1>2, <2>2 DEF Busy, Doing
  <2>4. /\ connectors' \subseteq configs'
        /\ Doing(h, "connect", "row")' => handler'[h].what \in configs'
        /\ Doing(h, "disconnect", "config")' => handler'[h].what \notin connectors'
    <3>1. CASE StoreConfig(h)
      BY <1>2, <2>2, <3>1 DEF StoreConfig, Doing
    <3>2. CASE StoreConnector(h)
      <4>1. handler'[h] = Resting
        BY <1>1, <3>2, IsOver DEF StoreConnector, LifeIInv
      <4>2. QED BY <2>2, <3>2, <4>1 DEF StoreConnector, Doing
    <3>3. CASE DropConnector(h)
      BY <1>2, <2>2, <3>3 DEF DropConnector, Doing
    <3>4. CASE DropConfig(h)
      <4>1. handler'[h] = Resting
        BY <1>1, <3>4, IsOver DEF DropConfig, LifeIInv
      <4>2. QED BY <2>2, <3>4, <4>1 DEF DropConfig, Doing
    <3>5. QED BY <3>1, <3>2, <3>3, <3>4
  <2>5. QED BY <2>3, <2>4 DEF InOrder
<1>8. QED BY <1>2, <1>3, <1>4, <1>5, <1>6, <1>7 DEF LifeIInv

(***************************************************************************)
(* The steps of a recompute.                                               *)
(***************************************************************************)
LEMMA RecomputeSafe ==
  ASSUME LifeIInv, LifeTyped', Recounted', NEW h \in Handlers, Among(h, Recounts),
         UNCHANGED <<marker, demoFacts, demoRows, adopted, hanging, connectors, configs>>,
         UNCHANGED <<deaths, mixed, clashed>>,
         \A g \in Handlers \ {h} : handler'[g] = handler[g],
         \/ handler'[h] = Resting
         \/ /\ handler[h].op \in {"seed", "connect"}
            /\ handler'[h].op = handler[h].op /\ handler'[h].what = handler[h].what
            /\ handler'[h].at \in {"rebuild", "commit", "answer", "config"}
  PROVE  LifeIInv'
<1>1. Unmarked' /\ OnRows'
  BY DEF LifeIInv, Unmarked, OnRows
<1>2. \A g \in Handlers : \A ops : Busy(g, ops)' => Busy(g, ops)
  BY DEF Busy, Among
<1>3. Apart'
  <2>1. marker /\ ~mixed => \A g \in Handlers : Busy(g, {"connect"}) => handler[g].at = "wipe" /\ g # h
    BY DEF LifeIInv, Apart, Among, Recounts
  <2>2. QED BY <1>2, <2>1 DEF LifeIInv, Apart
<1>4. InOrder'
  <2>1. \A g \in Handlers : Doing(g, "connect", "row")' => Doing(g, "connect", "row") /\ handler'[g] = handler[g]
    BY DEF Doing
  <2>2. \A g \in Handlers : Doing(g, "disconnect", "config")' => Doing(g, "disconnect", "config") /\ handler'[g] = handler[g]
    BY DEF Doing
  <2>3. QED BY <1>2, <2>1, <2>2 DEF LifeIInv, InOrder
<1>5. Onward'
  BY DEF LifeIInv, Onward, Busy, Among
<1>6. QED BY <1>1, <1>3, <1>4, <1>5 DEF LifeIInv

\* The request with what a recompute notes down.
LEMMA Notes ==
  ASSUME LifeTyped, NEW h \in Handlers, handler[h] # Resting, NEW rec \in Handling,
         handler' = [handler EXCEPT ![h] = rec], UNCHANGED <<deaths, dataset, counted>>
  PROVE  LifeTyped' /\ handler'[h] = rec /\ rec # Resting
         /\ \A g \in Handlers \ {h} : handler'[g] = handler[g]
BY RestingAssumption DEF LifeTyped

LEMMA DeleteRollupsSafe == ASSUME LifeIInv, NEW h \in Handlers, DeleteRollups(h) PROVE LifeIInv'
<1>t. LifeTyped
  BY DEF LifeIInv
<1>1. handler[h] # Resting /\ handler[h].at = "recompute" /\ handler[h].op \in {"seed", "connect"}
      /\ handler[h] \in Handling
  BY <1>t DEF DeleteRollups, Doing, LifeTyped
<1>2. PICK rec \in Handling : rec = [handler[h] EXCEPT !.at = "rebuild", !.drops = counted]
  BY <1>t, <1>1 DEF LifeTyped, Handling
<1>3. rec.op = handler[h].op /\ rec.what = handler[h].what /\ rec.at = "rebuild" /\ rec.drops = counted
  BY <1>1, <1>2 DEF Handling
<1>4. handler' = [handler EXCEPT ![h] = rec] /\ UNCHANGED <<deaths, dataset, counted>>
  BY <1>2 DEF DeleteRollups, demoVars
<1>5. LifeTyped' /\ handler'[h] = rec /\ rec # Resting
      /\ \A g \in Handlers \ {h} : handler'[g] = handler[g]
  BY <1>t, <1>1, <1>4, Notes
<1>6. tangled' = (tangled \/ \E g \in Handlers \ {h} : Among(g, {"rebuild", "commit"})) /\ failed' = failed
  BY DEF DeleteRollups, Among
<1>7. Recounted'
  <2>1. SUFFICES ASSUME Straight' PROVE OneRebuilds' /\ FactsFollow'
    BY DEF Recounted
  <2>2. \A g \in Handlers \ {h} : ~Among(g, {"rebuild", "commit"})
    BY <1>6, <2>1 DEF Straight
  <2>3. \A g \in Handlers \ {h} : ~Among(g, {"rebuild", "commit"})'
    BY <1>5, <2>2 DEF Among
  <2>4. OneRebuilds'
    BY <1>3, <1>4, <1>5, <2>3 DEF OneRebuilds
  <2>5. Among(h, {"recompute", "rebuild"})'
    BY <1>3, <1>5 DEF Among
  <2>6. QED BY <2>4, <2>5 DEF FactsFollow
<1>8. UNCHANGED <<marker, demoFacts, demoRows, adopted, hanging, connectors, configs>>
      /\ UNCHANGED <<mixed, clashed>>
  BY DEF DeleteRollups, demoVars, vendorVars
<1>9. Among(h, Recounts)
  BY <1>1 DEF Among, Recounts
<1>10. QED BY <1>1, <1>3, <1>4, <1>5, <1>7, <1>8, <1>9, RecomputeSafe

LEMMA InsertRollupsSafe == ASSUME LifeIInv, NEW h \in Handlers, InsertRollups(h) PROVE LifeIInv'
<1>t. LifeTyped
  BY DEF LifeIInv
<1>1. handler[h] # Resting /\ handler[h].at = "rebuild" /\ handler[h].op \in {"seed", "connect"}
      /\ handler[h] \in Handling
  BY <1>t DEF InsertRollups, Doing, LifeTyped
<1>f. PICK seen \in SUBSET Nat : seen = IF demoFacts THEN {dataset} ELSE {}
  BY <1>t DEF LifeTyped
<1>2. PICK rec \in Handling : rec = [handler[h] EXCEPT !.at = "commit", !.adds = seen]
  BY <1>1 DEF Handling
<1>3. rec.op = handler[h].op /\ rec.what = handler[h].what /\ rec.at = "commit" /\ rec.adds = seen
      /\ rec.drops = handler[h].drops
  BY <1>1, <1>2 DEF Handling
<1>4. handler' = [handler EXCEPT ![h] = rec]
      /\ UNCHANGED <<marker, demoFacts, demoRows, adopted, hanging, dataset, counted, connectors, configs>>
      /\ UNCHANGED <<deaths, mixed, clashed, tangled, failed>>
  BY <1>f, <1>2 DEF InsertRollups, demoVars, vendorVars, lifeGhosts
<1>5. LifeTyped' /\ handler'[h] = rec /\ rec # Resting
      /\ \A g \in Handlers \ {h} : handler'[g] = handler[g]
  BY <1>t, <1>1, <1>4, Notes
<1>7. Recounted'
  <2>1. SUFFICES ASSUME Straight' PROVE OneRebuilds' /\ FactsFollow'
    BY DEF Recounted
  <2>2. OneRebuilds /\ FactsFollow
    BY <1>4, <2>1 DEF LifeIInv, Recounted, Straight
  <2>3. \A g \in Handlers : Among(g, {"rebuild", "commit"})' <=> Among(g, {"rebuild", "commit"})
    BY <1>1, <1>3, <1>5 DEF Among
  <2>4. \A g \in Handlers : handler'[g].drops = handler[g].drops
    BY <1>3, <1>5
  <2>5. OneRebuilds'
    BY <1>4, <2>2, <2>3, <2>4 DEF OneRebuilds
  <2>6. Among(h, {"commit"})'
    BY <1>3, <1>5 DEF Among
  <2>7. Right(handler[h].adds)'
    BY <1>f, <1>3, <1>4, <1>5 DEF Right
  <2>8. QED BY <2>5, <2>6, <2>7 DEF FactsFollow
<1>9. Among(h, Recounts)
  BY <1>1 DEF Among, Recounts
<1>10. QED BY <1>1, <1>3, <1>4, <1>5, <1>7, <1>9, RecomputeSafe

LEMMA CommitRollupsSafe == ASSUME LifeIInv, NEW h \in Handlers, CommitRollups(h) PROVE LifeIInv'
<1>t. LifeTyped
  BY DEF LifeIInv
<1>1. handler[h] # Resting /\ handler[h].at = "commit" /\ handler[h].op \in {"seed", "connect"}
      /\ handler[h] \in Handling
  BY <1>t DEF CommitRollups, Doing, LifeTyped
<1>2. counted' = (counted \ handler[h].drops) \cup handler[h].adds
      /\ UNCHANGED <<marker, demoFacts, demoRows, adopted, hanging, dataset, connectors, configs>>
      /\ UNCHANGED <<deaths, mixed, clashed, tangled, failed>>
  BY DEF CommitRollups, vendorVars, lifeGhosts
<1>3. dataset' \in Nat /\ counted' \subseteq Nat
  BY <1>t, <1>1, <1>2 DEF LifeTyped, Handling
<1>4. PICK at \in {"answer", "config"} : GoOn(h, at)
  BY DEF CommitRollups
<1>5. /\ LifeTyped'
      /\ handler'[h] # Resting /\ handler'[h].at = at
      /\ handler'[h].op = handler[h].op /\ handler'[h].what = handler[h].what
      /\ \A g \in Handlers \ {h} : handler'[g] = handler[g]
  BY <1>t, <1>1, <1>2, <1>3, <1>4, WentOn
<1>6. Recounted'
  <2>1. SUFFICES ASSUME Straight' PROVE OneRebuilds' /\ FactsFollow'
    BY DEF Recounted
  <2>2. OneRebuilds /\ FactsFollow
    BY <1>2, <2>1 DEF LifeIInv, Recounted, Straight
  <2>3. Among(h, {"rebuild", "commit"}) /\ Among(h, {"commit"})
    BY <1>1 DEF Among
  <2>4. handler[h].drops = counted /\ \A g \in Handlers \ {h} : ~Among(g, {"rebuild", "commit"})
    BY <2>2, <2>3 DEF OneRebuilds
  <2>5. counted' = handler[h].adds
    BY <1>2, <2>4
  <2>6. \A g \in Handlers : ~Among(g, {"rebuild", "commit"})' /\ ~Among(g, {"commit"})'
    BY <1>5, <2>4 DEF Among
  <2>7. OneRebuilds'
    BY <2>6 DEF OneRebuilds
  <2>8. CASE \E g \in Handlers : Among(g, {"recompute", "rebuild"})
    <3>1. PICK g \in Handlers : Among(g, {"recompute", "rebuild"})
      BY <2>8
    <3>2. g # h
      BY <1>1, <3>1 DEF Among
    <3>3. Among(g, {"recompute", "rebuild"})'
      BY <1>5, <3>1, <3>2 DEF Among
    <3>4. QED BY <2>7, <3>3 DEF FactsFollow
  <2>9. CASE \E g \in Handlers : Among(g, {"commit"}) /\ Right(handler[g].adds)
    <3>1. PICK g \in Handlers : Among(g, {"commit"}) /\ Right(handler[g].adds)
      BY <2>9
    <3>2. Among(g, {"rebuild", "commit"})
      BY <3>1 DEF Among
    <3>3. Right(handler[h].adds)
      BY <2>4, <3>1, <3>2
    <3>4. Right(counted)'
      BY <1>2, <2>5, <3>3 DEF Right
    <3>5. QED BY <2>6, <2>7, <3>4 DEF FactsFollow
  <2>10. QED BY <2>2, <2>3, <2>8, <2>9 DEF FactsFollow
<1>7. Among(h, Recounts)
  BY <1>1 DEF Among, Recounts
<1>8. QED BY <1>1, <1>2, <1>5, <1>6, <1>7, RecomputeSafe

LEMMA RecomputeFailsSafe == ASSUME LifeIInv, NEW h \in Handlers, RecomputeFails(h) PROVE LifeIInv'
<1>1. Among(h, Recounts) /\ failed' /\ Finish(h)
      /\ UNCHANGED <<marker, demoFacts, demoRows, adopted, hanging, dataset, counted, connectors, configs>>
      /\ UNCHANGED <<deaths, mixed, clashed>>
  BY DEF RecomputeFails, Among, Recounts, demoVars, vendorVars
<1>2. LifeTyped' /\ handler'[h] = Resting /\ \A g \in Handlers \ {h} : handler'[g] = handler[g]
  BY <1>1, IsOver DEF LifeIInv
<1>3. Recounted'
  BY <1>1 DEF Recounted, Straight
<1>4. QED BY <1>1, <1>2, <1>3, RecomputeSafe

LEMMA LifeSteps == LifeIInv /\ [LifeNext]_lifeVars => LifeIInv'
<1> SUFFICES ASSUME LifeIInv, [LifeNext]_lifeVars PROVE LifeIInv'
  OBVIOUS
<1>1. CASE UNCHANGED lifeVars
  <2>1. UNCHANGED <<marker, demoFacts, demoRows, adopted, hanging, dataset, counted, connectors,
                    configs, handler, deaths, mixed, clashed, tangled, failed>>
    BY <1>1 DEF lifeVars, demoVars, vendorVars, lifeGhosts
  <2>2. UNCHANGED <<LifeTyped, Unmarked, Recounted, Onward, OnRows>>
    BY <2>1 DEF LifeTyped, Unmarked, Recounted, Straight, OneRebuilds, FactsFollow, Right, Among,
                Onward, OnRows, Busy
  <2>3. UNCHANGED <<Apart, InOrder>>
    BY <2>1 DEF Apart, InOrder, Busy, Doing
  <2>4. QED BY <2>2, <2>3 DEF LifeIInv
<1>2. CASE startOnboarding
  <2>1. UNCHANGED <<marker, demoFacts, demoRows, adopted, hanging, dataset, counted, connectors,
                    configs, handler, deaths, mixed, clashed, tangled, failed>>
    BY <1>2 DEF startOnboarding, demoVars, vendorVars, lifeGhosts
  <2>2. UNCHANGED <<LifeTyped, Unmarked, Recounted, Onward, OnRows>>
    BY <2>1 DEF LifeTyped, Unmarked, Recounted, Straight, OneRebuilds, FactsFollow, Right, Among,
                Onward, OnRows, Busy
  <2>3. UNCHANGED <<Apart, InOrder>>
    BY <2>1 DEF Apart, InOrder, Busy, Doing
  <2>4. QED BY <2>2, <2>3 DEF LifeIInv
<1>3. CASE Die
  <2>1. /\ \A h \in Handlers : handler'[h] = Resting
        /\ handler' = [h \in Handlers |-> Resting] /\ deaths' = deaths + 1
        /\ UNCHANGED <<marker, demoFacts, demoRows, adopted, hanging, dataset, counted, connectors,
                       configs, mixed, clashed>>
    BY <1>3 DEF Die, demoVars, vendorVars, lifeGhosts
  <2>2. LifeTyped' /\ deaths' # 0
    BY <2>1 DEF LifeIInv, LifeTyped
  <2>3. Unmarked' /\ Onward' /\ OnRows' /\ Recounted'
    BY <2>1, <2>2 DEF LifeIInv, Unmarked, Onward, OnRows, Recounted, Straight, Busy
  <2>4. Apart' /\ InOrder'
    BY <2>1 DEF LifeIInv, Apart, InOrder, Busy, Doing
  <2>5. QED BY <2>2, <2>3, <2>4 DEF LifeIInv
<1>4. ASSUME NEW on, NEW kind, HangOn(on, kind)
      PROVE  LifeIInv'
  <2>1. /\ hanging' = hanging \cup {[kind |-> kind, on |-> on]} /\ on \in demoRows
        /\ UNCHANGED <<marker, demoFacts, demoRows, adopted, dataset, counted, connectors,
                       configs, handler, deaths, mixed, clashed, tangled, failed>>
    BY <1>4 DEF HangOn, vendorVars, lifeGhosts
  <2>2. Unmarked' /\ OnRows'
    BY <2>1 DEF LifeIInv, Unmarked, OnRows
  <2>3. UNCHANGED <<LifeTyped, Recounted, Onward>>
    BY <2>1 DEF LifeTyped, Recounted, Straight, OneRebuilds, FactsFollow, Right, Among, Onward, Busy
  <2>4. UNCHANGED <<Apart, InOrder>>
    BY <2>1 DEF Apart, InOrder, Busy, Doing
  <2>5. QED BY <2>2, <2>3, <2>4 DEF LifeIInv
<1>5. ASSUME NEW p, Adopt(p)
      PROVE  LifeIInv'
  <2>1. /\ adopted' = adopted \cup {p}
        /\ UNCHANGED <<marker, demoFacts, demoRows, hanging, dataset, counted, connectors,
                       configs, handler, deaths, mixed, clashed, tangled, failed>>
    BY <1>5 DEF Adopt, vendorVars, lifeGhosts
  <2>2. Unmarked' /\ OnRows'
    BY <2>1 DEF LifeIInv, Unmarked, OnRows
  <2>3. UNCHANGED <<LifeTyped, Recounted, Onward>>
    BY <2>1 DEF LifeTyped, Recounted, Straight, OneRebuilds, FactsFollow, Right, Among, Onward, Busy
  <2>4. UNCHANGED <<Apart, InOrder>>
    BY <2>1 DEF Apart, InOrder, Busy, Doing
  <2>5. QED BY <2>2, <2>3, <2>4 DEF LifeIInv
<1>6. ASSUME NEW h \in Handlers, Seed(h)
      PROVE  LifeIInv'
  <2>1. Request("seed", "insert", "setup") \in Handling /\ "insert" \notin Recounts
    BY DEF Handling, Request, Recounts
  <2>2. QED BY <1>6, <2>1, OpensSafe DEF Seed
<1>7. ASSUME NEW h \in Handlers, NEW to \in {"welcome", "setup", "done"}, SetStage(h, to)
      PROVE  LifeIInv'
  <2>1. Request("patch", "write", to) \in Handling /\ "write" \notin Recounts
    BY DEF Handling, Request, Recounts
  <2>2. to # "welcome" /\ Opens(h, "patch", "write", to)
    BY <1>7 DEF SetStage, canTransition
  <2>3. QED BY <2>1, <2>2, OpensSafe
<1>8. ASSUME NEW h \in Handlers, NEW v \in LinkedVendors, Connect(h, v)
      PROVE  LifeIInv'
  <2>1. Request("connect", "wipe", v) \in Handling /\ "wipe" \notin Recounts
    BY DEF Handling, Request, Recounts
  <2>2. QED BY <1>8, <2>1, OpensSafe DEF Connect
<1>9. ASSUME NEW h \in Handlers, NEW v \in LinkedVendors, Disconnect(h, v)
      PROVE  LifeIInv'
  <2>1. Request("disconnect", "row", v) \in Handling /\ "row" \notin Recounts
    BY DEF Handling, Request, Recounts
  <2>2. QED BY <1>9, <2>1, OpensSafe DEF Disconnect
<1>10. ASSUME NEW h \in Handlers, InsertDemo(h)
       PROVE  LifeIInv'
  <2>1. CASE marker \/ demoRows # {}
    <3>1. Answer(h) /\ handler[h] # Resting /\ handler[h].at = "insert"
      BY <1>10, <2>1 DEF InsertDemo, Doing
    <3>2. QED BY <3>1, AnsweredSafe DEF Answer, demoVars, vendorVars, lifeGhosts, Recounts
  <2>2. CASE ~marker /\ demoRows = {}
    BY <1>10, <2>2, InsertDemoSafe DEF InsertDemo
  <2>3. QED BY <2>1, <2>2
<1>11. ASSUME NEW h \in Handlers, SeedAnswered(h)
       PROVE  LifeIInv'
  <2>1. /\ handler[h] # Resting /\ handler[h].at = "answer" /\ handler[h].op = "seed"
        /\ UNCHANGED <<marker, demoFacts, demoRows, adopted, hanging, dataset, counted, connectors, configs>>
        /\ UNCHANGED <<deaths, mixed, clashed, tangled, failed>>
        /\ GoOn(h, "write") \/ Finish(h)
    BY <1>11 DEF SeedAnswered, Doing, demoVars, vendorVars, lifeGhosts
  <2>2. QED BY <2>1, AnsweredSafe DEF Recounts
<1>12. ASSUME NEW h \in Handlers, WipeDemo(h)
       PROVE  LifeIInv'
  <2>1. CASE marker
    BY <1>12, <2>1, WipedSafe DEF WipeDemo
  <2>2. CASE ~marker
    <3>1. /\ handler[h] # Resting /\ handler[h].at = "wipe" /\ handler[h].op = "connect"
          /\ UNCHANGED <<marker, demoFacts, demoRows, adopted, hanging, dataset, counted, connectors, configs>>
        /\ UNCHANGED <<deaths, mixed, clashed, tangled, failed>>
          /\ GoOn(h, "config")
      BY <1>12, <2>2 DEF WipeDemo, Doing, demoVars, vendorVars, lifeGhosts
    <3>2. QED BY <2>2, <3>1, AnsweredSafe DEF Recounts
  <2>3. QED BY <2>1, <2>2
<1>13. ASSUME NEW h \in Handlers, WriteStage(h)
       PROVE  LifeIInv'
  <2>1. /\ handler[h] # Resting /\ handler[h].at = "write" /\ Finish(h)
        /\ UNCHANGED <<marker, demoFacts, demoRows, adopted, hanging, dataset, counted, connectors, configs>>
        /\ UNCHANGED <<deaths, mixed, clashed, tangled, failed>>
    BY <1>13 DEF WriteStage, Doing, demoVars, vendorVars, lifeGhosts
  <2>2. QED BY <2>1, AnsweredSafe DEF Recounts
<1>15. CASE LifeNext
  BY <1>2, <1>3, <1>4, <1>5, <1>6, <1>7, <1>8, <1>9, <1>10, <1>11, <1>12, <1>13, <1>15, VendorStepSafe,
     DeleteRollupsSafe, InsertRollupsSafe, CommitRollupsSafe, RecomputeFailsSafe DEF LifeNext
<1>16. QED BY <1>1, <1>15

LEMMA LifeHolds == LifeIInv => NoMix /\ RollupsFollow /\ ConnectedHasConfig
<1> SUFFICES ASSUME LifeIInv PROVE NoMix /\ RollupsFollow /\ ConnectedHasConfig
  OBVIOUS
<1>1. NoMix
  BY DEF LifeIInv, NoMix, Apart, Unmarked
<1>2. RollupsFollow
  BY DEF LifeIInv, RollupsFollow, Recounted, Straight, FactsFollow, Right, Among
<1>3. ConnectedHasConfig
  BY DEF LifeIInv, ConnectedHasConfig, InOrder
<1>4. QED BY <1>1, <1>2, <1>3

\* Only WriteStage writes the stage of a claimed instance, and only WipeDemo
\* takes away what hangs on demo rows.
LEMMA LifeStepsForward ==
  ASSUME LifeIInv, [LifeNext]_lifeVars
  PROVE  /\ stage # "unclaimed" /\ stage' = "welcome" => stage = "welcome"
         /\ \A r \in hanging \ hanging' : r.kind \notin Keeping
<1>1. CASE UNCHANGED lifeVars
  BY <1>1 DEF lifeVars, demoVars
<1>2. CASE startOnboarding \/ Die
  BY <1>2 DEF startOnboarding, Die, demoVars
<1>3. CASE \E on \in DemoSet : Adopt(on) \/ \E kind \in RealKinds[on] : HangOn(on, kind)
  BY <1>3 DEF Adopt, HangOn
<1>4. ASSUME NEW h \in Handlers, WipeDemo(h)
      PROVE  stage' = stage /\ \A r \in hanging \ hanging' : r.kind \notin Keeping
  <2>1. stage' = stage
    BY <1>4 DEF WipeDemo
  <2>2. SUFFICES ASSUME NEW r \in hanging, r \notin hanging', r.kind \in Keeping PROVE FALSE
    BY <2>1
  <2>3. r.on \in Claimed
    BY <2>2 DEF Claimed, LifeIInv, OnRows
  <2>4. r.kind # "seat"
    BY <2>2 DEF Keeping
  <2>5. QED BY <1>4, <2>2, <2>3, <2>4 DEF WipeDemo, demoVars
<1>5. ASSUME NEW h \in Handlers, WriteStage(h)
      PROVE  stage' # "welcome" /\ hanging' = hanging
  BY <1>5 DEF WriteStage, Doing, LifeIInv, Onward, Busy, demoVars
<1>6. ASSUME NEW h \in Handlers,
             \/ Seed(h) \/ StoreConfig(h) \/ StoreConnector(h) \/ DropConnector(h) \/ DropConfig(h)
             \/ \E to \in {"welcome", "setup", "done"} : SetStage(h, to)
             \/ \E v \in LinkedVendors : Connect(h, v) \/ Disconnect(h, v)
      PROVE  UNCHANGED <<stage, hanging>>
  BY <1>6 DEF Seed, StoreConfig, StoreConnector, DropConnector, DropConfig, SetStage, Connect,
              Disconnect, Opens, demoVars
<1>7. ASSUME NEW h \in Handlers,
             \/ InsertDemo(h) \/ DeleteRollups(h) \/ InsertRollups(h) \/ CommitRollups(h)
             \/ RecomputeFails(h) \/ SeedAnswered(h)
      PROVE  UNCHANGED <<stage, hanging>>
  BY <1>7 DEF InsertDemo, Answer, DeleteRollups, InsertRollups, CommitRollups, RecomputeFails,
              SeedAnswered, demoVars
<1>8. CASE LifeNext
  BY <1>2, <1>3, <1>4, <1>5, <1>6, <1>7, <1>8 DEF LifeNext
<1>9. QED BY <1>1, <1>8

(***************************************************************************)
(* Exchange rates.                                                          *)
(***************************************************************************)
FxTyped ==
  /\ feed \in Nat
  /\ fetching \in [Fetchers -> Fetching \cup {NoFetch}]
  /\ \A r \in DOMAIN rates : rates[r] \in Nat /\ rates[r] <= feed

\* Who has started a run holds the lock.
OneFetches ==
  \A f \in Fetchers : fetching[f] # NoFetch /\ fetching[f].at # "due" => fxLock = f

\* Nothing is stored of a feed newer than the one that was read.
ReadIsNewest ==
  \A f \in Fetchers : IsAt(f, "read") =>
    fetching[f].feed <= feed /\ \A r \in DOMAIN rates : rates[r] <= fetching[f].feed

FxIInv == FxTyped /\ OneFetches /\ ReadIsNewest

LEMMA FxStarts == FxInit => FxIInv
<1> SUFFICES ASSUME FxInit PROVE FxIInv
  OBVIOUS
<1>1. DOMAIN rates = {}
  BY DEF FxInit
<1>2. \A f \in Fetchers : fetching[f] = NoFetch
  BY DEF FxInit
<1>3. FxTyped
  BY <1>1, FxAssumption DEF FxInit, FxTyped
<1>4. OneFetches /\ ReadIsNewest
  BY <1>2 DEF OneFetches, ReadIsNewest, IsAt
<1>5. QED BY <1>3, <1>4 DEF FxIInv

LEMMA Held ==
  ASSUME FxTyped, NEW f \in Fetchers, NEW at \in {"due", "asking", "read", "bad"}, NEW n \in Nat,
         Hold(f, at, n)
  PROVE  /\ fetching' \in [Fetchers -> Fetching \cup {NoFetch}]
         /\ fetching'[f] # NoFetch /\ fetching'[f].at = at /\ fetching'[f].feed = n
         /\ \A g \in Fetchers \ {f} : fetching'[g] = fetching[g]
<1>1. PICK rec : rec = [at |-> at, feed |-> n]
  OBVIOUS
<1>2. rec \in Fetching /\ rec.at = at /\ rec.feed = n
  BY <1>1 DEF Fetching
<1>3. rec # NoFetch
  BY <1>2, FxAssumption
<1>4. fetching' = [fetching EXCEPT ![f] = rec]
  BY <1>1 DEF Hold
<1>5. QED BY <1>2, <1>3, <1>4 DEF FxTyped

LEMMA LetsGo ==
  ASSUME FxTyped, NEW f \in Fetchers, LetGo(f)
  PROVE  /\ fetching' \in [Fetchers -> Fetching \cup {NoFetch}]
         /\ fetching'[f] = NoFetch
         /\ \A g \in Fetchers \ {f} : fetching'[g] = fetching[g]
BY DEF FxTyped, LetGo

LEMMA StoreRatesSafe ==
  ASSUME FxIInv, NEW f \in Fetchers, StoreRates(f)
  PROVE  /\ FxIInv'
         /\ \A r \in DOMAIN rates : r \in DOMAIN rates' /\ rates[r] <= rates'[r]
<1>1. PICK n : n = fetching[f].feed
  OBVIOUS
<1>2. /\ fetching[f] # NoFetch /\ fetching[f].at = "read" /\ fetching[f] \in Fetching
      /\ n \in Nat /\ n <= feed /\ \A r \in DOMAIN rates : rates[r] <= n
  BY <1>1 DEF FxIInv, FxTyped, StoreRates, IsAt, ReadIsNewest, Fetching
<1>3. /\ rates' = [r \in DOMAIN rates \cup parseEcbRates(n) |->
                     IF r \in parseEcbRates(n) THEN n ELSE rates[r]]
      /\ LetGo(f) /\ feed' = feed
  BY <1>1 DEF StoreRates
<1>4. /\ DOMAIN rates' = DOMAIN rates \cup parseEcbRates(n)
      /\ \A r \in DOMAIN rates' : rates'[r] = IF r \in parseEcbRates(n) THEN n ELSE rates[r]
  BY <1>3
<1>5. \A r \in DOMAIN rates : r \in DOMAIN rates' /\ rates[r] <= rates'[r]
  BY <1>2, <1>4 DEF FxIInv, FxTyped
<1>6. /\ fetching' \in [Fetchers -> Fetching \cup {NoFetch}]
      /\ fetching'[f] = NoFetch
      /\ \A g \in Fetchers \ {f} : fetching'[g] = fetching[g]
  BY <1>3, LetsGo DEF FxIInv
<1>7. \A g \in Fetchers \ {f} : fetching[g] = NoFetch \/ fetching[g].at = "due"
  BY <1>2 DEF FxIInv, OneFetches
<1>8. FxTyped'
  BY <1>2, <1>3, <1>4, <1>6 DEF FxIInv, FxTyped
<1>9. OneFetches' /\ ReadIsNewest'
  BY <1>6, <1>7 DEF OneFetches, ReadIsNewest, IsAt
<1>10. QED BY <1>5, <1>8, <1>9 DEF FxIInv

LEMMA FxSteps ==
  ASSUME FxIInv, [FxNext]_fxVars
  PROVE  /\ FxIInv'
         /\ \A r \in DOMAIN rates : r \in DOMAIN rates' /\ rates[r] <= rates'[r]
<1>1. ASSUME UNCHANGED <<rates, fxLock, fetching>>, feed' \in {feed, feed + 1}
      PROVE  FxIInv' /\ \A r \in DOMAIN rates : rates[r] <= rates'[r]
  <2>1. FxTyped' /\ \A r \in DOMAIN rates : rates[r] <= rates'[r]
    BY <1>1 DEF FxIInv, FxTyped
  <2>2. OneFetches'
    BY <1>1 DEF FxIInv, OneFetches
  <2>3. ReadIsNewest'
    <3>1. SUFFICES ASSUME NEW f \in Fetchers, IsAt(f, "read")
                   PROVE  /\ fetching[f].feed <= feed'
                          /\ \A r \in DOMAIN rates : rates[r] <= fetching[f].feed
      BY <1>1 DEF ReadIsNewest, IsAt
    <3>2. fetching[f].feed \in Nat
      BY <3>1 DEF FxIInv, FxTyped, IsAt, Fetching
    <3>3. QED BY <1>1, <3>1, <3>2 DEF FxIInv, FxTyped, ReadIsNewest
  <2>4. QED BY <2>1, <2>2, <2>3 DEF FxIInv
<1>2. CASE UNCHANGED fxVars \/ Publish \/ Hour
  <2>1. UNCHANGED <<rates, fxLock, fetching>> /\ feed' \in {feed, feed + 1}
    BY <1>2 DEF fxVars, Publish, Hour
  <2>2. QED BY <1>1, <2>1
<1>3. CASE RestartFx
  <2>1. /\ fetching' = [f \in Fetchers |-> NoFetch] /\ UNCHANGED <<rates, feed>>
    BY <1>3 DEF RestartFx
  <2>2. FxTyped' /\ \A r \in DOMAIN rates : rates[r] <= rates'[r]
    BY <2>1 DEF FxIInv, FxTyped
  <2>3. OneFetches' /\ ReadIsNewest'
    BY <2>1 DEF OneFetches, ReadIsNewest, IsAt
  <2>4. QED BY <2>1, <2>2, <2>3 DEF FxIInv
<1>4. ASSUME NEW f \in Fetchers,
             UNCHANGED <<rates, feed>>,
             fetching' \in [Fetchers -> Fetching \cup {NoFetch}],
             \A g \in Fetchers \ {f} : fetching'[g] = fetching[g],
             \/ /\ fxLock' = fxLock
                /\ \/ fetching'[f] = NoFetch \/ fetching'[f].at = "due"
                   \/ fetching[f] # NoFetch /\ fetching[f].at = "asking"
             \/ fxLock = NoFetch /\ fxLock' = f
             \/ fetching[f] # NoFetch /\ fetching[f].at # "due" /\ fetching'[f] = NoFetch,
             IsAt(f, "read")' => fetching'[f].feed = feed
      PROVE  FxIInv' /\ \A r \in DOMAIN rates : rates[r] <= rates'[r]
  <2>1. FxTyped' /\ \A r \in DOMAIN rates : rates[r] <= rates'[r]
    BY <1>4 DEF FxIInv, FxTyped
  <2>2. OneFetches'
    BY <1>4, FxAssumption DEF FxIInv, OneFetches
  <2>3. ReadIsNewest'
    BY <1>4 DEF FxIInv, FxTyped, ReadIsNewest, IsAt
  <2>4. QED BY <2>1, <2>2, <2>3 DEF FxIInv
<1>5. ASSUME NEW f \in Fetchers, fxTick(f) \/ FetchNow(f)
      PROVE  FxIInv' /\ \A r \in DOMAIN rates : rates[r] <= rates'[r]
  <2>1. Hold(f, "due", 0) /\ UNCHANGED <<rates, feed, fxLock>>
    BY <1>5 DEF fxTick, FetchNow
  <2>2. QED BY <1>4, <2>1, Held DEF FxIInv, IsAt
<1>6. ASSUME NEW f \in Fetchers, StartRun(f)
      PROVE  FxIInv' /\ \A r \in DOMAIN rates : rates[r] <= rates'[r]
  <2>1. UNCHANGED <<rates, feed>>
    BY <1>6 DEF StartRun
  <2>2. CASE TakeFxLock(f)
    <3>1. fxLock = NoFetch /\ fxLock' = f /\ Hold(f, "asking", 0)
      BY <1>6, <2>2 DEF StartRun, TakeFxLock
    <3>2. QED BY <1>4, <2>1, <3>1, Held DEF FxIInv, IsAt
  <2>3. CASE ~TakeFxLock(f)
    <3>1. fxLock' = fxLock /\ LetGo(f)
      BY <1>6, <2>3 DEF StartRun
    <3>2. QED BY <1>4, <2>1, <3>1, LetsGo DEF FxIInv, IsAt
  <2>4. QED BY <2>2, <2>3
<1>7. ASSUME NEW f \in Fetchers, Fetched(f)
      PROVE  FxIInv' /\ \A r \in DOMAIN rates : rates[r] <= rates'[r]
  <2>1. UNCHANGED <<rates, feed, fxLock>> /\ fetching[f] # NoFetch /\ fetching[f].at = "asking"
    BY <1>7 DEF Fetched, IsAt
  <2>2. CASE Hold(f, "read", feed)
    BY <1>4, <2>1, <2>2, Held DEF FxIInv, FxTyped
  <2>3. CASE Hold(f, "bad", 0)
    BY <1>4, <2>1, <2>3, Held DEF FxIInv, IsAt
  <2>4. QED BY <1>7, <2>2, <2>3 DEF Fetched
<1>8. ASSUME NEW f \in Fetchers, FailRun(f)
      PROVE  FxIInv' /\ \A r \in DOMAIN rates : rates[r] <= rates'[r]
  <2>1. /\ UNCHANGED <<rates, feed>> /\ LetGo(f)
        /\ fetching[f] # NoFetch /\ fetching[f].at # "due"
    BY <1>8 DEF FailRun, IsAt
  <2>2. QED BY <1>4, <2>1, LetsGo DEF FxIInv, IsAt
<1>9. ASSUME NEW f \in Fetchers, FetchStep(f)
      PROVE  FxIInv' /\ \A r \in DOMAIN rates : r \in DOMAIN rates' /\ rates[r] <= rates'[r]
  <2>1. CASE StartRun(f)
    BY <1>6, <2>1 DEF StartRun
  <2>2. CASE Fetched(f)
    BY <1>7, <2>2 DEF Fetched
  <2>3. CASE FailRun(f)
    BY <1>8, <2>3 DEF FailRun
  <2>4. QED BY <1>9, <2>1, <2>2, <2>3, StoreRatesSafe DEF FetchStep
<1>10. ASSUME NEW f \in Fetchers, fxTick(f) \/ FetchNow(f)
       PROVE  rates' = rates
  BY <1>10 DEF fxTick, FetchNow
<1>11. CASE FxNext
  BY <1>2, <1>3, <1>5, <1>9, <1>10, <1>11 DEF FxNext, Publish, Hour, RestartFx
<1>12. QED BY <1>2, <1>11 DEF fxVars

(***************************************************************************)
(* Settings.                                                                *)
(***************************************************************************)
PatchTyped(rec) ==
  /\ rec = [body |-> rec.body, at |-> rec.at, n |-> rec.n]
  /\ rec.body \in Bodies /\ rec.n \in DOMAIN rec.body
  /\ rec.at = "valid" => rec.n = 1

SettingsTyped ==
  /\ patch = [p \in 1..Len(patch) |-> patch[p]] /\ Len(patch) \in Nat
  /\ \A p \in 1..Len(patch) : PatchTyped(patch[p])
  /\ saved = [k \in DOMAIN SETTING_DEFAULTS |-> saved[k]]

\* The changes that requests have named.
Asked == UNION {Range(patch[p].body) : p \in 1..Len(patch)}
ChangeTo(k) == [key |-> k, value |-> saved[k]]

\* What is about to be saved converts.
CheckedConverts ==
  \A p \in 1..Len(patch) : patch[p].at = "saving" =>
    \A c \in Range(patch[p].body) : c.key = "display_currency" => Known(c.value)

\* p has been told to store its key n, if ever it stands at "at" before key m.
Already(n, at, m) == n < m \/ at \in {"saved", "unaudited"}

\* What p has stored it has stored still, once it is "at" key m.
StaysStored(p, at, m) ==
  \A n \in DOMAIN patch[p].body : Already(n, patch[p].at, patch[p].n) => Already(n, at, m)

\* A request that is not answered has stored what k is set to.
StoredBy(p, k) == patch[p].at # "answered" /\ Stored(p, ChangeTo(k))

\* What is set was stored by a request, and what is audited was asked for.
AskedFor ==
  /\ audits \subseteq Asked
  /\ \A k \in DOMAIN SETTING_DEFAULTS :
       \/ saved[k] = SETTING_DEFAULTS[k]
       \/ ChangeTo(k) \in audits
       \/ \E p \in 1..Len(patch) : StoredBy(p, k)

\* There was a licence before a schedule passed its validation, or was saved.
LicenceCame == \E c \in Asked : c.key = "license_file" /\ c.value \notin Forged \cup {"none"}
LicensedSchedules ==
  /\ saved["license_file"] \notin Forged
  /\ saved["scheduled_reports"] # SETTING_DEFAULTS["scheduled_reports"] => LicenceCame
  /\ \A p \in 1..Len(patch) : patch[p].at # "rejected" =>
       \A c \in Range(patch[p].body) : c.key = "scheduled_reports" => LicenceCame

SettingsIInv ==
  /\ SettingsTyped /\ CheckedConverts /\ CurrencyConverts /\ AskedFor /\ LicensedSchedules

LEMMA BodyIs ==
  ASSUME NEW body \in Bodies
  PROVE  /\ Len(body) \in Nat /\ DOMAIN body = 1..Len(body) /\ 1 \in DOMAIN body
         /\ \A n \in DOMAIN body : body[n] \in Range(body)
         /\ \A c \in Range(body) :
              c = [key |-> c.key, value |-> c.value] /\ c.key \in DOMAIN SETTING_DEFAULTS
<1>1. PICK T : T = Range(body)
  OBVIOUS
<1>2. body \in Seq(T) /\ body # <<>>
  BY <1>1, SettingsAssumption
<1>3. Len(body) \in Nat /\ DOMAIN body = 1..Len(body) /\ Len(body) # 0
  BY <1>2
<1>4. \A n \in DOMAIN body : body[n] \in Range(body)
  BY DEF Range
<1>5. QED BY <1>3, <1>4, SettingsAssumption

LEMMA SettingsStarts == FxInit /\ SettingsInit => SettingsIInv
<1> SUFFICES ASSUME SettingsInit PROVE SettingsIInv
  OBVIOUS
<1>1. patch = <<>> /\ Len(patch) = 0 /\ 1..Len(patch) = {} /\ saved = SETTING_DEFAULTS /\ audits = {}
  BY DEF SettingsInit
<1>2. SettingsTyped
  BY <1>1, SettingsAssumption DEF SettingsTyped
<1>3. CheckedConverts /\ AskedFor
  BY <1>1 DEF CheckedConverts, AskedFor
<1>4. CurrencyConverts
  BY <1>1, SettingsAssumption DEF CurrencyConverts, Known
<1>5. LicensedSchedules
  BY <1>1, SettingsAssumption DEF LicensedSchedules
<1>6. QED BY <1>2, <1>3, <1>4, <1>5 DEF SettingsIInv

\* A request whose place changes, and nothing else of it.
LEMMA PlaceSet ==
  ASSUME SettingsTyped, NEW p \in 1..Len(patch), NEW at, NEW n \in DOMAIN patch[p].body, Set(p, at, n),
         at # "valid"
  PROVE  /\ Len(patch') = Len(patch) /\ DOMAIN patch' = 1..Len(patch)
         /\ patch' = [q \in 1..Len(patch) |-> patch'[q]]
         /\ PatchTyped(patch'[p])
         /\ patch'[p].body = patch[p].body /\ patch'[p].at = at /\ patch'[p].n = n
         /\ \A q \in 1..Len(patch) : q # p => patch'[q] = patch[q]
         /\ \A q \in 1..Len(patch) : PatchTyped(patch'[q]) /\ patch'[q].body = patch[q].body
         /\ Asked' = Asked
<1>1. PICK rec : rec = [patch[p] EXCEPT !.at = at, !.n = n]
  OBVIOUS
<1>2. PatchTyped(patch[p])
  BY DEF SettingsTyped
<1>3. rec = [body |-> patch[p].body, at |-> at, n |-> n]
  BY <1>1, <1>2 DEF PatchTyped
<1>4. rec.body = patch[p].body /\ rec.at = at /\ rec.n = n
  BY <1>3
<1>5. PatchTyped(rec)
  BY <1>2, <1>3, <1>4 DEF PatchTyped
<1>6. patch' = [patch EXCEPT ![p] = rec]
  <2>1. patch' = [q \in DOMAIN patch |-> IF q = p THEN rec ELSE patch[q]]
    BY <1>1 DEF Set, SettingsTyped
  <2>2. QED BY <2>1
<1>7. patch' = [q \in 1..Len(patch) |-> IF q = p THEN rec ELSE patch[q]]
  BY <1>6 DEF SettingsTyped
<1>8. Len(patch') = Len(patch) /\ DOMAIN patch' = 1..Len(patch)
  BY <1>7 DEF SettingsTyped
<1>9. patch'[p] = rec /\ \A q \in 1..Len(patch) : q # p => patch'[q] = patch[q]
  BY <1>7
<1>10. \A q \in 1..Len(patch) : PatchTyped(patch'[q]) /\ patch'[q].body = patch[q].body
  BY <1>4, <1>5, <1>9 DEF SettingsTyped
<1>11. Asked' = Asked
  BY <1>8, <1>10 DEF Asked
<1>12. patch' = [q \in 1..Len(patch) |-> patch'[q]]
  BY <1>7
<1>13. QED BY <1>4, <1>5, <1>8, <1>9, <1>10, <1>11, <1>12

\* A request goes on without storing anything, and what it has stored stays so.
LEMMA MovesSafe ==
  ASSUME SettingsIInv, NEW p \in 1..Len(patch), NEW at, NEW n \in DOMAIN patch[p].body, Set(p, at, n),
         UNCHANGED <<saved, audits, rates>>, patch[p].at # "rejected", at # "answered", at # "valid",
         StaysStored(p, at, n),
         at = "saving" =>
           \A c \in Range(patch[p].body) : c.key = "display_currency" => Known(c.value)
  PROVE  SettingsIInv'
<1>1. /\ SettingsTyped
      /\ Len(patch') = Len(patch) /\ patch' = [q \in 1..Len(patch) |-> patch'[q]]
      /\ patch'[p].at = at /\ patch'[p].n = n
      /\ \A q \in 1..Len(patch) : q # p => patch'[q] = patch[q]
      /\ \A q \in 1..Len(patch) : PatchTyped(patch'[q]) /\ patch'[q].body = patch[q].body
      /\ Asked' = Asked
  BY PlaceSet DEF SettingsIInv
<1>2. SettingsTyped'
  BY <1>1 DEF SettingsTyped
<1>3. \A c : Known(c)' <=> Known(c)
  BY DEF Known
<1>4. CheckedConverts'
  BY <1>1, <1>3 DEF SettingsIInv, CheckedConverts
<1>5. CurrencyConverts'
  BY <1>3 DEF SettingsIInv, CurrencyConverts
<1>6. AskedFor'
  <2>1. ASSUME NEW k, NEW q \in 1..Len(patch), StoredBy(q, k)
        PROVE  StoredBy(q, k)'
    <3>1. PICK m \in DOMAIN patch[q].body :
            /\ patch[q].body[m] = ChangeTo(k)
            /\ m < patch[q].n \/ patch[q].at \in {"saved", "unaudited"}
      BY <2>1 DEF StoredBy, Stored
    <3>2. m < patch'[q].n \/ patch'[q].at \in {"saved", "unaudited"}
      <4>1. CASE q = p
        BY <1>1, <3>1, <4>1 DEF StaysStored, Already
      <4>2. CASE q # p
        BY <1>1, <3>1, <4>2
      <4>3. QED BY <4>1, <4>2
    <3>3. ChangeTo(k)' = ChangeTo(k)
      BY DEF ChangeTo
    <3>4. m \in DOMAIN patch'[q].body /\ patch'[q].body[m] = ChangeTo(k)
      BY <1>1, <3>1
    <3>5. patch'[q].at # "answered"
      BY <1>1, <2>1 DEF StoredBy
    <3>6. \E n1 \in DOMAIN patch'[q].body :
            /\ patch'[q].body[n1] = ChangeTo(k)'
            /\ n1 < patch'[q].n \/ patch'[q].at \in {"saved", "unaudited"}
      BY <3>2, <3>3, <3>4
    <3>7. QED BY <3>5, <3>6 DEF StoredBy, Stored
  <2>2. \A k : ChangeTo(k)' = ChangeTo(k)
    BY DEF ChangeTo
  <2>3. QED BY <1>1, <2>1, <2>2 DEF SettingsIInv, AskedFor
<1>7. LicensedSchedules'
  BY <1>1 DEF SettingsIInv, LicensedSchedules, LicenceCame
<1>8. QED BY <1>2, <1>4, <1>5, <1>6, <1>7 DEF SettingsIInv

\* A licence that is set was asked for.
LEMMA LicenceWasAsked ==
  ASSUME SettingsIInv, eeFeatureEnabled
  PROVE  LicenceCame
<1>1. saved["license_file"] # SETTING_DEFAULTS["license_file"]
  BY SettingsAssumption DEF eeFeatureEnabled
<1>2. "license_file" \in DOMAIN SETTING_DEFAULTS
  BY SettingsAssumption
<1>3. ChangeTo("license_file") \in Asked
  <2>1. \A p : StoredBy(p, "license_file") => ChangeTo("license_file") \in Range(patch[p].body)
    BY DEF StoredBy, Stored, Range
  <2>2. QED BY <1>1, <1>2, <2>1 DEF SettingsIInv, AskedFor, Asked
<1>4. QED BY <1>3 DEF LicenceCame, ChangeTo, eeFeatureEnabled

LEMMA ValidateSafe ==
  ASSUME SettingsIInv, Validate, UNCHANGED fxVars
  PROVE  SettingsIInv'
<1>1. PICK body, rec, at :
        /\ body \in Bodies
        /\ rec = [body |-> body, at |-> at, n |-> 1] /\ patch' = Append(patch, rec)
        /\ at \in {"rejected", "valid"}
        /\ \/ at = "rejected"
           \/ \A n \in DOMAIN body : body[n].key = "scheduled_reports" => eeFeatureEnabled
  BY DEF Validate
<1>2. UNCHANGED <<saved, audits, rates>>
  BY DEF Validate, fxVars
<1>3. rec.body = body /\ rec.at = at /\ rec.n = 1 /\ PatchTyped(rec)
  BY <1>1, BodyIs DEF PatchTyped
<1>4. PICK len \in Nat : len = Len(patch)
  BY DEF SettingsIInv, SettingsTyped
<1>5. /\ Len(patch') = len + 1 /\ patch'[len + 1] = rec
      /\ \A q \in 1..len : patch'[q] = patch[q]
      /\ patch' = [q \in 1..len + 1 |-> patch'[q]]
  BY <1>1, <1>4 DEF SettingsIInv, SettingsTyped
<1>6. 1..Len(patch') = 1..Len(patch) \cup {len + 1}
  BY <1>4, <1>5
<1>7. SettingsTyped'
  BY <1>2, <1>3, <1>4, <1>5, <1>6 DEF SettingsIInv, SettingsTyped
<1>8. \A c : Known(c)' <=> Known(c)
  BY <1>2 DEF Known
<1>9. CheckedConverts'
  BY <1>1, <1>3, <1>4, <1>5, <1>6, <1>8 DEF SettingsIInv, CheckedConverts
<1>10. CurrencyConverts'
  BY <1>2, <1>8 DEF SettingsIInv, CurrencyConverts
<1>11. Asked \subseteq Asked'
  BY <1>4, <1>5, <1>6 DEF Asked
<1>12. AskedFor'
  <2>1. \A k : ChangeTo(k)' = ChangeTo(k)
    BY <1>2 DEF ChangeTo
  <2>2. audits' \subseteq Asked'
    BY <1>2, <1>11 DEF SettingsIInv, AskedFor
  <2>3. ASSUME NEW k, NEW q \in 1..len, StoredBy(q, k)
        PROVE  StoredBy(q, k)'
    BY <1>5, <2>1, <2>3 DEF StoredBy, Stored
  <2>4. QED BY <1>2, <1>4, <1>5, <1>6, <2>1, <2>2, <2>3 DEF SettingsIInv, AskedFor
<1>13. LicenceCame => LicenceCame'
  BY <1>11 DEF LicenceCame
<1>14. ASSUME at = "valid", NEW c \in Range(body), c.key = "scheduled_reports"
       PROVE  LicenceCame'
  <2>1. eeFeatureEnabled
    BY <1>1, <1>14 DEF Range
  <2>2. QED BY <1>13, <2>1, LicenceWasAsked
<1>15. LicensedSchedules'
  <2>1. \A q \in 1..Len(patch) : patch'[q].at # "rejected" =>
          \A c \in Range(patch'[q].body) : c.key = "scheduled_reports" => LicenceCame'
    BY <1>4, <1>5, <1>13 DEF SettingsIInv, LicensedSchedules
  <2>2. patch'[len + 1].at # "rejected" =>
          \A c \in Range(patch'[len + 1].body) : c.key = "scheduled_reports" => LicenceCame'
    BY <1>1, <1>3, <1>5, <1>14
  <2>3. QED BY <1>2, <1>6, <1>13, <2>1, <2>2 DEF SettingsIInv, LicensedSchedules
<1>16. QED BY <1>7, <1>9, <1>10, <1>12, <1>15 DEF SettingsIInv

LEMMA CheckCurrencySafe ==
  ASSUME SettingsIInv, NEW p \in 1..Len(patch), CheckCurrency(p), UNCHANGED fxVars
  PROVE  SettingsIInv'
<1>1. /\ patch[p].at = "valid" /\ UNCHANGED <<saved, audits, rates>>
      /\ Set(p, IF Unknown(p) THEN "rejected" ELSE "saving", 1)
  BY DEF CheckCurrency, InPatch, fxVars
<1>2. PatchTyped(patch[p])
  BY DEF SettingsIInv, SettingsTyped
<1>3. 1 \in DOMAIN patch[p].body /\ \A at : StaysStored(p, at, 1)
  BY <1>1, <1>2, BodyIs DEF PatchTyped, StaysStored, Already
<1>4. CASE Unknown(p)
  BY <1>1, <1>3, <1>4, MovesSafe
<1>5. CASE ~Unknown(p)
  <2>1. \A c \in Range(patch[p].body) : c.key = "display_currency" => Known(c.value)
    BY <1>5 DEF Unknown, Range
  <2>2. QED BY <1>1, <1>3, <1>5, <2>1, MovesSafe
<1>6. QED BY <1>4, <1>5

LEMMA SavedSafe ==
  ASSUME SettingsIInv, NEW p \in 1..Len(patch), InPatch(p, "saving"), UNCHANGED <<audits, rates>>,
         ~(ChangeOf(p).key = "license_file" /\ ChangeOf(p).value \in Forged),
         saved' = [saved EXCEPT ![ChangeOf(p).key] = ChangeOf(p).value],
         IF patch[p].n < Len(patch[p].body) THEN Set(p, "saving", patch[p].n + 1)
         ELSE Set(p, "saved", patch[p].n)
  PROVE  SettingsIInv'
<1>1. PatchTyped(patch[p]) /\ patch[p].at = "saving"
  BY DEF SettingsIInv, SettingsTyped, InPatch
<1>2. /\ Len(patch[p].body) \in Nat /\ DOMAIN patch[p].body = 1..Len(patch[p].body)
      /\ patch[p].n \in DOMAIN patch[p].body
  BY <1>1, BodyIs DEF PatchTyped
<1>3. PICK at \in {"saving", "saved"}, n \in DOMAIN patch[p].body :
        /\ Set(p, at, n)
        /\ \A m \in DOMAIN patch[p].body : m < patch[p].n => Already(m, at, n)
        /\ Already(patch[p].n, at, n)
  <2>1. CASE patch[p].n < Len(patch[p].body)
    <3>1. patch[p].n + 1 \in DOMAIN patch[p].body
      BY <1>2, <2>1
    <3>2. /\ \A m \in DOMAIN patch[p].body : m < patch[p].n => Already(m, "saving", patch[p].n + 1)
          /\ Already(patch[p].n, "saving", patch[p].n + 1)
      BY <1>2 DEF Already
    <3>3. QED BY <2>1, <3>1, <3>2
  <2>2. CASE ~(patch[p].n < Len(patch[p].body))
    BY <1>2, <2>2 DEF Already
  <2>3. QED BY <2>1, <2>2
<1>4. /\ Len(patch') = Len(patch) /\ patch' = [q \in 1..Len(patch) |-> patch'[q]]
      /\ patch'[p].at = at /\ patch'[p].n = n
      /\ \A q \in 1..Len(patch) : q # p => patch'[q] = patch[q]
      /\ \A q \in 1..Len(patch) : PatchTyped(patch'[q]) /\ patch'[q].body = patch[q].body
      /\ Asked' = Asked
  BY <1>3, PlaceSet DEF SettingsIInv
<1>5. PICK c \in Range(patch[p].body) :
        /\ c = ChangeOf(p) /\ c = [key |-> c.key, value |-> c.value]
        /\ c.key \in DOMAIN SETTING_DEFAULTS
  BY <1>1, <1>2, BodyIs DEF ChangeOf, PatchTyped
<1>6. /\ saved' = [saved EXCEPT ![c.key] = c.value]
      /\ ~(c.key = "license_file" /\ c.value \in Forged)
  BY <1>5
<1>7. /\ saved' = [k \in DOMAIN SETTING_DEFAULTS |-> saved'[k]]
      /\ saved'[c.key] = c.value
      /\ \A k \in DOMAIN SETTING_DEFAULTS : k # c.key => saved'[k] = saved[k]
  BY <1>5, <1>6 DEF SettingsIInv, SettingsTyped
<1>8. SettingsTyped'
  BY <1>4, <1>7 DEF SettingsIInv, SettingsTyped
<1>9. \A x : Known(x)' <=> Known(x)
  BY DEF Known
<1>10. \A d \in Range(patch[p].body) : d.key = "display_currency" => Known(d.value)
  BY <1>1 DEF SettingsIInv, CheckedConverts
<1>11. CheckedConverts'
  BY <1>4, <1>9, <1>10 DEF SettingsIInv, CheckedConverts
<1>12. /\ "display_currency" \in DOMAIN SETTING_DEFAULTS /\ "license_file" \in DOMAIN SETTING_DEFAULTS
       /\ "scheduled_reports" \in DOMAIN SETTING_DEFAULTS
  BY SettingsAssumption
<1>13. CurrencyConverts'
  BY <1>5, <1>7, <1>9, <1>10, <1>12 DEF SettingsIInv, CurrencyConverts
<1>14. AskedFor'
  <2>1. \A k \in DOMAIN SETTING_DEFAULTS : k # c.key => ChangeTo(k)' = ChangeTo(k)
    BY <1>7 DEF ChangeTo
  <2>2. ChangeTo(c.key)' = c
    BY <1>5, <1>7 DEF ChangeTo
  <2>3. StoredBy(p, c.key)'
    <3>1. patch'[p].body[patch[p].n] = ChangeTo(c.key)' /\ patch[p].n \in DOMAIN patch'[p].body
      BY <1>2, <1>4, <1>5, <2>2 DEF ChangeOf
    <3>2. patch[p].n < patch'[p].n \/ patch'[p].at \in {"saved", "unaudited"}
      BY <1>3, <1>4 DEF Already
    <3>3. patch'[p].at # "answered"
      BY <1>3, <1>4
    <3>4. \E m \in DOMAIN patch'[p].body :
            /\ patch'[p].body[m] = ChangeTo(c.key)'
            /\ m < patch'[p].n \/ patch'[p].at \in {"saved", "unaudited"}
      BY <3>1, <3>2
    <3>5. QED BY <3>3, <3>4 DEF StoredBy, Stored
  <2>4. ASSUME NEW k \in DOMAIN SETTING_DEFAULTS
        PROVE  \/ saved'[k] = SETTING_DEFAULTS[k]
               \/ ChangeTo(k)' \in audits'
               \/ \E q \in 1..Len(patch') : StoredBy(q, k)'
    <3>1. CASE k = c.key
      BY <1>4, <2>3, <3>1
    <3>2. CASE k # c.key
      <4>1. ASSUME NEW q \in 1..Len(patch), StoredBy(q, k)
            PROVE  StoredBy(q, k)'
        <5>1. PICK m \in DOMAIN patch[q].body :
                /\ patch[q].body[m] = ChangeTo(k)
                /\ m < patch[q].n \/ patch[q].at \in {"saved", "unaudited"}
          BY <4>1 DEF StoredBy, Stored
        <5>2. m < patch'[q].n \/ patch'[q].at \in {"saved", "unaudited"}
          <6>1. CASE q = p
            BY <1>1, <1>3, <1>4, <5>1, <6>1 DEF Already
          <6>2. CASE q # p
            BY <1>4, <5>1, <6>2
          <6>3. QED BY <6>1, <6>2
        <5>3. m \in DOMAIN patch'[q].body /\ patch'[q].body[m] = ChangeTo(k)'
          BY <1>4, <2>1, <3>2, <5>1
        <5>4. patch'[q].at # "answered"
          BY <1>3, <1>4, <4>1 DEF StoredBy
        <5>5. \E n1 \in DOMAIN patch'[q].body :
                /\ patch'[q].body[n1] = ChangeTo(k)'
                /\ n1 < patch'[q].n \/ patch'[q].at \in {"saved", "unaudited"}
          BY <5>2, <5>3
        <5>6. QED BY <5>4, <5>5 DEF StoredBy, Stored
      <4>2. QED BY <1>4, <1>7, <2>1, <3>2, <4>1 DEF SettingsIInv, AskedFor
    <3>3. QED BY <3>1, <3>2
  <2>5. audits' \subseteq Asked'
    BY <1>4 DEF SettingsIInv, AskedFor
  <2>6. QED BY <2>4, <2>5 DEF AskedFor
<1>15. LicenceCame' <=> LicenceCame
  BY <1>4 DEF LicenceCame
<1>16. LicensedSchedules'
  <2>1. saved'["license_file"] \notin Forged
    BY <1>6, <1>7, <1>12 DEF SettingsIInv, LicensedSchedules
  <2>2. c.key = "scheduled_reports" => LicenceCame
    BY <1>1, <1>5 DEF SettingsIInv, LicensedSchedules
  <2>3. saved'["scheduled_reports"] # SETTING_DEFAULTS["scheduled_reports"] => LicenceCame
    BY <1>7, <1>12, <2>2 DEF SettingsIInv, LicensedSchedules
  <2>4. \A q \in 1..Len(patch') : patch'[q].at # "rejected" =>
          \A d \in Range(patch'[q].body) : d.key = "scheduled_reports" => LicenceCame
    BY <1>1, <1>4 DEF SettingsIInv, LicensedSchedules
  <2>5. QED BY <1>15, <2>1, <2>3, <2>4 DEF LicensedSchedules
<1>17. QED BY <1>8, <1>11, <1>13, <1>14, <1>16 DEF SettingsIInv

LEMMA RefusedSafe ==
  ASSUME SettingsIInv, NEW p \in 1..Len(patch), NEW at, DatabaseRefuses(p, at), UNCHANGED rates,
         <<patch[p].at, at>> \in {<<"saving", "failed">>, <<"saved", "unaudited">>}
  PROVE  SettingsIInv'
<1>1. PatchTyped(patch[p]) /\ Set(p, at, patch[p].n) /\ UNCHANGED <<saved, audits>>
  BY DEF DatabaseRefuses, SettingsIInv, SettingsTyped
<1>2. StaysStored(p, at, patch[p].n)
  BY DEF StaysStored, Already
<1>3. patch[p].n \in DOMAIN patch[p].body
  BY <1>1 DEF PatchTyped
<1>4. patch[p].at # "rejected" /\ at \notin {"answered", "valid", "saving"}
  OBVIOUS
<1>5. QED BY <1>1, <1>2, <1>3, <1>4, MovesSafe

LEMMA SaveSettingSafe ==
  ASSUME SettingsIInv, NEW p \in 1..Len(patch), SaveSetting(p), UNCHANGED fxVars
  PROVE  SettingsIInv'
<1>1. PatchTyped(patch[p]) /\ InPatch(p, "saving") /\ patch[p].at = "saving" /\ UNCHANGED rates
  BY DEF SaveSetting, InPatch, SettingsIInv, SettingsTyped, fxVars
<1>2. CASE Set(p, "rejected", patch[p].n) /\ UNCHANGED <<saved, audits>>
  <2>1. StaysStored(p, "rejected", patch[p].n) /\ patch[p].n \in DOMAIN patch[p].body
    BY <1>1 DEF StaysStored, Already, PatchTyped
  <2>2. QED BY <1>1, <1>2, <2>1, MovesSafe
<1>3. CASE DatabaseRefuses(p, "failed")
  BY <1>1, <1>3, RefusedSafe
<1>4. CASE /\ ~(ChangeOf(p).key = "license_file" /\ ChangeOf(p).value \in Forged)
           /\ saved' = [saved EXCEPT ![ChangeOf(p).key] = ChangeOf(p).value]
           /\ IF patch[p].n < Len(patch[p].body) THEN Set(p, "saving", patch[p].n + 1)
              ELSE Set(p, "saved", patch[p].n)
           /\ UNCHANGED audits
  BY <1>1, <1>4, SavedSafe
<1>5. QED BY <1>2, <1>3, <1>4 DEF SaveSetting

LEMMA AuditSafe ==
  ASSUME SettingsIInv, NEW p \in 1..Len(patch), Audit(p), UNCHANGED fxVars
  PROVE  SettingsIInv'
<1>1. PatchTyped(patch[p]) /\ patch[p].at = "saved" /\ UNCHANGED rates
  BY DEF Audit, InPatch, SettingsIInv, SettingsTyped, fxVars
<1>2. CASE DatabaseRefuses(p, "unaudited")
  BY <1>1, <1>2, RefusedSafe
<1>3. CASE /\ audits' = audits \cup Range(patch[p].body)
           /\ Set(p, "answered", patch[p].n)
           /\ UNCHANGED saved
  <2>1. /\ Len(patch') = Len(patch) /\ patch' = [q \in 1..Len(patch) |-> patch'[q]]
        /\ patch'[p].at = "answered"
        /\ \A q \in 1..Len(patch) : q # p => patch'[q] = patch[q]
        /\ \A q \in 1..Len(patch) : PatchTyped(patch'[q]) /\ patch'[q].body = patch[q].body
        /\ Asked' = Asked
    <3>1. patch[p].n \in DOMAIN patch[p].body
      BY <1>1 DEF PatchTyped
    <3>2. QED BY <1>3, <3>1, PlaceSet DEF SettingsIInv
  <2>2. SettingsTyped'
    BY <1>3, <2>1 DEF SettingsIInv, SettingsTyped
  <2>3. \A x : Known(x)' <=> Known(x)
    BY <1>1 DEF Known
  <2>4. CheckedConverts' /\ CurrencyConverts'
    BY <1>3, <2>1, <2>3 DEF SettingsIInv, CheckedConverts, CurrencyConverts
  <2>5. AskedFor'
    <3>1. \A k : ChangeTo(k)' = ChangeTo(k)
      BY <1>3 DEF ChangeTo
    <3>2. audits' \subseteq Asked'
      BY <1>3, <2>1 DEF SettingsIInv, AskedFor, Asked
    <3>3. ASSUME NEW k \in DOMAIN SETTING_DEFAULTS
          PROVE  \/ saved'[k] = SETTING_DEFAULTS[k]
                 \/ ChangeTo(k) \in audits'
                 \/ \E q \in 1..Len(patch') : StoredBy(q, k)'
      <4>1. CASE \E q \in 1..Len(patch) : StoredBy(q, k)
        <5>1. PICK q \in 1..Len(patch) : StoredBy(q, k)
          BY <4>1
        <5>2. CASE q = p
          <6>1. ChangeTo(k) \in Range(patch[p].body)
            BY <5>1, <5>2 DEF StoredBy, Stored, Range
          <6>2. QED BY <1>3, <6>1
        <5>3. CASE q # p
          <6>1. StoredBy(q, k)'
            BY <2>1, <3>1, <5>1, <5>3 DEF StoredBy, Stored
          <6>2. QED BY <2>1, <6>1
        <5>4. QED BY <5>2, <5>3
      <4>2. CASE saved[k] = SETTING_DEFAULTS[k] \/ ChangeTo(k) \in audits
        BY <1>3, <4>2
      <4>3. QED BY <4>1, <4>2 DEF SettingsIInv, AskedFor
    <3>4. QED BY <3>1, <3>2, <3>3 DEF AskedFor
  <2>6. LicensedSchedules'
    BY <1>1, <1>3, <2>1 DEF SettingsIInv, LicensedSchedules, LicenceCame
  <2>7. QED BY <2>2, <2>4, <2>5, <2>6 DEF SettingsIInv
<1>4. QED BY <1>2, <1>3 DEF Audit

\* A currency with a rate keeps one, as rates are only written over.
LEMMA FxStepSafe ==
  ASSUME SettingsIInv, FxIInv, [FxNext]_fxVars, UNCHANGED settingVars
  PROVE  SettingsIInv'
<1>1. UNCHANGED <<saved, patch, audits>>
  BY DEF settingVars
<1>2. \A r \in DOMAIN rates : r \in DOMAIN rates'
  BY FxSteps
<1>3. \A x : Known(x) => Known(x)'
  BY <1>2 DEF Known
<1>4. CheckedConverts' /\ CurrencyConverts'
  BY <1>1, <1>3 DEF SettingsIInv, CheckedConverts, CurrencyConverts
<1>5. UNCHANGED <<SettingsTyped, AskedFor, LicensedSchedules>>
  BY <1>1 DEF SettingsTyped, AskedFor, ChangeTo, Asked, LicensedSchedules, LicenceCame, StoredBy, Stored
<1>6. QED BY <1>4, <1>5 DEF SettingsIInv

LEMMA SettingsSteps ==
  ASSUME SettingsIInv, FxIInv,
         [(FxNext /\ UNCHANGED settingVars) \/ (SettingsNext /\ UNCHANGED fxVars)]_<<fxVars, settingVars>>
  PROVE  SettingsIInv'
<1>1. CASE [FxNext]_fxVars /\ UNCHANGED settingVars
  BY <1>1, FxStepSafe
<1>2. CASE SettingsNext /\ UNCHANGED fxVars
  <2>1. DOMAIN patch = 1..Len(patch)
    BY DEF SettingsIInv, SettingsTyped
  <2>2. QED BY <1>2, <2>1, ValidateSafe, CheckCurrencySafe, SaveSettingSafe, AuditSafe DEF SettingsNext
<1>3. QED BY <1>1, <1>2 DEF fxVars, settingVars

LEMMA SettingsHold == SettingsIInv => CurrencyConverts /\ ChangesAudited /\ NothingForged
<1> SUFFICES ASSUME SettingsIInv PROVE CurrencyConverts /\ ChangesAudited /\ NothingForged
  OBVIOUS
<1>1. DOMAIN patch = 1..Len(patch) /\ DOMAIN saved = DOMAIN SETTING_DEFAULTS
  BY DEF SettingsIInv, SettingsTyped
<1>2. ChangesAudited
  BY <1>1 DEF SettingsIInv, AskedFor, ChangesAudited, ChangeTo, StoredBy
<1>3. NothingForged
  BY <1>1 DEF SettingsIInv, LicensedSchedules, LicenceCame, Asked, NothingForged
<1>4. QED BY <1>2, <1>3 DEF SettingsIInv

(***************************************************************************)
(* Survival checks.                                                         *)
(***************************************************************************)
ChecksTyped == checks = [p \in PRs |-> [h \in Horizons |-> checks[p][h]]]

LEMMA ChecksStay ==
  ASSUME ChecksTyped, [SurvivalNext]_survivalVars
  PROVE  /\ ChecksTyped'
         /\ \A p \in PRs : \A h \in Horizons : checks[p][h] # NoRow => checks'[p][h] = checks[p][h]
<1>1. CASE UNCHANGED checks
  BY <1>1 DEF ChecksTyped
<1>2. CASE WriteCheck
  <2>1. PICK q, row : checks' = IF checks[q][row.horizon] = NoRow
                                THEN [checks EXCEPT ![q][row.horizon] = row] ELSE checks
    BY <1>2 DEF WriteCheck
  <2>2. CASE checks[q][row.horizon] = NoRow
    <3>1. checks' = [checks EXCEPT ![q] = [checks[q] EXCEPT ![row.horizon] = row]]
      BY <2>1, <2>2
    <3>2. \A p \in PRs : p # q => checks'[p] = checks[p]
      BY <3>1 DEF ChecksTyped
    <3>3. q \in PRs => checks'[q] = [checks[q] EXCEPT ![row.horizon] = row]
      BY <3>1 DEF ChecksTyped
    <3>4. \A p \in PRs : checks[p] = [h \in Horizons |-> checks[p][h]]
      BY DEF ChecksTyped
    <3>5. \A p \in PRs : \A h \in Horizons : p # q \/ h # row.horizon => checks'[p][h] = checks[p][h]
      <4>1. SUFFICES ASSUME NEW p \in PRs, NEW h \in Horizons, p # q \/ h # row.horizon
                     PROVE  checks'[p][h] = checks[p][h]
        OBVIOUS
      <4>2. CASE p # q
        BY <3>2, <4>2
      <4>3. CASE p = q
        <5>1. h \in DOMAIN checks[q]
          BY <3>4, <4>3
        <5>2. [checks[q] EXCEPT ![row.horizon] = row][h] = checks[q][h]
          BY <4>1, <4>3, <5>1
        <5>3. QED BY <3>3, <4>3, <5>2
      <4>4. QED BY <4>2, <4>3
    <3>6. \A p \in PRs : checks'[p] = [h \in Horizons |-> checks'[p][h]]
      BY <3>2, <3>3, <3>4
    <3>7. checks' = [p \in PRs |-> checks'[p]]
      BY <3>1 DEF ChecksTyped
    <3>8. ChecksTyped'
      BY <3>6, <3>7 DEF ChecksTyped
    <3>9. QED BY <2>2, <3>5, <3>8
  <2>3. CASE checks[q][row.horizon] # NoRow
    BY <1>1, <2>1, <2>3
  <2>4. QED BY <2>2, <2>3
<1>3. CASE UNCHANGED survivalVars
  BY <1>1, <1>3 DEF survivalVars
<1>4. CASE SurvivalNext /\ ~WriteCheck
  <2>1. UNCHANGED checks
    BY <1>4 DEF SurvivalNext, Grow, SyncPR, RepositoryGone, Pass, StartPass, LookUp, FindCommit,
                ReadFile, Defer, EndPass, PassDies
  <2>2. QED BY <1>1, <2>1
<1>5. QED BY <1>2, <1>3, <1>4

(***************************************************************************)
(* The limiter. "a" is the sequence of the instants at which the attempts   *)
(* of a key were let through.                                               *)
(***************************************************************************)
\* An attempt and the one that comes twice the limit after it are a window apart.
Gap(a) ==
  \A i, j \in 1..Len(a) : i + 2 * MaxAttempts <= j => a[i] + WindowLength <= a[j]

\* All but as many as the limit are a window ago.
Idle(a, now) ==
  \A i \in 1..Len(a) : i + MaxAttempts <= Len(a) => a[i] + WindowLength <= now

\* The last m are of the window that started at "start", those before are not
\* later than its start, and all but the limit of those a window before it.
Within(a, m, start) ==
  /\ m <= Len(a)
  /\ \A i \in 1..Len(a) :
       /\ i + m <= Len(a) => a[i] <= start
       /\ i + m + MaxAttempts <= Len(a) => a[i] + WindowLength <= start

Fewer(m) == IF m < MaxAttempts THEN m ELSE MaxAttempts
StartOf(k) == windows[k].resetAt - WindowLength

LimitTyped ==
  /\ instant \in Nat /\ forgets \in Nat
  /\ allowed \in [Keys -> Seq(Nat)]
  /\ IsFiniteSet(DOMAIN windows) /\ DOMAIN windows \subseteq Keys
  /\ windows = [k \in DOMAIN windows |-> windows[k]]
  /\ \A k \in DOMAIN windows :
       /\ windows[k] = [count |-> windows[k].count, resetAt |-> windows[k].resetAt]
       /\ windows[k].count \in Nat \ {0} /\ windows[k].resetAt \in Nat
       /\ StartOf(k) <= instant
  /\ \A k \in Keys : \A i \in 1..Len(allowed[k]) : allowed[k][i] <= instant

\* Unless windows that were not over have been forgotten.
Spaced ==
  forgets = 0 =>
    \A k \in Keys :
      /\ Gap(allowed[k])
      /\ k \in DOMAIN windows => Within(allowed[k], Fewer(windows[k].count), StartOf(k))
      /\ k \notin DOMAIN windows => Idle(allowed[k], instant)

LimitIInv == LimitTyped /\ Spaced

LEMMA LimitStarts == LimitInit => LimitIInv
<1> SUFFICES ASSUME LimitInit PROVE LimitIInv
  OBVIOUS
<1>1. windows = <<>> /\ DOMAIN windows = {} /\ \A k \in Keys : allowed[k] = <<>>
  BY DEF LimitInit
<1>2. IsFiniteSet({})
  BY FS_EmptySet
<1>3. LimitTyped
  BY <1>1, <1>2 DEF LimitInit, LimitTyped
<1>4. Spaced
  BY <1>1 DEF Spaced, Gap, Idle
<1>5. QED BY <1>3, <1>4 DEF LimitIInv

LEMMA OneMore ==
  ASSUME NEW a \in Seq(Nat), NEW now \in Nat
  PROVE  /\ Append(a, now) \in Seq(Nat) /\ Len(Append(a, now)) = Len(a) + 1
         /\ Append(a, now)[Len(a) + 1] = now
         /\ \A i \in 1..Len(a) : Append(a, now)[i] = a[i]
OBVIOUS

LEMMA GapGrows ==
  ASSUME NEW a \in Seq(Nat), NEW now \in Nat, Gap(a),
         \A i \in 1..Len(a) : i + 2 * MaxAttempts <= Len(a) + 1 => a[i] + WindowLength <= now
  PROVE  Gap(Append(a, now))
<1>1. PICK more : more = Append(a, now)
  OBVIOUS
<1>2. PICK len \in Nat : len = Len(a)
  OBVIOUS
<1>3. Len(more) = len + 1 /\ more[len + 1] = now /\ \A i \in 1..len : more[i] = a[i]
  BY <1>1, <1>2, OneMore
<1>4. ASSUME NEW i \in 1..len + 1, NEW j \in 1..len + 1, i + 2 * MaxAttempts <= j
      PROVE  more[i] + WindowLength <= more[j]
  <2>1. i \in 1..len
    BY <1>4, LimitAssumption
  <2>2. CASE j = len + 1
    BY <1>2, <1>3, <1>4, <2>1, <2>2
  <2>3. CASE j \in 1..len
    BY <1>2, <1>3, <1>4, <2>1, <2>3 DEF Gap
  <2>4. QED BY <2>2, <2>3
<1>5. QED BY <1>1, <1>3, <1>4 DEF Gap

\* One more in a window that is not full.
LEMMA WithinGrows ==
  ASSUME NEW a \in Seq(Nat), NEW now \in Nat, NEW m \in Nat, m < MaxAttempts, NEW start \in Int,
         Gap(a), Within(a, m, start), start <= now
  PROVE  Gap(Append(a, now)) /\ Within(Append(a, now), m + 1, start)
<1>1. PICK more : more = Append(a, now)
  OBVIOUS
<1>2. PICK len \in Nat : len = Len(a)
  OBVIOUS
<1>3. Len(more) = len + 1 /\ \A i \in 1..len : more[i] = a[i]
  BY <1>1, <1>2, OneMore
<1>4. \A i \in 1..len : a[i] \in Nat
  BY <1>2
<1>5. ASSUME NEW i \in 1..len, i + 2 * MaxAttempts <= len + 1
      PROVE  a[i] + WindowLength <= now
  <2>1. i + m + MaxAttempts <= len
    BY <1>5, LimitAssumption
  <2>2. a[i] + WindowLength <= start
    BY <1>2, <2>1 DEF Within
  <2>3. QED BY <1>4, <2>2, LimitAssumption
<1>6. Gap(more)
  BY <1>1, <1>2, <1>5, GapGrows
<1>7. ASSUME NEW i \in 1..len + 1
      PROVE  /\ i + (m + 1) <= len + 1 => more[i] <= start
             /\ i + (m + 1) + MaxAttempts <= len + 1 => more[i] + WindowLength <= start
  <2>1. SUFFICES ASSUME i + (m + 1) <= len + 1
                 PROVE  more[i] <= start /\ (i + m + MaxAttempts <= len => more[i] + WindowLength <= start)
    BY LimitAssumption
  <2>2. i \in 1..len /\ i + m <= len
    BY <2>1
  <2>3. QED BY <1>2, <1>3, <2>2 DEF Within
<1>8. m + 1 <= len + 1
  BY <1>2 DEF Within
<1>9. QED BY <1>1, <1>3, <1>6, <1>7, <1>8 DEF Within

\* The first of a window.
LEMMA WindowOpens ==
  ASSUME NEW a \in Seq(Nat), NEW now \in Nat, Gap(a), Idle(a, now),
         \A i \in 1..Len(a) : a[i] <= now
  PROVE  Gap(Append(a, now)) /\ Within(Append(a, now), 1, now)
<1>1. PICK more : more = Append(a, now)
  OBVIOUS
<1>2. PICK len \in Nat : len = Len(a)
  OBVIOUS
<1>3. Len(more) = len + 1 /\ \A i \in 1..len : more[i] = a[i]
  BY <1>1, <1>2, OneMore
<1>4. ASSUME NEW i \in 1..len, i + 2 * MaxAttempts <= len + 1
      PROVE  a[i] + WindowLength <= now
  <2>1. i + MaxAttempts <= len
    BY <1>4, LimitAssumption
  <2>2. QED BY <1>2, <2>1 DEF Idle
<1>5. Gap(more)
  BY <1>1, <1>2, <1>4, GapGrows
<1>6. ASSUME NEW i \in 1..len + 1
      PROVE  /\ i + 1 <= len + 1 => more[i] <= now
             /\ i + 1 + MaxAttempts <= len + 1 => more[i] + WindowLength <= now
  <2>1. SUFFICES ASSUME i + 1 <= len + 1
                 PROVE  more[i] <= now /\ (i + MaxAttempts <= len => more[i] + WindowLength <= now)
    BY LimitAssumption
  <2>2. i \in 1..len
    BY <2>1
  <2>3. QED BY <1>2, <1>3, <2>2 DEF Idle
<1>7. QED BY <1>1, <1>3, <1>5, <1>6 DEF Within

\* A window that is over is a window ago.
LEMMA OverIsIdle ==
  ASSUME LimitTyped, NEW k \in DOMAIN windows, Over(k),
         Within(allowed[k], Fewer(windows[k].count), StartOf(k))
  PROVE  Idle(allowed[k], instant)
<1>1. PICK a \in Seq(Nat) : a = allowed[k]
  BY DEF LimitTyped
<1>2. PICK m \in Nat : m = Fewer(windows[k].count) /\ m <= MaxAttempts
  BY LimitAssumption DEF LimitTyped, Fewer
<1>3. PICK until \in Nat : until = windows[k].resetAt /\ until <= instant
  BY DEF LimitTyped, Over
<1>4. SUFFICES ASSUME NEW i \in 1..Len(a), i + MaxAttempts <= Len(a)
               PROVE  a[i] + WindowLength <= instant
  BY <1>1 DEF Idle
<1>5. i + m <= Len(a)
  BY <1>2, <1>4, LimitAssumption
<1>6. a[i] <= until - WindowLength
  BY <1>1, <1>2, <1>3, <1>5 DEF Within, StartOf
<1>7. QED BY <1>3, <1>6, LimitAssumption DEF LimitTyped

LEMMA ElapseSafe == ASSUME LimitIInv, Elapse PROVE LimitIInv'
<1>1. instant' = instant + 1 /\ instant \in Nat /\ UNCHANGED <<windows, allowed, forgets>>
  BY DEF Elapse, LimitIInv, LimitTyped
<1>2. \A k : StartOf(k)' = StartOf(k)
  BY <1>1 DEF StartOf
<1>3. \A k \in DOMAIN windows : StartOf(k) \in Int /\ StartOf(k) <= instant + 1
  BY <1>1, LimitAssumption DEF LimitIInv, LimitTyped, StartOf
<1>4. \A k \in Keys : \A i \in 1..Len(allowed[k]) : allowed[k][i] \in Nat /\ allowed[k][i] <= instant + 1
  BY <1>1 DEF LimitIInv, LimitTyped
<1>5. LimitTyped'
  BY <1>1, <1>2, <1>3, <1>4 DEF LimitIInv, LimitTyped
<1>6. ASSUME NEW k \in Keys, Idle(allowed[k], instant)
      PROVE  Idle(allowed[k], instant + 1)
  <2>1. SUFFICES ASSUME NEW i \in 1..Len(allowed[k]), i + MaxAttempts <= Len(allowed[k])
                 PROVE  allowed[k][i] + WindowLength <= instant + 1
    BY DEF Idle
  <2>2. PICK x \in Nat : x = allowed[k][i]
    BY <1>4, <2>1
  <2>3. x + WindowLength <= instant
    BY <1>6, <2>1, <2>2 DEF Idle
  <2>4. QED BY <1>1, <2>2, <2>3, LimitAssumption
<1>7. Spaced'
  BY <1>1, <1>2, <1>6 DEF LimitIInv, Spaced
<1>8. QED BY <1>5, <1>7 DEF LimitIInv

\* An attempt in a window that is not over.
LEMMA CountedSafe ==
  ASSUME LimitIInv, NEW k \in Keys, k \in DOMAIN windows, ~Over(k), rateLimit(k)
  PROVE  LimitIInv'
<1>1. PICK a \in Seq(Nat) : a = allowed[k]
  BY DEF LimitIInv, LimitTyped
<1>2. PICK c \in Nat \ {0} : c = windows[k].count
  BY DEF LimitIInv, LimitTyped
<1>3. /\ windows' = [windows EXCEPT ![k].count = @ + 1]
      /\ IF c + 1 <= MaxAttempts THEN allowed' = [allowed EXCEPT ![k] = Append(a, instant)]
         ELSE UNCHANGED allowed
      /\ UNCHANGED <<instant, forgets>>
  BY <1>1, <1>2 DEF rateLimit, Through
<1>4. PICK w : w = [windows[k] EXCEPT !.count = c + 1]
  OBVIOUS
<1>5. /\ w = [count |-> w.count, resetAt |-> w.resetAt]
      /\ w.count = c + 1 /\ w.resetAt = windows[k].resetAt
  BY <1>4 DEF LimitIInv, LimitTyped
<1>6. windows' = [windows EXCEPT ![k] = w]
  BY <1>2, <1>3, <1>4
<1>7. /\ DOMAIN windows' = DOMAIN windows /\ windows'[k] = w
      /\ windows' = [l \in DOMAIN windows' |-> windows'[l]]
      /\ \A l \in DOMAIN windows : l # k => windows'[l] = windows[l]
  BY <1>6 DEF LimitIInv, LimitTyped
<1>8. \A l \in DOMAIN windows : StartOf(l)' = StartOf(l)
  BY <1>5, <1>7 DEF StartOf
<1>9. /\ allowed' \in [Keys -> Seq(Nat)]
      /\ \A l \in Keys : l # k => allowed'[l] = allowed[l]
      /\ allowed'[k] = IF c + 1 <= MaxAttempts THEN Append(a, instant) ELSE a
  <2>1. Append(a, instant) \in Seq(Nat)
    BY OneMore DEF LimitIInv, LimitTyped
  <2>2. QED BY <1>1, <1>3, <2>1 DEF LimitIInv, LimitTyped
<1>10. \A i \in 1..Len(allowed'[k]) : allowed'[k][i] <= instant
  <2>1. instant \in Nat /\ \A i \in 1..Len(a) : a[i] <= instant
    BY <1>1 DEF LimitIInv, LimitTyped
  <2>2. PICK len \in Nat : len = Len(a)
    BY <1>1
  <2>3. CASE c + 1 <= MaxAttempts
    BY <1>9, <2>1, <2>2, <2>3, OneMore
  <2>4. CASE ~(c + 1 <= MaxAttempts)
    BY <1>9, <2>1, <2>4
  <2>5. QED BY <2>3, <2>4
<1>11. LimitTyped'
  <2>1. \A l \in DOMAIN windows' :
          /\ windows'[l] = [count |-> windows'[l].count, resetAt |-> windows'[l].resetAt]
          /\ windows'[l].count \in Nat \ {0} /\ windows'[l].resetAt \in Nat
          /\ StartOf(l)' <= instant
    <3>1. SUFFICES ASSUME NEW l \in DOMAIN windows
                   PROVE  /\ windows'[l] = [count |-> windows'[l].count, resetAt |-> windows'[l].resetAt]
                          /\ windows'[l].count \in Nat \ {0} /\ windows'[l].resetAt \in Nat
                          /\ StartOf(l)' <= instant
      BY <1>7
    <3>2. StartOf(l)' <= instant /\ windows[l].resetAt \in Nat
      BY <1>8 DEF LimitIInv, LimitTyped
    <3>3. CASE l = k
      BY <1>5, <1>7, <3>2, <3>3
    <3>4. CASE l # k
      BY <1>7, <3>2, <3>4 DEF LimitIInv, LimitTyped
    <3>5. QED BY <3>3, <3>4
  <2>2. \A l \in Keys : \A i \in 1..Len(allowed'[l]) : allowed'[l][i] <= instant
    BY <1>9, <1>10 DEF LimitIInv, LimitTyped
  <2>3. QED BY <1>3, <1>7, <1>9, <2>1, <2>2 DEF LimitIInv, LimitTyped
<1>12. Spaced'
  <2>1. SUFFICES ASSUME forgets = 0 PROVE Spaced'
    BY <1>3 DEF Spaced
  <2>2. Gap(a) /\ Within(a, Fewer(c), StartOf(k))
    BY <1>1, <1>2, <2>1 DEF LimitIInv, Spaced
  <2>3. Gap(allowed'[k]) /\ Within(allowed'[k], Fewer(c + 1), StartOf(k))
    <3>1. CASE c + 1 <= MaxAttempts
      <4>1. Fewer(c) = c /\ Fewer(c + 1) = c + 1 /\ c < MaxAttempts
        BY <3>1, LimitAssumption DEF Fewer
      <4>2. StartOf(k) \in Int /\ StartOf(k) <= instant /\ instant \in Nat
        BY LimitAssumption DEF LimitIInv, LimitTyped, StartOf
      <4>3. QED BY <1>9, <2>2, <3>1, <4>1, <4>2, WithinGrows
    <3>2. CASE ~(c + 1 <= MaxAttempts)
      <4>1. Fewer(c) = MaxAttempts /\ Fewer(c + 1) = MaxAttempts
        BY <3>2, LimitAssumption DEF Fewer
      <4>2. QED BY <1>9, <2>2, <3>2, <4>1
    <3>3. QED BY <3>1, <3>2
  <2>4. ASSUME NEW l \in Keys
        PROVE  /\ Gap(allowed'[l])
               /\ l \in DOMAIN windows' => Within(allowed'[l], Fewer(windows'[l].count), StartOf(l)')
               /\ l \notin DOMAIN windows' => Idle(allowed'[l], instant')
    <3>1. CASE l = k
      BY <1>5, <1>7, <1>8, <2>3, <3>1
    <3>2. CASE l # k
      BY <1>3, <1>7, <1>8, <1>9, <2>1, <3>2 DEF LimitIInv, Spaced
    <3>3. QED BY <3>1, <3>2
  <2>5. QED BY <2>4 DEF Spaced
<1>13. QED BY <1>11, <1>12 DEF LimitIInv

\* An attempt that opens a window: of the other keys only those are forgotten
\* whose window is over, or forgets counts it.
LEMMA OpensSafely ==
  ASSUME LimitIInv, NEW k \in Keys, ~(k \in DOMAIN windows /\ ~Over(k)), rateLimit(k)
  PROVE  LimitIInv'
<1>1. PICK a \in Seq(Nat) : a = allowed[k]
  BY DEF LimitIInv, LimitTyped
<1>2. PICK w : w = [count |-> 1, resetAt |-> instant + WindowLength]
  OBVIOUS
<1>3. instant \in Nat /\ forgets \in Nat /\ WindowLength \in Nat
  BY LimitAssumption DEF LimitIInv, LimitTyped
<1>4. /\ w = [count |-> w.count, resetAt |-> w.resetAt]
      /\ w.count = 1 /\ w.resetAt = instant + WindowLength /\ w.resetAt \in Nat
  BY <1>2, <1>3
<1>5. /\ windows' = [l \in Kept \cup {k} |-> IF l = k THEN w ELSE windows[l]]
      /\ allowed' = [allowed EXCEPT ![k] = Append(a, instant)]
      /\ forgets' = forgets + (IF Cardinality(Unexpired) >= MaxTracked THEN 1 ELSE 0)
      /\ UNCHANGED instant
  BY <1>1, <1>2 DEF rateLimit, Through
<1>6. Kept \subseteq DOMAIN windows /\ Unexpired \subseteq DOMAIN windows
  BY DEF Kept, Unexpired
<1>7. IsFiniteSet(Kept \cup {k}) /\ Cardinality(Unexpired) \in Nat
  <2>1. IsFiniteSet(DOMAIN windows)
    BY DEF LimitIInv, LimitTyped
  <2>2. IsFiniteSet(Kept) /\ IsFiniteSet(Unexpired)
    BY <1>6, <2>1, FS_Subset
  <2>3. QED BY <2>2, FS_AddElement, FS_CardinalityType
<1>8. /\ DOMAIN windows' = Kept \cup {k} /\ windows'[k] = w
      /\ windows' = [l \in DOMAIN windows' |-> windows'[l]]
      /\ \A l \in Kept : l # k => windows'[l] = windows[l]
  BY <1>5
<1>9. /\ StartOf(k)' = instant
      /\ \A l \in Kept : l # k => StartOf(l)' = StartOf(l)
  <2>1. StartOf(k)' = (instant + WindowLength) - WindowLength
    BY <1>4, <1>8 DEF StartOf
  <2>2. QED BY <1>3, <1>8, <2>1 DEF StartOf
<1>10. Append(a, instant) \in Seq(Nat)
  BY <1>3, OneMore
<1>11. /\ allowed' \in [Keys -> Seq(Nat)]
       /\ \A l \in Keys : l # k => allowed'[l] = allowed[l]
       /\ allowed'[k] = Append(a, instant)
  BY <1>5, <1>10 DEF LimitIInv, LimitTyped
<1>12. \A i \in 1..Len(a) : a[i] <= instant
  BY <1>1 DEF LimitIInv, LimitTyped
<1>13. \A i \in 1..Len(allowed'[k]) : allowed'[k][i] <= instant
  <2>1. PICK len \in Nat : len = Len(a)
    BY <1>1
  <2>2. QED BY <1>3, <1>11, <1>12, <2>1, OneMore
<1>14. LimitTyped'
  <2>1. \A l \in DOMAIN windows' :
          /\ windows'[l] = [count |-> windows'[l].count, resetAt |-> windows'[l].resetAt]
          /\ windows'[l].count \in Nat \ {0} /\ windows'[l].resetAt \in Nat
          /\ StartOf(l)' <= instant
    <3>1. SUFFICES ASSUME NEW l \in DOMAIN windows'
                   PROVE  /\ windows'[l] = [count |-> windows'[l].count, resetAt |-> windows'[l].resetAt]
                          /\ windows'[l].count \in Nat \ {0} /\ windows'[l].resetAt \in Nat
                          /\ StartOf(l)' <= instant
      OBVIOUS
    <3>2. CASE l = k
      BY <1>3, <1>4, <1>8, <1>9, <3>2
    <3>3. CASE l # k
      <4>1. l \in Kept /\ l \in DOMAIN windows
        BY <1>6, <1>8, <3>1, <3>3
      <4>2. QED BY <1>8, <1>9, <3>3, <4>1 DEF LimitIInv, LimitTyped
    <3>4. QED BY <3>2, <3>3
  <2>2. \A l \in Keys : \A i \in 1..Len(allowed'[l]) : allowed'[l][i] <= instant
    BY <1>11, <1>13 DEF LimitIInv, LimitTyped
  <2>3. DOMAIN windows' \subseteq Keys
    BY <1>6, <1>8 DEF LimitIInv, LimitTyped
  <2>4. forgets' \in Nat
    BY <1>3, <1>5
  <2>5. QED BY <1>3, <1>5, <1>7, <1>8, <1>11, <2>1, <2>2, <2>3, <2>4 DEF LimitTyped
<1>15. Spaced'
  <2>1. SUFFICES ASSUME forgets' = 0 PROVE Spaced'
    BY DEF Spaced
  <2>2. forgets = 0 /\ Cardinality(Unexpired) < MaxTracked
    BY <1>3, <1>5, <1>7, <2>1, LimitAssumption
  <2>3. Unexpired \subseteq Kept
    BY <1>6, <2>2 DEF Kept
  <2>4. \A l \in Keys : Gap(allowed[l]) /\ (l \notin DOMAIN windows => Idle(allowed[l], instant))
    BY <2>2 DEF LimitIInv, Spaced
  <2>5. \A l \in DOMAIN windows : Within(allowed[l], Fewer(windows[l].count), StartOf(l))
    BY <2>2 DEF LimitIInv, LimitTyped, Spaced
  <2>6. \A l \in DOMAIN windows : Over(l) => Idle(allowed[l], instant)
    BY <2>5, OverIsIdle DEF LimitIInv
  <2>7. Gap(allowed'[k]) /\ Within(allowed'[k], 1, instant)
    <3>1. Gap(a) /\ Idle(a, instant)
      BY <1>1, <2>4, <2>6
    <3>2. QED BY <1>3, <1>11, <1>12, <3>1, WindowOpens
  <2>8. ASSUME NEW l \in Keys
        PROVE  /\ Gap(allowed'[l])
               /\ l \in DOMAIN windows' => Within(allowed'[l], Fewer(windows'[l].count), StartOf(l)')
               /\ l \notin DOMAIN windows' => Idle(allowed'[l], instant')
    <3>1. CASE l = k
      <4>1. Fewer(w.count) = 1
        BY <1>4, LimitAssumption DEF Fewer
      <4>2. QED BY <1>8, <1>9, <2>7, <3>1, <4>1
    <3>2. CASE l # k /\ l \in Kept
      <4>1. l \in DOMAIN windows /\ l \in DOMAIN windows'
        BY <1>6, <1>8, <3>2
      <4>2. QED BY <1>8, <1>9, <1>11, <2>4, <2>5, <3>2, <4>1
    <3>3. CASE l # k /\ l \notin Kept
      <4>1. l \notin DOMAIN windows' /\ (l \in DOMAIN windows => Over(l))
        BY <1>8, <2>3, <3>3 DEF Unexpired
      <4>2. QED BY <1>5, <1>11, <2>4, <2>6, <3>3, <4>1
    <3>4. QED BY <3>1, <3>2, <3>3
  <2>9. QED BY <2>8 DEF Spaced
<1>16. QED BY <1>14, <1>15 DEF LimitIInv

LEMMA LimitSteps == LimitIInv /\ [LimitNext]_limitVars => LimitIInv'
<1> SUFFICES ASSUME LimitIInv, [LimitNext]_limitVars PROVE LimitIInv'
  OBVIOUS
<1>1. CASE UNCHANGED limitVars
  BY <1>1 DEF limitVars, LimitIInv, LimitTyped, Spaced, StartOf
<1>2. CASE LimitNext
  BY <1>2, ElapseSafe, CountedSafe, OpensSafely DEF LimitNext
<1>3. QED BY <1>1, <1>2

LEMMA LimitHolds == LimitIInv => Throttled
<1> SUFFICES ASSUME LimitIInv, ~(forgets > 0), NEW k \in Keys,
                    NEW i \in DOMAIN allowed[k], NEW j \in DOMAIN allowed[k],
                    i < j, allowed[k][j] - allowed[k][i] < WindowLength
             PROVE  j - i + 1 <= 2 * MaxAttempts
  BY DEF Throttled
<1>1. PICK a \in Seq(Nat) : a = allowed[k]
  BY DEF LimitIInv, LimitTyped
<1>2. i \in 1..Len(a) /\ j \in 1..Len(a) /\ a[i] \in Nat /\ a[j] \in Nat
  BY <1>1
<1>3. Gap(a)
  BY <1>1 DEF LimitIInv, LimitTyped, Spaced
<1>4. ~(i + 2 * MaxAttempts <= j)
  <2>1. ~(a[i] + WindowLength <= a[j])
    BY <1>1, <1>2, LimitAssumption
  <2>2. QED BY <1>2, <1>3, <2>1 DEF Gap
<1>5. QED BY <1>2, <1>4, LimitAssumption

(***************************************************************************)
(* Signing in: the admins, and who removes them.                            *)
(***************************************************************************)
Removes(r) == req[r] # Free /\ req[r].step \in {"count", "delete", "grant", "erase"}

\* A request whose step is changed in place is a record of its step and its user.
Shaped(q) ==
  q # Free /\ q.step \in {"void", "count", "signout"} => q = [step |-> q.step, user |-> q.user]

AccessTyped ==
  /\ users \in [Logins -> User \cup {NoUser}]
  /\ req = [r \in Requests |-> req[r]]
  /\ \A r \in Requests :
       /\ Shaped(req[r])
       /\ At(r, "grant") => req[r].role \in {"admin", "viewer"} /\ req[r].person \in Members
       /\ Removes(r) /\ req[r].step # "erase" => req[r].user \in uses.born \cup {NoOne}
  /\ uses = [born |-> uses.born, spent |-> uses.spent, own |-> uses.own, twice |-> uses.twice]
  /\ claimed \in Nat /\ emptied \in Nat /\ erased \in 0..emptied

\* The ids of logins are given in order, and never again.
BornInOrder ==
  /\ \E c \in Nat : uses.born = 1..c
  /\ \A u \in Logins : users[u] # NoUser => u \in uses.born

\* Every claim but one had the last admin gone before it.
ClaimCount == claimed <= emptied + (IF Admins = {} THEN 0 ELSE 1)

\* Unless removals overlapped, the last admin went only with their person, there
\* is one removal at most, and when it is about to take an admin's login or role
\* away and leave them their person, there is another admin.
OneRemoval ==
  ~overlaps =>
    /\ emptied = erased
    /\ \A q, r \in Requests : Removes(q) /\ Removes(r) => q = r
    /\ \A r \in Requests : Removes(r) /\ req[r].step \notin {"count", "erase"} =>
         (req[r].user \in Admins => \E a \in Admins : a # req[r].user)

AdminIInv == AccessTyped /\ BornInOrder /\ ClaimCount /\ OneRemoval

LEMMA AdminStarts == AccessInit => AdminIInv
<1> SUFFICES ASSUME AccessInit PROVE AdminIInv
  OBVIOUS
<1>1. /\ \A r \in Requests : req[r] = Free
      /\ uses = [born |-> {}, spent |-> {}, own |-> {}, twice |-> FALSE]
      /\ \A u \in Logins : users[u] = NoUser
  BY DEF AccessInit
<1>2. AccessTyped
  BY <1>1 DEF AccessInit, AccessTyped, Shaped, At, Removes
<1>3. BornInOrder
  <2>1. uses.born = 1..0
    BY <1>1
  <2>2. QED BY <1>1, <2>1 DEF BornInOrder
<1>4. ClaimCount
  BY <1>1 DEF AccessInit, ClaimCount, Admins
<1>5. OneRemoval
  BY <1>1 DEF AccessInit, OneRemoval, Removes
<1>6. QED BY <1>2, <1>3, <1>4, <1>5 DEF AdminIInv

LEMMA Went ==
  ASSUME AccessTyped, NEW r \in Requests, NEW q, req' = [req EXCEPT ![r] = q]
  PROVE  /\ req'[r] = q /\ \A s \in Requests : s # r => req'[s] = req[s]
         /\ req' = [s \in Requests |-> req'[s]]
BY DEF AccessTyped

\* The next login was never given before.
LEMMA NextIsNew ==
  ASSUME BornInOrder, CanCreate
  PROVE  /\ NextLogin \in Logins /\ NextLogin \notin uses.born
         /\ users[NextLogin] = NoUser
         /\ \E c \in Nat : uses.born \cup {NextLogin} = 1..c
<1>1. PICK c \in Nat : uses.born = 1..c
  BY DEF BornInOrder
<1>2. Cardinality(uses.born) = c
  <2>1. Cardinality(1..c) = IF 1 > c THEN 0 ELSE c - 1 + 1
    BY FS_Interval
  <2>2. QED BY <1>1, <2>1
<1>3. NextLogin = c + 1 /\ NextLogin \in Logins
  BY <1>2 DEF NextLogin, CanCreate
<1>4. c + 1 \notin 1..c /\ 1..c \cup {c + 1} = 1..(c + 1)
  OBVIOUS
<1>5. QED BY <1>1, <1>3, <1>4 DEF BornInOrder

\* A step that leaves the logins alone, of a request that removes nobody.
LEMMA BystanderSafe ==
  ASSUME AdminIInv, UNCHANGED <<users, claimed, emptied, erased, overlaps>>, uses'.born = uses.born,
         uses' = [born |-> uses'.born, spent |-> uses'.spent, own |-> uses'.own, twice |-> uses'.twice],
         \/ UNCHANGED req
         \/ \E r \in Requests : \E q :
              /\ req' = [req EXCEPT ![r] = q]
              /\ q = Free \/ q.step \notin {"count", "delete", "grant", "erase"}
              /\ Shaped(q)
  PROVE  AdminIInv'
<1>1. /\ req' = [s \in Requests |-> req'[s]]
      /\ \A s \in Requests : Shaped(req'[s]) /\ (req'[s] = req[s] \/ ~Removes(s)')
  <2>1. CASE UNCHANGED req
    BY <2>1 DEF AdminIInv, AccessTyped
  <2>2. ASSUME NEW r \in Requests, NEW q, req' = [req EXCEPT ![r] = q],
               q = Free \/ q.step \notin {"count", "delete", "grant", "erase"}, Shaped(q)
        PROVE  /\ req' = [s \in Requests |-> req'[s]]
               /\ \A s \in Requests : Shaped(req'[s]) /\ (req'[s] = req[s] \/ ~Removes(s)')
    <3>1. /\ req'[r] = q /\ \A s \in Requests : s # r => req'[s] = req[s]
          /\ req' = [s \in Requests |-> req'[s]]
      BY <2>2, Went DEF AdminIInv
    <3>2. QED BY <2>2, <3>1 DEF AdminIInv, AccessTyped, Removes
  <2>3. QED BY <2>1, <2>2
<1>2. \A s \in Requests : At(s, "grant")' => Removes(s)'
  BY DEF At, Removes
<1>3. \A s \in Requests : Removes(s)' => Removes(s) /\ req'[s] = req[s]
  BY <1>1 DEF Removes
<1>4. Admins' = Admins
  BY DEF Admins
<1>5. AccessTyped'
  <2>1. \A s \in Requests :
          /\ Shaped(req'[s])
          /\ At(s, "grant")' => req'[s].role \in {"admin", "viewer"} /\ req'[s].person \in Members
          /\ Removes(s)' /\ req'[s].step # "erase" => req'[s].user \in uses.born \cup {NoOne}
    BY <1>1, <1>2, <1>3 DEF AdminIInv, AccessTyped, At
  <2>2. QED BY <1>1, <2>1 DEF AdminIInv, AccessTyped
<1>6. BornInOrder'
  BY DEF AdminIInv, BornInOrder
<1>7. ClaimCount'
  BY <1>4 DEF AdminIInv, ClaimCount
<1>8. OneRemoval'
  BY <1>3, <1>4 DEF AdminIInv, OneRemoval
<1>9. QED BY <1>5, <1>6, <1>7, <1>8 DEF AdminIInv

\* The claims stay within their count when the admins that go are counted.
LEMMA EmptiedCounts ==
  ASSUME AdminIInv, Emptied, UNCHANGED claimed
  PROVE  emptied' \in Nat /\ emptied <= emptied' /\ ClaimCount'
BY DEF AdminIInv, AccessTyped, Emptied, ClaimCount

LEMMA ClaimInstanceSafe ==
  ASSUME AdminIInv, NEW r \in Requests, ClaimInstance(r)
  PROVE  AdminIInv'
<1>1. CASE ~(lockClaim /\ CanCreate)
  <2>1. UNCHANGED <<users, uses, claimed, emptied, erased, overlaps>> /\ req' = [req EXCEPT ![r] = Free]
    BY <1>1 DEF ClaimInstance, End, Go
  <2>2. Shaped(Free)
    BY DEF Shaped
  <2>3. QED BY <2>1, <2>2, BystanderSafe DEF AdminIInv, AccessTyped
<1>2. CASE lockClaim /\ CanCreate
  <2>1. PICK u, pw, row :
          /\ u = NextLogin
          /\ pw = (req[r].passkey = NoOne) /\ pw \in BOOLEAN
          /\ row = [role |-> "admin", person |-> NoOne, password |-> pw]
    BY Zenon
  <2>2. /\ users' = [users EXCEPT ![u] = row] /\ req' = [req EXCEPT ![r] = Free]
        /\ claimed' = claimed + 1 /\ UNCHANGED <<emptied, erased, overlaps>>
        /\ uses'.born = uses.born \cup {u}
        /\ uses' = [born |-> uses'.born, spent |-> uses'.spent, own |-> uses'.own, twice |-> uses'.twice]
    BY <1>2, <2>1 DEF ClaimInstance, End, Go, AdminIInv, AccessTyped
  <2>3. /\ u \in Logins /\ u \notin uses.born /\ users[u] = NoUser
        /\ \E c \in Nat : uses'.born = 1..c
    BY <1>2, <2>1, <2>2, NextIsNew DEF AdminIInv
  <2>4. row \in User /\ row # NoUser /\ row.role = "admin"
    <3>1. pw \in BOOLEAN /\ row = [role |-> "admin", person |-> NoOne, password |-> pw]
      BY <2>1, Zenon
    <3>2. row \in User /\ row.role = "admin"
      BY <3>1 DEF User
    <3>3. QED BY <3>2, AccessAssumption
  <2>5. /\ users' \in [Logins -> User \cup {NoUser}] /\ users'[u] = row
        /\ \A v \in Logins : v # u => users'[v] = users[v]
    BY <2>2, <2>3, <2>4 DEF AdminIInv, AccessTyped
  <2>6. Admins' = Admins \cup {u} /\ Admins = {}
    BY <1>2, <2>3, <2>4, <2>5 DEF Admins, lockClaim, isClaimed
  <2>7. /\ req'[r] = Free /\ \A s \in Requests : s # r => req'[s] = req[s]
        /\ req' = [s \in Requests |-> req'[s]]
    BY <2>2, Went DEF AdminIInv
  <2>8. \A s \in Requests : Removes(s)' => Removes(s) /\ req'[s] = req[s] /\ (req[s].step # "erase" => req[s].user # u)
    BY <2>3, <2>7, AccessAssumption DEF AdminIInv, AccessTyped, Removes
  <2>9. AccessTyped'
    <3>1. \A s \in Requests : Shaped(req'[s])
      BY <2>7 DEF AdminIInv, AccessTyped, Shaped
    <3>2. \A s \in Requests :
            At(s, "grant")' => req'[s].role \in {"admin", "viewer"} /\ req'[s].person \in Members
      BY <2>7 DEF AdminIInv, AccessTyped, At
    <3>3. \A s \in Requests : Removes(s)' /\ req'[s].step # "erase" => req'[s].user \in uses'.born \cup {NoOne}
      BY <2>2, <2>8 DEF AdminIInv, AccessTyped
    <3>4. QED BY <2>2, <2>5, <2>7, <3>1, <3>2, <3>3 DEF AdminIInv, AccessTyped
  <2>10. BornInOrder'
    BY <2>2, <2>3, <2>5 DEF AdminIInv, BornInOrder
  <2>11. ClaimCount'
    BY <2>2, <2>6 DEF AdminIInv, AccessTyped, ClaimCount
  <2>12. OneRemoval'
    BY <2>2, <2>6, <2>8 DEF AdminIInv, OneRemoval
  <2>13. QED BY <2>9, <2>10, <2>11, <2>12 DEF AdminIInv
<1>3. QED BY <1>1, <1>2

LEMMA SetPasswordSafe ==
  ASSUME AdminIInv, NEW u \in Logins, SetPassword(u)
  PROVE  AdminIInv'
<1>1. /\ users' = [users EXCEPT ![u].password = TRUE] /\ users[u] # NoUser
      /\ UNCHANGED <<req, uses, claimed, emptied, erased, overlaps>>
  BY DEF SetPassword, SignedIn, Exists, history
<1>2. PICK row : row = [users[u] EXCEPT !.password = TRUE]
  OBVIOUS
<1>3. row \in User /\ row # NoUser /\ row.role = users[u].role
  <2>1. users[u] \in User
    BY <1>1 DEF AdminIInv, AccessTyped
  <2>2. row \in User /\ row.role = users[u].role
    BY <1>2, <2>1 DEF User
  <2>3. QED BY <2>2, AccessAssumption
<1>4. /\ users' \in [Logins -> User \cup {NoUser}] /\ users'[u] = row
      /\ \A v \in Logins : v # u => users'[v] = users[v]
  BY <1>1, <1>2, <1>3 DEF AdminIInv, AccessTyped
<1>5. Admins' = Admins
  BY <1>1, <1>3, <1>4 DEF Admins
<1>6. AccessTyped'
  BY <1>1, <1>4 DEF AdminIInv, AccessTyped, At, Removes
<1>7. BornInOrder'
  BY <1>1, <1>4 DEF AdminIInv, BornInOrder
<1>8. ClaimCount' /\ OneRemoval'
  BY <1>1, <1>5 DEF AdminIInv, ClaimCount, OneRemoval, Removes
<1>9. QED BY <1>6, <1>7, <1>8 DEF AdminIInv

\* A removal, or a change of a role, begins.
LEMMA RemovalBegins ==
  ASSUME AdminIInv, NEW r \in Requests, NEW q, req[r] = Free, req' = [req EXCEPT ![r] = q],
         overlaps' = (overlaps \/ Removing # {}), UNCHANGED <<users, uses, claimed, emptied, erased>>,
         q.step \in {"count", "delete", "grant", "erase"}, Shaped(q),
         q.step # "erase" => q.user \in uses.born \cup {NoOne},
         q.step = "grant" => q.role \in {"admin", "viewer"} /\ q.person \in Members,
         q.step \notin {"count", "erase"} => (q.user \in Admins => \E a \in Admins : a # q.user)
  PROVE  AdminIInv'
<1>1. /\ req'[r] = q /\ \A s \in Requests : s # r => req'[s] = req[s]
      /\ req' = [s \in Requests |-> req'[s]]
  BY Went DEF AdminIInv
<1>2. Admins' = Admins
  BY DEF Admins
<1>3. AccessTyped'
  <2>1. \A s \in Requests :
          /\ Shaped(req'[s])
          /\ At(s, "grant")' => req'[s].role \in {"admin", "viewer"} /\ req'[s].person \in Members
          /\ Removes(s)' /\ req'[s].step # "erase" => req'[s].user \in uses.born \cup {NoOne}
    BY <1>1 DEF AdminIInv, AccessTyped, At, Removes
  <2>2. QED BY <1>1, <2>1 DEF AdminIInv, AccessTyped
<1>4. BornInOrder' /\ ClaimCount'
  BY <1>2 DEF AdminIInv, BornInOrder, ClaimCount
<1>5. OneRemoval'
  <2>1. SUFFICES ASSUME ~overlaps' PROVE OneRemoval'
    BY DEF OneRemoval
  <2>2. ~overlaps /\ \A s \in Requests : ~Removes(s)
    BY <2>1 DEF Removing, Removes
  <2>3. \A s \in Requests : s # r => ~Removes(s)'
    BY <1>1, <2>2 DEF Removes
  <2>4. QED BY <1>1, <1>2, <2>2, <2>3 DEF AdminIInv, OneRemoval
<1>6. QED BY <1>3, <1>4, <1>5 DEF AdminIInv

LEMMA LookedUpSafe ==
  ASSUME AdminIInv, NEW r \in Requests, NEW u \in Logins, users[u] # NoUser, LookedUp(r, u)
  PROVE  AdminIInv'
<1>1. PICK q : q = [step |-> IF users[u].role = "admin" THEN "count" ELSE "delete", user |-> u]
  OBVIOUS
<1>2. /\ req[r] = Free /\ req' = [req EXCEPT ![r] = q]
      /\ overlaps' = (overlaps \/ Removing # {}) /\ UNCHANGED <<users, uses, claimed, emptied, erased>>
  BY <1>1 DEF LookedUp, Start, logged
<1>3. /\ q.user = u /\ q.step \in {"count", "delete"} /\ q = [step |-> q.step, user |-> q.user]
      /\ q.step = "delete" => u \notin Admins
  BY <1>1 DEF Admins
<1>4. Shaped(q) /\ u \in uses.born
  BY <1>3 DEF Shaped, AdminIInv, BornInOrder
<1>5. QED BY <1>2, <1>3, <1>4, RemovalBegins

LEMMA AccessRoleSafe ==
  ASSUME AdminIInv, NEW r \in Requests, NEW by \in Logins, NEW p \in Members,
         NEW role \in {"admin", "viewer"}, AccessRole(r, by, p, role)
  PROVE  AdminIInv'
<1>1. PICK u : u = IF LoginsOf(p) = {} THEN NoOne ELSE CHOOSE v \in LoginsOf(p) : TRUE
  OBVIOUS
<1>2. PICK q : q = [step |-> "grant", person |-> p, role |-> role, user |-> u]
  OBVIOUS
<1>3. /\ req[r] = Free /\ req' = [req EXCEPT ![r] = q] /\ by \notin LoginsOf(p) /\ by \in Admins
      /\ overlaps' = (overlaps \/ Removing # {}) /\ UNCHANGED <<users, uses, claimed, emptied, erased>>
  BY <1>1, <1>2 DEF AccessRole, Start, logged, requireAdmin, SignedIn, Exists, Admins
<1>4. q.step = "grant" /\ q.person = p /\ q.role = role /\ q.user = u
  BY <1>2
<1>5. u = NoOne \/ (u \in LoginsOf(p) /\ u \in Logins /\ users[u] # NoUser)
  BY <1>1 DEF LoginsOf
<1>6. by # u /\ u \in uses.born \cup {NoOne}
  BY <1>3, <1>5, AccessAssumption DEF AdminIInv, BornInOrder
<1>7. Shaped(q)
  BY <1>4 DEF Shaped
<1>8. QED BY <1>3, <1>4, <1>6, <1>7, RemovalBegins

LEMMA CountAdminsSafe ==
  ASSUME AdminIInv, NEW r \in Requests, CountAdmins(r)
  PROVE  AdminIInv'
<1>1. /\ req[r] # Free /\ req[r].step = "count" /\ UNCHANGED <<users, uses, claimed, emptied, erased, overlaps>>
  BY DEF CountAdmins, At, logged, history
<1>2. CASE LastAdmin
  <2>1. req' = [req EXCEPT ![r] = Free] /\ Shaped(Free)
    BY <1>2 DEF CountAdmins, End, Go, Shaped
  <2>2. QED BY <1>1, <2>1, BystanderSafe DEF AdminIInv, AccessTyped
<1>3. CASE ~LastAdmin
  <2>1. PICK q : q = [req[r] EXCEPT !.step = "delete"]
    OBVIOUS
  <2>2. req' = [req EXCEPT ![r] = q]
    BY <1>3, <2>1 DEF CountAdmins, Go
  <2>3. req[r] = [step |-> req[r].step, user |-> req[r].user]
    BY <1>1 DEF AdminIInv, AccessTyped, Shaped
  <2>4. q = [step |-> "delete", user |-> req[r].user]
    BY <2>1, <2>3
  <2>5. q.step = "delete" /\ q.user = req[r].user
    BY <2>4
  <2>6. /\ req'[r] = q /\ \A s \in Requests : s # r => req'[s] = req[s]
        /\ req' = [s \in Requests |-> req'[s]]
    BY <2>2, Went DEF AdminIInv
  <2>7. \A s \in Requests : Removes(s)' => Removes(s) /\ (req'[s].step # "erase" => req[s].step # "erase" /\ req'[s].user = req[s].user)
    BY <1>1, <2>5, <2>6 DEF Removes
  <2>8. Admins' = Admins
    BY <1>1 DEF Admins
  <2>9. \E a \in Admins : a # req[r].user
    <3>1. SUFFICES ASSUME Admins \subseteq {req[r].user} PROVE FALSE
      OBVIOUS
    <3>2. IsFiniteSet({req[r].user}) /\ Cardinality({req[r].user}) = 1
      BY FS_Singleton
    <3>3. Cardinality(Admins) <= 1
      BY <3>1, <3>2, FS_Subset
    <3>4. QED BY <1>3, <3>3 DEF LastAdmin
  <2>10. AccessTyped'
    <3>1. \A s \in Requests : Shaped(req'[s])
      BY <2>5, <2>6 DEF AdminIInv, AccessTyped, Shaped
    <3>2. \A s \in Requests :
            At(s, "grant")' => req'[s].role \in {"admin", "viewer"} /\ req'[s].person \in Members
      BY <2>5, <2>6 DEF AdminIInv, AccessTyped, At
    <3>3. \A s \in Requests : Removes(s)' /\ req'[s].step # "erase" => req'[s].user \in uses.born \cup {NoOne}
      BY <2>7 DEF AdminIInv, AccessTyped
    <3>4. QED BY <1>1, <2>6, <3>1, <3>2, <3>3 DEF AdminIInv, AccessTyped
  <2>11. BornInOrder' /\ ClaimCount'
    BY <1>1, <2>8 DEF AdminIInv, BornInOrder, ClaimCount
  <2>12. OneRemoval'
    <3>1. \A s \in Requests : Removes(s)' /\ req'[s].step \notin {"count", "erase"} =>
            (req'[s].user \in Admins => \E a \in Admins : a # req'[s].user) \/ overlaps
      BY <2>5, <2>6, <2>7, <2>9 DEF AdminIInv, OneRemoval
    <3>2. QED BY <1>1, <2>7, <2>8, <3>1 DEF AdminIInv, OneRemoval
  <2>13. QED BY <2>10, <2>11, <2>12 DEF AdminIInv
<1>4. QED BY <1>2, <1>3

\* A removal ends: the admins but the one it was about are still there, or the
\* one that went had their person deleted for good.
LEMMA RemovalEnds ==
  ASSUME AdminIInv, NEW r \in Requests, Removes(r), req[r].step # "count", req' = [req EXCEPT ![r] = Free],
         Emptied, UNCHANGED <<claimed, overlaps>>, users' \in [Logins -> User \cup {NoUser}],
         \/ /\ req[r].step # "erase" /\ Admins \ {req[r].user} \subseteq Admins'
            /\ UNCHANGED erased
         \/ erased' = erased + (emptied' - emptied),
         BornInOrder', uses.born \subseteq uses'.born,
         uses' = [born |-> uses'.born, spent |-> uses'.spent, own |-> uses'.own, twice |-> uses'.twice]
  PROVE  AdminIInv'
<1>1. /\ req'[r] = Free /\ \A s \in Requests : s # r => req'[s] = req[s]
      /\ req' = [s \in Requests |-> req'[s]]
  BY Went DEF AdminIInv
<1>2. \A s \in Requests : Removes(s)' => Removes(s) /\ req'[s] = req[s] /\ s # r
  BY <1>1 DEF Removes
<1>3. emptied' \in Nat /\ ClaimCount' /\ erased' \in 0..emptied'
  <2>1. emptied' \in Nat /\ emptied <= emptied' /\ ClaimCount'
    BY EmptiedCounts
  <2>2. emptied \in Nat /\ erased \in 0..emptied
    BY DEF AdminIInv, AccessTyped
  <2>3. erased' = erased \/ erased' = erased + (emptied' - emptied)
    OBVIOUS
  <2>4. erased' \in 0..emptied'
    BY <2>1, <2>2, <2>3
  <2>5. QED BY <2>1, <2>4
<1>4. AccessTyped'
  <2>1. \A s \in Requests : Shaped(req'[s])
    BY <1>1 DEF AdminIInv, AccessTyped, Shaped
  <2>2. \A s \in Requests :
          At(s, "grant")' => req'[s].role \in {"admin", "viewer"} /\ req'[s].person \in Members
    BY <1>1 DEF AdminIInv, AccessTyped, At
  <2>3. \A s \in Requests : Removes(s)' /\ req'[s].step # "erase" => req'[s].user \in uses'.born \cup {NoOne}
    BY <1>2 DEF AdminIInv, AccessTyped
  <2>4. QED BY <1>1, <1>3, <2>1, <2>2, <2>3 DEF AdminIInv, AccessTyped
<1>5. OneRemoval'
  <2>1. SUFFICES ASSUME ~overlaps PROVE OneRemoval'
    BY DEF OneRemoval
  <2>2. \A s \in Requests : ~Removes(s)'
    BY <1>2, <2>1 DEF AdminIInv, OneRemoval
  <2>3. emptied = erased /\ emptied \in Nat
    BY <2>1 DEF AdminIInv, AccessTyped, OneRemoval
  <2>4. CASE erased' = erased + (emptied' - emptied)
    <3>1. emptied' = erased'
      BY <1>3, <2>3, <2>4
    <3>2. QED BY <2>2, <3>1 DEF OneRemoval
  <2>5. CASE /\ req[r].step # "erase" /\ Admins \ {req[r].user} \subseteq Admins'
             /\ UNCHANGED erased
    <3>1. req[r].user \in Admins => \E a \in Admins : a # req[r].user
      BY <2>1, <2>5 DEF AdminIInv, OneRemoval
    <3>2. Admins # {} => Admins' # {}
      BY <2>5, <3>1
    <3>3. emptied' = erased'
      BY <2>3, <2>5, <3>2 DEF Emptied
    <3>4. QED BY <2>2, <3>3 DEF OneRemoval
  <2>6. QED BY <2>4, <2>5
<1>6. QED BY <1>3, <1>4, <1>5 DEF AdminIInv

LEMMA DeleteUserSafe ==
  ASSUME AdminIInv, NEW r \in Requests, DeleteUser(r)
  PROVE  AdminIInv'
<1>1. PICK u : u = req[r].user
  OBVIOUS
<1>2. /\ Removes(r) /\ req[r].step = "delete" /\ req' = [req EXCEPT ![r] = Free]
      /\ users' = [users EXCEPT ![u] = NoUser] /\ Emptied /\ UNCHANGED <<uses, claimed, erased, overlaps>>
  BY <1>1 DEF DeleteUser, At, Removes, End, Go, Deleted
<1>3. /\ users' \in [Logins -> User \cup {NoUser}]
      /\ \A v \in Logins : users'[v] = IF v = u THEN NoUser ELSE users[v]
  BY <1>2 DEF AdminIInv, AccessTyped
<1>4. Admins \ {u} \subseteq Admins'
  BY <1>3 DEF Admins
<1>5. BornInOrder'
  BY <1>2, <1>3 DEF AdminIInv, BornInOrder
<1>6. QED BY <1>1, <1>2, <1>3, <1>4, <1>5, RemovalEnds DEF AdminIInv, AccessTyped

\* A person is deleted for good.
LEMMA HardDeleteSafe ==
  ASSUME AdminIInv, NEW r \in Requests, NEW by, NEW p \in Members, HardDelete(r, by, p)
  PROVE  AdminIInv'
<1>1. PICK q : q = [step |-> "erase", person |-> p]
  OBVIOUS
<1>2. /\ req[r] = Free /\ req' = [req EXCEPT ![r] = q]
      /\ overlaps' = (overlaps \/ Removing # {}) /\ UNCHANGED <<users, uses, claimed, emptied, erased>>
  BY <1>1 DEF HardDelete, Start, logged
<1>3. q.step = "erase" /\ Shaped(q)
  BY <1>1 DEF Shaped
<1>4. QED BY <1>2, <1>3, RemovalBegins

LEMMA hardDeletePersonSafe ==
  ASSUME AdminIInv, NEW r \in Requests, hardDeletePerson(r)
  PROVE  AdminIInv'
<1>1. /\ Removes(r) /\ req[r].step = "erase" /\ req' = [req EXCEPT ![r] = Free]
      /\ users' = users \/ \E u \in Logins : users' = [users EXCEPT ![u] = NoUser]
      /\ Emptied /\ UNCHANGED <<uses, claimed, overlaps>>
      /\ erased' = erased + (emptied' - emptied)
  BY DEF hardDeletePerson, At, Removes, End, Go, Deleted, LoginsOf
<1>2. /\ users' \in [Logins -> User \cup {NoUser}]
      /\ \A v \in Logins : users'[v] # NoUser => users[v] # NoUser
  BY <1>1 DEF AdminIInv, AccessTyped
<1>3. BornInOrder'
  BY <1>1, <1>2 DEF AdminIInv, BornInOrder
<1>4. req[r].step # "count"
  BY <1>1
<1>5. /\ uses.born \subseteq uses'.born
      /\ uses' = [born |-> uses'.born, spent |-> uses'.spent, own |-> uses'.own, twice |-> uses'.twice]
  BY <1>1 DEF AdminIInv, AccessTyped
<1>6. QED BY <1>1, <1>2, <1>3, <1>4, <1>5, RemovalEnds

LEMMA GrantSafe ==
  ASSUME AdminIInv, NEW r \in Requests, Grant(r)
  PROVE  AdminIInv'
<1>1. PICK u : u = req[r].user
  OBVIOUS
<1>2. /\ Removes(r) /\ req[r].step = "grant" /\ req' = [req EXCEPT ![r] = Free]
      /\ Emptied /\ UNCHANGED <<claimed, erased, overlaps>>
      /\ req[r].role \in {"admin", "viewer"} /\ req[r].person \in Members
  BY DEF Grant, At, Removes, End, Go, AdminIInv, AccessTyped
<1>3. CASE u = NoOne /\ req[r].person \in persons /\ LoginsOf(req[r].person) = {} /\ CanCreate
  <2>1. PICK new, row :
          /\ new = NextLogin
          /\ row = [role |-> req[r].role, person |-> req[r].person, password |-> TRUE]
    OBVIOUS
  <2>2. /\ users' = [users EXCEPT ![new] = row] /\ uses'.born = uses.born \cup {new}
        /\ uses' = [born |-> uses'.born, spent |-> uses'.spent, own |-> uses'.own, twice |-> uses'.twice]
    BY <1>1, <1>3, <2>1 DEF Grant, AdminIInv, AccessTyped
  <2>3. /\ new \in Logins /\ users[new] = NoUser /\ \E c \in Nat : uses'.born = 1..c
    BY <1>3, <2>1, <2>2, NextIsNew DEF AdminIInv
  <2>4. row \in User
    BY <1>2, <2>1 DEF User
  <2>5. /\ users' \in [Logins -> User \cup {NoUser}]
        /\ \A v \in Logins : v # new => users'[v] = users[v]
    BY <2>2, <2>4 DEF AdminIInv, AccessTyped
  <2>6. Admins \subseteq Admins'
    BY <2>3, <2>5 DEF Admins
  <2>7. BornInOrder'
    BY <2>2, <2>3, <2>5 DEF AdminIInv, BornInOrder
  <2>8. QED BY <1>2, <2>2, <2>5, <2>6, <2>7, RemovalEnds
<1>4. CASE ~(u = NoOne /\ req[r].person \in persons /\ LoginsOf(req[r].person) = {} /\ CanCreate)
  <2>1. /\ uses' = uses
        /\ users' = IF Exists(u) THEN [users EXCEPT ![u].role = req[r].role] ELSE users
    BY <1>1, <1>4 DEF Grant
  <2>2. /\ users' \in [Logins -> User \cup {NoUser}]
        /\ \A v \in Logins : v # u => users'[v] = users[v]
        /\ \A v \in Logins : users'[v] # NoUser => users[v] # NoUser
    <3>1. CASE Exists(u)
      <4>1. PICK row : row = [users[u] EXCEPT !.role = req[r].role]
        OBVIOUS
      <4>2. users[u] \in User /\ users[u] # NoUser /\ u \in Logins
        BY <3>1 DEF Exists, AdminIInv, AccessTyped
      <4>3. row \in User
        BY <1>2, <4>1, <4>2 DEF User
      <4>4. users' = [users EXCEPT ![u] = row]
        BY <2>1, <3>1, <4>1
      <4>5. QED BY <4>2, <4>3, <4>4 DEF AdminIInv, AccessTyped
    <3>2. CASE ~Exists(u)
      BY <2>1, <3>2 DEF AdminIInv, AccessTyped
    <3>3. QED BY <3>1, <3>2
  <2>3. Admins \ {u} \subseteq Admins'
    BY <2>2 DEF Admins
  <2>4. BornInOrder'
    BY <2>1, <2>2 DEF AdminIInv, BornInOrder
  <2>5. QED BY <1>1, <1>2, <2>1, <2>2, <2>3, <2>4, RemovalEnds DEF AdminIInv, AccessTyped
<1>5. QED BY <1>3, <1>4

\* A step of a request that neither removes anybody nor keeps a challenge that
\* was made for another.
Moves ==
  \/ UNCHANGED req
  \/ \E r \in Requests : \E q :
       /\ req' = [req EXCEPT ![r] = q] /\ Shaped(q)
       /\ q = Free \/ q.step \notin {"count", "delete", "grant", "erase", "passkey"}
                   \/ (q.step = "passkey" /\ q.for = q.user)

Bystands ==
  /\ UNCHANGED <<users, claimed, emptied, erased, overlaps>> /\ uses'.born = uses.born
  /\ uses' = [born |-> uses'.born, spent |-> uses'.spent, own |-> uses'.own, twice |-> uses'.twice]
  /\ Moves

LEMMA BystandsSafe == ASSUME AdminIInv, Bystands PROVE AdminIInv'
<1>1. \/ UNCHANGED req
      \/ \E r \in Requests : \E q :
           /\ req' = [req EXCEPT ![r] = q]
           /\ q = Free \/ q.step \notin {"count", "delete", "grant", "erase"}
           /\ Shaped(q)
  BY DEF Bystands, Moves
<1>2. QED BY <1>1, BystanderSafe DEF Bystands

\* What a use of a challenge or link changes.
LEMMA SpendLeaves ==
  ASSUME AccessTyped, NEW id, Spend(id)
  PROVE  /\ uses'.born = uses.born /\ uses'.own = uses.own /\ uses'.spent = uses.spent \cup {id}
         /\ uses' = [born |-> uses'.born, spent |-> uses'.spent, own |-> uses'.own, twice |-> uses'.twice]
         /\ ~uses.twice /\ id \notin uses.spent => ~uses'.twice
<1>1. \E b \in BOOLEAN : b = (uses.twice \/ id \in uses.spent)
  <2>1. CASE uses.twice \/ id \in uses.spent
    <3>1. TRUE = (uses.twice \/ id \in uses.spent)
      BY <2>1, Zenon
    <3>2. QED BY <3>1, Zenon
  <2>2. CASE ~(uses.twice \/ id \in uses.spent)
    <3>1. FALSE = (uses.twice \/ id \in uses.spent)
      BY <2>2, Zenon
    <3>2. QED BY <3>1, Zenon
  <2>3. QED BY <2>1, <2>2, Zenon
<1> PICK b \in BOOLEAN : b = (uses.twice \/ id \in uses.spent)
  BY <1>1, Zenon
<1>2. uses' = [uses EXCEPT !.spent = uses.spent \cup {id}, !.twice = b]
  BY Zenon DEF Spend
<1>3. uses' = [born |-> uses.born, spent |-> uses.spent \cup {id}, own |-> uses.own, twice |-> b]
  BY <1>2 DEF AccessTyped
<1>4. ~uses.twice /\ id \notin uses.spent => ~b
  BY Zenon
<1>5. QED BY <1>3, <1>4

\* The steps that change no login, no role and no claim.
Bystanding ==
  \/ SetupOptions \/ LoginOptions \/ Expired \/ destroySession
  \/ \E u \in Logins : PasskeyOptions(u) \/ mintApiKey(u) \/ revokeApiKey(u)
  \/ \E r \in Requests :
       \/ SetupPassword(r) \/ SetupPasskey(r)
       \/ LoginPasskey(r) \/ credentialById(r) \/ createSession(r) \/ addCredential(r)
       \/ mintResetToken(r) \/ ResetConsume(r)
       \/ \E u \in Logins : LoginPassword(r, u) \/ AddPasskey(r, u)

LEMMA BystandingStays == ASSUME AdminIInv, Bystanding PROVE Bystands
<1>1. uses = [born |-> uses.born, spent |-> uses.spent, own |-> uses.own, twice |-> uses.twice]
  BY DEF AdminIInv, AccessTyped
<1>2. ASSUME UNCHANGED <<req, users, history>> PROVE Bystands
  BY <1>1, <1>2 DEF Bystands, Moves, history
<1>3. ASSUME NEW r \in Requests, NEW q, req' = [req EXCEPT ![r] = q], Shaped(q),
             q = Free \/ q.step \notin {"count", "delete", "grant", "erase", "passkey"}
                      \/ (q.step = "passkey" /\ q.for = q.user)
      PROVE  Moves
  BY <1>3 DEF Moves
<1>4. ASSUME NEW r \in Requests, End(r) PROVE Moves
  <2>1. req' = [req EXCEPT ![r] = Free] /\ Shaped(Free)
    BY <1>4 DEF End, Go, Shaped
  <2>2. QED BY <1>3, <2>1
<1>5. ASSUME Moves, UNCHANGED <<users, history>> PROVE Bystands
  BY <1>1, <1>5 DEF Bystands, history
<1>6. ASSUME Moves, UNCHANGED <<users, claimed, emptied, erased, overlaps>>, NEW id, Spend(id)
      PROVE  Bystands
  BY <1>6, SpendLeaves DEF Bystands, AdminIInv
<1>7. CASE SetupOptions \/ LoginOptions \/ Expired \/ destroySession
  BY <1>2, <1>7 DEF SetupOptions, LoginOptions, Expired, destroySession, storeChallenge
<1>8. ASSUME NEW u \in Logins, PasskeyOptions(u) \/ mintApiKey(u) \/ revokeApiKey(u)
      PROVE  Bystands
  BY <1>2, <1>8 DEF PasskeyOptions, mintApiKey, revokeApiKey, storeChallenge
<1>9. ASSUME NEW r \in Requests, SetupPassword(r)
      PROVE  Bystands
  <2>1. PICK q : q = [step |-> "claim", passkey |-> NoOne]
    OBVIOUS
  <2>2. req' = [req EXCEPT ![r] = q] /\ q.step = "claim" /\ Shaped(q)
    BY <1>9, <2>1 DEF SetupPassword, Start, Shaped
  <2>3. QED BY <1>3, <1>5, <1>9, <2>2 DEF SetupPassword, logged
<1>10. ASSUME NEW r \in Requests, SetupPasskey(r)
       PROVE  Bystands
  <2>1. PICK c \in challenges : Spend(c.id) /\ Start(r, [step |-> "claim", passkey |-> c.id])
    BY <1>10 DEF SetupPasskey
  <2>2. PICK q : q = [step |-> "claim", passkey |-> c.id]
    OBVIOUS
  <2>3. req' = [req EXCEPT ![r] = q] /\ q.step = "claim" /\ Shaped(q)
    BY <2>1, <2>2 DEF Start, Shaped
  <2>4. Moves
    BY <1>3, <2>3
  <2>5. QED BY <1>6, <1>10, <2>1, <2>4 DEF SetupPasskey
<1>11. ASSUME NEW r \in Requests, LoginPasskey(r)
       PROVE  Bystands
  <2>1. PICK c \in challenges : Spend(c.id) /\ \E k \in passkeys : Start(r, [step |-> "assert", passkey |-> k.id])
    BY <1>11 DEF LoginPasskey
  <2>2. PICK k \in passkeys : Start(r, [step |-> "assert", passkey |-> k.id])
    BY <2>1
  <2>3. PICK q : q = [step |-> "assert", passkey |-> k.id]
    OBVIOUS
  <2>4. req' = [req EXCEPT ![r] = q] /\ q.step = "assert" /\ Shaped(q)
    BY <2>2, <2>3 DEF Start, Shaped
  <2>5. Moves
    BY <1>3, <2>4
  <2>6. QED BY <1>6, <1>11, <2>1, <2>5 DEF LoginPasskey
<1>12. ASSUME NEW r \in Requests, NEW u, req' = [req EXCEPT ![r] = [step |-> "session", user |-> u]]
       PROVE  Moves
  <2>1. PICK q : q = [step |-> "session", user |-> u]
    OBVIOUS
  <2>2. q.step = "session" /\ Shaped(q)
    BY <2>1 DEF Shaped
  <2>3. QED BY <1>3, <1>12, <2>1, <2>2
<1>13. ASSUME NEW r \in Requests, credentialById(r)
       PROVE  Bystands
  <2>1. Moves
    BY <1>4, <1>12, <1>13 DEF credentialById, Go
  <2>2. QED BY <1>5, <1>13, <2>1 DEF credentialById, logged
<1>14. ASSUME NEW r \in Requests, createSession(r)
       PROVE  Bystands
  BY <1>4, <1>5, <1>14 DEF createSession
<1>15. ASSUME NEW r \in Requests, addCredential(r)
       PROVE  Bystands
  <2>1. Moves /\ UNCHANGED <<users, claimed, emptied, erased, overlaps>>
    BY <1>4, <1>15 DEF addCredential
  <2>2. UNCHANGED uses \/ \E o : uses' = [uses EXCEPT !.own = o]
    BY <1>15 DEF addCredential
  <2>3. QED BY <1>1, <2>1, <2>2 DEF Bystands
<1>16. ASSUME NEW r \in Requests, mintResetToken(r)
       PROVE  Bystands
  <2>1. ASSUME \E u \in Admins : Start(r, [step |-> "void", user |-> u]) PROVE Moves
    <3>1. PICK u, q : q = [step |-> "void", user |-> u] /\ Start(r, q)
      BY <2>1
    <3>2. req' = [req EXCEPT ![r] = q] /\ q.step = "void" /\ Shaped(q)
      BY <3>1 DEF Start, Shaped
    <3>3. QED BY <1>3, <3>2
  <2>2. ASSUME At(r, "void"), Go(r, [req[r] EXCEPT !.step = "link"]) PROVE Moves
    <3>1. PICK q : q = [req[r] EXCEPT !.step = "link"]
      OBVIOUS
    <3>2. req[r] = [step |-> req[r].step, user |-> req[r].user]
      BY <2>2 DEF At, AdminIInv, AccessTyped, Shaped
    <3>3. q = [step |-> "link", user |-> req[r].user]
      BY <3>1, <3>2
    <3>4. req' = [req EXCEPT ![r] = q] /\ q.step = "link" /\ Shaped(q)
      BY <2>2, <3>1, <3>3 DEF Go, Shaped
    <3>5. QED BY <1>3, <3>4
  <2>3. Moves
    BY <1>4, <1>16, <2>1, <2>2 DEF mintResetToken
  <2>4. UNCHANGED <<users, history>>
    BY <1>16 DEF mintResetToken, logged
  <2>5. QED BY <1>5, <2>3, <2>4
<1>17. ASSUME NEW r \in Requests, ResetConsume(r)
       PROVE  Bystands
  <2>1. CASE At(r, "signout")
    <3>1. CASE UNCHANGED <<users, history>> /\ Go(r, [req[r] EXCEPT !.step = "session"])
      <4>1. req[r] = [step |-> req[r].step, user |-> req[r].user]
        BY <2>1 DEF At, AdminIInv, AccessTyped, Shaped
      <4>2. [req[r] EXCEPT !.step = "session"] = [step |-> "session", user |-> req[r].user]
        BY <4>1
      <4>3. QED BY <1>5, <1>12, <3>1, <4>2 DEF Go
    <3>2. CASE \E l \in minted : Start(r, [step |-> "signout", user |-> l.user])
      BY <2>1, <3>2 DEF At, Start
    <3>3. QED BY <1>17, <3>1, <3>2 DEF ResetConsume
  <2>2. CASE ~At(r, "signout")
    <3>1. PICK l \in minted : Spend(l.id) /\ Start(r, [step |-> "signout", user |-> l.user])
      BY <1>17, <2>2 DEF ResetConsume
    <3>2. PICK q : q = [step |-> "signout", user |-> l.user]
      OBVIOUS
    <3>3. req' = [req EXCEPT ![r] = q] /\ q.step = "signout" /\ q = [step |-> q.step, user |-> q.user]
      BY <3>1, <3>2 DEF Start
    <3>4. Moves
      BY <1>3, <3>3 DEF Shaped
    <3>5. QED BY <1>6, <1>17, <2>2, <3>1, <3>4 DEF ResetConsume
  <2>3. QED BY <2>1, <2>2
<1>18. ASSUME NEW r \in Requests, NEW u \in Logins, LoginPassword(r, u)
       PROVE  Bystands
  BY <1>5, <1>12, <1>18 DEF LoginPassword, Start, logged
<1>19. ASSUME NEW r \in Requests, NEW u \in Logins, AddPasskey(r, u)
       PROVE  Bystands
  <2>1. PICK c \in challenges :
          /\ Spend(c.id)
          /\ IF OwnChallenge(c, u)
             THEN Start(r, [step |-> "passkey", passkey |-> c.id, user |-> u, for |-> c.user])
             ELSE UNCHANGED req
    BY <1>19 DEF AddPasskey
  <2>2. ASSUME OwnChallenge(c, u) PROVE Moves
    <3>1. PICK q : q = [step |-> "passkey", passkey |-> c.id, user |-> u, for |-> c.user]
      OBVIOUS
    <3>2. q.step = "passkey" /\ q.for = c.user /\ q.user = u /\ c.user = u
      BY <2>2, <3>1 DEF OwnChallenge
    <3>3. req' = [req EXCEPT ![r] = q] /\ Shaped(q)
      BY <2>1, <2>2, <3>1, <3>2 DEF Start, Shaped
    <3>4. QED BY <1>3, <3>2, <3>3
  <2>3. Moves
    BY <2>1, <2>2 DEF Moves
  <2>4. QED BY <1>6, <1>19, <2>1, <2>3 DEF AddPasskey
<1>20. QED
  BY <1>7, <1>8, <1>9, <1>10, <1>11, <1>13, <1>14, <1>15, <1>16, <1>17, <1>18, <1>19 DEF Bystanding

LEMMA AdminSteps == AdminIInv /\ [AccessNext]_accessVars => AdminIInv'
<1> SUFFICES ASSUME AdminIInv, [AccessNext]_accessVars PROVE AdminIInv'
  OBVIOUS
<1>1. CASE UNCHANGED accessVars
  <2>1. Bystands
    BY <1>1 DEF accessVars, logged, history, Bystands, Moves, AdminIInv, AccessTyped
  <2>2. QED BY <2>1, BystandsSafe
<1>2. CASE Bystanding
  BY <1>2, BystandingStays, BystandsSafe
<1>3. ASSUME NEW r \in Requests, NEW by, NEW u \in Logins, RemoveUser(r, by, u)
      PROVE  AdminIInv'
  BY <1>3, LookedUpSafe DEF RemoveUser, Exists
<1>4. ASSUME NEW r \in Requests, NEW by, NEW p \in Members,
             AccessNone(r, by, p) \/ OffboardLogin(r, by, p)
      PROVE  AdminIInv'
  <2>1. PICK u \in LoginsOf(p) : LookedUp(r, u)
    BY <1>4 DEF AccessNone, OffboardLogin
  <2>2. QED BY <2>1, LookedUpSafe DEF LoginsOf
<1>5. CASE AccessNext /\ ~Bystanding
  BY <1>3, <1>4, <1>5, ClaimInstanceSafe, SetPasswordSafe, AccessRoleSafe, CountAdminsSafe,
     DeleteUserSafe, GrantSafe, HardDeleteSafe, hardDeletePersonSafe DEF AccessNext, Bystanding
<1>6. QED BY <1>1, <1>2, <1>5

\* Who was let in to claim, and when an admin goes.
LEMMA AdminsHold == AdminIInv => ClaimedOnce /\ AdminStays
<1> SUFFICES ASSUME AdminIInv PROVE ClaimedOnce /\ AdminStays
  OBVIOUS
<1>1. ClaimedOnce
  BY DEF AdminIInv, AccessTyped, ClaimCount, ClaimedOnce
<1>2. AdminStays
  BY DEF AdminIInv, AccessTyped, OneRemoval, AdminStays
<1>3. QED BY <1>1, <1>2

(***************************************************************************)
(* Signing in: what is used once, and whose passkey it is.                  *)
(***************************************************************************)
\* The ids of challenges and links are below the next id; no two are the same,
\* and none of those still there was used.
OnceIInv ==
  /\ serial \in Nat /\ ~uses.twice
  /\ uses.spent \subseteq 0..(serial - 1)
  /\ \A c \in challenges \cup minted : c.id \in 0..(serial - 1) /\ c.id \notin uses.spent
  /\ \A c, d \in challenges : c.id = d.id => c = d
  /\ \A l, m \in minted : l.id = m.id => l = m
  /\ \A c \in challenges, l \in minted : c.id # l.id

\* What is kept is kept for the user it was made for.
OwnIInv ==
  PasskeysAreOwn /\ \A r \in Requests : At(r, "passkey") => req[r].for = req[r].user

AccessIInv == AdminIInv /\ OnceIInv /\ OwnIInv

LEMMA AccessStarts == AccessInit => AccessIInv
<1> SUFFICES ASSUME AccessInit PROVE AccessIInv
  OBVIOUS
<1>1. OnceIInv
  <2>1. uses.twice = FALSE /\ uses.spent = {}
    BY DEF AccessInit
  <2>2. ~uses.twice
    BY <2>1
  <2>3. QED BY <2>1, <2>2 DEF AccessInit, OnceIInv
<1>2. OwnIInv
  BY DEF AccessInit, OwnIInv, PasskeysAreOwn, At
<1>3. QED BY <1>1, <1>2, AdminStarts DEF AccessIInv

\* Challenges and links go, and no other takes their ids.
LEMMA FewerLeft ==
  ASSUME OnceIInv, challenges' \subseteq challenges, minted' \subseteq minted,
         serial' = serial \/ serial' = serial + 1,
         uses'.spent = uses.spent, uses'.twice = uses.twice
  PROVE  OnceIInv'
<1>1. serial' \in Nat /\ 0..(serial - 1) \subseteq 0..(serial' - 1)
  BY DEF OnceIInv
<1>2. ~uses'.twice
  BY Zenon DEF OnceIInv
<1>3. QED BY <1>1, <1>2 DEF OnceIInv

\* A new one takes the next id.
LEMMA OneIssued ==
  ASSUME OnceIInv, NEW new, new.id = serial, serial' = serial + 1,
         \/ challenges' = challenges \cup {new} /\ UNCHANGED minted
         \/ minted' = minted \cup {new} /\ UNCHANGED challenges,
         UNCHANGED uses
  PROVE  OnceIInv'
<1>1. /\ serial' \in Nat /\ 0..(serial - 1) \subseteq 0..(serial' - 1)
      /\ serial \in 0..(serial' - 1) /\ serial \notin 0..(serial - 1)
  BY DEF OnceIInv
<1>2. \A c \in challenges \cup minted : c.id # serial
  BY <1>1 DEF OnceIInv
<1>3. serial \notin uses.spent
  BY <1>1 DEF OnceIInv
<1>4. ~uses'.twice
  BY Zenon DEF OnceIInv
<1>5. QED BY <1>1, <1>2, <1>3, <1>4 DEF OnceIInv

\* One that is used is gone, so that it is not used again.
LEMMA UsedIsGone ==
  ASSUME OnceIInv, AccessTyped, NEW c, Spend(c.id), UNCHANGED serial,
         \/ c \in challenges /\ challenges' = challenges \ {c} /\ UNCHANGED minted
         \/ c \in minted /\ minted' = minted \ {c} /\ UNCHANGED challenges
  PROVE  OnceIInv'
<1>1. c.id \in 0..(serial - 1) /\ c.id \notin uses.spent
  BY DEF OnceIInv
<1>2. uses'.spent = uses.spent \cup {c.id} /\ ~uses'.twice
  BY <1>1, SpendLeaves, Zenon DEF OnceIInv
<1>3. \A d \in challenges' \cup minted' : d.id # c.id
  BY DEF OnceIInv
<1>4. QED BY <1>1, <1>2, <1>3 DEF OnceIInv

LEMMA OnceSteps == AccessTyped /\ OnceIInv /\ [AccessNext]_accessVars => OnceIInv'
<1> SUFFICES ASSUME AccessTyped, OnceIInv, [AccessNext]_accessVars PROVE OnceIInv'
  OBVIOUS
<1> uses = [born |-> uses.born, spent |-> uses.spent, own |-> uses.own, twice |-> uses.twice]
  BY DEF AccessTyped
<1>1. ASSUME UNCHANGED uses, challenges' \subseteq challenges, minted' \subseteq minted,
             serial' = serial \/ serial' = serial + 1
      PROVE  OnceIInv'
  BY <1>1, FewerLeft
<1>2. CASE UNCHANGED accessVars
  BY <1>1, <1>2 DEF accessVars, logged, history
<1>3. ASSUME NEW kind, NEW u, storeChallenge(kind, u) PROVE OnceIInv'
  <2>1. PICK new : new = [id |-> serial, kind |-> kind, user |-> u]
    OBVIOUS
  <2>2. new.id = serial
    BY <2>1
  <2>3. /\ challenges' = challenges \cup {new} /\ serial' = serial + 1
        /\ UNCHANGED minted /\ UNCHANGED uses
    BY <1>3, <2>1 DEF storeChallenge, history
  <2>4. QED BY <2>2, <2>3, OneIssued
<1>4. CASE SetupOptions \/ LoginOptions \/ \E u \in Logins : PasskeyOptions(u)
  BY <1>3, <1>4 DEF SetupOptions, LoginOptions, PasskeyOptions
<1>5. CASE Expired \/ destroySession
  BY <1>1, <1>5 DEF Expired, destroySession, history
<1>6. ASSUME NEW u \in Logins, SetPassword(u) \/ mintApiKey(u) \/ revokeApiKey(u)
      PROVE  OnceIInv'
  BY <1>1, <1>6 DEF SetPassword, mintApiKey, revokeApiKey, history
<1>7. ASSUME NEW r \in Requests, \/ SetupPassword(r) \/ credentialById(r) \/ CountAdmins(r)
                                 \/ \E u \in Logins : LoginPassword(r, u)
      PROVE  OnceIInv'
  BY <1>1, <1>7 DEF SetupPassword, credentialById, CountAdmins, LoginPassword, logged, history
<1>8. ASSUME NEW r \in Requests, createSession(r)
      PROVE  OnceIInv'
  BY <1>1, <1>8 DEF createSession, NewSession, history
<1>9. ASSUME NEW r \in Requests, NEW u, LookedUp(r, u)
      PROVE  OnceIInv'
  BY <1>1, <1>9 DEF LookedUp, logged
<1>10. ASSUME NEW r \in Requests, NEW by, NEW x,
              AccessNone(r, by, x) \/ OffboardLogin(r, by, x) \/ RemoveUser(r, by, x)
       PROVE  OnceIInv'
  BY <1>9, <1>10 DEF AccessNone, OffboardLogin, RemoveUser
<1>11. ASSUME NEW r \in Requests, NEW by, NEW p, NEW role, AccessRole(r, by, p, role)
       PROVE  OnceIInv'
  BY <1>1, <1>11 DEF AccessRole, logged
<1>12. ASSUME NEW r \in Requests, DeleteUser(r)
       PROVE  OnceIInv'
  <2>1. challenges' \subseteq challenges /\ minted' \subseteq minted
    BY <1>12 DEF DeleteUser, Deleted
  <2>2. QED BY <1>1, <1>12, <2>1 DEF DeleteUser
<1>12a. ASSUME NEW r \in Requests, NEW by, NEW p, HardDelete(r, by, p)
       PROVE  OnceIInv'
  BY <1>1, <1>12a DEF HardDelete, logged
<1>12b. ASSUME NEW r \in Requests, hardDeletePerson(r)
       PROVE  OnceIInv'
  <2>1. challenges' \subseteq challenges /\ minted' \subseteq minted
    BY <1>12b DEF hardDeletePerson, Deleted
  <2>2. QED BY <1>1, <1>12b, <2>1 DEF hardDeletePerson
<1>13. ASSUME NEW b, NEW o, uses' = [uses EXCEPT !.born = b, !.own = o] \/ uses' = [uses EXCEPT !.own = o]
                            \/ uses' = [uses EXCEPT !.born = b]
       PROVE  uses'.spent = uses.spent /\ uses'.twice = uses.twice
  BY <1>13
<1>14. ASSUME NEW r \in Requests, ClaimInstance(r)
       PROVE  OnceIInv'
  <2>1. UNCHANGED uses \/ \E b, o : uses' = [uses EXCEPT !.born = b, !.own = o]
    <3>1. PICK b, o : b = uses.born \cup {NextLogin}
            /\ o = IF req[r].passkey = NoOne THEN uses.own
                   ELSE uses.own \cup {<<req[r].passkey, NextLogin>>}
      OBVIOUS
    <3>2. uses' = uses \/ uses' = [uses EXCEPT !.born = b, !.own = o]
      BY <1>14, <3>1 DEF ClaimInstance
    <3>3. QED BY <3>2
  <2>2. serial' = serial \/ serial' = serial + 1
    BY <1>14 DEF ClaimInstance, NewSession
  <2>3. QED BY <1>13, <1>14, <2>1, <2>2, FewerLeft DEF ClaimInstance
<1>15. ASSUME NEW r \in Requests, addCredential(r)
       PROVE  OnceIInv'
  <2>1. UNCHANGED uses \/ \E o : uses' = [uses EXCEPT !.own = o]
    BY <1>15 DEF addCredential
  <2>2. QED BY <1>13, <1>15, <2>1, FewerLeft DEF addCredential
<1>16. ASSUME NEW r \in Requests, Grant(r)
       PROVE  OnceIInv'
  <2>1. UNCHANGED uses \/ \E b : uses' = [uses EXCEPT !.born = b]
    BY <1>16 DEF Grant
  <2>2. QED BY <1>13, <1>16, <2>1, FewerLeft DEF Grant
<1>17. ASSUME NEW r \in Requests, mintResetToken(r)
       PROVE  OnceIInv'
  <2>1. CASE serial' = serial + 1 /\ minted' = minted \cup {[id |-> serial, user |-> req[r].user]}
    <3>1. PICK new : new = [id |-> serial, user |-> req[r].user]
      OBVIOUS
    <3>2. new.id = serial /\ UNCHANGED challenges /\ UNCHANGED uses
      BY <1>17, <3>1 DEF mintResetToken, logged, history
    <3>3. QED BY <2>1, <3>1, <3>2, OneIssued
  <2>2. CASE serial' = serial /\ minted' \subseteq minted
    BY <1>1, <1>17, <2>2 DEF mintResetToken, logged, history
  <2>3. QED BY <1>17, <2>1, <2>2 DEF mintResetToken, logged
<1>18. ASSUME NEW r \in Requests, SetupPasskey(r) \/ LoginPasskey(r) \/ \E u \in Logins : AddPasskey(r, u)
       PROVE  OnceIInv'
  <2>1. PICK c \in challenges : challenges' = challenges \ {c} /\ Spend(c.id)
    BY <1>18 DEF SetupPasskey, LoginPasskey, AddPasskey, consumeChallenge
  <2>2. UNCHANGED serial /\ UNCHANGED minted
    BY <1>18 DEF SetupPasskey, LoginPasskey, AddPasskey
  <2>3. QED BY <2>1, <2>2, UsedIsGone
<1>19. ASSUME NEW r \in Requests, ResetConsume(r)
       PROVE  OnceIInv'
  <2>1. CASE \E l \in minted : minted' = minted \ {l} /\ Spend(l.id)
    BY <1>19, <2>1, UsedIsGone DEF ResetConsume
  <2>2. CASE UNCHANGED minted
    BY <1>1, <1>19, <2>1, <2>2 DEF ResetConsume, history
  <2>3. QED BY <1>19, <2>1, <2>2 DEF ResetConsume
<1>20. CASE AccessNext
  BY <1>4, <1>5, <1>6, <1>7, <1>8, <1>10, <1>11, <1>12, <1>14, <1>15, <1>16, <1>17, <1>18, <1>19, <1>20, <1>12a, <1>12b
     DEF AccessNext
<1>21. QED BY <1>2, <1>20

\* No passkey and no owner but those that were there, and nothing kept for another.
LEMMA OwnStays ==
  ASSUME OwnIInv, passkeys' \subseteq passkeys, uses.own \subseteq uses'.own,
         \A s \in Requests : At(s, "passkey")' => req'[s] = req[s] \/ req'[s].for = req'[s].user
  PROVE  OwnIInv'
BY DEF OwnIInv, PasskeysAreOwn, At

LEMMA OwnSteps == AdminIInv /\ OwnIInv /\ [AccessNext]_accessVars => OwnIInv'
<1> SUFFICES ASSUME AdminIInv, OwnIInv, [AccessNext]_accessVars PROVE OwnIInv'
  OBVIOUS
<1>1. AccessTyped
  BY DEF AdminIInv
<1> uses = [born |-> uses.born, spent |-> uses.spent, own |-> uses.own, twice |-> uses.twice]
  BY <1>1 DEF AccessTyped
<1>2. ASSUME NEW r \in Requests, NEW q, req' = [req EXCEPT ![r] = q],
             q = Free \/ q.step # "passkey" \/ q.for = q.user
      PROVE  \A s \in Requests : At(s, "passkey")' => req'[s] = req[s] \/ req'[s].for = req'[s].user
  <2>1. req'[r] = q /\ \A s \in Requests : s # r => req'[s] = req[s]
    BY <1>1, <1>2, Went
  <2>2. QED BY <1>2, <2>1 DEF At
<1>3. ASSUME Moves
      PROVE  \A s \in Requests : At(s, "passkey")' => req'[s] = req[s] \/ req'[s].for = req'[s].user
  <2>1. CASE \E r \in Requests : \E q : req' = [req EXCEPT ![r] = q] /\ (q = Free \/ q.step # "passkey" \/ q.for = q.user)
    BY <1>2, <2>1
  <2>2. QED BY <1>3, <2>1 DEF Moves
<1>4. CASE UNCHANGED accessVars
  BY <1>4, OwnStays DEF accessVars, logged, history
<1>5. ASSUME NEW r \in Requests, addCredential(r) PROVE OwnIInv'
  <2>1. req' = [req EXCEPT ![r] = Free] /\ req[r].for = req[r].user
    BY <1>5 DEF addCredential, End, Go, OwnIInv
  <2>2. \A s \in Requests : At(s, "passkey")' => req'[s] = req[s] /\ At(s, "passkey")
    <3>1. req'[r] = Free /\ \A s \in Requests : s # r => req'[s] = req[s]
      BY <1>1, <2>1, Went
    <3>2. QED BY <3>1 DEF At
  <2>3. CASE Exists(req[r].user)
    <3>1. PICK k, o : /\ k = [id |-> req[r].passkey, user |-> req[r].user]
                      /\ o = uses.own \cup {<<req[r].passkey, req[r].for>>}
      OBVIOUS
    <3>2. passkeys' = passkeys \cup {k} /\ uses' = [uses EXCEPT !.own = o]
      BY <1>5, <2>3, <3>1 DEF addCredential
    <3>3. uses'.own = o /\ uses.own \subseteq o /\ <<k.id, k.user>> \in o
      BY <2>1, <3>1, <3>2
    <3>4. QED BY <2>2, <3>2, <3>3 DEF OwnIInv, PasskeysAreOwn
  <2>4. CASE ~Exists(req[r].user)
    BY <1>5, <2>2, <2>4, OwnStays DEF addCredential
  <2>5. QED BY <2>3, <2>4
<1>6. CASE Bystanding /\ ~(\E r \in Requests : addCredential(r))
  <2>1. Moves
    BY <1>6, BystandingStays DEF Bystands
  <2>2. passkeys' = passkeys
    BY <1>6 DEF Bystanding, SetupOptions, LoginOptions, PasskeyOptions, storeChallenge, Expired,
       destroySession, mintApiKey, revokeApiKey, SetupPassword, SetupPasskey, LoginPasskey,
       credentialById, createSession, mintResetToken, ResetConsume, LoginPassword, AddPasskey, logged
  <2>3. UNCHANGED uses \/ \E id : Spend(id)
    BY <1>6 DEF Bystanding, SetupOptions, LoginOptions, PasskeyOptions, storeChallenge, Expired,
       destroySession, mintApiKey, revokeApiKey, SetupPassword, SetupPasskey, LoginPasskey,
       credentialById, createSession, mintResetToken, ResetConsume, LoginPassword, AddPasskey, history
  <2>4. uses.own \subseteq uses'.own
    BY <1>1, <2>3, SpendLeaves
  <2>5. QED BY <1>3, <2>1, <2>2, <2>4, OwnStays
<1>7. ASSUME NEW r \in Requests, ClaimInstance(r) PROVE OwnIInv'
  <2>1. req' = [req EXCEPT ![r] = Free]
    BY <1>7 DEF ClaimInstance, End, Go
  <2>2. \A s \in Requests : At(s, "passkey")' => req'[s] = req[s] /\ At(s, "passkey")
    <3>1. req'[r] = Free /\ \A s \in Requests : s # r => req'[s] = req[s]
      BY <1>1, <2>1, Went
    <3>2. QED BY <3>1 DEF At
  <2>3. CASE lockClaim /\ CanCreate /\ req[r].passkey # NoOne
    <3>1. PICK k, b, o : /\ k = [id |-> req[r].passkey, user |-> NextLogin]
                         /\ b = uses.born \cup {NextLogin}
                         /\ o = uses.own \cup {<<req[r].passkey, NextLogin>>}
      OBVIOUS
    <3>2. passkeys' = passkeys \cup {k} /\ uses' = [uses EXCEPT !.born = b, !.own = o]
      BY <1>7, <2>3, <3>1 DEF ClaimInstance
    <3>3. uses'.own = o /\ uses.own \subseteq o /\ <<k.id, k.user>> \in o
      BY <3>1, <3>2
    <3>4. QED BY <2>2, <3>2, <3>3 DEF OwnIInv, PasskeysAreOwn
  <2>4. CASE ~(lockClaim /\ CanCreate /\ req[r].passkey # NoOne)
    <3>1. PICK b : b = uses.born \cup {NextLogin}
      OBVIOUS
    <3>2. passkeys' = passkeys /\ (uses' = uses \/ uses' = [uses EXCEPT !.born = b, !.own = uses.own])
      BY <1>7, <2>4, <3>1 DEF ClaimInstance
    <3>3. uses.own \subseteq uses'.own
      BY <3>2
    <3>4. QED BY <2>2, <3>2, <3>3, OwnStays
  <2>5. QED BY <2>3, <2>4
<1>8. ASSUME NEW u \in Logins, SetPassword(u) PROVE OwnIInv'
  BY <1>8, OwnStays DEF SetPassword, history
<1>9. ASSUME NEW r \in Requests, CountAdmins(r) PROVE OwnIInv'
  <2>1. PICK q : /\ req' = [req EXCEPT ![r] = q]
                 /\ q = IF LastAdmin THEN Free ELSE [req[r] EXCEPT !.step = "delete"]
    BY <1>9 DEF CountAdmins, End, Go
  <2>2. q = Free \/ q.step # "passkey"
    <3>1. req[r] = [step |-> req[r].step, user |-> req[r].user]
      BY <1>1, <1>9 DEF CountAdmins, At, AccessTyped, Shaped
    <3>2. [req[r] EXCEPT !.step = "delete"] = [step |-> "delete", user |-> req[r].user]
      BY <3>1
    <3>3. QED BY <2>1, <3>2
  <2>3. QED BY <1>2, <1>9, <2>1, <2>2, OwnStays DEF CountAdmins, logged, history
<1>10. ASSUME NEW r \in Requests, DeleteUser(r) \/ Grant(r) \/ hardDeletePerson(r) PROVE OwnIInv'
  <2>1. req' = [req EXCEPT ![r] = Free] /\ passkeys' \subseteq passkeys
    BY <1>10 DEF DeleteUser, Grant, hardDeletePerson, End, Go, Deleted
  <2>2. UNCHANGED uses \/ \E b : uses' = [uses EXCEPT !.born = b]
    BY <1>10 DEF DeleteUser, Grant, hardDeletePerson
  <2>3. uses.own \subseteq uses'.own
    BY <2>2
  <2>4. QED BY <1>2, <2>1, <2>3, OwnStays
<1>11. ASSUME NEW r \in Requests, NEW u, LookedUp(r, u) PROVE OwnIInv'
  <2>1. PICK q : q = [step |-> IF users[u].role = "admin" THEN "count" ELSE "delete", user |-> u]
    OBVIOUS
  <2>2. req' = [req EXCEPT ![r] = q] /\ q.step # "passkey"
    BY <1>11, <2>1 DEF LookedUp, Start
  <2>3. QED BY <1>2, <1>11, <2>2, OwnStays DEF LookedUp, logged
<1>12. ASSUME NEW r \in Requests, NEW by, NEW p, NEW role, AccessRole(r, by, p, role) PROVE OwnIInv'
  <2>1. PICK q : /\ req' = [req EXCEPT ![r] = q]
                 /\ q = [step |-> "grant", person |-> p, role |-> role,
                         user |-> IF LoginsOf(p) = {} THEN NoOne ELSE CHOOSE u \in LoginsOf(p) : TRUE]
    BY <1>12 DEF AccessRole, Start
  <2>2. q.step # "passkey"
    BY <2>1
  <2>3. QED BY <1>2, <1>12, <2>1, <2>2, OwnStays DEF AccessRole, logged
<1>13. ASSUME NEW r \in Requests, NEW by, NEW x,
              AccessNone(r, by, x) \/ OffboardLogin(r, by, x) \/ RemoveUser(r, by, x)
       PROVE  OwnIInv'
  BY <1>11, <1>13 DEF AccessNone, OffboardLogin, RemoveUser
<1>13a. ASSUME NEW r \in Requests, NEW by, NEW p, HardDelete(r, by, p) PROVE OwnIInv'
  <2>1. PICK q : q = [step |-> "erase", person |-> p] /\ req' = [req EXCEPT ![r] = q]
    BY <1>13a DEF HardDelete, Start
  <2>2. q.step # "passkey"
    BY <2>1
  <2>3. QED BY <1>2, <1>13a, <2>1, <2>2, OwnStays DEF HardDelete, logged
<1>14. CASE AccessNext
  BY <1>5, <1>6, <1>7, <1>8, <1>9, <1>10, <1>12, <1>13, <1>14, <1>13a DEF AccessNext, Bystanding
<1>15. QED BY <1>4, <1>14

LEMMA AccessSteps == AccessIInv /\ [AccessNext]_accessVars => AccessIInv'
BY AdminSteps, OnceSteps, OwnSteps DEF AccessIInv, AdminIInv

LEMMA AccessIsSound == AccessIInv => AccessHolds
BY AdminsHold DEF AccessIInv, OnceIInv, OwnIInv, AccessHolds, UsedOnce

-----------------------------------------------------------------------------
(***************************************************************************)
(* Sums over finite sets, as FoldSet takes them: the iteration exists, its  *)
(* sums are numbers, the order does not matter, and more days with more     *)
(* spend sum to more. By the least-number principle on the size of the set. *)
(***************************************************************************)
Pick(s) == CHOOSE x \in s : TRUE
Added(f, g, s) == IF s = {} THEN 0 ELSE g[s \ {Pick(s)}] + f[Pick(s)]
Summing(f, D) == CHOOSE iter : iter = [s \in SUBSET D |-> Added(f, iter, s)]
Total(f, D) == Summing(f, D)[D]
UpTo(D, n) == {s \in SUBSET D : Cardinality(s) <= n}
Counts(f, D) == \A d \in D : f[d] \in Nat
SumsIn(h, f, D) == h \in [SUBSET D -> Nat] /\ \A s \in SUBSET D : h[s] = Added(f, h, s)
AddsUp(h, f, D) == \A s \in SUBSET D : \A x \in s : h[s] = h[s \ {x}] + f[x]
SummedUpTo(f, D, n) ==
  \E g \in [UpTo(D, n) -> Nat] : \A s \in UpTo(D, n) : g[s] = Added(f, g, s)

LEMMA SpendIsTotal == ASSUME NEW p, NEW days PROVE SpendOf(p, days) = Total(rolled[p], days)
BY DEF SpendOf, FoldSet, MapThenFoldSet, Total, Summing, Added, Pick

LEMMA PickIn == ASSUME NEW s, s # {} PROVE Pick(s) \in s
BY DEF Pick

\* A part of a finite set has a size, and a smaller one without one of its elements.
LEMMA OneFewer ==
  ASSUME NEW D, IsFiniteSet(D), NEW s \in SUBSET D, NEW x \in s
  PROVE  \E c \in Nat : /\ Cardinality(s) = c /\ c > 0
                        /\ Cardinality(s \ {x}) = c - 1 /\ c - 1 \in Nat
<1>1. IsFiniteSet(s)
  BY FS_Subset
<1>2. PICK c \in Nat : c = Cardinality(s)
  BY <1>1, FS_CardinalityType
<1>3. c # 0
  BY <1>1, <1>2, FS_EmptySet
<1>4. Cardinality(s \ {x}) = c - 1
  BY <1>1, <1>2, FS_RemoveElement
<1>5. QED BY <1>2, <1>3, <1>4

LEMMA SumsUpToAll ==
  ASSUME NEW D, IsFiniteSet(D), NEW f, \A d \in D : f[d] \in Nat, NEW n \in Nat
  PROVE  SummedUpTo(f, D, n)
<1> DEFINE Bad == {k \in Nat : ~SummedUpTo(f, D, k)}
<1>1. SUFFICES ASSUME Bad # {} PROVE FALSE
  OBVIOUS
<1>2. PICK m \in Bad : \A k \in Bad : m <= k
  BY <1>1, LeastNat
<1>3. m \in Nat /\ ~SummedUpTo(f, D, m)
  OBVIOUS
<1>4. CASE m = 0
  <2>1. \A s \in UpTo(D, 0) : s = {}
    <3>1. SUFFICES ASSUME NEW s \in UpTo(D, 0), s # {} PROVE FALSE
      OBVIOUS
    <3>2. s \in SUBSET D /\ Cardinality(s) <= 0 /\ Pick(s) \in s
      BY <3>1, PickIn DEF UpTo
    <3>3. PICK c \in Nat : Cardinality(s) = c /\ c > 0
      BY <3>2, OneFewer, Zenon
    <3>4. QED BY <3>2, <3>3
  <2>2. PICK g : g = [s \in UpTo(D, 0) |-> 0]
    OBVIOUS
  <2>3. g \in [UpTo(D, 0) -> Nat] /\ \A s \in UpTo(D, 0) : g[s] = Added(f, g, s)
    BY <2>1, <2>2 DEF Added
  <2>4. QED BY <2>3, <1>3, <1>4 DEF SummedUpTo
<1>5. CASE m # 0
  <2>1. m - 1 \in Nat /\ m - 1 \notin Bad
    BY <1>2, <1>3, <1>5
  <2>2. PICK g \in [UpTo(D, m - 1) -> Nat] : \A s \in UpTo(D, m - 1) : g[s] = Added(f, g, s)
    BY <2>1 DEF SummedUpTo
  <2>3. PICK h : h = [s \in UpTo(D, m) |-> Added(f, g, s)]
    OBVIOUS
  <2>4. ASSUME NEW s \in UpTo(D, m), s # {}
        PROVE  /\ s \ {Pick(s)} \in UpTo(D, m - 1) /\ s \ {Pick(s)} \in UpTo(D, m)
               /\ Pick(s) \in D
    <3>1. s \in SUBSET D /\ Cardinality(s) <= m /\ Pick(s) \in s
      BY <2>4, PickIn DEF UpTo
    <3>2. PICK c \in Nat : Cardinality(s) = c /\ Cardinality(s \ {Pick(s)}) = c - 1
      BY <3>1, OneFewer
    <3>3. QED BY <3>1, <3>2, <1>3 DEF UpTo
  <2>5. \A s \in UpTo(D, m) : Added(f, g, s) \in Nat
    BY <2>2, <2>4 DEF Added
  <2>6. ASSUME NEW s \in UpTo(D, m) PROVE h[s] = Added(f, h, s)
    <3>1. CASE s = {}
      BY <3>1, <2>3 DEF Added
    <3>2. CASE s # {}
      <4>1. h[s \ {Pick(s)}] = g[s \ {Pick(s)}]
        BY <3>2, <2>2, <2>3, <2>4
      <4>2. QED BY <4>1, <3>2, <2>3 DEF Added
    <3>3. QED BY <3>1, <3>2
  <2>7. h \in [UpTo(D, m) -> Nat]
    BY <2>3, <2>5
  <2>8. QED BY <2>6, <2>7, <1>3 DEF SummedUpTo
<1>6. QED BY <1>4, <1>5

LEMMA SumsAreNat ==
  ASSUME NEW D, IsFiniteSet(D), NEW f, Counts(f, D)
  PROVE  SumsIn(Summing(f, D), f, D)
<1>1. PICK c \in Nat : c = Cardinality(D)
  BY FS_CardinalityType
<1>2. UpTo(D, c) = SUBSET D
  BY <1>1, FS_Subset DEF UpTo
<1>3. PICK g \in [SUBSET D -> Nat] : \A s \in SUBSET D : g[s] = Added(f, g, s)
  <2>1. SummedUpTo(f, D, c)
    BY SumsUpToAll DEF Counts
  <2>2. QED BY <1>2, <2>1, Zenon DEF SummedUpTo
<1>4. g = [s \in SUBSET D |-> Added(f, g, s)]
  BY <1>3
<1>5. Summing(f, D) = [s \in SUBSET D |-> Added(f, Summing(f, D), s)]
  BY <1>4, Zenon DEF Summing
<1>6. PICK h : h = Summing(f, D) /\ h = [s \in SUBSET D |-> Added(f, h, s)]
  BY <1>5, Zenon
<1> DEFINE Sizes == {n \in Nat : \E s \in SUBSET D : Cardinality(s) = n /\ h[s] \notin Nat}
<1>7. Sizes = {}
  <2>1. SUFFICES ASSUME Sizes # {} PROVE FALSE
    OBVIOUS
  <2>2. PICK n \in Sizes : \A k \in Sizes : n <= k
    BY <2>1, LeastNat
  <2>3. PICK s \in SUBSET D : Cardinality(s) = n /\ h[s] \notin Nat
    BY <2>2
  <2>4. h[s] = Added(f, h, s)
    BY <1>6
  <2>5. s # {}
    BY <2>3, <2>4 DEF Added
  <2>6. PICK r : r = s \ {Pick(s)}
    OBVIOUS
  <2>7. Pick(s) \in s /\ r \in SUBSET D
    BY <2>5, <2>6, PickIn
  <2>8. PICK b \in Nat : Cardinality(s) = b /\ Cardinality(r) = b - 1 /\ b - 1 \in Nat
    BY <2>6, <2>7, OneFewer
  <2>9. h[r] \in Nat
    BY <2>2, <2>3, <2>7, <2>8
  <2>10. QED BY <2>3, <2>4, <2>5, <2>6, <2>7, <2>9 DEF Added, Counts
<1>8. \A s \in SUBSET D : h[s] \in Nat
  <2>1. SUFFICES ASSUME NEW s \in SUBSET D PROVE h[s] \in Nat
    OBVIOUS
  <2>2. Cardinality(s) \in Nat
    BY FS_Subset, FS_CardinalityType
  <2>3. QED BY <2>2, <1>7
<1>9. h \in [SUBSET D -> Nat] /\ \A s \in SUBSET D : h[s] = Added(f, h, s)
  BY <1>6, <1>8
<1>10. QED BY <1>6, <1>9 DEF SumsIn

\* Any element may be added last.
LEMMA AnyOrder ==
  ASSUME NEW D, IsFiniteSet(D), NEW f, Counts(f, D), NEW h, SumsIn(h, f, D)
  PROVE  AddsUp(h, f, D)
<1> DEFINE Bad == {n \in Nat : \E s \in SUBSET D : \E x \in s :
                     Cardinality(s) = n /\ h[s] # h[s \ {x}] + f[x]}
<1>1. Bad = {}
  <2>1. SUFFICES ASSUME Bad # {} PROVE FALSE
    OBVIOUS
  <2>2. PICK n \in Bad : \A k \in Bad : n <= k
    BY <2>1, LeastNat
  <2>3. PICK s \in SUBSET D : \E x \in s : Cardinality(s) = n /\ h[s] # h[s \ {x}] + f[x]
    BY <2>2
  <2>4. PICK x \in s : Cardinality(s) = n /\ h[s] # h[s \ {x}] + f[x]
    BY <2>3
  <2>5. PICK y \in s : y = Pick(s)
    BY PickIn
  <2>6. h[s] = h[s \ {y}] + f[y]
    BY <2>5 DEF Added, SumsIn
  <2>7. x # y
    BY <2>4, <2>6
  <2>8. Cardinality(s \ {y}) = n - 1 /\ Cardinality(s \ {x}) = n - 1 /\ n - 1 \in Nat /\ n \in Nat
    <3>1. PICK c \in Nat : Cardinality(s) = c /\ Cardinality(s \ {y}) = c - 1 /\ c - 1 \in Nat
      BY OneFewer
    <3>2. PICK b \in Nat : Cardinality(s) = b /\ Cardinality(s \ {x}) = b - 1
      BY OneFewer
    <3>3. QED BY <3>1, <3>2, <2>4
  <2>9. n - 1 \notin Bad
    <3>1. SUFFICES ASSUME n - 1 \in Bad PROVE FALSE
      OBVIOUS
    <3>2. n <= n - 1
      BY <2>2, <3>1
    <3>3. QED BY <2>8, <3>2
  <2>10. PICK sx \in SUBSET D : sx = s \ {x}
    OBVIOUS
  <2>11. PICK sy \in SUBSET D : sy = s \ {y}
    OBVIOUS
  <2>12. PICK both \in SUBSET D : both = sx \ {y} /\ both = sy \ {x}
    BY <2>10, <2>11
  <2>13. h[sy] = h[both] + f[x]
    BY <2>7, <2>8, <2>9, <2>11, <2>12
  <2>14. h[sx] = h[both] + f[y]
    BY <2>7, <2>8, <2>9, <2>10, <2>12
  <2>15. h[both] \in Nat /\ f[x] \in Nat /\ f[y] \in Nat
    BY DEF Counts, SumsIn
  <2>16. QED BY <2>4, <2>6, <2>10, <2>11, <2>13, <2>14, <2>15
<1>2. \A s \in SUBSET D : Cardinality(s) \in Nat
  BY FS_Subset, FS_CardinalityType
<1>3. QED BY <1>1, <1>2 DEF AddsUp

LEMMA MoreIsMore ==
  ASSUME NEW D, NEW G, IsFiniteSet(G), D \subseteq G,
         NEW f, Counts(f, D), NEW e, Counts(e, G), \A d \in D : f[d] <= e[d]
  PROVE  Total(f, D) \in Nat /\ Total(e, G) \in Nat /\ Total(f, D) <= Total(e, G)
<1>1. IsFiniteSet(D)
  BY FS_Subset
<1>2. PICK h : h = Summing(f, D) /\ SumsIn(h, f, D)
  BY <1>1, SumsAreNat
<1>3. PICK i : i = Summing(e, G) /\ SumsIn(i, e, G)
  BY SumsAreNat
<1>8. AddsUp(h, f, D) /\ AddsUp(i, e, G)
  BY <1>1, <1>2, <1>3, AnyOrder
<1> DEFINE Bad == {n \in Nat : \E s \in SUBSET D : \E t \in SUBSET G :
                     s \subseteq t /\ Cardinality(s) = n /\ ~(h[s] <= i[t])}
<1>4. Bad = {}
  <2>1. SUFFICES ASSUME Bad # {} PROVE FALSE
    OBVIOUS
  <2>2. PICK n \in Bad : \A k \in Bad : n <= k
    BY <2>1, LeastNat
  <2>3. PICK s \in SUBSET D, t \in SUBSET G :
          s \subseteq t /\ Cardinality(s) = n /\ ~(h[s] <= i[t])
    BY <2>2
  <2>4. h[s] \in Nat /\ i[t] \in Nat
    BY <1>2, <1>3 DEF SumsIn
  <2>5. s # {}
    <3>1. h[s] = Added(f, h, s)
      BY <1>2 DEF SumsIn
    <3>2. QED BY <2>3, <2>4, <3>1 DEF Added
  <2>6. PICK x \in s : x \in t /\ x \in D
    BY <2>3, <2>5
  <2>7. h[s] = h[s \ {x}] + f[x]
    BY <1>8 DEF AddsUp
  <2>8. i[t] = i[t \ {x}] + e[x]
    BY <1>8, <2>6 DEF AddsUp
  <2>9. PICK c \in Nat : Cardinality(s) = c /\ Cardinality(s \ {x}) = c - 1 /\ c - 1 \in Nat
    BY <1>1, OneFewer
  <2>10. c - 1 \notin Bad
    BY <2>2, <2>3, <2>9
  <2>11. PICK sx \in SUBSET D : sx = s \ {x}
    OBVIOUS
  <2>15. PICK tx \in SUBSET G : tx = t \ {x}
    OBVIOUS
  <2>16. sx \subseteq tx
    BY <2>3, <2>11, <2>15
  <2>12. h[sx] <= i[tx]
    BY <2>9, <2>10, <2>11, <2>15, <2>16
  <2>13. h[sx] \in Nat /\ i[tx] \in Nat /\ f[x] \in Nat /\ e[x] \in Nat /\ f[x] <= e[x]
    BY <1>2, <1>3, <2>6 DEF SumsIn, Counts
  <2>14. QED BY <2>3, <2>7, <2>8, <2>11, <2>12, <2>13, <2>15
<1>5. Cardinality(D) \in Nat
  BY <1>1, FS_CardinalityType
<1>6. h[D] <= i[G] /\ h[D] \in Nat /\ i[G] \in Nat
  BY <1>2, <1>3, <1>4, <1>5 DEF SumsIn
<1>7. QED BY <1>2, <1>3, <1>6 DEF Total

-----------------------------------------------------------------------------
(***************************************************************************)
(* A finite set of numbers has one ascending sequence of its elements, and  *)
(* FlattenSeq stays in every set of sequences that is closed under \o.      *)
(***************************************************************************)
Increasing(s) == \A i, k \in DOMAIN s : i < k => s[i] < s[k]

LEMMA AscendingExists ==
  ASSUME NEW A \in SUBSET Nat, IsFiniteSet(A)
  PROVE  \E s \in SetToSeqs(A) : Increasing(s)
<1> DEFINE Sorts(T) == \E s \in SetToSeqs(T) : Increasing(s)
           Bad == {n \in Nat : \E T \in SUBSET Nat :
                     IsFiniteSet(T) /\ Cardinality(T) = n /\ ~Sorts(T)}
<1>1. Bad = {}
  <2>1. SUFFICES ASSUME Bad # {} PROVE FALSE
    OBVIOUS
  <2>2. PICK n \in Bad : \A k \in Bad : n <= k
    BY <2>1, LeastNat
  <2>3. PICK T \in SUBSET Nat : IsFiniteSet(T) /\ Cardinality(T) = n /\ ~Sorts(T)
    BY <2>2
  <2>4. T # {}
    <3>1. SUFFICES ASSUME T = {} PROVE FALSE
      OBVIOUS
    <3>2. Cardinality(T) = 0
      BY <3>1, FS_EmptySet
    <3>3. PICK s : s = [i \in 1 .. 0 |-> 0]
      OBVIOUS
    <3>4. s \in SetToSeqs(T) /\ Increasing(s)
      BY <3>1, <3>2, <3>3 DEF SetToSeqs, Increasing
    <3>5. QED BY <2>3, <3>4
  <2>5. PICK x \in T : \A y \in T : x <= y
    BY <2>4, LeastNat
  <2>6. PICK rest \in SUBSET Nat : rest = T \ {x}
    OBVIOUS
  <2>7. PICK c \in Nat : /\ Cardinality(T) = c /\ c > 0 /\ IsFiniteSet(rest)
                         /\ Cardinality(rest) = c - 1 /\ c - 1 \in Nat
    <3>1. PICK c \in Nat : Cardinality(T) = c
      BY <2>3, FS_CardinalityType
    <3>2. c # 0
      BY <2>3, <2>4, <3>1, FS_EmptySet
    <3>3. IsFiniteSet(rest) /\ Cardinality(rest) = c - 1
      BY <2>3, <2>6, <3>1, FS_RemoveElement
    <3>4. QED BY <3>1, <3>2, <3>3
  <2>8. Sorts(rest)
    <3>1. SUFFICES ASSUME ~Sorts(rest) PROVE FALSE
      OBVIOUS
    <3>2. c - 1 \in Bad
      BY <2>7, <3>1
    <3>3. n <= c - 1
      BY <2>2, <3>2
    <3>4. QED BY <2>3, <2>7, <3>3
  <2>9. PICK s \in SetToSeqs(rest) : Increasing(s)
    BY <2>8
  <2>10. s \in [1 .. c - 1 -> rest] /\ \A i, j \in 1 .. c - 1 : i < j => s[i] < s[j]
    BY <2>7, <2>9 DEF SetToSeqs, Increasing
  <2>11. PICK u : u = [i \in 1 .. c |-> IF i = 1 THEN x ELSE s[i - 1]]
    OBVIOUS
  <2>12. \A i \in 1 .. c : i # 1 => i - 1 \in 1 .. c - 1 /\ u[i] = s[i - 1] /\ u[i] \in rest /\ x < u[i]
    <3>1. SUFFICES ASSUME NEW i \in 1 .. c, i # 1
                   PROVE i - 1 \in 1 .. c - 1 /\ u[i] = s[i - 1] /\ u[i] \in rest /\ x < u[i]
      OBVIOUS
    <3>2. i - 1 \in 1 .. c - 1 /\ u[i] = s[i - 1]
      BY <3>1, <2>7, <2>11
    <3>3. s[i - 1] \in rest
      BY <3>2, <2>10
    <3>4. PICK y \in T : y = s[i - 1] /\ y # x
      BY <3>3, <2>6
    <3>5. x <= y /\ x \in Nat /\ y \in Nat
      BY <2>5
    <3>6. x < y
      BY <3>4, <3>5
    <3>7. QED BY <3>2, <3>3, <3>4, <3>6
  <2>13. u \in [1 .. c -> T] /\ DOMAIN u = 1 .. c
    BY <2>6, <2>11, <2>12
  <2>14. ASSUME NEW i \in 1 .. c, NEW j \in 1 .. c, i < j PROVE u[i] < u[j]
    <3>1. j # 1
      BY <2>14, <2>7
    <3>2. CASE i = 1
      BY <3>1, <3>2, <2>11, <2>12
    <3>3. CASE i # 1
      BY <3>1, <3>3, <2>14, <2>10, <2>12
    <3>4. QED BY <3>2, <3>3
  <2>15. \A i, j \in 1 .. c : i # j => u[i] # u[j]
    <3>1. SUFFICES ASSUME NEW i \in 1 .. c, NEW j \in 1 .. c, i # j, u[i] = u[j] PROVE FALSE
      OBVIOUS
    <3>2. u[i] \in Nat /\ u[j] \in Nat
      BY <2>13
    <3>3. i < j \/ j < i
      BY <3>1, <2>7
    <3>4. QED BY <2>14, <3>1, <3>2, <3>3
  <2>16. u \in SetToSeqs(T) /\ Increasing(u)
    BY <2>7, <2>13, <2>14, <2>15 DEF SetToSeqs, Increasing
  <2>17. QED BY <2>3, <2>16
<1>2. Cardinality(A) \in Nat
  BY FS_CardinalityType
<1>3. QED BY <1>1, <1>2

LEMMA AscendingIs ==
  ASSUME NEW A \in SUBSET Nat, IsFiniteSet(A)
  PROVE  /\ Ascending(A) \in Seq(A) /\ Increasing(Ascending(A))
         /\ \A x \in A : \E i \in DOMAIN Ascending(A) : Ascending(A)[i] = x
<1>1. PICK s \in SetToSeqs(A) : s = Ascending(A) /\ Increasing(s)
  BY AscendingExists, Zenon DEF Ascending, Increasing
<1>2. PICK n \in Nat : n = Cardinality(A) /\ IsFiniteSet(1 .. n) /\ Cardinality(1 .. n) = n
  <2>1. PICK n \in Nat : n = Cardinality(A)
    BY FS_CardinalityType
  <2>2. QED BY <2>1, FS_Interval
<1>3. s \in [1 .. n -> A] /\ \A i, j \in 1 .. n : i # j => s[i] # s[j]
  BY <1>2 DEF SetToSeqs
<1>4. s \in Injection(1 .. n, A)
  BY <1>3 DEF Injection, IsInjective
<1>5. s \in Surjection(1 .. n, A)
  BY <1>2, <1>4, FS_Injection
<1>6. QED BY <1>1, <1>2, <1>3, <1>5 DEF Surjection

\* any enumeration of a finite set
LEMMA EnumerationIs ==
  ASSUME NEW A, IsFiniteSet(A), NEW s \in SetToSeqs(A)
  PROVE  s \in Seq(A) /\ DOMAIN s = 1 .. Len(s) /\ Len(s) \in Nat
<1>1. PICK n \in Nat : n = Cardinality(A)
  BY FS_CardinalityType
<1>2. QED BY <1>1 DEF SetToSeqs

Joined(ss, g, i) == IF i = 1 THEN ss[i] ELSE g[i - 1] \o ss[i]
Joining(ss) == CHOOSE g : g = [i \in 1 .. Len(ss) |-> Joined(ss, g, i)]
JoinedUpTo(ss, C1, k) == \E g \in [1 .. k -> C1] : \A i \in 1 .. k : g[i] = Joined(ss, g, i)

LEMMA FlattenIs ==
  ASSUME NEW ss, Len(ss) # 0
  PROVE  FlattenSeq(ss) = Joining(ss)[Len(ss)]
BY DEF FlattenSeq, Joining, Joined

LEMMA FlattenCloses ==
  ASSUME NEW C1, \A s, t \in C1 : s \o t \in C1, <<>> \in C1, NEW ss \in Seq(C1)
  PROVE  FlattenSeq(ss) \in C1
<1>1. PICK n \in Nat : n = Len(ss) /\ \A i \in 1 .. n : ss[i] \in C1
  OBVIOUS
<1>2. CASE n = 0
  <2>1. ss = <<>>
    BY <1>1, <1>2, EmptySeq
  <2>2. FlattenSeq(ss) = ss
    BY <1>1, <1>2 DEF FlattenSeq
  <2>3. QED BY <2>1, <2>2
<1>3. CASE n # 0
  <2> DEFINE Bad == {k \in Nat : k <= n /\ ~JoinedUpTo(ss, C1, k)}
  <2>1. Bad = {}
    <3>1. SUFFICES ASSUME Bad # {} PROVE FALSE
      OBVIOUS
    <3>2. PICK m \in Bad : \A k \in Bad : m <= k
      BY <3>1, LeastNat
    <3>3. m \in Nat /\ m <= n /\ ~JoinedUpTo(ss, C1, m)
      OBVIOUS
    <3>4. m # 0
      <4>1. SUFFICES ASSUME m = 0 PROVE FALSE
        OBVIOUS
      <4>2. PICK g : g = [i \in 1 .. 0 |-> <<>>]
        OBVIOUS
      <4>3. g \in [1 .. 0 -> C1] /\ \A i \in 1 .. 0 : g[i] = Joined(ss, g, i)
        BY <4>2
      <4>4. QED BY <3>3, <4>1, <4>3 DEF JoinedUpTo
    <3>5. m - 1 \in Nat /\ m - 1 <= n /\ m - 1 \notin Bad
      BY <3>2, <3>3, <3>4, <1>1
    <3>6. PICK g \in [1 .. m - 1 -> C1] : \A i \in 1 .. m - 1 : g[i] = Joined(ss, g, i)
      BY <3>5 DEF JoinedUpTo
    <3>7. PICK h : h = [i \in 1 .. m |-> Joined(ss, g, i)]
      OBVIOUS
    <3>8. \A i \in 1 .. m : Joined(ss, g, i) \in C1
      <4>1. SUFFICES ASSUME NEW i \in 1 .. m PROVE Joined(ss, g, i) \in C1
        OBVIOUS
      <4>2. ss[i] \in C1
        BY <1>1, <3>3
      <4>3. CASE i = 1
        BY <4>2, <4>3 DEF Joined
      <4>4. CASE i # 1
        <5>1. i - 1 \in 1 .. m - 1
          BY <3>3, <4>4
        <5>2. g[i - 1] \in C1
          BY <5>1, <3>6
        <5>3. g[i - 1] \o ss[i] \in C1
          BY <4>2, <5>2
        <5>4. QED BY <4>4, <5>3 DEF Joined
      <4>5. QED BY <4>3, <4>4
    <3>9. \A i \in 1 .. m : h[i] = Joined(ss, h, i)
      <4>1. SUFFICES ASSUME NEW i \in 1 .. m PROVE h[i] = Joined(ss, h, i)
        OBVIOUS
      <4>2. CASE i = 1
        BY <4>2, <3>7 DEF Joined
      <4>3. CASE i # 1
        <5>1. i - 1 \in 1 .. m - 1 /\ i - 1 \in 1 .. m
          BY <3>3, <4>3
        <5>2. h[i - 1] = g[i - 1]
          BY <5>1, <3>6, <3>7
        <5>3. QED BY <4>3, <5>2, <3>7 DEF Joined
      <4>4. QED BY <4>2, <4>3
    <3>10. h \in [1 .. m -> C1]
      BY <3>7, <3>8
    <3>11. QED BY <3>3, <3>9, <3>10 DEF JoinedUpTo
  <2>2. n \notin Bad
    BY <2>1
  <2>3. PICK g \in [1 .. n -> C1] : \A i \in 1 .. n : g[i] = Joined(ss, g, i)
    BY <1>1, <2>2 DEF JoinedUpTo
  <2>4. g = [i \in 1 .. Len(ss) |-> Joined(ss, g, i)]
    BY <1>1, <2>3
  <2>5. Joining(ss) = [i \in 1 .. Len(ss) |-> Joined(ss, Joining(ss), i)]
    BY <2>4, Zenon DEF Joining
  <2>6. PICK h : h = Joining(ss) /\ h = [i \in 1 .. n |-> Joined(ss, h, i)]
    BY <1>1, <2>5, Zenon
  <2> DEFINE Off == {k \in Nat : k \in 1 .. n /\ h[k] \notin C1}
  <2>7. Off = {}
    <3>1. SUFFICES ASSUME Off # {} PROVE FALSE
      OBVIOUS
    <3>2. PICK m \in Off : \A k \in Off : m <= k
      BY <3>1, LeastNat
    <3>3. m \in 1 .. n /\ m \in Nat /\ h[m] \notin C1
      OBVIOUS
    <3>4. h[m] = Joined(ss, h, m) /\ ss[m] \in C1
      BY <2>6, <3>3, <1>1
    <3>5. m # 1
      BY <3>3, <3>4 DEF Joined
    <3>6. m - 1 \in 1 .. n /\ m - 1 \in Nat /\ m - 1 \notin Off
      BY <3>2, <3>3, <3>5
    <3>7. h[m - 1] \in C1
      BY <3>6
    <3>8. h[m - 1] \o ss[m] \in C1
      BY <3>4, <3>7
    <3>9. QED BY <3>3, <3>4, <3>5, <3>8 DEF Joined
  <2>8. n \in 1 .. n /\ h[n] \in C1
    BY <2>7, <1>3, <1>1
  <2>9. FlattenSeq(ss) = h[n]
    BY <1>1, <1>3, <2>6, FlattenIs
  <2>10. QED BY <2>8, <2>9
<1>4. QED BY <1>2, <1>3


-----------------------------------------------------------------------------
(***************************************************************************)
(* Alerts: for every staff, calendar, thresholds and number of ticks.       *)
(***************************************************************************)
AlertRow ==
  [kind : {"silent", "limit", "anomaly"}, pct : Nat, scope : Staff \cup Watched, period : Nat]
TickState ==
  [now : Calendar, check : {"silent", "limits", "anomalies"}, due : Seq(AlertRow),
   rows : Seq(Watched \X Nat)]

AlertsTyped ==
  /\ today \in Calendar
  /\ rolled \in [Staff -> [Calendar -> Nat]]
  /\ limit \in [Staff -> Limits] /\ limitsSeen \in [Staff -> SUBSET Limits]
  /\ \A p \in Staff : limit[p] \in limitsSeen[p]
  /\ lastOk \in [Watched -> Nat] /\ linkedAt \in [Watched -> Nat]
  /\ claims \subseteq AlertRow
  /\ tick \in [Ticks -> TickState \cup {NoTick}]
  /\ \A n \in Ticks : tick[n] # NoTick => tick[n].now <= today

\* Who received what: an alert only after it left the outbox, and no more often
\* than one delivery reaches them.
Most(list, d) == IF d = "slack" THEN 1 ELSE TimesIn(list, d)
AtMost(b, s, most) == DOMAIN b \subseteq s /\ \A a \in DOMAIN b : b[a] \in Nat /\ b[a] <= most
Delivered ==
  /\ recipients \in Mailed /\ outbox \subseteq claims
  /\ \A d \in Destinations : AtMost(told[d], claims \ outbox, Most(recipients, d))

\* An alert of a limit is of spend that is still there; one of a silent connector
\* of today holds until the connector is synced or connected again today.
SpendIn(p, m) == Total(rolled[p], {d \in 1 .. today : MonthOf[d] = m})
WasCrossed(a) == \E l \in limitsSeen[a.scope] : SpendIn(a.scope, a.period) * 100 >= l * a.pct
StillSilent(v) ==
  lastOk[v] # today /\ linkedAt[v] \notin {0, today} =>
    SilentSince(v, linkedAt[v]) <= today - SilentAfter
Justified(a) ==
  /\ a.kind = "limit" => a.scope \in Staff /\ WasCrossed(a)
  /\ a.kind = "silent" =>
       a.scope \in Watched /\ a.period <= today /\ (a.period = today => StillSilent(a.scope))

\* The lower thresholds come first, in a tick as well.
AsLow(a, pct) == [a EXCEPT !.pct = pct]
LowerCome(due, k) ==
  due[k].kind = "limit" => \A pct \in Range(Thresholds) : pct < due[k].pct =>
    AsLow(due[k], pct) \in claims \/ \E i \in DOMAIN due : i < k /\ due[i] = AsLow(due[k], pct)

\* What a tick has listed today is so until it changes today.
RowsFresh(w) ==
  w.now = today => \A k \in DOMAIN w.rows : linkedAt[w.rows[k][1]] \in {w.rows[k][2], 0, today}

SoundTick(w) ==
  /\ \A k \in DOMAIN w.due : Justified(w.due[k]) /\ LowerCome(w.due, k)
  /\ RowsFresh(w)

AlertsIInv ==
  /\ AlertsTyped /\ Delivered /\ LowerFirst
  /\ \A a \in claims : Justified(a)
  /\ \A n \in Ticks : tick[n] # NoTick => SoundTick(tick[n])

-----------------------------------------------------------------------------
(***************************************************************************)
(* What changes under the checks.                                           *)
(***************************************************************************)
\* Spend and the limits seen only grow, and so does the clock.
Grows ==
  /\ today <= today'
  /\ \A p \in Staff : \A d \in Calendar : rolled[p][d] <= rolled'[p][d]
  /\ \A p \in Staff : limitsSeen[p] \subseteq limitsSeen'[p]

\* Within the day a connector is synced, connected again or left as it is.
LinksMove ==
  today' = today => \A v \in Watched :
    /\ lastOk'[v] \in {lastOk[v], today}
    /\ linkedAt'[v] \in {linkedAt[v], 0, today}

LEMMA ProductsGrow ==
  ASSUME NEW x \in Nat, NEW y \in Nat, NEW z \in Nat, y <= z
  PROVE  x * y <= x * z /\ x * y \in Nat /\ x * z \in Nat
OBVIOUS

LEMMA SpendGrows ==
  ASSUME AlertsTyped, AlertsTyped', Grows, NEW p \in Staff, NEW m
  PROVE  SpendIn(p, m) \in Nat /\ SpendIn(p, m)' \in Nat /\ SpendIn(p, m) <= SpendIn(p, m)'
<1>1. PICK D : D = {d \in 1 .. today : MonthOf[d] = m}
  OBVIOUS
<1>2. PICK G : G = {d \in 1 .. today' : MonthOf[d] = m}
  OBVIOUS
<1>3. PICK f : f = rolled[p]
  OBVIOUS
<1>4. PICK e : e = rolled'[p]
  OBVIOUS
<1>5. today \in Nat /\ today' \in Nat /\ 1 .. today \subseteq Calendar /\ 1 .. today' \subseteq Calendar
  BY AlertsAssumption DEF AlertsTyped, Calendar
<1>6. IsFiniteSet(G) /\ D \subseteq G
  <2>1. IsFiniteSet(1 .. today')
    BY <1>5, FS_Interval
  <2>2. G \subseteq 1 .. today'
    BY <1>2
  <2>3. IsFiniteSet(G)
    BY <2>1, <2>2, FS_Subset
  <2>4. D \subseteq G
    BY <1>1, <1>2, <1>5 DEF Grows
  <2>5. QED BY <2>3, <2>4
<1>7. Counts(f, D) /\ Counts(e, G) /\ \A d \in D : f[d] <= e[d]
  BY <1>1, <1>2, <1>3, <1>4, <1>5 DEF Counts, AlertsTyped, Grows
<1>8. Total(f, D) \in Nat /\ Total(e, G) \in Nat /\ Total(f, D) <= Total(e, G)
  BY <1>6, <1>7, MoreIsMore
<1>9. SpendIn(p, m) = Total(f, D) /\ SpendIn(p, m)' = Total(e, G)
  BY <1>1, <1>2, <1>3, <1>4 DEF SpendIn
<1>10. QED BY <1>8, <1>9

LEMMA CrossedStays ==
  ASSUME AlertsTyped, AlertsTyped', Grows, NEW a \in AlertRow, a.scope \in Staff, WasCrossed(a)
  PROVE  WasCrossed(a)'
<1>1. PICK p \in Staff : p = a.scope
  OBVIOUS
<1>2. PICK l \in limitsSeen[p] : SpendIn(p, a.period) * 100 >= l * a.pct
  BY <1>1 DEF WasCrossed
<1>3. PICK x \in Nat : x = SpendIn(p, a.period)
  BY SpendGrows DEF Grows
<1>4. PICK y \in Nat : y = SpendIn(p, a.period)' /\ x <= y
  BY <1>3, SpendGrows
<1>5. l \in limitsSeen'[p]
  BY DEF Grows
<1>6. PICK z \in Nat : z = l * a.pct
  BY AlertsAssumption DEF AlertsTyped, AlertRow
<1>7. y * 100 >= z
  BY <1>2, <1>3, <1>4, <1>6
<1>8. SpendIn(p, a.period)' * 100 >= l * a.pct
  BY <1>4, <1>6, <1>7
<1>9. QED BY <1>1, <1>5, <1>8 DEF WasCrossed

LEMMA SilentStays ==
  ASSUME AlertsTyped, LinksMove, today' = today, NEW v \in Watched, StillSilent(v)
  PROVE  StillSilent(v)'
BY DEF LinksMove, StillSilent, SilentSince, AlertsTyped

LEMMA JustifiedStays ==
  ASSUME AlertsTyped, AlertsTyped', Grows, LinksMove, NEW a \in AlertRow, Justified(a)
  PROVE  Justified(a)'
<1>1. ASSUME a.kind = "limit" PROVE a.scope \in Staff /\ WasCrossed(a)'
  BY <1>1, CrossedStays DEF Justified
<1>2. ASSUME a.kind = "silent"
      PROVE  a.scope \in Watched /\ a.period <= today' /\ (a.period = today' => StillSilent(a.scope)')
  <2>1. PICK v \in Watched : v = a.scope /\ a.period <= today /\ (a.period = today => StillSilent(v))
    BY <1>2 DEF Justified
  <2>2. a.period \in Nat /\ today \in Nat /\ today' \in Nat /\ today <= today'
    BY DEF AlertRow, AlertsTyped, Calendar, Grows
  <2>3. ASSUME a.period = today' PROVE StillSilent(v)'
    <3>1. today' = today /\ StillSilent(v)
      BY <2>1, <2>2, <2>3
    <3>2. QED BY <3>1, SilentStays
  <2>4. QED BY <2>1, <2>2, <2>3
<1>3. QED BY <1>1, <1>2 DEF Justified

\* A tick and what it found stay sound while the world and the claims move.
LEMMA TickStays ==
  ASSUME AlertsTyped, AlertsTyped', Grows, LinksMove, claims \subseteq claims',
         NEW w \in TickState, w.now <= today, SoundTick(w)
  PROVE  SoundTick(w)'
<1>1. ASSUME NEW k \in DOMAIN w.due PROVE Justified(w.due[k])' /\ LowerCome(w.due, k)'
  <2>1. PICK a \in AlertRow : a = w.due[k]
    BY <1>1 DEF TickState
  <2>2. Justified(a)'
    BY <2>1, JustifiedStays DEF SoundTick
  <2>3. LowerCome(w.due, k)
    BY DEF SoundTick
  <2>4. LowerCome(w.due, k)'
    BY <2>3 DEF LowerCome
  <2>5. QED BY <2>1, <2>2, <2>4
<1>2. RowsFresh(w)'
  <2>1. SUFFICES ASSUME w.now = today', NEW k \in DOMAIN w.rows
                 PROVE  linkedAt'[w.rows[k][1]] \in {w.rows[k][2], 0, today'}
    BY DEF RowsFresh
  <2>2. today' = today
    BY <2>1 DEF TickState, AlertsTyped, Calendar, Grows
  <2>3. w.rows[k][1] \in Watched
    BY DEF TickState
  <2>4. linkedAt[w.rows[k][1]] \in {w.rows[k][2], 0, today}
    BY <2>1, <2>2 DEF SoundTick, RowsFresh
  <2>5. QED BY <2>2, <2>3, <2>4 DEF LinksMove
<1>3. QED BY <1>1, <1>2 DEF SoundTick

\* What changes under the checks leaves them sound.
LEMMA WorldMoves ==
  ASSUME AlertsIInv, AlertsTyped', Grows, LinksMove, UNCHANGED <<recipients, work>>
  PROVE  AlertsIInv'
<1>1. AlertsTyped /\ Delivered /\ LowerFirst
  BY DEF AlertsIInv
<1>2. claims' = claims /\ tick' = tick /\ outbox' = outbox /\ told' = told
  BY DEF work
<1>3. Delivered' /\ LowerFirst'
  BY <1>1, <1>2 DEF Delivered, LowerFirst
<1>4. ASSUME NEW a \in claims' PROVE Justified(a)'
  BY <1>1, <1>2, JustifiedStays DEF AlertsIInv, AlertsTyped
<1>5. ASSUME NEW n \in Ticks, tick'[n] # NoTick PROVE SoundTick(tick[n])'
  <2>1. PICK w \in TickState : w = tick[n] /\ w.now <= today /\ SoundTick(w)
    BY <1>1, <1>2, <1>5 DEF AlertsIInv, AlertsTyped
  <2>2. SoundTick(w)'
    BY <1>1, <1>2, <2>1, TickStays
  <2>3. tick'[n] = w
    BY <1>2, <2>1
  <2>4. QED BY <2>2, <2>3
<1>6. QED BY <1>3, <1>4, <1>5 DEF AlertsIInv

LEMMA RollupsStand ==
  ASSUME AlertsTyped, UNCHANGED rolled
  PROVE  today \in Nat /\ \A p \in Staff : \A d \in Calendar : rolled[p][d] <= rolled'[p][d]
<1>1. today \in Nat
  BY DEF AlertsTyped, Calendar
<1>2. \A p \in Staff : \A d \in Calendar : rolled[p][d] <= rolled'[p][d]
  BY DEF AlertsTyped
<1>3. QED BY <1>1, <1>2

LEMMA NextDaySafe == ASSUME AlertsIInv, NextDay PROVE AlertsIInv'
<1>1. AlertsTyped
  BY DEF AlertsIInv
<1>2. today \in Nat /\ today' = today + 1 /\ today' \in Calendar
  BY <1>1, AlertsAssumption DEF AlertsTyped, NextDay, Calendar
<1>3. UNCHANGED <<rolled, limit, limitsSeen, lastOk, linkedAt, recipients, work, claims, tick>>
  BY DEF NextDay, inputs, staffVars, linkVars, work
<1>4. \A n \in Ticks : tick'[n] # NoTick => tick'[n].now <= today'
  <2>1. SUFFICES ASSUME NEW n \in Ticks, tick[n] # NoTick PROVE tick[n].now <= today + 1
    BY <1>2, <1>3
  <2>2. tick[n].now \in Nat /\ tick[n].now <= today
    BY <1>1, <2>1 DEF AlertsTyped, TickState, Calendar
  <2>3. QED BY <1>2, <2>2
<1>5. AlertsTyped'
  BY <1>1, <1>2, <1>3, <1>4 DEF AlertsTyped
<1>6. \A p \in Staff : \A d \in Calendar : rolled[p][d] <= rolled'[p][d]
  BY <1>1, <1>3 DEF AlertsTyped
<1>7. Grows /\ LinksMove /\ UNCHANGED <<recipients, work>>
  BY <1>2, <1>3, <1>6 DEF Grows, LinksMove
<1>8. QED BY <1>5, <1>7, WorldMoves

LEMMA SpentSafe ==
  ASSUME AlertsIInv, NEW p \in Staff, NEW d \in Calendar, Spent(p, d) PROVE AlertsIInv'
<1>1. AlertsTyped
  BY DEF AlertsIInv
<1>2. PICK c \in Amounts : rolled' = [rolled EXCEPT ![p][d] = @ + c]
  BY DEF Spent
<1>3. rolled' \in [Staff -> [Calendar -> Nat]]
  BY <1>1, <1>2, AlertsAssumption DEF AlertsTyped
<1>4. AlertsTyped'
  BY <1>1, <1>3 DEF AlertsTyped, Spent, linkVars, work
<1>5. \A q \in Staff : \A e \in Calendar : rolled[q][e] <= rolled'[q][e]
  BY <1>1, <1>2, AlertsAssumption DEF AlertsTyped
<1>6. Grows /\ LinksMove /\ UNCHANGED <<recipients, work>>
  BY <1>1, <1>5 DEF Grows, LinksMove, Spent, linkVars, AlertsTyped, Calendar
<1>7. QED BY <1>4, <1>6, WorldMoves

LEMMA StaffSafe ==
  ASSUME AlertsIInv, NEW p \in Staff, SetLimit(p) \/ Offboarded(p) PROVE AlertsIInv'
<1>1. AlertsTyped
  BY DEF AlertsIInv
<1>2. limit' \in [Staff -> Limits] /\ limitsSeen' \in [Staff -> SUBSET Limits]
      /\ \A q \in Staff : limit'[q] \in limitsSeen'[q] /\ limitsSeen[q] \subseteq limitsSeen'[q]
  <2>1. CASE SetLimit(p)
    <3>1. PICK l \in Limits : /\ limit' = [limit EXCEPT ![p] = l]
                              /\ limitsSeen' = [limitsSeen EXCEPT ![p] = @ \cup {l}]
      BY <2>1 DEF SetLimit
    <3>2. limit' \in [Staff -> Limits] /\ limitsSeen' \in [Staff -> SUBSET Limits]
      BY <1>1, <3>1 DEF AlertsTyped
    <3>3. \A q \in Staff : limit'[q] \in limitsSeen'[q] /\ limitsSeen[q] \subseteq limitsSeen'[q]
      BY <1>1, <3>1 DEF AlertsTyped
    <3>4. QED BY <3>2, <3>3
  <2>2. CASE Offboarded(p)
    BY <1>1, <2>2 DEF AlertsTyped, Offboarded
  <2>3. QED BY <2>1, <2>2
<1>3. UNCHANGED <<today, rolled, lastOk, linkedAt, recipients, claims, tick, work>>
  BY DEF SetLimit, Offboarded, linkVars, work
<1>4. AlertsTyped'
  BY <1>1, <1>2, <1>3 DEF AlertsTyped
<1>5. today \in Nat /\ \A q \in Staff : \A d \in Calendar : rolled[q][d] <= rolled'[q][d]
  BY <1>1, <1>3, RollupsStand
<1>6. Grows /\ LinksMove /\ UNCHANGED <<recipients, work>>
  BY <1>2, <1>3, <1>5 DEF Grows, LinksMove
<1>7. QED BY <1>4, <1>6, WorldMoves

LEMMA LinkSafe ==
  ASSUME AlertsIInv, NEW v \in Watched, Link(v) \/ Synced(v) PROVE AlertsIInv'
<1>1. AlertsTyped
  BY DEF AlertsIInv
<1>2. UNCHANGED <<today, rolled, limit, limitsSeen, recipients, claims, tick, work>>
  BY DEF Link, Synced, staffVars, work
<1>3. today \in Nat /\ \A q \in Staff : \A d \in Calendar : rolled[q][d] <= rolled'[q][d]
  BY <1>1, <1>2, RollupsStand
<1>4. lastOk' \in [Watched -> Nat] /\ linkedAt' \in [Watched -> Nat]
  <2>1. lastOk' = lastOk \/ lastOk' = [lastOk EXCEPT ![v] = today]
    BY DEF Link, Synced
  <2>2. \/ linkedAt' = linkedAt
        \/ \E at \in {0, today} : linkedAt' = [linkedAt EXCEPT ![v] = at]
    BY DEF Link, Synced
  <2>3. lastOk \in [Watched -> Nat] /\ linkedAt \in [Watched -> Nat]
    BY <1>1 DEF AlertsTyped
  <2>4. QED BY <1>3, <2>1, <2>2, <2>3
<1>5. AlertsTyped'
  BY <1>1, <1>2, <1>4 DEF AlertsTyped
<1>6. LinksMove
  BY <1>1 DEF LinksMove, AlertsTyped, Link, Synced
<1>7. Grows /\ UNCHANGED <<recipients, work>>
  BY <1>2, <1>3 DEF Grows
<1>8. QED BY <1>5, <1>6, <1>7, WorldMoves

-----------------------------------------------------------------------------
(***************************************************************************)
(* A tick.                                                                  *)
(***************************************************************************)
\* A step of one tick, which may claim what it found first.
LEMMA TickMoves ==
  ASSUME AlertsIInv, UNCHANGED <<today, inputs>>, claims \subseteq claims',
         claims' \subseteq AlertRow, Delivered', LowerFirst',
         \A a \in claims' : a \in claims \/ Justified(a),
         NEW w, w = NoTick \/ (w \in TickState /\ w.now <= today /\ SoundTick(w)'),
         tick' = [q \in Ticks |-> tick'[q]], \A q \in Ticks : tick'[q] \in {tick[q], w, NoTick}
  PROVE  AlertsIInv'
<1>1. AlertsTyped
  BY DEF AlertsIInv
<1>2. AlertsTyped'
  <2>1. tick' \in [Ticks -> TickState \cup {NoTick}]
    BY <1>1 DEF AlertsTyped
  <2>2. \A q \in Ticks : tick'[q] # NoTick => tick'[q].now <= today
    BY <1>1 DEF AlertsTyped
  <2>3. QED BY <1>1, <2>1, <2>2 DEF AlertsTyped, inputs, staffVars, linkVars
<1>3. Grows /\ LinksMove
  <2>1. UNCHANGED <<rolled, limitsSeen, lastOk, linkedAt>>
    BY DEF inputs, staffVars, linkVars
  <2>2. today \in Nat /\ \A q \in Staff : \A d \in Calendar : rolled[q][d] <= rolled'[q][d]
    BY <1>1, <2>1, RollupsStand
  <2>3. QED BY <2>1, <2>2 DEF Grows, LinksMove
<1>4. ASSUME NEW a \in claims' PROVE Justified(a)'
  BY <1>1, <1>2, <1>3, JustifiedStays DEF AlertsIInv, AlertsTyped
<1>5. ASSUME NEW q \in Ticks, tick'[q] # NoTick PROVE SoundTick(tick[q])'
  <2>1. CASE tick'[q] = w
    <3>1. SoundTick(w)'
      BY <1>5, <2>1
    <3>2. QED BY <2>1, <3>1
  <2>2. CASE tick'[q] = tick[q]
    <3>1. PICK u \in TickState : u = tick[q] /\ u.now <= today /\ SoundTick(u)
      BY <1>1, <1>5, <2>2 DEF AlertsIInv, AlertsTyped
    <3>2. SoundTick(u)'
      BY <1>1, <1>2, <1>3, <3>1, TickStays
    <3>3. tick'[q] = u
      BY <2>2, <3>1
    <3>4. QED BY <3>2, <3>3
  <2>3. QED BY <1>5, <2>1, <2>2
<1>6. QED BY <1>2, <1>4, <1>5 DEF AlertsIInv

\* A step of one tick that claims nothing.
LEMMA TickReads ==
  ASSUME AlertsIInv, UNCHANGED <<today, inputs, claims, outbox, told>>, NEW n \in Ticks,
         NEW w, w = NoTick \/ (w \in TickState /\ w.now <= today /\ SoundTick(w)),
         tick' = [tick EXCEPT ![n] = w]
  PROVE  AlertsIInv'
<1>1. AlertsTyped /\ Delivered /\ LowerFirst
  BY DEF AlertsIInv
<1>2. Delivered' /\ LowerFirst'
  BY <1>1 DEF Delivered, LowerFirst, inputs
<1>3. tick' = [q \in Ticks |-> tick'[q]] /\ \A q \in Ticks : tick'[q] \in {tick[q], w, NoTick}
  BY <1>1 DEF AlertsTyped
<1>4. SoundTick(w)' <=> SoundTick(w)
  BY DEF SoundTick, RowsFresh, LowerCome, Justified, StillSilent, SilentSince, WasCrossed,
         SpendIn, inputs, staffVars, linkVars
<1>5. claims' \subseteq AlertRow /\ \A a \in claims' : a \in claims \/ Justified(a)
  BY <1>1 DEF AlertsTyped
<1>6. QED BY <1>2, <1>3, <1>4, <1>5, TickMoves

LEMMA StartTickSafe == ASSUME AlertsIInv, NEW n \in Ticks, StartTick(n) PROVE AlertsIInv'
<1>1. AlertsTyped
  BY DEF AlertsIInv
<1>2. PICK order \in SetToSeqs({v \in Watched : linkedAt[v] # 0}) :
        tick' = [tick EXCEPT ![n] =
          [now |-> today, check |-> "silent", due |-> <<>>,
           rows |-> [i \in DOMAIN order |-> <<order[i], linkedAt[order[i]]>>]]]
  BY DEF StartTick
<1>3. order \in Seq({v \in Watched : linkedAt[v] # 0}) /\ DOMAIN order = 1 .. Len(order)
  <2>1. IsFiniteSet({v \in Watched : linkedAt[v] # 0})
    BY AlertsAssumption, FS_Subset
  <2>2. QED BY <2>1, EnumerationIs
<1>4. PICK rows : rows = [i \in DOMAIN order |-> <<order[i], linkedAt[order[i]]>>]
  OBVIOUS
<1>5. rows \in Seq(Watched \X Nat) /\ \A k \in DOMAIN rows : linkedAt[rows[k][1]] = rows[k][2]
  BY <1>1, <1>3, <1>4 DEF AlertsTyped
<1>6. PICK w : w = [now |-> today, check |-> "silent", due |-> <<>>, rows |-> rows]
  OBVIOUS
<1>7. w.now = today /\ w.due = <<>> /\ w.rows = rows
  BY <1>6
<1>8. w \in TickState
  BY <1>1, <1>5, <1>6 DEF TickState, AlertsTyped
<1>9. w.now <= today
  BY <1>1, <1>7 DEF AlertsTyped, Calendar
<1>10. SoundTick(w)
  BY <1>5, <1>7 DEF SoundTick, RowsFresh
<1>11. tick' = [tick EXCEPT ![n] = w]
  BY <1>2, <1>4, <1>6
<1>12. QED BY <1>8, <1>9, <1>10, <1>11, TickReads DEF StartTick

\* What is true of a tick that is under way.
LEMMA TickIs ==
  ASSUME AlertsIInv, NEW n \in Ticks, tick[n] # NoTick
  PROVE  \E u \in TickState : u = tick[n] /\ u.now <= today /\ SoundTick(u)
BY DEF AlertsIInv, AlertsTyped

LEMMA CheckSilentSafe == ASSUME AlertsIInv, NEW n \in Ticks, CheckSilent(n) PROVE AlertsIInv'
<1>1. AlertsTyped
  BY DEF AlertsIInv
<1>2. PICK u \in TickState : u = tick[n] /\ u.now <= today /\ SoundTick(u)
  BY TickIs DEF CheckSilent, AtCheck
<1>3. PICK row : row = Head(u.rows)
  OBVIOUS
<1>4. PICK due : due = IF IsSilent(row[1], row[2], u.now)
                       THEN <<Alert("silent", 0, row[1], u.now)>> ELSE <<>>
  OBVIOUS
<1>5. PICK v : v = [u EXCEPT !.rows = Tail(@)]
  OBVIOUS
<1>6. PICK w : w = [v EXCEPT !.due = due]
  OBVIOUS
<1>7. u.rows \in Seq(Watched \X Nat) /\ u.rows # <<>> /\ u.now \in Calendar
      /\ u.check \in {"silent", "limits", "anomalies"}
  BY <1>2 DEF CheckSilent, TickState
<1>8. row \in Watched \X Nat /\ row = u.rows[1] /\ 1 \in DOMAIN u.rows
  BY <1>3, <1>7
<1>9. Tail(u.rows) \in Seq(Watched \X Nat)
      /\ \A k \in DOMAIN Tail(u.rows) : k + 1 \in DOMAIN u.rows /\ Tail(u.rows)[k] = u.rows[k + 1]
  BY <1>7
<1>10. today \in Nat /\ u.now \in Nat
  BY <1>1, <1>7 DEF AlertsTyped, Calendar
<1>11. ASSUME IsSilent(row[1], row[2], u.now) PROVE Justified(Alert("silent", 0, row[1], u.now))
  <2>1. PICK a : a = Alert("silent", 0, row[1], u.now)
    OBVIOUS
  <2>2. a.kind = "silent" /\ a.scope = row[1] /\ a.period = u.now
    BY <2>1 DEF Alert
  <2>3. ASSUME u.now = today PROVE StillSilent(row[1])
    <3>1. linkedAt[row[1]] \in {row[2], 0, today}
      BY <1>2, <1>8, <2>3 DEF SoundTick, RowsFresh
    <3>2. QED BY <1>11, <2>3, <3>1 DEF StillSilent, IsSilent
  <2>4. QED BY <1>2, <1>8, <2>1, <2>2, <2>3 DEF Justified
<1>12. Alert("silent", 0, row[1], u.now) \in AlertRow
  BY <1>8, <1>10 DEF Alert, AlertRow
<1>13. due \in Seq(AlertRow) /\ \A k \in DOMAIN due : Justified(due[k]) /\ due[k].kind = "silent"
  <2>1. CASE IsSilent(row[1], row[2], u.now)
    <3>1. due = <<Alert("silent", 0, row[1], u.now)>>
      BY <1>4, <2>1
    <3>2. Alert("silent", 0, row[1], u.now).kind = "silent"
      BY DEF Alert
    <3>3. QED BY <1>11, <1>12, <2>1, <3>1, <3>2
  <2>2. CASE ~IsSilent(row[1], row[2], u.now)
    BY <1>4, <2>2
  <2>3. QED BY <2>1, <2>2
<1>14. w \in TickState /\ w.now = u.now /\ w.due = due /\ w.rows = Tail(u.rows)
  <2>1. v \in TickState /\ v.now = u.now /\ v.rows = Tail(u.rows)
    BY <1>2, <1>5, <1>9 DEF TickState
  <2>2. w.now = v.now /\ w.due = due /\ w.rows = v.rows
    BY <2>1, <1>6 DEF TickState
  <2>3. w \in TickState
    BY <2>1, <1>6, <1>13 DEF TickState
  <2>4. QED BY <2>1, <2>2, <2>3
<1>15. RowsFresh(w)
  <2>1. RowsFresh(u)
    BY <1>2 DEF SoundTick
  <2>2. QED BY <1>9, <1>14, <2>1 DEF RowsFresh
<1>16. SoundTick(w)
  BY <1>13, <1>14, <1>15 DEF SoundTick, LowerCome
<1>17. tick' = [tick EXCEPT ![n] = w]
  <2>1. tick' = [tick EXCEPT ![n] = [[tick[n] EXCEPT !.rows = Tail(@)] EXCEPT !.due = due]]
    BY <1>1, <1>2, <1>3, <1>4 DEF CheckSilent, AlertsTyped
  <2>2. QED BY <1>2, <1>5, <1>6, <2>1
<1>18. QED BY <1>2, <1>14, <1>16, <1>17, TickReads DEF CheckSilent

LEMMA EndTickSafe == ASSUME AlertsIInv, NEW n \in Ticks, EndTick(n) PROVE AlertsIInv'
BY TickReads DEF EndTick

\* What a check of the limits may find: crossed limits, the lower ones first.
Findings ==
  {s \in Seq(AlertRow) : \A k \in DOMAIN s : Justified(s[k]) /\ LowerCome(s, k)}

LEMMA FindingsJoin == ASSUME NEW s \in Findings, NEW r \in Findings PROVE s \o r \in Findings
<1>1. PICK c \in Nat : c = Len(s)
  BY DEF Findings
<1>2. PICK e \in Nat : e = Len(r)
  BY DEF Findings
<1>3. PICK j : j = s \o r
  OBVIOUS
<1>4. s \in Seq(AlertRow) /\ r \in Seq(AlertRow) /\ DOMAIN s = 1 .. c /\ DOMAIN r = 1 .. e
  BY <1>1, <1>2 DEF Findings
<1>5. j \in Seq(AlertRow) /\ DOMAIN j = 1 .. c + e
      /\ (\A k \in 1 .. c : j[k] = s[k]) /\ \A k \in 1 .. e : j[c + k] = r[k]
  BY <1>1, <1>2, <1>3, <1>4
<1>6. ASSUME NEW k \in 1 .. c + e PROVE Justified(j[k]) /\ LowerCome(j, k)
  <2>1. CASE k <= c
    <3>1. k \in 1 .. c /\ k \in DOMAIN s /\ j[k] = s[k]
      BY <2>1, <1>4, <1>5
    <3>4. Justified(s[k]) /\ LowerCome(s, k)
      BY <3>1 DEF Findings
    <3>2. \A i \in DOMAIN s : i \in DOMAIN j /\ j[i] = s[i]
      BY <1>4, <1>5
    <3>3. LowerCome(j, k)
      BY <3>1, <3>2, <3>4 DEF LowerCome
    <3>5. QED BY <3>1, <3>3, <3>4
  <2>2. CASE ~(k <= c)
    <3>1. PICK b \in 1 .. e : k = c + b
      <4>1. k - c \in 1 .. e /\ k = c + (k - c)
        BY <2>2
      <4>2. QED BY <4>1
    <3>2. j[k] = r[b] /\ Justified(r[b]) /\ LowerCome(r, b)
      BY <3>1, <1>4, <1>5 DEF Findings
    <3>3. \A i \in DOMAIN r : i < b => c + i \in DOMAIN j /\ c + i < k /\ j[c + i] = r[i]
      BY <3>1, <1>4, <1>5
    <3>4. LowerCome(j, k)
      BY <3>2, <3>3 DEF LowerCome
    <3>5. QED BY <3>2, <3>4
  <2>3. QED BY <2>1, <2>2
<1>7. QED BY <1>3, <1>5, <1>6 DEF Findings

\* The limits one person has crossed.
LEMMA FiringIs ==
  ASSUME AlertsTyped, NEW p \in Staff, NEW now \in Calendar, now <= today
  PROVE  FiringLimits(p, now) \in Findings
<1>1. PICK A : A = {pct \in Range(Thresholds) : Crossed(p, pct, now)}
  OBVIOUS
<1>2. PICK pcts : pcts = Ascending(A)
  OBVIOUS
<1>3. A \in SUBSET Nat /\ IsFiniteSet(A)
  <2>1. PICK c \in Nat : c = Len(Thresholds) /\ Thresholds \in [1 .. c -> Nat]
    BY AlertsAssumption
  <2>2. IsFiniteSet(1 .. c)
    BY FS_Interval
  <2>3. Range(Thresholds) \subseteq Nat /\ Thresholds \in Surjection(1 .. c, Range(Thresholds))
    BY <2>1 DEF Range, Surjection
  <2>4. IsFiniteSet(Range(Thresholds))
    BY <2>2, <2>3, FS_Surjection
  <2>5. QED BY <1>1, <2>3, <2>4, FS_Subset
<1>4. pcts \in Seq(A) /\ Increasing(pcts) /\ \A x \in A : \E i \in DOMAIN pcts : pcts[i] = x
  BY <1>2, <1>3, AscendingIs
<1>5. PICK m \in Nat : m = MonthOf[now]
  BY AlertsAssumption DEF Calendar
<1>6. PICK x \in Nat : x = SpendOf(p, MonthToDate(now)) /\ x <= SpendIn(p, m)
  <2>1. PICK D : D = MonthToDate(now)
    OBVIOUS
  <2>2. PICK G : G = {d \in 1 .. today : MonthOf[d] = m}
    OBVIOUS
  <2>3. PICK f : f = rolled[p]
    OBVIOUS
  <2>4. today \in Nat /\ now \in Nat /\ 1 .. today \subseteq Calendar
    BY AlertsAssumption DEF AlertsTyped, Calendar
  <2>5. D \subseteq G /\ G \subseteq 1 .. today
    BY <1>5, <2>1, <2>2, <2>4 DEF MonthToDate
  <2>6. IsFiniteSet(G)
    <3>1. IsFiniteSet(1 .. today)
      BY <2>4, FS_Interval
    <3>2. QED BY <2>5, <3>1, FS_Subset
  <2>7. Counts(f, D) /\ Counts(f, G) /\ \A d \in D : f[d] <= f[d]
    BY <2>3, <2>4, <2>5 DEF Counts, AlertsTyped
  <2>8. Total(f, D) \in Nat /\ Total(f, D) <= Total(f, G)
    BY <2>5, <2>6, <2>7, MoreIsMore
  <2>9. SpendOf(p, MonthToDate(now)) = Total(f, D) /\ SpendIn(p, m) = Total(f, G)
    BY <2>1, <2>2, <2>3, SpendIsTotal DEF SpendIn
  <2>10. QED BY <2>8, <2>9
<1>7. PICK l \in Nat : l = limit[p] /\ l \in limitsSeen[p]
  BY AlertsAssumption DEF AlertsTyped
<1>8. \A pct \in Nat : pct \in A <=> pct \in Range(Thresholds) /\ active[p] /\ x * 100 >= l * pct
  BY <1>1, <1>3, <1>6, <1>7 DEF Crossed
<1>9. PICK due : due = [k \in DOMAIN pcts |-> Alert("limit", pcts[k], p, m)]
  OBVIOUS
<1>10. DOMAIN due = DOMAIN pcts /\ \A k \in DOMAIN pcts :
         /\ due[k] \in AlertRow /\ due[k].kind = "limit" /\ due[k].pct = pcts[k]
         /\ due[k].scope = p /\ due[k].period = m /\ pcts[k] \in A /\ pcts[k] \in Nat
         /\ \A pct : AsLow(due[k], pct) = Alert("limit", pct, p, m)
  BY <1>3, <1>4, <1>5, <1>9 DEF Alert, AlertRow, AsLow
<1>11. due \in Seq(AlertRow)
  <2>1. PICK c \in Nat : c = Len(pcts) /\ DOMAIN pcts = 1 .. c
    BY <1>4
  <2>2. due = [k \in 1 .. c |-> due[k]] /\ \A k \in 1 .. c : due[k] \in AlertRow
    BY <1>9, <1>10, <2>1
  <2>3. QED BY <2>2
<1>12. ASSUME NEW k \in DOMAIN due PROVE Justified(due[k])
  <2>1. PICK pct \in Nat : pct = pcts[k] /\ x * 100 >= l * pct
    BY <1>8, <1>10
  <2>2. PICK y \in Nat : y = SpendIn(p, m) /\ x <= y
    <3>1. SpendIn(p, m) \in Nat
      <4>1. PICK G : G = {d \in 1 .. today : MonthOf[d] = m}
        OBVIOUS
      <4>2. PICK f : f = rolled[p]
        OBVIOUS
      <4>3. today \in Nat /\ 1 .. today \subseteq Calendar /\ G \subseteq 1 .. today
        BY <4>1, AlertsAssumption DEF AlertsTyped, Calendar
      <4>4. IsFiniteSet(G)
        <5>1. IsFiniteSet(1 .. today)
          BY <4>3, FS_Interval
        <5>2. QED BY <4>3, <5>1, FS_Subset
      <4>5. Counts(f, G) /\ \A d \in G : f[d] <= f[d]
        BY <4>2, <4>3 DEF Counts, AlertsTyped
      <4>6. Total(f, G) \in Nat
        BY <4>4, <4>5, MoreIsMore
      <4>7. QED BY <4>1, <4>2, <4>6 DEF SpendIn
    <3>2. QED BY <3>1, <1>6
  <2>3. PICK z \in Nat : z = l * pct
    BY ProductsGrow
  <2>4. y * 100 >= z
    BY <2>1, <2>2, <2>3
  <2>5. WasCrossed(due[k])
    BY <1>7, <1>10, <2>1, <2>2, <2>3, <2>4 DEF WasCrossed
  <2>6. QED BY <1>10, <2>5 DEF Justified
<1>13. ASSUME NEW k \in DOMAIN due, NEW pct \in Range(Thresholds), pct < due[k].pct
       PROVE  \E i \in DOMAIN due : i < k /\ due[i] = AsLow(due[k], pct)
  <2>1. PICK top \in Nat : top = pcts[k] /\ x * 100 >= l * top /\ pct < top /\ active[p]
    BY <1>8, <1>10, <1>13
  <2>2. pct \in Nat
    <3>1. Range(Thresholds) \subseteq Nat
      BY AlertsAssumption DEF Range
    <3>2. QED BY <3>1
  <2>3. l * pct <= l * top /\ l * pct \in Nat /\ l * top \in Nat
    BY <2>1, <2>2, ProductsGrow
  <2>4. x * 100 >= l * pct
    <3>1. PICK b \in Nat : b = l * pct
      BY <2>3
    <3>2. PICK g \in Nat : g = l * top
      BY <2>3
    <3>3. b <= g /\ x * 100 >= g
      BY <2>1, <2>3, <3>1, <3>2
    <3>4. x * 100 >= b
      BY <3>3
    <3>5. QED BY <3>1, <3>4
  <2>5. pct \in A
    BY <1>8, <2>1, <2>2, <2>4
  <2>6. PICK i \in DOMAIN pcts : pcts[i] = pct
    BY <1>4, <2>5
  <2>7. i \in Nat /\ k \in Nat /\ k \in DOMAIN pcts
    BY <1>4, <1>10
  <2>8. i < k
    <3>1. SUFFICES ASSUME ~(i < k) PROVE FALSE
      OBVIOUS
    <3>2. i = k \/ k < i
      BY <2>7, <3>1
    <3>3. top = pct \/ top < pct
      BY <1>4, <2>1, <2>6, <2>7, <3>2 DEF Increasing
    <3>4. QED BY <2>1, <2>2, <3>3
  <2>9. due[i] = AsLow(due[k], pct)
    BY <1>9, <1>10, <2>6, <2>7
  <2>10. QED BY <1>10, <2>6, <2>8, <2>9
<1>14. due \in Findings
  BY <1>11, <1>12, <1>13 DEF Findings, LowerCome
<1>15. FiringLimits(p, now) = due
  BY <1>1, <1>2, <1>5, <1>9 DEF FiringLimits
<1>16. QED BY <1>14, <1>15

LEMMA CheckLimitsSafe == ASSUME AlertsIInv, NEW n \in Ticks, CheckLimits(n) PROVE AlertsIInv'
<1>1. AlertsTyped
  BY DEF AlertsIInv
<1>2. PICK u \in TickState : u = tick[n] /\ u.now <= today /\ SoundTick(u)
  BY TickIs DEF CheckLimits, AtCheck
<1>3. PICK order \in SetToSeqs(Staff) :
        tick' = [tick EXCEPT ![n].check = "limits",
          ![n].due = FlattenSeq([i \in DOMAIN order |-> FiringLimits(order[i], tick[n].now)])]
  BY DEF CheckLimits
<1>4. order \in Seq(Staff) /\ DOMAIN order = 1 .. Len(order)
  BY AlertsAssumption, EnumerationIs
<1>5. PICK ss : ss = [i \in DOMAIN order |-> FiringLimits(order[i], u.now)]
  OBVIOUS
<1>6. u.now \in Calendar
  BY <1>2 DEF TickState
<1>7. ss \in Seq(Findings)
  <2>1. \A i \in DOMAIN order : order[i] \in Staff
    BY <1>4
  <2>2. \A i \in DOMAIN order : FiringLimits(order[i], u.now) \in Findings
    BY <1>1, <1>2, <1>6, <2>1, FiringIs
  <2>3. QED BY <1>4, <1>5, <2>2
<1>8. PICK due : due = FlattenSeq(ss)
  OBVIOUS
<1>9. due \in Findings
  <2>1. <<>> \in Findings
    BY DEF Findings
  <2>2. QED BY <1>7, <1>8, <2>1, FindingsJoin, FlattenCloses
<1>10. PICK v : v = [u EXCEPT !.check = "limits"]
  OBVIOUS
<1>11. PICK w : w = [v EXCEPT !.due = due]
  OBVIOUS
<1>12. w \in TickState /\ w.now = u.now /\ w.due = due /\ w.rows = u.rows
  <2>1. v \in TickState /\ v.now = u.now /\ v.rows = u.rows
    BY <1>2, <1>10 DEF TickState
  <2>2. w.now = v.now /\ w.due = due /\ w.rows = v.rows
    BY <2>1, <1>11 DEF TickState
  <2>3. due \in Seq(AlertRow)
    BY <1>9 DEF Findings
  <2>4. w \in TickState
    BY <2>1, <2>3, <1>11 DEF TickState
  <2>5. QED BY <2>1, <2>2, <2>4
<1>13. SoundTick(w)
  BY <1>2, <1>9, <1>12 DEF SoundTick, RowsFresh, Findings
<1>14. tick' = [tick EXCEPT ![n] = w]
  <2>1. tick' = [tick EXCEPT ![n] = [[tick[n] EXCEPT !.check = "limits"] EXCEPT !.due = due]]
    BY <1>1, <1>2, <1>3, <1>5, <1>8 DEF AlertsTyped
  <2>2. QED BY <1>2, <1>10, <1>11, <2>1
<1>15. QED BY <1>2, <1>12, <1>13, <1>14, TickReads DEF CheckLimits

LEMMA CheckAnomaliesSafe ==
  ASSUME AlertsIInv, NEW n \in Ticks, CheckAnomalies(n) PROVE AlertsIInv'
<1>1. AlertsTyped
  BY DEF AlertsIInv
<1>2. PICK u \in TickState : u = tick[n] /\ u.now <= today /\ SoundTick(u)
  BY TickIs DEF CheckAnomalies, AtCheck
<1>3. PICK order \in SetToSeqs({p \in Staff : Anomalous(p, tick[n].now)}) :
        tick' = [tick EXCEPT ![n].check = "anomalies",
          ![n].due = [i \in DOMAIN order |-> Alert("anomaly", 0, order[i], tick[n].now)]]
  BY DEF CheckAnomalies
<1>4. order \in Seq({p \in Staff : Anomalous(p, tick[n].now)})
      /\ DOMAIN order = 1 .. Len(order) /\ Len(order) \in Nat
  <2>1. IsFiniteSet({p \in Staff : Anomalous(p, tick[n].now)})
    BY AlertsAssumption, FS_Subset
  <2>2. QED BY <2>1, EnumerationIs
<1>5. u.now \in Nat
  BY <1>2 DEF TickState, Calendar
<1>6. PICK due : due = [i \in DOMAIN order |-> Alert("anomaly", 0, order[i], u.now)]
  OBVIOUS
<1>7. due \in Seq(AlertRow) /\ \A k \in DOMAIN due : due[k].kind = "anomaly"
  <2>1. \A i \in DOMAIN order : order[i] \in Staff
    BY <1>4
  <2>2. \A i \in DOMAIN order : due[i] \in AlertRow /\ due[i].kind = "anomaly"
    BY <1>5, <1>6, <2>1 DEF Alert, AlertRow
  <2>3. PICK c \in Nat : c = Len(order) /\ DOMAIN order = 1 .. c
    BY <1>4
  <2>4. due = [i \in 1 .. c |-> due[i]]
    BY <1>6, <2>3
  <2>5. QED BY <2>2, <2>3, <2>4
<1>8. PICK v : v = [u EXCEPT !.check = "anomalies"]
  OBVIOUS
<1>9. PICK w : w = [v EXCEPT !.due = due]
  OBVIOUS
<1>10. w \in TickState /\ w.now = u.now /\ w.due = due /\ w.rows = u.rows
  <2>1. v \in TickState /\ v.now = u.now /\ v.rows = u.rows
    BY <1>2, <1>8 DEF TickState
  <2>2. w.now = v.now /\ w.due = due /\ w.rows = v.rows
    BY <2>1, <1>9 DEF TickState
  <2>3. w \in TickState
    BY <2>1, <1>7, <1>9 DEF TickState
  <2>4. QED BY <2>1, <2>2, <2>3
<1>11. SoundTick(w)
  BY <1>2, <1>7, <1>10 DEF SoundTick, RowsFresh, Justified, LowerCome
<1>12. tick' = [tick EXCEPT ![n] = w]
  <2>1. tick' = [tick EXCEPT ![n] = [[tick[n] EXCEPT !.check = "anomalies"] EXCEPT !.due = due]]
    BY <1>1, <1>2, <1>3, <1>6 DEF AlertsTyped
  <2>2. QED BY <1>2, <1>8, <1>9, <2>1
<1>13. QED BY <1>2, <1>10, <1>11, <1>12, TickReads DEF CheckAnomalies

LEMMA ClaimSafe == ASSUME AlertsIInv, NEW n \in Ticks, Claim(n) PROVE AlertsIInv'
<1>1. AlertsTyped /\ Delivered /\ LowerFirst
  BY DEF AlertsIInv
<1>2. PICK u \in TickState : u = tick[n] /\ u.now <= today /\ SoundTick(u)
  BY TickIs DEF Claim
<1>3. PICK a : a = Head(u.due)
  OBVIOUS
<1>4. u.due \in Seq(AlertRow) /\ u.due # <<>>
  BY <1>2 DEF Claim, TickState
<1>5. a \in AlertRow /\ a = u.due[1] /\ 1 \in DOMAIN u.due
  BY <1>3, <1>4
<1>6. Justified(a) /\ LowerCome(u.due, 1)
  BY <1>2, <1>5 DEF SoundTick
<1>7. claims' = claims \cup {a} /\ outbox' = (IF a \notin claims THEN outbox \cup {a} ELSE outbox)
      /\ UNCHANGED <<today, inputs, told>>
  BY <1>2, <1>3 DEF Claim, Fresh
<1>8. claims' \subseteq AlertRow /\ claims \subseteq claims'
  BY <1>1, <1>5, <1>7 DEF AlertsTyped
<1>9. Delivered'
  <2>1. outbox' \subseteq claims' /\ claims \ outbox \subseteq claims' \ outbox'
    BY <1>1, <1>7 DEF Delivered
  <2>2. recipients' = recipients
    BY <1>7 DEF inputs
  <2>3. QED BY <1>1, <1>7, <2>1, <2>2 DEF Delivered, AtMost
<1>10. ASSUME a.kind = "limit", NEW pct \in Range(Thresholds), pct < a.pct
       PROVE  AsLow(a, pct) \in claims
  <2>1. AsLow(a, pct) \in claims \/ \E i \in DOMAIN u.due : i < 1 /\ u.due[i] = AsLow(a, pct)
    BY <1>5, <1>6, <1>10 DEF LowerCome
  <2>2. \A i \in DOMAIN u.due : ~(i < 1)
    BY <1>4
  <2>3. QED BY <2>1, <2>2
<1>11. LowerFirst'
  BY <1>1, <1>7, <1>8, <1>10 DEF LowerFirst, AsLow
<1>12. PICK w : w = [u EXCEPT !.due = Tail(@)]
  OBVIOUS
<1>13. Tail(u.due) \in Seq(AlertRow)
       /\ \A k \in DOMAIN Tail(u.due) : k + 1 \in DOMAIN u.due /\ k \in Nat /\ Tail(u.due)[k] = u.due[k + 1]
  BY <1>4
<1>14. w \in TickState /\ w.now = u.now /\ w.due = Tail(u.due) /\ w.rows = u.rows
  BY <1>2, <1>12, <1>13 DEF TickState
<1>15. \A b : Justified(b) <=> Justified(b)'
  BY <1>7 DEF Justified, StillSilent, SilentSince, WasCrossed, SpendIn, inputs, staffVars, linkVars
<1>16. ASSUME NEW k \in DOMAIN w.due PROVE Justified(w.due[k])' /\ LowerCome(w.due, k)'
  <2>1. PICK b : b = u.due[k + 1] /\ b = w.due[k] /\ k + 1 \in DOMAIN u.due /\ k \in Nat
    BY <1>13, <1>14
  <2>2. Justified(b) /\ LowerCome(u.due, k + 1)
    BY <1>2, <2>1 DEF SoundTick
  <2>3. Justified(b)'
    BY <1>15, <2>2
  <2>4. ASSUME b.kind = "limit", NEW pct \in Range(Thresholds), pct < b.pct
        PROVE  AsLow(b, pct) \in claims' \/ \E j \in DOMAIN w.due : j < k /\ w.due[j] = AsLow(b, pct)
    <3>1. CASE AsLow(b, pct) \in claims
      BY <1>8, <3>1
    <3>2. CASE \E i \in DOMAIN u.due : i < k + 1 /\ u.due[i] = AsLow(b, pct)
      <4>1. PICK i \in DOMAIN u.due : i < k + 1 /\ u.due[i] = AsLow(b, pct)
        BY <3>2
      <4>2. CASE i = 1
        BY <1>5, <1>7, <4>1, <4>2
      <4>3. CASE i # 1
        <5>1. i - 1 \in DOMAIN w.due /\ i - 1 < k /\ w.due[i - 1] = u.due[i]
          BY <1>4, <1>14, <2>1, <4>1, <4>3
        <5>2. QED BY <4>1, <5>1
      <4>4. QED BY <4>2, <4>3
    <3>3. QED BY <2>1, <2>2, <2>4, <3>1, <3>2 DEF LowerCome
  <2>5. QED BY <2>1, <2>3, <2>4 DEF LowerCome
<1>17. RowsFresh(w)'
  BY <1>2, <1>7, <1>14 DEF SoundTick, RowsFresh, inputs, linkVars
<1>18. SoundTick(w)'
  BY <1>16, <1>17 DEF SoundTick
<1>19. tick' = [tick EXCEPT ![n] = w]
  BY <1>1, <1>2, <1>12 DEF Claim, AlertsTyped
<1>20. tick' = [q \in Ticks |-> tick'[q]] /\ \A q \in Ticks : tick'[q] \in {tick[q], w, NoTick}
  BY <1>1, <1>19 DEF AlertsTyped
<1>21. \A b \in claims' : b \in claims \/ Justified(b)
  BY <1>6, <1>7
<1>22. w.now <= today
  BY <1>2, <1>14
<1>23. QED BY <1>7, <1>8, <1>9, <1>11, <1>14, <1>18, <1>20, <1>21, <1>22, TickMoves

-----------------------------------------------------------------------------
(***************************************************************************)
(* Delivery, the end of a process, and what follows.                        *)
(***************************************************************************)
LEMMA ReachedIs ==
  ASSUME recipients \in Mailed, NEW d, NEW posted \in BOOLEAN, NEW n \in 0..Len(recipients)
  PROVE  Reached(d, posted, n) \in Nat /\ Reached(d, posted, n) <= Most(recipients, d)
<1>1. PICK list, to : list = recipients /\ list \in Seq(to)
  BY AlertsAssumption
<1>2. PICK few : few = SubSeq(list, 1, n)
  OBVIOUS
<1>3. /\ Len(list) \in Nat /\ DOMAIN list = 1..Len(list) /\ n \in 0..Len(list)
      /\ Len(few) = n /\ DOMAIN few = 1..n /\ \A k \in 1..n : few[k] = list[k]
  BY <1>1, <1>2
<1>4. PICK all, some : all = {k \in DOMAIN list : list[k] = d} /\ some = {k \in DOMAIN few : few[k] = d}
  OBVIOUS
<1>5. some \subseteq all /\ all \subseteq 1..Len(list)
  BY <1>3, <1>4
<1>6. IsFiniteSet(all)
  <2>1. IsFiniteSet(1..Len(list))
    BY <1>3, FS_Interval
  <2>2. QED BY <1>5, <2>1, FS_Subset
<1>7. /\ IsFiniteSet(some) /\ Cardinality(some) <= Cardinality(all)
      /\ Cardinality(some) \in Nat /\ Cardinality(all) \in Nat
  BY <1>5, <1>6, FS_Subset, FS_CardinalityType
<1>8. TimesIn(few, d) = Cardinality(some) /\ TimesIn(list, d) = Cardinality(all)
  BY <1>4 DEF TimesIn
<1>9. CASE d = "slack"
  BY <1>9 DEF Reached, Most
<1>10. CASE d # "slack"
  BY <1>1, <1>2, <1>7, <1>8, <1>10 DEF Reached, Most
<1>11. QED BY <1>9, <1>10

\* A delivery adds to who was told nothing of the alert.
Times(a, n) == [x \in {a} |-> n]
LEMMA AddedOnce ==
  ASSUME NEW b, NEW s, NEW most, NEW a \in s, NEW n \in Nat, n <= most, a \notin DOMAIN b, AtMost(b, s, most)
  PROVE  AtMost(b (+) Times(a, n), s, most)
<1>1. PICK one : one = Times(a, n)
  OBVIOUS
<1>2. DOMAIN one = {a} /\ one[a] = n
  BY <1>1 DEF Times
<1>3. PICK c : c = b (+) one
  OBVIOUS
<1>4. DOMAIN c = DOMAIN b \cup {a} /\ c[a] = n /\ \A x \in DOMAIN b : c[x] = b[x]
  BY <1>2, <1>3 DEF (+), AtMost
<1>5. AtMost(c, s, most)
  BY <1>4 DEF AtMost
<1>6. QED BY <1>1, <1>3, <1>5

LEMMA DeliverSafe == ASSUME AlertsIInv, NEW a \in outbox, Deliver(a) PROVE AlertsIInv'
<1>1. AlertsTyped /\ Delivered /\ LowerFirst
  BY DEF AlertsIInv
<1>2. UNCHANGED <<today, inputs, recipients, claims, tick>> /\ outbox' = outbox \ {a}
  BY DEF Deliver, inputs
<1>3. PICK posted \in BOOLEAN, n \in 0..Len(recipients) :
        told' = [d \in Destinations |->
          IF Reached(d, posted, n) = 0 THEN told[d]
          ELSE told[d] (+) [b \in {a} |-> Reached(d, posted, n)]]
  BY DEF Deliver
<1>4. \A d \in Destinations : AtMost(told'[d], claims' \ outbox', Most(recipients, d))
  <2>1. SUFFICES ASSUME NEW d \in Destinations
                 PROVE  AtMost(told'[d], claims' \ outbox', Most(recipients, d))
    OBVIOUS
  <2>2. PICK b, m, s, most :
          b = told[d] /\ m = Reached(d, posted, n) /\ s = claims' \ outbox' /\ most = Most(recipients, d)
    OBVIOUS
  <2>3. AtMost(b, claims \ outbox, most) /\ a \in s /\ claims \ outbox \subseteq s
    BY <1>1, <1>2, <2>2 DEF Delivered
  <2>4. AtMost(b, s, most) /\ a \notin DOMAIN b
    BY <2>3 DEF AtMost
  <2>5. m \in Nat /\ m <= most
    BY <1>1, <2>2, ReachedIs DEF Delivered
  <2>6. AtMost(b (+) Times(a, m), s, most)
    BY <2>3, <2>4, <2>5, AddedOnce
  <2>7. told'[d] = b \/ told'[d] = b (+) Times(a, m)
    BY <1>3, <2>2 DEF Times
  <2>8. QED BY <2>2, <2>4, <2>6, <2>7
<1>5. Delivered'
  BY <1>1, <1>2, <1>4 DEF Delivered
<1>6. LowerFirst' /\ claims' \subseteq AlertRow
  BY <1>1, <1>2 DEF LowerFirst, AlertsTyped
<1>7. tick' = [q \in Ticks |-> tick'[q]] /\ \A q \in Ticks : tick'[q] \in {tick[q], NoTick, NoTick}
  BY <1>1, <1>2 DEF AlertsTyped
<1>8. \A b \in claims' : b \in claims \/ Justified(b)
  BY <1>2
<1>9. QED BY <1>2, <1>5, <1>6, <1>7, <1>8, TickMoves

LEMMA RestartSafe == ASSUME AlertsIInv, Restart PROVE AlertsIInv'
<1>1. AlertsTyped /\ Delivered /\ LowerFirst
  BY DEF AlertsIInv
<1>2. UNCHANGED <<today, inputs, recipients, claims, told>> /\ outbox' = {}
  BY DEF Restart, inputs
<1>3. Delivered'
  BY <1>1, <1>2 DEF Delivered, AtMost
<1>4. LowerFirst' /\ claims' \subseteq AlertRow
  BY <1>1, <1>2 DEF LowerFirst, AlertsTyped
<1>5. tick' = [q \in Ticks |-> tick'[q]] /\ \A q \in Ticks : tick'[q] \in {tick[q], NoTick, NoTick}
  BY DEF Restart
<1>6. \A b \in claims' : b \in claims \/ Justified(b)
  BY <1>2
<1>7. QED BY <1>2, <1>3, <1>4, <1>5, <1>6, TickMoves

LEMMA AlertsStutter == ASSUME AlertsIInv, UNCHANGED alertVars PROVE AlertsIInv'
<1>1. AlertsTyped /\ UNCHANGED <<today, inputs, work>>
  BY DEF AlertsIInv, alertVars
<1>2. UNCHANGED <<rolled, limit, limitsSeen, lastOk, linkedAt, recipients, claims, tick>>
  BY <1>1 DEF inputs, staffVars, linkVars, work
<1>3. AlertsTyped'
  BY <1>1, <1>2 DEF AlertsTyped
<1>4. Grows /\ LinksMove
  BY <1>1, <1>2, RollupsStand DEF Grows, LinksMove
<1>5. QED BY <1>1, <1>2, <1>3, <1>4, WorldMoves

LEMMA AlertsSteps == AlertsIInv /\ [AlertsNext]_alertVars => AlertsIInv'
<1>1. SUFFICES ASSUME AlertsIInv, AlertsNext PROVE AlertsIInv'
  BY AlertsStutter
<1>2. ASSUME NEW n \in Ticks, TickStep(n) PROVE AlertsIInv'
  BY <1>1, <1>2, StartTickSafe, CheckSilentSafe, CheckLimitsSafe, CheckAnomaliesSafe, ClaimSafe,
     EndTickSafe DEF TickStep
<1>3. QED BY <1>1, <1>2, NextDaySafe, RestartSafe, StaffSafe, SpentSafe, LinkSafe, DeliverSafe
             DEF AlertsNext

LEMMA AlertsStarts == AlertsInit => AlertsIInv
<1>1. SUFFICES ASSUME AlertsInit PROVE AlertsIInv
  OBVIOUS
<1>2. AlertsTyped
  <2>1. today \in Calendar
    BY <1>1, AlertsAssumption DEF AlertsInit, Calendar
  <2>2. QED BY <1>1, <2>1 DEF AlertsInit, AlertsTyped
<1>3. Delivered
  <2>1. \A d \in Destinations : told[d] = EmptyBag
    BY <1>1 DEF AlertsInit
  <2>2. \A most : AtMost(EmptyBag, {}, most)
    BY DEF AtMost, EmptyBag, SetToBag
  <2>3. QED BY <1>1, <2>1, <2>2 DEF AlertsInit, Delivered
<1>4. LowerFirst /\ (\A a \in claims : Justified(a)) /\ \A n \in Ticks : tick[n] = NoTick
  BY <1>1 DEF AlertsInit, LowerFirst
<1>5. QED BY <1>2, <1>3, <1>4 DEF AlertsIInv

LEMMA AlertsAreSound == AlertsIInv => AlertsHold
<1>1. SUFFICES ASSUME AlertsIInv PROVE AlertsHold
  OBVIOUS
<1>2. AlertsTyped /\ Delivered /\ LowerFirst /\ \A a \in claims : Justified(a)
  BY <1>1 DEF AlertsIInv
<1>3. AlertedOnce
  BY <1>2 DEF AlertedOnce, Delivered, AtMost, Most
<1>4. FiredWasCrossed
  <2>1. SUFFICES ASSUME NEW p \in Staff, NEW pct \in LimitStatus(p).fired
                 PROVE  \E l \in limitsSeen[p] : LimitStatus(p).spend * 100 >= l * pct
    BY DEF FiredWasCrossed
  <2>2. PICK a \in claims : a.kind = "limit" /\ a.scope = p /\ a.period = MonthOf[today] /\ a.pct = pct
    BY DEF LimitStatus
  <2>3. \E l \in limitsSeen[p] : SpendIn(p, MonthOf[today]) * 100 >= l * pct
    BY <1>2, <2>2 DEF Justified, WasCrossed
  <2>4. LimitStatus(p).spend = SpendIn(p, MonthOf[today])
    BY SpendIsTotal DEF LimitStatus, SpendIn, MonthToDate
  <2>5. QED BY <2>3, <2>4
<1>5. SilentIsShown
  <2>1. SUFFICES ASSUME NEW v \in Watched, Alert("silent", 0, v, today) \in claims,
                        lastOk[v] # today, linkedAt[v] \notin {0, today}
                 PROVE  Health(v).silent
    BY DEF SilentIsShown
  <2>2. PICK a \in claims : a.kind = "silent" /\ a.scope = v /\ a.period = today
    BY <2>1 DEF Alert
  <2>3. SilentSince(v, linkedAt[v]) <= today - SilentAfter
    BY <1>2, <2>1, <2>2 DEF Justified, StillSilent
  <2>4. SilentSince(v, linkedAt[v]) \in Nat /\ today \in Nat
    BY <1>2 DEF SilentSince, AlertsTyped, Calendar
  <2>5. today - SilentSince(v, linkedAt[v]) >= SilentAfter
    BY <2>3, <2>4, AlertsAssumption
  <2>6. QED BY <2>1, <2>5 DEF Health
<1>6. QED BY <1>2, <1>3, <1>4, <1>5 DEF AlertsHold

-----------------------------------------------------------------------------
(***************************************************************************)
(* Scheduled reports: for every number of ticks, any lists and any number   *)
(* of months, refusals and restarts.                                        *)
(***************************************************************************)
ReportsTyped ==
  /\ month \in Nat /\ schedule \in Lists /\ marked \subseteq Nat
  /\ round \in [Rounds -> Round \cup {NoRound}]
  /\ copies \in Seq(Copy)
  /\ reboots \in Nat /\ unmarked \in Nat /\ strays \in Nat /\ crossed \in BOOLEAN

\* A tick that has sent has sent a copy of its month.
SentIsCopied ==
  \A r \in Rounds : round[r] # NoRound /\ round[r].sent > 0 =>
    \E k \in DOMAIN copies : copies[k].month = round[r].month

\* While ticks do not overlap one sends, of a month that is not marked.
OneSends ==
  /\ \A q, r \in Rounds : round[q] # NoRound /\ round[r] # NoRound => q = r
  /\ \A r \in Rounds : round[r] # NoRound => round[r].month \notin marked

\* What rounds that left no mark may have sent, and what arrived of calls that failed.
Excused(list, to) == Again * Named(list, to) + strays

\* A recipient has what ended rounds sent them; what is still to go is counted
\* with what went, and a round that reached nobody sent only what strayed.
CopiesBounded(m, to) ==
  \E list \in Lists :
    /\ m \in marked => CopiesOf(m, to) <= Excused(list, to) + Named(list, to)
    /\ \A r \in Rounds : round[r] # NoRound /\ round[r].month = m =>
         /\ CopiesOf(m, to) + Named(round[r].to, to) <= Excused(list, to) + Named(list, to)
         /\ round[r].sent = 0 => CopiesOf(m, to) <= Excused(list, to)
    /\ m \notin marked /\ (\A r \in Rounds : round[r] = NoRound \/ round[r].month # m) =>
         CopiesOf(m, to) <= Excused(list, to)

ReportsIInv ==
  /\ ReportsTyped /\ MarkedIsSent /\ SentIsCopied
  /\ crossed \/ (OneSends /\ \A m \in Nat, to \in Addresses : CopiesBounded(m, to))

\* the places of a sequence that hold x
Places(s, x) == {k \in DOMAIN s : s[k] = x}

LEMMA PlacesCounted ==
  ASSUME NEW T, NEW s \in Seq(T), NEW x
  PROVE  IsFiniteSet(Places(s, x)) /\ Cardinality(Places(s, x)) \in Nat
<1>1. PICK n \in Nat : n = Len(s) /\ DOMAIN s = 1 .. n
  OBVIOUS
<1>2. IsFiniteSet(1 .. n)
  BY FS_Interval
<1>3. Places(s, x) \subseteq 1 .. n
  BY <1>1 DEF Places
<1>4. QED BY <1>2, <1>3, FS_Subset, FS_CardinalityType

LEMMA OneMorePlace ==
  ASSUME NEW T, NEW s \in Seq(T), NEW y \in T, NEW x
  PROVE  Cardinality(Places(Append(s, y), x)) = Cardinality(Places(s, x)) + IF y = x THEN 1 ELSE 0
<1>1. PICK n \in Nat : n = Len(s) /\ DOMAIN s = 1 .. n
  OBVIOUS
<1>2. PICK u : u = Append(s, y)
  OBVIOUS
<1>3. DOMAIN u = 1 .. n + 1 /\ u[n + 1] = y /\ \A k \in 1 .. n : u[k] = s[k]
  BY <1>1, <1>2
<1>4. PICK P : P = Places(s, x) /\ n + 1 \notin P /\ IsFiniteSet(P) /\ Cardinality(P) \in Nat
  <2>1. n + 1 \notin Places(s, x)
    BY <1>1 DEF Places
  <2>2. QED BY <2>1, PlacesCounted
<1>5. CASE y = x
  <2>1. Places(u, x) = P \cup {n + 1}
    BY <1>1, <1>3, <1>4, <1>5 DEF Places
  <2>2. QED BY <1>2, <1>4, <1>5, <2>1, FS_AddElement
<1>6. CASE y # x
  <2>1. Places(u, x) = P
    BY <1>1, <1>3, <1>4, <1>6 DEF Places
  <2>2. QED BY <1>2, <1>4, <1>6, <2>1
<1>7. QED BY <1>5, <1>6

LEMMA OneFewerPlace ==
  ASSUME NEW T, NEW s \in Seq(T), s # <<>>, NEW x
  PROVE  Cardinality(Places(s, x)) = Cardinality(Places(Tail(s), x)) + IF Head(s) = x THEN 1 ELSE 0
<1>1. PICK n \in Nat : n = Len(s) /\ DOMAIN s = 1 .. n /\ n # 0
  BY EmptySeq
<1>2. PICK u : u = Tail(s)
  OBVIOUS
<1>3. DOMAIN u = 1 .. n - 1 /\ u \in Seq(T) /\ Head(s) = s[1] /\ \A k \in 1 .. n - 1 : u[k] = s[k + 1]
  BY <1>1, <1>2
<1>4. PICK P : P = Places(u, x) /\ IsFiniteSet(P) /\ Cardinality(P) \in Nat
  BY <1>3, PlacesCounted
<1>5. PICK Q : Q = Places(s, x) \ {1}
  OBVIOUS
<1>6. PICK g : g = [k \in P |-> k + 1]
  OBVIOUS
<1>7. \A k \in Nat : k \in P <=> k + 1 \in Q
  BY <1>1, <1>3, <1>4, <1>5 DEF Places
<1>8. P \subseteq Nat /\ \A j \in Q : j - 1 \in Nat /\ j - 1 + 1 = j
  BY <1>1, <1>3, <1>4, <1>5 DEF Places
<1>9. g \in Bijection(P, Q)
  <2>1. g \in [P -> Q] /\ \A i, k \in P : g[i] = g[k] => i = k
    BY <1>6, <1>7, <1>8
  <2>2. ASSUME NEW j \in Q PROVE \E k \in P : g[k] = j
    <3>1. j - 1 \in P /\ g[j - 1] = j
      BY <1>6, <1>7, <1>8
    <3>2. QED BY <3>1
  <2>3. QED BY <2>1, <2>2 DEF Bijection, Injection, IsInjective, Surjection
<1>10. IsFiniteSet(Q) /\ Cardinality(Q) = Cardinality(P)
  BY <1>4, <1>9, FS_Bijection DEF ExistsBijection
<1>11. CASE Head(s) = x
  <2>1. Places(s, x) = Q \cup {1} /\ 1 \notin Q
    BY <1>1, <1>3, <1>5, <1>11 DEF Places
  <2>2. Cardinality(Q \cup {1}) = Cardinality(Q) + 1
    BY <1>10, <2>1, FS_AddElement
  <2>3. QED BY <1>2, <1>4, <1>10, <1>11, <2>1, <2>2
<1>12. CASE Head(s) # x
  <2>1. Places(s, x) = Q
    BY <1>1, <1>3, <1>5, <1>12 DEF Places
  <2>2. QED BY <1>2, <1>4, <1>10, <1>12, <2>1
<1>13. QED BY <1>11, <1>12

LEMMA NamedCounts ==
  ASSUME ReportsTyped, NEW m, NEW to, NEW list \in Seq(Addresses)
  PROVE  /\ Named(list, to) = Cardinality(Places(list, to)) /\ Named(list, to) \in Nat
         /\ CopiesOf(m, to) = Cardinality(Places(copies, [month |-> m, to |-> to]))
         /\ CopiesOf(m, to) \in Nat
<1>1. Named(list, to) = Cardinality(Places(list, to))
  BY DEF Named, Places
<1>2. CopiesOf(m, to) = Cardinality(Places(copies, [month |-> m, to |-> to]))
  BY DEF CopiesOf, Places
<1>3. QED BY <1>1, <1>2, PlacesCounted DEF ReportsTyped

\* so many more restarts, so many more copies
LEMMA Allowance ==
  ASSUME NEW x \in Nat, NEW y \in Nat
  PROVE  x * y \in Nat /\ (1 + x) * y \in Nat /\ (1 + x) * y = x * y + y
OBVIOUS

LEMMA ExcusedIs ==
  ASSUME ReportsTyped, NEW list \in Lists, NEW to
  PROVE  Excused(list, to) \in Nat /\ Named(list, to) \in Nat
<1>1. PICK x \in Nat : x = Named(list, to)
  BY ReportsAssumption, NamedCounts
<1>2. PICK b \in Nat : b = Again
  BY DEF ReportsTyped, Again
<1>3. b * x \in Nat /\ strays \in Nat
  BY Allowance DEF ReportsTyped
<1>4. QED BY <1>1, <1>2, <1>3 DEF Excused

-----------------------------------------------------------------------------
LEMMA ReportsStarts == ReportsInit => ReportsIInv
<1>1. SUFFICES ASSUME ReportsInit PROVE ReportsIInv
  OBVIOUS
<1>2. ReportsTyped /\ MarkedIsSent /\ SentIsCopied
  <2>1. ReportsTyped
    BY <1>1, EmptySeq DEF ReportsInit, ReportsTyped
  <2>2. MarkedIsSent /\ SentIsCopied
    BY <1>1 DEF ReportsInit, MarkedIsSent, SentIsCopied
  <2>3. QED BY <2>1, <2>2
<1>3. OneSends
  BY <1>1 DEF ReportsInit, OneSends
<1>4. ASSUME NEW m \in Nat, NEW to \in Addresses PROVE CopiesBounded(m, to)
  <2>1. schedule \in Lists /\ schedule \in Seq(Addresses)
    BY <1>2, ReportsAssumption DEF ReportsTyped
  <2>2. PICK y \in Nat : y = Named(schedule, to)
    BY <1>2, <2>1, NamedCounts
  <2>3. CopiesOf(m, to) = 0
    <3>1. Places(copies, [month |-> m, to |-> to]) = {}
      BY <1>1 DEF ReportsInit, Places
    <3>2. QED BY <1>2, <2>1, <3>1, NamedCounts, FS_EmptySet
  <2>4. marked = {} /\ \A r \in Rounds : round[r] = NoRound
    BY <1>1 DEF ReportsInit
  <2>5. CopiesOf(m, to) <= Excused(schedule, to)
    BY <1>2, <2>1, <2>3, ExcusedIs
  <2>6. QED BY <2>1, <2>4, <2>5 DEF CopiesBounded
<1>5. QED BY <1>2, <1>3, <1>4 DEF ReportsIInv

\* What leaves the rounds, the copies and the marks alone.
LEMMA RoundsRest ==
  ASSUME ReportsIInv, UNCHANGED <<marked, round, copies, reboots, unmarked, strays, crossed>>,
         month' \in Nat, schedule' \in Lists
  PROVE  ReportsIInv'
<1>1. ReportsTyped'
  BY DEF ReportsIInv, ReportsTyped
<1>2. MarkedIsSent' /\ SentIsCopied'
  BY DEF ReportsIInv, MarkedIsSent, SentIsCopied
<1>3. OneSends' <=> OneSends
  BY DEF OneSends
<1>4. \A m, to : CopiesBounded(m, to)' <=> CopiesBounded(m, to)
  BY DEF CopiesBounded, CopiesOf, Named, Excused, Again
<1>5. QED BY <1>1, <1>2, <1>3, <1>4 DEF ReportsIInv

LEMMA BeginSafe == ASSUME ReportsIInv, NEW r \in Rounds, Begin(r) PROVE ReportsIInv'
<1>1. ReportsTyped /\ MarkedIsSent /\ SentIsCopied
  BY DEF ReportsIInv
<1>2. PICK w : w = [month |-> month, to |-> schedule, sent |-> 0]
  OBVIOUS
<1>3. w.month = month /\ w.to = schedule /\ w.sent = 0
  BY <1>2
<1>4. w \in Round /\ w # NoRound /\ schedule \in Lists /\ schedule \in Seq(Addresses) /\ month \in Nat
  BY <1>1, <1>2, ReportsAssumption DEF ReportsTyped, Round
<1>5. round' = [round EXCEPT ![r] = w] /\ round[r] = NoRound /\ month \notin marked
      /\ crossed' = (crossed \/ \E q \in Rounds : round[q] # NoRound)
      /\ UNCHANGED <<month, schedule, marked, copies, reboots, unmarked, strays>>
  BY <1>2 DEF Begin, IsMarked
<1>6. round'[r] = w /\ \A q \in Rounds : q # r => round'[q] = round[q]
  BY <1>1, <1>5 DEF ReportsTyped
<1>7. ReportsTyped'
  BY <1>1, <1>4, <1>5 DEF ReportsTyped
<1>8. MarkedIsSent' /\ SentIsCopied'
  BY <1>1, <1>3, <1>5, <1>6 DEF MarkedIsSent, SentIsCopied
<1>9. ASSUME ~crossed' PROVE OneSends' /\ \A m \in Nat, to \in Addresses : CopiesBounded(m, to)'
  <2>1. ~crossed /\ \A q \in Rounds : round[q] = NoRound
    BY <1>5, <1>9
  <2>2. OneSends'
    BY <1>3, <1>5, <1>6, <2>1 DEF OneSends
  <2>3. ASSUME NEW m \in Nat, NEW to \in Addresses PROVE CopiesBounded(m, to)'
    <3>1. PICK list \in Lists :
            /\ m \in marked => CopiesOf(m, to) <= Excused(list, to) + Named(list, to)
            /\ m \notin marked => CopiesOf(m, to) <= Excused(list, to)
      BY <2>1 DEF ReportsIInv, CopiesBounded
    <3>2. CopiesOf(m, to)' = CopiesOf(m, to)
      BY <1>5 DEF CopiesOf
    <3>6. \A some : Named(some, to)' = Named(some, to) /\ Excused(some, to)' = Excused(some, to)
      BY <1>5 DEF Named, Excused, Again
    <3>3. CASE m # month
      <4>1. \A q \in Rounds : round'[q] = NoRound \/ round'[q].month # m
        BY <1>3, <1>6, <2>1, <3>3
      <4>2. QED BY <1>5, <3>1, <3>2, <3>6, <4>1 DEF CopiesBounded
    <3>4. CASE m = month
      <4>1. PICK c \in Nat : c = CopiesOf(m, to)
        BY <1>1, <1>4, NamedCounts
      <4>2. PICK x \in Nat : x = Named(list, to)
        BY <1>1, ReportsAssumption, NamedCounts
      <4>3. PICK y \in Nat : y = Named(schedule, to)
        BY <1>1, <1>4, NamedCounts
      <4>4. PICK b \in Nat, e \in Nat : b = Again /\ e = strays
        BY <1>1 DEF ReportsTyped, Again
      <4>5. c <= b * x + e
        BY <1>5, <3>1, <3>4, <4>1, <4>2, <4>4 DEF Excused
      <4>6. PICK more \in Lists : x <= Named(more, to) /\ y <= Named(more, to) /\ Named(more, to) \in Nat
        <5>1. CASE x <= y
          BY <1>4, <4>3, <5>1
        <5>2. CASE y <= x
          BY <4>2, <5>2
        <5>3. QED BY <5>1, <5>2
      <4>7. PICK z \in Nat : z = Named(more, to)
        BY <4>6
      <4>8. PICK bx \in Nat : bx = b * x
        BY Allowance
      <4>9. PICK bz \in Nat : bz = b * z
        BY Allowance
      <4>10. bx <= bz
        BY <4>6, <4>7, <4>8, <4>9, ProductsGrow
      <4>11. c <= bz + e /\ c + y <= bz + e + z
        BY <4>4, <4>5, <4>6, <4>7, <4>8, <4>10
      <4>12. Excused(more, to) = bz + e
        BY <4>4, <4>7, <4>9 DEF Excused
      <4>13. \A q \in Rounds : round'[q] # NoRound => q = r
        BY <1>6, <2>1
      <4>14. Named(round'[r].to, to) = y
        BY <1>3, <1>6, <4>3
      <4>15. CopiesOf(m, to) + Named(round'[r].to, to) <= Excused(more, to) + Named(more, to)
             /\ CopiesOf(m, to) <= Excused(more, to)
        BY <4>1, <4>7, <4>11, <4>12, <4>14
      <4>16. \A q \in Rounds : round'[q] # NoRound =>
               CopiesOf(m, to) + Named(round'[q].to, to) <= Excused(more, to) + Named(more, to)
        BY <4>13, <4>15
      <4>17. m \notin marked'
        BY <1>5, <3>4
      <4>18. \A q \in Rounds : Named(round[q].to, to)' = Named(round'[q].to, to)
        BY DEF Named
      <4>19. QED BY <3>2, <3>6, <4>6, <4>15, <4>16, <4>17, <4>18 DEF CopiesBounded
    <3>5. QED BY <3>3, <3>4
  <2>4. QED BY <2>2, <2>3
<1>10. QED BY <1>7, <1>8, <1>9 DEF ReportsIInv

\* A step of the one round that sends: its copies and its list change, or it ends.
LEMMA sendEmailSafe == ASSUME ReportsIInv, NEW r \in Rounds, sendEmail(r) PROVE ReportsIInv'
<1>1. ReportsTyped /\ MarkedIsSent /\ SentIsCopied
  BY DEF ReportsIInv
<1>2. PICK u \in Round : u = round[r] /\ u # NoRound
  BY <1>1 DEF ReportsTyped, sendEmail
<1>3. u.to \in Seq(Addresses) /\ u.to # <<>> /\ u.month \in Nat /\ u.sent \in Nat
  BY <1>2 DEF Round, sendEmail
<1>4. PICK head \in Addresses : head = Head(u.to)
  BY <1>3
<1>5. PICK rest \in Round : rest = [u EXCEPT !.to = Tail(@)]
  <2>1. Tail(u.to) \in Seq(Addresses)
    BY <1>3
  <2>2. [u EXCEPT !.to = Tail(@)] \in Round
    BY <1>2, <2>1 DEF Round
  <2>3. QED BY <2>2
<1>6. PICK more \in Round : more = [rest EXCEPT !.sent = @ + 1]
  <2>1. [rest EXCEPT !.sent = @ + 1] \in Round
    <3>1. rest.sent + 1 \in Nat /\ rest \in Round
      BY <1>5 DEF Round
    <3>2. QED BY <3>1 DEF Round
  <2>2. QED BY <2>1
<1>7. /\ rest.month = u.month /\ rest.to = Tail(u.to) /\ rest.sent = u.sent
      /\ more.month = u.month /\ more.to = Tail(u.to) /\ more.sent = u.sent + 1
  BY <1>2, <1>5, <1>6 DEF Round
<1>8. PICK copy \in Copy : copy = [month |-> u.month, to |-> head]
  BY <1>3, <1>4 DEF Copy
<1>9. \/ copies' = Append(copies, copy) /\ round' = [round EXCEPT ![r] = more] /\ strays' = strays
      \/ copies' = copies /\ round' = [round EXCEPT ![r] = rest] /\ strays' = strays
      \/ copies' = Append(copies, copy) /\ round' = [round EXCEPT ![r] = rest] /\ strays' = strays + 1
  BY <1>2, <1>4, <1>5, <1>6, <1>8 DEF sendEmail
<1>10. UNCHANGED <<month, schedule, marked, reboots, unmarked, crossed>> /\ strays \in Nat
  BY <1>1 DEF sendEmail, ReportsTyped
<1>11. PICK w \in {rest, more}, d \in {0, 1} :
         /\ round' = [round EXCEPT ![r] = w]
         /\ copies' = (IF w = more \/ d = 1 THEN Append(copies, copy) ELSE copies)
         /\ strays' = strays + d
  <2>1. rest # more
    BY <1>3, <1>7
  <2>2. strays' = strays => strays' = strays + 0
    BY <1>10
  <2>3. QED BY <1>9, <2>1, <2>2
<1>12. w \in Round /\ w # NoRound /\ w.month = u.month /\ w.to = Tail(u.to)
  BY <1>7, <1>11, ReportsAssumption
<1>13. round'[r] = w /\ \A q \in Rounds : q # r => round'[q] = round[q]
  BY <1>1, <1>11 DEF ReportsTyped
<1>14. PICK n \in Nat : n = Len(copies) /\ DOMAIN copies = 1 .. n
  BY <1>1 DEF ReportsTyped
<1>15. /\ \A k \in DOMAIN copies : k \in DOMAIN copies' /\ copies'[k] = copies[k]
       /\ w = more => n + 1 \in DOMAIN copies' /\ copies'[n + 1].month = u.month
       /\ copies' \in Seq(Copy)
  BY <1>1, <1>8, <1>11, <1>14 DEF ReportsTyped
<1>16. ReportsTyped'
  BY <1>1, <1>10, <1>11, <1>12, <1>15 DEF ReportsTyped
<1>17. MarkedIsSent'
  BY <1>1, <1>10, <1>15 DEF MarkedIsSent, Range
<1>18. SentIsCopied'
  <2>1. SUFFICES ASSUME NEW q \in Rounds, round'[q] # NoRound, round'[q].sent > 0
                 PROVE  \E k \in DOMAIN copies' : copies'[k].month = round'[q].month
    BY DEF SentIsCopied
  <2>2. CASE q = r /\ w = more
    BY <1>12, <1>13, <1>15, <2>2
  <2>3. CASE q = r /\ w = rest
    <3>1. PICK k \in DOMAIN copies : copies[k].month = u.month
      BY <1>1, <1>2, <1>7, <1>13, <2>1, <2>3 DEF SentIsCopied
    <3>2. QED BY <1>12, <1>13, <1>15, <2>3, <3>1
  <2>4. CASE q # r
    <3>1. PICK k \in DOMAIN copies : copies[k].month = round[q].month
      BY <1>1, <1>13, <2>1, <2>4 DEF SentIsCopied
    <3>2. QED BY <1>13, <1>15, <2>4, <3>1
  <2>5. QED BY <1>11, <2>2, <2>3, <2>4
<1>19. ASSUME ~crossed PROVE OneSends' /\ \A m \in Nat, to \in Addresses : CopiesBounded(m, to)'
  <2>1. OneSends /\ u.month \notin marked /\ \A q \in Rounds : round[q] # NoRound => q = r
    BY <1>2, <1>19 DEF ReportsIInv, OneSends
  <2>2. OneSends'
    BY <1>10, <1>12, <1>13, <2>1 DEF OneSends
  <2>3. ASSUME NEW m \in Nat, NEW to \in Addresses PROVE CopiesBounded(m, to)'
    <3>1. CopiesBounded(m, to)
      BY <1>19 DEF ReportsIInv
    <3>2. PICK list \in Lists :
            /\ m \in marked => CopiesOf(m, to) <= Excused(list, to) + Named(list, to)
            /\ u.month = m =>
                 /\ CopiesOf(m, to) + Named(u.to, to) <= Excused(list, to) + Named(list, to)
                 /\ u.sent = 0 => CopiesOf(m, to) <= Excused(list, to)
            /\ m \notin marked /\ u.month # m => CopiesOf(m, to) <= Excused(list, to)
      BY <1>2, <2>1, <3>1 DEF CopiesBounded
    <3>3. PICK c \in Nat : c = CopiesOf(m, to)
      BY <1>1, <1>3, NamedCounts
    <3>4. PICK c1 \in Nat : c1 = CopiesOf(m, to)'
      <4>1. Cardinality(Places(copies', [month |-> m, to |-> to])) \in Nat
        BY <1>15, PlacesCounted
      <4>2. QED BY <4>1 DEF CopiesOf, Places
    <3>5. PICK y \in Nat : y = Named(u.to, to)
      BY <1>1, <1>3, NamedCounts
    <3>6. PICK y1 \in Nat : y1 = Named(w.to, to)
      BY <1>1, <1>12, NamedCounts DEF Round
    <3>7. y = y1 + IF head = to THEN 1 ELSE 0
      <4>1. Named(u.to, to) = Cardinality(Places(u.to, to))
            /\ Named(w.to, to) = Cardinality(Places(Tail(u.to), to))
        BY <1>12 DEF Named, Places
      <4>2. QED BY <1>3, <1>4, <3>5, <3>6, <4>1, OneFewerPlace
    <3>8. c1 = c + IF (w = more \/ d = 1) /\ m = u.month /\ to = head THEN 1 ELSE 0
      <4>1. PICK this : this = [month |-> m, to |-> to]
        OBVIOUS
      <4>2. c = Cardinality(Places(copies, this)) /\ c1 = Cardinality(Places(copies', this))
        BY <3>3, <3>4, <4>1 DEF CopiesOf, Places
      <4>3. copy = this <=> m = u.month /\ to = head
        <5>1. this.month = m /\ this.to = to /\ copy.month = u.month /\ copy.to = head
          BY <1>8, <4>1
        <5>2. m = u.month /\ to = head => copy = this
          BY <1>8, <4>1
        <5>3. QED BY <5>1, <5>2
      <4>4. CASE w = more \/ d = 1
        <5>1. c1 = c + IF copy = this THEN 1 ELSE 0
          BY <1>1, <1>11, <4>2, <4>4, OneMorePlace DEF ReportsTyped
        <5>2. QED BY <4>3, <4>4, <5>1
      <4>5. CASE ~(w = more \/ d = 1)
        BY <1>11, <3>3, <4>2, <4>5
      <4>6. QED BY <4>4, <4>5
    <3>9. PICK least \in Nat, most \in Nat : least = Excused(list, to) /\ most = least + Named(list, to)
      BY <1>1, ExcusedIs
    <3>10. /\ Named(list, to)' = Named(list, to) /\ Named(round[r].to, to)' = y1
           /\ Excused(list, to)' = least + d /\ Excused(list, to)' + Named(list, to)' = most + d
           /\ round'[r].month = u.month /\ round'[r].sent = w.sent
      <4>1. Named(list, to)' = Named(list, to) /\ Named(round[r].to, to)' = y1
        BY <1>13, <3>6 DEF Named
      <4>2. PICK x \in Nat, b \in Nat, e \in Nat : x = Named(list, to) /\ b = Again /\ e = strays
        BY <1>1, ExcusedIs DEF ReportsTyped, Again
      <4>3. PICK bx \in Nat : bx = b * x
        BY Allowance
      <4>4. Again' = b
        BY <1>10, <4>2 DEF Again
      <4>5. Excused(list, to)' = b * x + (e + d)
        BY <1>11, <4>1, <4>2, <4>4 DEF Excused
      <4>6. least = bx + e /\ Excused(list, to)' = bx + (e + d)
        BY <3>9, <4>2, <4>3, <4>5 DEF Excused
      <4>7. QED BY <1>12, <1>13, <3>9, <4>1, <4>2, <4>6
    <3>11. /\ m \in marked => c1 <= most + d
           /\ u.month = m => c1 + y1 <= most + d /\ (w.sent = 0 => c1 <= least + d)
           /\ m \notin marked /\ u.month # m => c1 <= least + d
      <4>1. w.sent = 0 => w # more /\ u.sent = 0
        BY <1>3, <1>7, <1>11
      <4>2. m \in marked => m # u.month
        BY <2>1
      <4>3. ASSUME u.month = m PROVE c1 + y1 <= most + d
        <5>1. c + y <= most
          BY <3>2, <3>3, <3>5, <3>9, <4>3
        <5>2. c1 + y1 <= c + y
          BY <3>7, <3>8
        <5>3. QED BY <5>1, <5>2
      <4>4. ASSUME u.month # m PROVE c1 = c
        BY <3>8, <4>4
      <4>5. ASSUME w.sent = 0 PROVE c1 <= c + d
        BY <3>8, <4>1, <4>5
      <4>6. /\ m \in marked => c <= most
            /\ u.month = m /\ u.sent = 0 => c <= least
            /\ m \notin marked /\ u.month # m => c <= least
        BY <3>2, <3>3, <3>9
      <4>7. QED BY <4>1, <4>2, <4>3, <4>4, <4>5, <4>6
    <3>12. \A q \in Rounds : round'[q] # NoRound => q = r
      BY <1>13, <2>1
    <3>13. QED BY <1>10, <1>12, <1>13, <3>4, <3>10, <3>11, <3>12 DEF CopiesBounded
  <2>4. QED BY <2>2, <2>3
<1>20. QED BY <1>10, <1>16, <1>17, <1>18, <1>19 DEF ReportsIInv

LEMMA EndRoundSafe == ASSUME ReportsIInv, NEW r \in Rounds, EndRound(r) PROVE ReportsIInv'
<1>1. ReportsTyped /\ MarkedIsSent /\ SentIsCopied
  BY DEF ReportsIInv
<1>2. PICK u \in Round : u = round[r] /\ u # NoRound /\ u.to = <<>>
  BY <1>1 DEF ReportsTyped, EndRound
<1>3. round' = [round EXCEPT ![r] = NoRound] /\ UNCHANGED <<month, schedule, copies, reboots, unmarked, strays, crossed>>
      /\ marked' = IF u.sent > 0 THEN marked \cup {u.month} ELSE marked
  BY <1>2 DEF EndRound, Mark
<1>4. round'[r] = NoRound /\ \A q \in Rounds : q # r => round'[q] = round[q]
  BY <1>1, <1>3 DEF ReportsTyped
<1>5. u.month \in Nat /\ u.sent \in Nat
  BY <1>2 DEF Round
<1>6. ReportsTyped'
  BY <1>1, <1>3, <1>5 DEF ReportsTyped
<1>7. MarkedIsSent'
  <2>1. u.sent > 0 => \E k \in DOMAIN copies : copies[k].month = u.month
    BY <1>1, <1>2 DEF SentIsCopied
  <2>2. QED BY <1>1, <1>3, <2>1 DEF MarkedIsSent, Range
<1>8. SentIsCopied'
  BY <1>1, <1>3, <1>4 DEF SentIsCopied
<1>9. ASSUME ~crossed PROVE OneSends' /\ \A m \in Nat, to \in Addresses : CopiesBounded(m, to)'
  <2>1. OneSends /\ u.month \notin marked /\ \A q \in Rounds : round[q] # NoRound => q = r
    BY <1>2, <1>9 DEF ReportsIInv, OneSends
  <2>2. \A q \in Rounds : round'[q] = NoRound
    BY <1>4, <2>1
  <2>3. OneSends'
    BY <2>2 DEF OneSends
  <2>4. ASSUME NEW m \in Nat, NEW to \in Addresses PROVE CopiesBounded(m, to)'
    <3>1. CopiesBounded(m, to)
      BY <1>9 DEF ReportsIInv
    <3>2. PICK list \in Lists :
            /\ m \in marked => CopiesOf(m, to) <= Excused(list, to) + Named(list, to)
            /\ u.month = m =>
                 /\ CopiesOf(m, to) + Named(u.to, to) <= Excused(list, to) + Named(list, to)
                 /\ u.sent = 0 => CopiesOf(m, to) <= Excused(list, to)
            /\ m \notin marked /\ u.month # m => CopiesOf(m, to) <= Excused(list, to)
      BY <1>2, <2>1, <3>1 DEF CopiesBounded
    <3>3. PICK c \in Nat : c = CopiesOf(m, to)
      BY <1>1, <1>6, ReportsAssumption, NamedCounts DEF ReportsTyped
    <3>4. PICK y \in Nat : y = Named(u.to, to)
      BY <1>1, <1>2, NamedCounts DEF Round
    <3>5. PICK least \in Nat, most \in Nat : least = Excused(list, to) /\ most = least + Named(list, to)
      BY <1>1, ExcusedIs
    <3>6. u.month = m => c <= most
      <4>1. u.month = m => c + y <= most
        BY <3>2, <3>3, <3>4, <3>5
      <4>2. QED BY <4>1
    <3>7. /\ m \in marked' => c <= most
          /\ m \notin marked' => c <= least
      BY <1>3, <1>5, <3>2, <3>3, <3>5, <3>6
    <3>8. CopiesOf(m, to)' = c /\ Excused(list, to)' = least /\ Excused(list, to)' + Named(list, to)' = most
      BY <1>3, <3>3, <3>5 DEF CopiesOf, Named, Excused, Again
    <3>9. QED BY <1>3, <2>2, <3>7, <3>8 DEF CopiesBounded
  <2>5. QED BY <2>3, <2>4
<1>10. QED BY <1>3, <1>6, <1>7, <1>8, <1>9 DEF ReportsIInv

\* Whatever becomes of a month, its copies are within one list more.
LEMMA LeastOrMore ==
  ASSUME ReportsTyped, NEW m, NEW to, NEW list \in Lists,
         m \in marked => CopiesOf(m, to) <= Excused(list, to) + Named(list, to),
         \A r \in Rounds : round[r] # NoRound /\ round[r].month = m =>
           CopiesOf(m, to) + Named(round[r].to, to) <= Excused(list, to) + Named(list, to),
         m \notin marked /\ (\A r \in Rounds : round[r] = NoRound \/ round[r].month # m) =>
           CopiesOf(m, to) <= Excused(list, to)
  PROVE  CopiesOf(m, to) <= Excused(list, to) + Named(list, to)
<1>1. PICK least \in Nat, x \in Nat : least = Excused(list, to) /\ x = Named(list, to)
  BY ExcusedIs
<1>2. PICK c \in Nat : c = CopiesOf(m, to)
  BY ReportsAssumption, NamedCounts
<1>3. CASE \E r \in Rounds : round[r] # NoRound /\ round[r].month = m
  <2>1. PICK r \in Rounds : round[r] # NoRound /\ round[r].month = m
    BY <1>3
  <2>2. PICK y \in Nat : y = Named(round[r].to, to)
    BY <2>1, NamedCounts DEF ReportsTyped, Round
  <2>3. c + y <= least + x
    BY <1>1, <1>2, <2>1, <2>2
  <2>4. QED BY <1>1, <1>2, <2>3
<1>4. CASE m \notin marked /\ \A r \in Rounds : round[r] = NoRound \/ round[r].month # m
  BY <1>1, <1>2, <1>4
<1>5. QED BY <1>1, <1>2, <1>3, <1>4

\* Rounds go without a mark: what they sent may be sent once more.
LEMMA RoundsLost ==
  ASSUME ReportsIInv, Again' = Again + 1, reboots' \in Nat, unmarked' \in Nat,
         UNCHANGED <<month, schedule, marked, copies, strays, crossed>>,
         round' = [q \in Rounds |-> round'[q]], \A q \in Rounds : round'[q] \in {round[q], NoRound},
         crossed \/ \A q \in Rounds : round'[q] = NoRound
  PROVE  ReportsIInv'
<1>1. ReportsTyped /\ MarkedIsSent /\ SentIsCopied
  BY DEF ReportsIInv
<1>2. ReportsTyped'
  BY <1>1 DEF ReportsTyped
<1>3. MarkedIsSent' /\ SentIsCopied'
  BY <1>1 DEF MarkedIsSent, SentIsCopied
<1>4. ~crossed => OneSends'
  BY DEF OneSends
<1>5. ASSUME ~crossed, NEW m \in Nat, NEW to \in Addresses PROVE CopiesBounded(m, to)'
  <2>1. CopiesBounded(m, to)
    BY <1>5 DEF ReportsIInv
  <2>2. PICK list \in Lists :
          /\ m \in marked => CopiesOf(m, to) <= Excused(list, to) + Named(list, to)
          /\ \A r \in Rounds : round[r] # NoRound /\ round[r].month = m =>
               CopiesOf(m, to) + Named(round[r].to, to) <= Excused(list, to) + Named(list, to)
          /\ m \notin marked /\ (\A r \in Rounds : round[r] = NoRound \/ round[r].month # m) =>
               CopiesOf(m, to) <= Excused(list, to)
    BY <2>1 DEF CopiesBounded
  <2>3. PICK least \in Nat, x \in Nat : least = Excused(list, to) /\ x = Named(list, to)
    BY <1>1, ExcusedIs
  <2>4. PICK c \in Nat : c = CopiesOf(m, to)
    BY <1>1, ReportsAssumption, NamedCounts
  <2>5. c <= least + x
    BY <1>1, <2>2, <2>3, <2>4, LeastOrMore
  <2>6. CopiesOf(m, to)' = c
    BY <2>4 DEF CopiesOf
  <2>7. Excused(list, to)' = least + x /\ Named(list, to)' = x
    <3>1. PICK b \in Nat, e \in Nat : b = Again /\ e = strays
      BY <1>1 DEF ReportsTyped, Again
    <3>2. PICK bx \in Nat : bx = b * x /\ (1 + b) * x = bx + x
      BY Allowance
    <3>3. Named(list, to)' = x
      BY <2>3 DEF Named
    <3>4. Excused(list, to)' = (b + 1) * x + e /\ least = b * x + e
      BY <2>3, <3>1, <3>3 DEF Excused
    <3>5. (b + 1) * x = (1 + b) * x
      OBVIOUS
    <3>6. QED BY <3>1, <3>2, <3>3, <3>4, <3>5
  <2>8. c <= least + x + x
    BY <2>5
  <2>9. QED BY <1>5, <2>5, <2>6, <2>7, <2>8 DEF CopiesBounded
<1>6. QED BY <1>2, <1>3, <1>4, <1>5 DEF ReportsIInv

LEMMA RebootSafe == ASSUME ReportsIInv, Reboot PROVE ReportsIInv'
<1>1. /\ UNCHANGED <<month, schedule, marked, copies, unmarked, strays, crossed>>
      /\ round' = [q \in Rounds |-> round'[q]] /\ \A q \in Rounds : round'[q] = NoRound
      /\ reboots' = reboots + 1
  BY DEF Reboot
<1>2. reboots \in Nat /\ unmarked \in Nat
  BY DEF ReportsIInv, ReportsTyped
<1>3. Again' = Again + 1 /\ reboots' \in Nat /\ unmarked' \in Nat
  BY <1>1, <1>2 DEF Again
<1>4. QED BY <1>1, <1>3, RoundsLost

LEMMA MarkFailsSafe == ASSUME ReportsIInv, NEW r \in Rounds, MarkFails(r) PROVE ReportsIInv'
<1>1. /\ UNCHANGED <<month, schedule, marked, copies, reboots, strays, crossed>>
      /\ round' = [round EXCEPT ![r] = NoRound] /\ unmarked' = unmarked + 1 /\ round[r] # NoRound
  BY DEF MarkFails
<1>2. reboots \in Nat /\ unmarked \in Nat /\ round = [q \in Rounds |-> round[q]]
  BY DEF ReportsIInv, ReportsTyped
<1>3. Again' = Again + 1 /\ reboots' \in Nat /\ unmarked' \in Nat
  BY <1>1, <1>2 DEF Again
<1>4. /\ round' = [q \in Rounds |-> round'[q]] /\ round'[r] = NoRound
      /\ \A q \in Rounds : q # r => round'[q] = round[q]
  BY <1>1, <1>2
<1>5. crossed \/ \A q \in Rounds : round'[q] = NoRound
  BY <1>1, <1>4 DEF ReportsIInv, OneSends
<1>6. QED BY <1>1, <1>3, <1>4, <1>5, RoundsLost

LEMMA ReportsSteps == ReportsIInv /\ [ReportsNext]_reportVars => ReportsIInv'
<1>1. SUFFICES ASSUME ReportsIInv, [ReportsNext]_reportVars PROVE ReportsIInv'
  OBVIOUS
<1>2. month \in Nat /\ schedule \in Lists
  BY <1>1 DEF ReportsIInv, ReportsTyped
<1>3. CASE UNCHANGED reportVars
  BY <1>1, <1>2, <1>3, RoundsRest DEF reportVars
<1>4. CASE MonthCloses
  BY <1>1, <1>2, <1>4, RoundsRest DEF MonthCloses
<1>5. CASE Configure
  BY <1>1, <1>2, <1>5, RoundsRest DEF Configure
<1>6. QED BY <1>1, <1>3, <1>4, <1>5, RebootSafe, BeginSafe, sendEmailSafe, EndRoundSafe,
  MarkFailsSafe DEF ReportsNext

LEMMA ReportsAreSound == ReportsIInv => MarkedIsSent /\ SentOnce
<1>1. SUFFICES ASSUME ReportsIInv PROVE MarkedIsSent /\ SentOnce
  OBVIOUS
<1>2. ReportsTyped /\ MarkedIsSent
  BY <1>1 DEF ReportsIInv
<1>3. ASSUME ~crossed, NEW copy \in Range(copies)
      PROVE  \E list \in Lists :
               CopiesOf(copy.month, copy.to) <= (1 + Again) * Named(list, copy.to) + strays
  <2>1. copy \in Copy
    BY <1>2 DEF ReportsTyped, Range
  <2>2. PICK m \in Nat : m = copy.month
    BY <2>1 DEF Copy
  <2>3. PICK to \in Addresses : to = copy.to
    BY <2>1 DEF Copy
  <2>4. CopiesBounded(m, to)
    BY <1>1, <1>3 DEF ReportsIInv
  <2>5. PICK list \in Lists :
          /\ m \in marked => CopiesOf(m, to) <= Excused(list, to) + Named(list, to)
          /\ \A r \in Rounds : round[r] # NoRound /\ round[r].month = m =>
               CopiesOf(m, to) + Named(round[r].to, to) <= Excused(list, to) + Named(list, to)
          /\ m \notin marked /\ (\A r \in Rounds : round[r] = NoRound \/ round[r].month # m) =>
               CopiesOf(m, to) <= Excused(list, to)
    BY <2>4 DEF CopiesBounded
  <2>6. PICK least \in Nat, x \in Nat : least = Excused(list, to) /\ x = Named(list, to)
    BY <1>2, ExcusedIs
  <2>7. PICK c \in Nat : c = CopiesOf(m, to)
    BY <1>2, ReportsAssumption, NamedCounts
  <2>8. c <= least + x
    BY <1>2, <2>5, <2>6, <2>7, LeastOrMore
  <2>9. PICK b \in Nat, e \in Nat : b = Again /\ e = strays
    BY <1>2 DEF ReportsTyped, Again
  <2>10. PICK bx \in Nat : bx = b * x /\ (1 + b) * x = bx + x
    BY Allowance
  <2>11. c <= (1 + b) * x + e
    BY <2>6, <2>8, <2>9, <2>10 DEF Excused
  <2>12. QED BY <2>2, <2>3, <2>6, <2>7, <2>9, <2>11
<1>4. QED BY <1>2, <1>3 DEF SentOnce

(***************************************************************************)
(* The parts by themselves, with as many requests and ticks as they take.   *)
(***************************************************************************)
\* However requests to claim, sign in, register, reset, grant, remove and delete people
\* for good interleave: one visitor claims, the last admin goes only when removals
\* overlapped or with their person, deleted for good (api/people/[id]), a challenge or
\* link is used once, and a passkey is of whom it was made for (auth.ts, webauthn.ts).
THEOREM AccessIsSafe == AccessInit /\ [][AccessNext]_accessVars => []AccessHolds
<1>1. QED BY AccessStarts, AccessSteps, AccessIsSound, PTL

\* While the limiter need not forget a live window, at most twice its number of
\* attempts gets through in any stretch of a window's length (rate-limit.ts).
THEOREM LimiterThrottles == LimitInit /\ [][LimitNext]_limitVars => []Throttled
<1>1. QED BY LimitStarts, LimitSteps, LimitHolds, PTL

\* For any number of containers that boot side by side and die: one serves only when
\* each of its files is applied, and fails only over a broken file, or for having
\* created the database at the same moment as another one (migrate.mjs).
THEOREM MigrationsAreSafe ==
  MigrateInit /\ [][MigrateNext]_migrateVars => [](ServesMigrated /\ NoNeedlessFailure)
<1>1. MigrateIInv => ServesMigrated /\ NoNeedlessFailure
  BY DEF MigrateIInv
<1>2. QED BY <1>1, MigrateStarts, MigrateSteps, PTL

\* However claims, seeds, connects, disconnects and wipes interleave: no demo row is
\* left beside a connected vendor unless a seed ran with the connect; the rollups count
\* what is there once all requests are done, unless one died, failed to recompute or
\* recomputed beside another; and what is connected has credentials unless a connect
\* and a disconnect crossed (connect.ts, demo.ts, rollup.ts).
THEOREM LifeIsSafe ==
  LifeInit /\ [][LifeNext]_lifeVars => [](NoMix /\ RollupsFollow /\ ConnectedHasConfig)
<1>1. QED BY LifeStarts, LifeSteps, LifeHolds, PTL

\* However ticks overlap, processes die and late spend arrives: each alert reaches the
\* channel at most once, and nobody more often than the list of recipients names them;
\* a fired threshold was crossed by the spend shown, the lower
\* thresholds fire first, and the pages agree on who is silent (limits.ts, alerts.ts).
THEOREM AlertsAreSafe == AlertsInit /\ [][AlertsNext]_alertVars => []AlertsHold
<1>1. QED BY AlertsStarts, AlertsSteps, AlertsAreSound, PTL

\* For any number of ticks, months, refusals and restarts: a marked month has reached
\* somebody, and nobody gets a report more often than a list names them, once more for
\* each restart and each mark not stored, and for each mail that arrived though its call
\* failed, while no two ticks sent at once (scheduled-reports.ts).
THEOREM ReportsAreSafe == ReportsInit /\ [][ReportsNext]_reportVars => [](MarkedIsSent /\ SentOnce)
<1>1. QED BY ReportsStarts, ReportsSteps, ReportsAreSound, PTL

(***************************************************************************)
(* What the instance is set to, and what is final (MCOperations).           *)
(***************************************************************************)
PartsIInv ==
  /\ MigrateIInv /\ LifeIInv /\ FxIInv /\ SettingsIInv /\ ChecksTyped
  /\ LimitIInv /\ AccessIInv /\ AlertsIInv /\ ReportsIInv

LEMMA PartsStart == Init => PartsIInv
<1> SUFFICES ASSUME Init PROVE PartsIInv
  OBVIOUS
<1>1. MigrateInit /\ LifeInit /\ FxInit /\ SettingsInit /\ SurvivalInit
  BY DEF Init, SettingsStart, SurvivalStart
<1>2. ChecksTyped
  BY <1>1 DEF SurvivalInit, ChecksTyped
<1>3. LimitIInv /\ AccessIInv
  BY LimitStarts, AccessStarts DEF Init, AccessStart
<1>4. AlertsIInv /\ ReportsIInv
  BY AlertsStarts, ReportsStarts DEF Init, AlertsStart, ReportsStart
<1>5. QED BY <1>1, <1>2, <1>3, <1>4, MigrateStarts, LifeStarts, FxStarts, SettingsStarts DEF PartsIInv

LEMMA PartsStep == PartsIInv /\ [Next]_vars => PartsIInv'
<1> SUFFICES ASSUME PartsIInv, [Next]_vars PROVE PartsIInv'
  OBVIOUS
<1>1. MigrateIInv'
  BY StepOfEach, MigrateSteps DEF PartsIInv
<1>2. LifeIInv'
  BY StepOfEach, LifeSteps DEF PartsIInv
<1>3. FxIInv'
  BY StepOfEach, FxSteps DEF PartsIInv
<1>4. SettingsIInv'
  BY StepOfEach, SettingsSteps DEF PartsIInv
<1>5. ChecksTyped'
  BY StepOfEach, ChecksStay DEF PartsIInv
<1>6. LimitIInv'
  BY StepOfEach, LimitSteps DEF PartsIInv
<1>7. AccessIInv'
  BY StepOfEach, AccessSteps DEF PartsIInv
<1>8. AlertsIInv'
  BY StepOfEach, AlertsSteps DEF PartsIInv
<1>9. ReportsIInv'
  BY StepOfEach, ReportsSteps DEF PartsIInv
<1>10. QED BY <1>1, <1>2, <1>3, <1>4, <1>5, <1>6, <1>7, <1>8, <1>9 DEF PartsIInv

\* The invariant of the parts that are proved holds in every behavior.
THEOREM PartsInvariance == Spec => []PartsIInv
<1>1. QED BY PartsStart, PartsStep, PTL DEF Spec

\* Through all that is under way at once, for any number of containers, fetches,
\* requests and deaths: the display currency converts, a changed setting is audited
\* unless its entry could not be written, no licence is forged, a container serves on
\* its own schema and fails for no other's sake but over who creates the database, and a
\* connected instance neither shows nor counts demo data, but for the overlaps the
\* properties name (settings/route.ts, audit.ts, migrate.mjs, connect.ts, demo.ts).
THEOREM InstanceIsSound == Spec => []InstanceHolds
<1>1. PartsIInv => InstanceHolds
  BY LifeHolds, SettingsHold DEF PartsIInv, MigrateIInv, InstanceHolds
<1>2. QED BY <1>1, PartsInvariance, PTL

\* Through all that is under way at once, for any number of requests, logins and
\* callers: one visitor claims the instance, the last admin goes only when two
\* removals overlapped or with their person, a challenge or link is used once, a passkey
\* is its user's, and a caller is held to the limit (auth.ts, webauthn.ts, rate-limit.ts).
THEOREM SignInsAreSound == Spec => []SignInsHold
<1>1. PartsIInv => SignInsHold
  BY LimitHolds, AccessIsSound DEF PartsIInv, SignInsHold
<1>2. QED BY <1>1, PartsInvariance, PTL

\* Through all that is under way at once, for any staff, limits, calendar and number
\* of ticks: nobody is alerted of the same thing more often than the list names them,
\* what is claimed was true of the rollups, a report that is marked has reached somebody,
\* and nobody gets it more often than lists, restarts, marks not stored and calls that
\* fail after delivery allow (limits.ts, alerts.ts, scheduled-reports.ts).
THEOREM MessagesAreSound == Spec => []MessagesHold
<1>1. PartsIInv => MessagesHold
  BY AlertsAreSound, ReportsAreSound DEF PartsIInv, MessagesHold
<1>2. QED BY <1>1, PartsInvariance, PTL

\* A check that is made stays, a rate is never written over with an older one,
\* the popup does not come back, and a wipe takes nothing that is real.
THEOREM FinalStays == Spec => StepsAreFinal
<1>1. ASSUME PartsIInv, [Next]_vars
      PROVE  /\ [\A p \in PRs : \A h \in Horizons : checks[p][h] # NoRow => checks'[p][h] = checks[p][h]]_checks
             /\ [\A r \in DOMAIN rates : r \in DOMAIN rates' /\ rates[r] <= rates'[r]]_fxVars
             /\ [stage # "unclaimed" /\ stage' = "welcome" => stage = "welcome"]_lifeVars
             /\ [\A r \in hanging \ hanging' : r.kind \notin Keeping]_lifeVars
  <2>1. \A p \in PRs : \A h \in Horizons : checks[p][h] # NoRow => checks'[p][h] = checks[p][h]
    BY <1>1, StepOfEach, ChecksStay DEF PartsIInv
  <2>2. \A r \in DOMAIN rates : r \in DOMAIN rates' /\ rates[r] <= rates'[r]
    BY <1>1, StepOfEach, FxSteps DEF PartsIInv
  <2>3. stage # "unclaimed" /\ stage' = "welcome" => stage = "welcome"
    BY <1>1, StepOfEach, LifeStepsForward DEF PartsIInv
  <2>4. \A r \in hanging \ hanging' : r.kind \notin Keeping
    BY <1>1, StepOfEach, LifeStepsForward DEF PartsIInv
  <2>5. QED BY <2>1, <2>2, <2>3, <2>4
<1>2. QED
  BY <1>1, PartsInvariance, PTL DEF Spec, StepsAreFinal, ChecksAreFinal, RatesNeverRegress,
     PopupStays, WipeKeepsReal

-----------------------------------------------------------------------------
(***************************************************************************)
(* Offboard: for every set of people, identities and jobs and any number   *)
(* of sweeps, faults and deaths of the process.                            *)
(***************************************************************************)
OffboardTypes ==
  /\ status \in [Persons -> {"active", "offboarded", "archived"}]
  /\ owner \in [Identities -> Persons \cup {Nobody}]
  /\ deprov \subseteq stored /\ stored \subseteq Identities /\ access \subseteq Identities
  /\ items \in Seq(Items)
  /\ job \in [Jobs -> Job \cup {NoJob}]

OneLiveItem ==
  \A k, n \in DOMAIN items :
    items[k].status # "removed" /\ items[n].status # "removed"
      /\ items[k].identity = items[n].identity => k = n

AccessGone ==
  \A k \in DOMAIN items :
    items[k].identity \in access \ regranted =>
      items[k].status # "removed" /\ items[k].identity \notin deprov

ItemsStored == \A k \in DOMAIN items : items[k].identity \in stored

Running(j, steps) == job[j] # NoJob /\ job[j].step \in steps

\* A job at its items holds rows of the table, the one in hand not among those
\* it has yet to take; a minting job holds the key it was given.
Hand(j) ==
  /\ job[j] # NoJob => job[j].item \in {0} \cup DOMAIN items
  /\ Running(j, {"next", "record", "deprovision", "fail"}) =>
       job[j].queue \subseteq DOMAIN items
  /\ Running(j, {"record", "deprovision", "fail"}) =>
       job[j].item \in DOMAIN items /\ job[j].item \notin job[j].queue
  /\ Running(j, {"map"}) => job[j].queue \subseteq Identities

\* Between the vendor's confirmation and the last update the access is gone.
Confirmed(j) ==
  Running(j, {"record", "deprovision"}) => IdentityAt(j) \notin access \ regranted

\* A job that can still turn item k to failed: it has yet to take it, or has it
\* in hand and has not recorded its removal.
MayFail(j, k) ==
  \/ Running(j, {"next", "record", "deprovision", "fail"}) /\ k \in job[j].queue
  \/ Running(j, {"record", "fail"}) /\ job[j].item = k

HeldIsExposed(j) ==
  \A k \in DOMAIN items : MayFail(j, k) /\ items[k].status = "removed" => k \in exposed

JobSound(j) == Hand(j) /\ Confirmed(j) /\ HeldIsExposed(j)

OffboardIInv ==
  /\ OffboardTypes /\ OneLiveItem /\ AccessGone /\ ItemsStored
  /\ \A j \in Jobs : JobSound(j)

-----------------------------------------------------------------------------
(***************************************************************************)
(* What a step leaves in place.                                            *)
(***************************************************************************)
ItemsGrow ==
  /\ DOMAIN items \subseteq DOMAIN items'
  /\ \A k \in DOMAIN items : items'[k].identity = items[k].identity

\* an identity with an item is given back only as a regrant
AccessGuarded ==
  \A k \in DOMAIN items :
    items[k].identity \in access' \ regranted' => items[k].identity \in access \ regranted

LEMMA JobKept ==
  ASSUME OffboardIInv, ItemsGrow, AccessGuarded, exposed \subseteq exposed',
         NEW s \in Jobs, job'[s] = job[s],
         \A k \in DOMAIN items :
           MayFail(s, k) /\ items'[k].status = "removed" =>
             items[k].status = "removed" \/ k \in exposed'
  PROVE  JobSound(s)'
<1>1. JobSound(s)
  BY DEF OffboardIInv
<1>2. Hand(s)'
  BY <1>1 DEF JobSound, Hand, Running, ItemsGrow
<1>3. Confirmed(s)'
  <2>1. SUFFICES ASSUME Running(s, {"record", "deprovision"})
                 PROVE  items'[job[s].item].identity \notin access' \ regranted'
    BY DEF Confirmed, Running, IdentityAt
  <2>2. job[s].item \in DOMAIN items
    BY <1>1, <2>1 DEF JobSound, Hand, Running
  <2>3. IdentityAt(s) \notin access \ regranted
    BY <1>1, <2>1 DEF JobSound, Confirmed
  <2>4. QED BY <2>2, <2>3 DEF ItemsGrow, AccessGuarded, IdentityAt
<1>4. HeldIsExposed(s)'
  <2>1. SUFFICES ASSUME NEW k \in DOMAIN items', MayFail(s, k), items'[k].status = "removed"
                 PROVE  k \in exposed'
    BY DEF HeldIsExposed, MayFail, Running
  <2>2. k \in DOMAIN items
    BY <1>1, <2>1 DEF JobSound, Hand, MayFail, Running
  <2>3. QED BY <1>1, <2>1, <2>2 DEF JobSound, HeldIsExposed
<1>5. QED BY <1>2, <1>3, <1>4 DEF JobSound

LEMMA IdleSound == ASSUME NEW s, job[s] = NoJob PROVE JobSound(s)
BY DEF JobSound, Hand, Confirmed, HeldIsExposed, MayFail, Running

\* A step that leaves the items alone and moves one job at most.
LEMMA QuietStep ==
  ASSUME OffboardIInv, items' = items, deprov' = deprov, AccessGuarded,
         stored \subseteq stored', stored' \subseteq Identities, access' \subseteq Identities,
         status' \in [Persons -> {"active", "offboarded", "archived"}],
         owner' \in [Identities -> Persons \cup {Nobody}],
         exposed \subseteq exposed',
         NEW j \in Jobs, NEW r \in Job \cup {NoJob}, job' = [job EXCEPT ![j] = r], JobSound(j)'
  PROVE  OffboardIInv'
<1>1. OffboardTypes'
  BY DEF OffboardIInv, OffboardTypes
<1>2. ItemsGrow
  BY DEF ItemsGrow
<1>3. OneLiveItem' /\ AccessGone' /\ ItemsStored'
  BY DEF OffboardIInv, OneLiveItem, AccessGone, ItemsStored, AccessGuarded
<1>4. \A s \in Jobs : JobSound(s)'
  <2>1. SUFFICES ASSUME NEW s \in Jobs, s # j
                 PROVE  JobSound(s)'
    OBVIOUS
  <2>2. job'[s] = job[s]
    BY <2>1 DEF OffboardIInv, OffboardTypes
  <2>3. QED BY <1>2, <2>2, JobKept
<1>5. QED BY <1>1, <1>3, <1>4 DEF OffboardIInv

\* A step of the tables alone.
LEMMA TableStep ==
  ASSUME OffboardIInv, items' = items, deprov' = deprov, job' = job, AccessGuarded,
         stored \subseteq stored', stored' \subseteq Identities, access' \subseteq Identities,
         status' \in [Persons -> {"active", "offboarded", "archived"}],
         owner' \in [Identities -> Persons \cup {Nobody}],
         exposed \subseteq exposed'
  PROVE  OffboardIInv'
<1>1. OffboardTypes'
  BY DEF OffboardIInv, OffboardTypes
<1>2. ItemsGrow
  BY DEF ItemsGrow
<1>3. OneLiveItem' /\ AccessGone' /\ ItemsStored'
  BY DEF OffboardIInv, OneLiveItem, AccessGone, ItemsStored, AccessGuarded
<1>4. \A s \in Jobs : JobSound(s)'
  BY <1>2, JobKept
<1>5. QED BY <1>1, <1>3, <1>4 DEF OffboardIInv

LEMMA Running_ ==
  ASSUME OffboardIInv, NEW j \in Jobs, job[j] # NoJob
  PROVE  /\ job[j] \in Job /\ JobSound(j)
         /\ job[j].person \in Persons
BY DEF OffboardIInv, OffboardTypes, Job

-----------------------------------------------------------------------------
(***************************************************************************)
(* The steps that leave the items alone.                                   *)
(***************************************************************************)
LEMMA BeginStep ==
  ASSUME OffboardIInv, NEW j \in Jobs, NEW p \in Persons, NEW kind \in {"invite", "mint"},
         Sweep(j, p) \/ Join(j, p, kind)
  PROVE  OffboardIInv'
<1>1. PICK r : /\ job' = [job EXCEPT ![j] = r]
               /\ \/ r = [kind |-> "sweep", person |-> p, step |-> "plan",
                          queue |-> {}, item |-> 0]
                  \/ r = [kind |-> kind, person |-> p, step |-> "vendor",
                          queue |-> {}, item |-> 0]
  BY DEF Sweep, Join, BeginJob
<1>2. r \in Job
  BY <1>1 DEF Job
<1>3. job'[j] = r /\ r.step \in {"plan", "vendor"} /\ r.item = 0
  BY <1>1 DEF OffboardIInv, OffboardTypes
<1>4. JobSound(j)'
  BY <1>3 DEF JobSound, Hand, Confirmed, HeldIsExposed, MayFail, Running
<1>5. UNCHANGED <<records, access, items, ghosts>>
  BY DEF Sweep, Join
<1>6. QED BY <1>1, <1>2, <1>4, <1>5, QuietStep DEF records, ghosts, AccessGuarded, OffboardIInv, OffboardTypes

LEMMA MarkStep ==
  ASSUME OffboardIInv, NEW j \in Jobs, MarkItems(j)
  PROVE  OffboardIInv'
<1>1. job[j] \in Job /\ JobSound(j) /\ job[j].person \in Persons /\ job[j].step = "mark"
  BY Running_ DEF MarkItems
<1>2. PICK r : r = [job[j] EXCEPT !.step = "list"]
  OBVIOUS
<1>3. r \in Job /\ job' = [job EXCEPT ![j] = r] /\ job'[j] = r
      /\ r.step = "list" /\ r.item = job[j].item
  BY <1>1, <1>2 DEF MarkItems, Goto, OffboardIInv, OffboardTypes, Job
<1>4. JobSound(j)'
  BY <1>1, <1>3 DEF MarkItems, JobSound, Hand, Confirmed, HeldIsExposed, MayFail, Running
<1>5. status' \in [Persons -> {"active", "offboarded", "archived"}]
  BY <1>1 DEF MarkItems, OffboardIInv, OffboardTypes
<1>6. QED BY <1>3, <1>4, <1>5, QuietStep DEF MarkItems, ghosts, AccessGuarded, OffboardIInv, OffboardTypes

\* What a job takes on with a queue of items none of which is removed.
LEMMA GoOnSound ==
  ASSUME OffboardIInv, NEW j \in Jobs, job[j] # NoJob, NEW queue \in SUBSET (DOMAIN items),
         Continue(j, queue), items' = items,
         \A k \in queue : items[k].status = "removed" => k \in exposed'
  PROVE  /\ JobSound(j)'
         /\ \E r \in Job \cup {NoJob} : job' = [job EXCEPT ![j] = r]
<1>1. job[j] \in Job
  BY Running_
<1>2. queue \subseteq Nat
  BY DEF OffboardIInv, OffboardTypes
<1>3. PICK r : /\ r = IF queue = {} THEN NoJob
                      ELSE [job[j] EXCEPT !.queue = queue, !.item = 0, !.step = "next"]
               /\ job' = [job EXCEPT ![j] = r] /\ job'[j] = r
  BY DEF Continue, OffboardIInv, OffboardTypes
<1>4. CASE queue = {}
  BY <1>3, <1>4 DEF JobSound, Hand, Confirmed, HeldIsExposed, MayFail, Running
<1>5. CASE queue # {}
  <2>1. /\ r \in Job /\ r.queue = queue /\ r.item = 0 /\ r.step = "next"
    BY <1>1, <1>2, <1>3, <1>5 DEF Job
  <2>2. QED BY <1>3, <2>1 DEF JobSound, Hand, Confirmed, HeldIsExposed, MayFail, Running
<1>6. QED BY <1>4, <1>5

LEMMA ListStep ==
  ASSUME OffboardIInv, NEW j \in Jobs, List(j)
  PROVE  OffboardIInv'
<1>1. /\ PendingItems(job[j].person) \in SUBSET (DOMAIN items)
      /\ \A k \in PendingItems(job[j].person) : items[k].status # "removed"
  BY DEF PendingItems
<1>2. /\ JobSound(j)'
      /\ \E r \in Job \cup {NoJob} : job' = [job EXCEPT ![j] = r]
  BY <1>1, GoOnSound DEF List
<1>3. QED BY <1>2, QuietStep DEF List, records, ghosts, AccessGuarded, OffboardIInv, OffboardTypes

LEMMA ItemTyped ==
  ASSUME OffboardIInv, NEW k \in DOMAIN items
  PROVE  k \in Nat /\ k \in 1 .. Len(items) /\ items[k] \in Items
BY DEF OffboardIInv, OffboardTypes

LEMMA RetryStep ==
  ASSUME OffboardIInv, NEW j \in Jobs, NEW k \in DOMAIN items, RetryItem(j, k)
  PROVE  OffboardIInv'
<1>1. k \in Nat /\ items[k].person \in Persons
  BY ItemTyped DEF Items
<1>2. PICK r : r = [kind |-> "retry", person |-> items[k].person, step |-> "next",
                    queue |-> {k}, item |-> 0]
  OBVIOUS
<1>3. r \in Job
  BY <1>1, <1>2 DEF Job
<1>4. job' = [job EXCEPT ![j] = r] /\ job'[j] = r
  BY <1>2 DEF RetryItem, OffboardIInv, OffboardTypes
<1>5. UNCHANGED <<records, access, items, ghosts>> /\ items[k].status # "removed"
  BY DEF RetryItem
<1>6. JobSound(j)'
  BY <1>2, <1>4, <1>5 DEF JobSound, Hand, Confirmed, HeldIsExposed, MayFail, Running
<1>7. QED BY <1>3, <1>4, <1>5, <1>6, QuietStep DEF records, ghosts, AccessGuarded, OffboardIInv, OffboardTypes

\* The vendor's answer: a removal it confirms has taken place, an error has not
\* taken the item off those the job may turn to failed.
LEMMA CallStep ==
  ASSUME OffboardIInv, NEW j \in Jobs, CallVendor(j) \/ CallFails(j)
  PROVE  OffboardIInv'
<1>1. job[j] \in Job /\ JobSound(j) /\ job[j].step = "next" /\ job[j] # NoJob
  BY Running_ DEF CallVendor, CallFails, AtItem
<1>2. PICK k \in job[j].queue, step \in {"record", "fail"} :
        /\ access' \in {access, access \ {items[k].identity}}
        /\ job' = [job EXCEPT ![j].queue = @ \ {k}, ![j].item = k, ![j].step = step]
        /\ step = "record" => access' = access \ {items[k].identity}
  BY DEF CallVendor, CallFails, AfterError
<1>3. k \in DOMAIN items /\ k \in Nat /\ job[j].queue \subseteq DOMAIN items
  BY <1>1 DEF JobSound, Hand, Running, OffboardIInv, OffboardTypes
<1>4. PICK r : r = [job[j] EXCEPT !.queue = @ \ {k}, !.item = k, !.step = step]
  OBVIOUS
<1>5. r \in Job /\ r.queue = job[j].queue \ {k} /\ r.item = k /\ r.step = step
  BY <1>1, <1>3, <1>4 DEF Job
<1>6. job' = [job EXCEPT ![j] = r] /\ job'[j] = r
  BY <1>1, <1>2, <1>4 DEF OffboardIInv, OffboardTypes, Job
<1>7. UNCHANGED <<records, items, ghosts>>
  BY DEF CallVendor, CallFails
<1>8. \A n \in DOMAIN items : (n = k \/ n \in job[j].queue) /\ items[n].status = "removed" =>
        n \in exposed
  BY <1>1, <1>2 DEF JobSound, HeldIsExposed, MayFail, Running
<1>9. JobSound(j)'
  <2>1. Hand(j)'
    BY <1>3, <1>5, <1>6, <1>7 DEF Hand, Running
  <2>2. Confirmed(j)'
    BY <1>2, <1>5, <1>6, <1>7 DEF Confirmed, Running, IdentityAt
  <2>3. HeldIsExposed(j)'
    BY <1>5, <1>6, <1>7, <1>8 DEF HeldIsExposed, MayFail, Running, ghosts
  <2>4. QED BY <2>1, <2>2, <2>3 DEF JobSound
<1>10. AccessGuarded /\ access' \subseteq Identities
  BY <1>2, <1>7 DEF AccessGuarded, ghosts, OffboardIInv, OffboardTypes
<1>11. QED BY <1>5, <1>6, <1>7, <1>9, <1>10, QuietStep DEF records, ghosts, OffboardIInv, OffboardTypes

LEMMA UpdateFailsStep ==
  ASSUME OffboardIInv, NEW j \in Jobs, UpdateFails(j)
  PROVE  OffboardIInv'
<1>1. /\ job[j] \in Job /\ JobSound(j) /\ job[j] # NoJob
      /\ job[j].step \in {"record", "deprovision"}
  BY Running_ DEF UpdateFails, AtItem
<1>2. PICK r : r = [job[j] EXCEPT !.step = "fail"]
  OBVIOUS
<1>3. /\ r \in Job /\ r.queue = job[j].queue /\ r.item = job[j].item /\ r.step = "fail"
      /\ job' = [job EXCEPT ![j] = r] /\ job'[j] = r
  BY <1>1, <1>2 DEF UpdateFails, Goto, OffboardIInv, OffboardTypes, Job
<1>4. /\ UNCHANGED <<records, access, items, regranted>>
      /\ exposed' = exposed \cup {job[j].item}
  BY DEF UpdateFails
<1>5. JobSound(j)'
  <2>1. Hand(j)' /\ Confirmed(j)'
    BY <1>1, <1>3, <1>4 DEF JobSound, Hand, Confirmed, Running
  <2>2. HeldIsExposed(j)'
    BY <1>1, <1>3, <1>4 DEF JobSound, HeldIsExposed, MayFail, Running
  <2>3. QED BY <2>1, <2>2 DEF JobSound
<1>6. QED BY <1>3, <1>4, <1>5, QuietStep DEF records, AccessGuarded, OffboardIInv, OffboardTypes

LEMMA DeprovisionStep ==
  ASSUME OffboardIInv, NEW j \in Jobs, Deprovision(j)
  PROVE  OffboardIInv'
<1>1. /\ job[j] \in Job /\ JobSound(j) /\ job[j].step = "deprovision" /\ job[j] # NoJob
  BY Running_ DEF Deprovision, AtItem
<1>2. /\ IdentityAt(j) \in stored /\ IdentityAt(j) \notin access \ regranted
      /\ job[j].queue \in SUBSET (DOMAIN items)
      /\ \A k \in job[j].queue : items[k].status = "removed" => k \in exposed
  BY <1>1 DEF JobSound, Hand, Confirmed, HeldIsExposed, MayFail, Running, IdentityAt, OffboardIInv,
     ItemsStored
<1>3. /\ deprov' = deprov \cup {IdentityAt(j)}
      /\ UNCHANGED <<status, stored, owner, access, items, ghosts>>
  BY DEF Deprovision
<1>4. /\ JobSound(j)'
      /\ \E r \in Job \cup {NoJob} : job' = [job EXCEPT ![j] = r]
  BY <1>1, <1>2, <1>3, GoOnSound DEF Deprovision, ghosts
<1>5. OffboardTypes'
  BY <1>2, <1>3, <1>4 DEF OffboardIInv, OffboardTypes
<1>6. OneLiveItem' /\ AccessGone' /\ ItemsStored'
  BY <1>2, <1>3 DEF OffboardIInv, OneLiveItem, AccessGone, ItemsStored, ghosts
<1>7. \A s \in Jobs : JobSound(s)'
  <2>1. SUFFICES ASSUME NEW s \in Jobs, s # j
                 PROVE  JobSound(s)'
    BY <1>4
  <2>2. job'[s] = job[s] /\ ItemsGrow /\ AccessGuarded
    BY <1>3, <1>4, <2>1 DEF OffboardIInv, OffboardTypes, ItemsGrow, AccessGuarded, ghosts
  <2>3. QED BY <1>3, <2>2, JobKept DEF ghosts
<1>8. QED BY <1>5, <1>6, <1>7 DEF OffboardIInv

LEMMA GrantStep ==
  ASSUME OffboardIInv, NEW j \in Jobs, NEW i \in Identities, Regrant(j, i)
  PROVE  OffboardIInv'
<1>1. job[j] \in Job /\ JobSound(j) /\ job[j].step = "vendor" /\ job[j] # NoJob
  BY Running_ DEF Regrant
<1>2. PICK r : r = IF job[j].kind = "mint"
                   THEN [job[j] EXCEPT !.step = "map", !.queue = {i}] ELSE NoJob
  OBVIOUS
<1>3. job' = [job EXCEPT ![j] = r] /\ job'[j] = r
  BY <1>2 DEF Regrant, OffboardIInv, OffboardTypes
<1>4. /\ r \in Job \cup {NoJob}
      /\ r # NoJob => r.step = "map" /\ r.queue = {i} /\ r.item = job[j].item
  BY <1>1, <1>2 DEF Job
<1>5. UNCHANGED <<records, items, exposed>>
  BY DEF Regrant
<1>6. JobSound(j)'
  BY <1>1, <1>3, <1>4, <1>5 DEF JobSound, Hand, Confirmed, HeldIsExposed, MayFail, Running
<1>7. AccessGuarded /\ access' \subseteq Identities
  BY DEF Regrant, AccessGuarded, OffboardIInv, OffboardTypes
<1>8. QED BY <1>3, <1>4, <1>5, <1>6, <1>7, QuietStep DEF records, OffboardIInv, OffboardTypes

LEMMA MapStep ==
  ASSUME OffboardIInv, NEW j \in Jobs, Map(j) \/ GrantFails(j)
  PROVE  OffboardIInv'
<1>1. job[j] \in Job /\ JobSound(j) /\ job[j] # NoJob /\ job[j].person \in Persons
  BY Running_ DEF Map, GrantFails
<1>2. /\ job' = [job EXCEPT ![j] = NoJob] /\ job'[j] = NoJob
      /\ UNCHANGED <<status, deprov, access, items, ghosts>>
  BY DEF Map, GrantFails, records, OffboardIInv, OffboardTypes
<1>3. stored \subseteq stored' /\ stored' \subseteq Identities
  BY <1>1 DEF Map, GrantFails, records, JobSound, Hand, Running, OffboardIInv, OffboardTypes
<1>4. owner' \in [Identities -> Persons \cup {Nobody}]
  BY <1>1 DEF Map, GrantFails, records, OffboardIInv, OffboardTypes
<1>5. JobSound(j)'
  BY <1>2 DEF JobSound, Hand, Confirmed, HeldIsExposed, MayFail, Running
<1>6. QED BY <1>2, <1>3, <1>4, <1>5, QuietStep DEF ghosts, AccessGuarded, OffboardIInv, OffboardTypes

LEMMA TablesStep ==
  ASSUME OffboardIInv,
         \/ \E i \in Identities, p \in Persons \cup {Nobody} : SyncIdentity(i, p)
         \/ \E p, q \in Persons : Merge(p, q)
         \/ UNCHANGED offboardVars
  PROVE  OffboardIInv'
<1>1. ASSUME NEW i \in Identities, NEW p \in Persons \cup {Nobody}, SyncIdentity(i, p)
      PROVE  OffboardIInv'
  <2>1. stored' \subseteq Identities /\ owner' \in [Identities -> Persons \cup {Nobody}]
    BY <1>1 DEF SyncIdentity, OffboardIInv, OffboardTypes
  <2>2. QED BY <1>1, <2>1, TableStep DEF SyncIdentity, ghosts, AccessGuarded, OffboardIInv, OffboardTypes
<1>2. ASSUME NEW p \in Persons, NEW q \in Persons, Merge(p, q)
      PROVE  OffboardIInv'
  <2>1. /\ status' \in [Persons -> {"active", "offboarded", "archived"}]
        /\ owner' \in [Identities -> Persons \cup {Nobody}]
    BY <1>2 DEF Merge, OffboardIInv, OffboardTypes
  <2>2. QED BY <1>2, <2>1, TableStep DEF Merge, ghosts, AccessGuarded, OffboardIInv, OffboardTypes
<1>3. CASE UNCHANGED offboardVars
  BY <1>3, TableStep DEF offboardVars, records, ghosts, AccessGuarded, OffboardIInv, OffboardTypes
<1>4. QED BY <1>1, <1>2, <1>3

LEMMA CrashStep == ASSUME OffboardIInv, Crash PROVE OffboardIInv'
<1>1. \A j \in Jobs : job'[j] = NoJob
  BY DEF Crash
<1>2. UNCHANGED <<records, access, items, ghosts>>
  BY DEF Crash
<1>3. OffboardTypes'
  BY <1>2 DEF Crash, records, OffboardIInv, OffboardTypes
<1>4. OneLiveItem' /\ AccessGone' /\ ItemsStored'
  BY <1>2 DEF records, ghosts, OffboardIInv, OneLiveItem, AccessGone, ItemsStored
<1>5. \A j \in Jobs : JobSound(j)'
  BY <1>1 DEF JobSound, Hand, Confirmed, HeldIsExposed, MayFail, Running
<1>6. QED BY <1>3, <1>4, <1>5 DEF OffboardIInv

-----------------------------------------------------------------------------
(***************************************************************************)
(* The steps that change the items.                                        *)
(***************************************************************************)
\* The plan of a sweep numbers the identities it found, each once.
LEMMA Numbering ==
  ASSUME NEW Q, IsFiniteSet(Q), NEW f \in [1 .. Cardinality(Q) -> Q],
         \A i \in Q : \E n \in DOMAIN f : f[n] = i
  PROVE  /\ Cardinality(Q) \in Nat
         /\ \A m, n \in 1 .. Cardinality(Q) : f[m] = f[n] => m = n
<1>1. Cardinality(Q) \in Nat
  BY FS_CardinalityType
<1>2. IsFiniteSet(1 .. Cardinality(Q)) /\ Cardinality(1 .. Cardinality(Q)) = Cardinality(Q)
  BY <1>1, FS_Interval
<1>3. f \in Surjection(1 .. Cardinality(Q), Q)
  BY DEF Surjection
<1>4. f \in Injection(1 .. Cardinality(Q), Q)
  BY <1>2, <1>3, FS_SurjSameCardinalityImpliesInj
<1>5. QED BY <1>1, <1>4 DEF Injection, IsInjective

LEMMA PlanStep ==
  ASSUME OffboardIInv, NEW j \in Jobs, Plan(j)
  PROVE  OffboardIInv'
<1> DEFINE p == job[j].person
           N == Cardinality(Planned(p))
           Row(i) == [identity |-> i, person |-> p, status |-> "pending"]
<1>1. /\ job[j] \in Job /\ JobSound(j) /\ job[j].step = "plan" /\ job[j] # NoJob
      /\ p \in Persons
  BY Running_ DEF Plan
<1>2. Planned(p) \subseteq Identities /\ IsFiniteSet(Planned(p))
  <2>1. Planned(p) \subseteq Identities
    BY DEF Planned, OffboardIInv, OffboardTypes
  <2>2. QED BY <2>1, OffboardAssumption, FS_Subset
<1>3. PICK f \in [1 .. N -> Planned(p)] :
        /\ \A i \in Planned(p) : \E n \in DOMAIN f : f[n] = i
        /\ items' = items \o [n \in DOMAIN f |-> Row(f[n])]
  BY DEF Plan
<1>4. N \in Nat /\ \A m, n \in 1 .. N : f[m] = f[n] => m = n
  BY <1>2, <1>3, Numbering
<1>5. \A n \in 1 .. N : Row(f[n]) \in Items
  BY <1>1, <1>2 DEF Items
<1>6. /\ items' \in Seq(Items)
      /\ items \in Seq(Items) /\ Len(items) \in Nat
      /\ DOMAIN items = 1 .. Len(items)
      /\ DOMAIN items' = 1 .. (Len(items) + N)
      /\ \A k \in 1 .. Len(items) : items'[k] = items[k]
      /\ \A k \in DOMAIN items' : k \notin 1 .. Len(items) =>
           k - Len(items) \in 1 .. N /\ items'[k] = Row(f[k - Len(items)])
  <2> DEFINE new == [n \in 1 .. N |-> Row(f[n])]
  <2>1. DOMAIN f = 1 .. N
    OBVIOUS
  <2>2. new \in Seq(Items) /\ Len(new) = N /\ \A n \in 1 .. N : new[n] = Row(f[n])
    BY <1>4, <1>5
  <2>3. items' = items \o new /\ items \in Seq(Items)
    BY <1>3, <2>1 DEF OffboardIInv, OffboardTypes
  <2> HIDE DEF new, N, Row
  <2>4. QED BY <1>4, <2>2, <2>3
<1>7. /\ DOMAIN items \subseteq DOMAIN items'
      /\ \A k \in DOMAIN items : items'[k] = items[k]
      /\ \A k \in DOMAIN items' \ DOMAIN items :
           /\ items'[k].identity \in Planned(p) /\ items'[k].status = "pending"
           /\ k - Len(items) \in 1 .. N
           /\ items'[k].identity = f[k - Len(items)]
  <2> HIDE DEF N
  <2>1. QED BY <1>3, <1>4, <1>6
<1>8. UNCHANGED <<records, access, ghosts>>
  BY DEF Plan
<1>9. PICK r : r = [job[j] EXCEPT !.step = "mark"]
  OBVIOUS
<1>10. /\ r \in Job /\ r.step = "mark" /\ r.item = job[j].item
       /\ job' = [job EXCEPT ![j] = r] /\ job'[j] = r
  BY <1>1, <1>9 DEF Plan, Goto, OffboardIInv, OffboardTypes, Job
<1>11. OffboardTypes'
  BY <1>6, <1>8, <1>10 DEF records, OffboardIInv, OffboardTypes
<1>12. OneLiveItem'
  <2>1. SUFFICES ASSUME NEW k \in DOMAIN items', NEW n \in DOMAIN items',
                        items'[k].status # "removed", items'[n].status # "removed",
                        items'[k].identity = items'[n].identity
                 PROVE  k = n
    BY DEF OneLiveItem
  <2>a. \A i \in Planned(p), m \in DOMAIN items :
          items[m].identity = i => items[m].status = "removed"
    BY DEF Planned, LiveItem
  <2>2. CASE k \in DOMAIN items /\ n \in DOMAIN items
    BY <1>7, <2>1, <2>2 DEF OffboardIInv, OneLiveItem
  <2>3. CASE k \in DOMAIN items /\ n \notin DOMAIN items
    <3> HIDE DEF p
    <3>1. items'[k] = items[k] /\ items'[n].identity \in Planned(p)
      BY <1>7, <2>3
    <3>2. QED BY <2>1, <2>3, <2>a, <3>1
  <2>4. CASE k \notin DOMAIN items /\ n \in DOMAIN items
    <3> HIDE DEF p
    <3>1. items'[n] = items[n] /\ items'[k].identity \in Planned(p)
      BY <1>7, <2>4
    <3>2. QED BY <2>1, <2>4, <2>a, <3>1
  <2>5. CASE k \notin DOMAIN items /\ n \notin DOMAIN items
    <3> HIDE DEF N
    <3>1. k - Len(items) = n - Len(items)
      BY <1>4, <1>7, <2>1, <2>5
    <3>2. k \in Nat /\ n \in Nat /\ Len(items) \in Nat
      BY <1>4, <1>6
    <3>3. QED BY <3>1, <3>2
  <2>6. QED BY <2>2, <2>3, <2>4, <2>5
<1>13. AccessGone' /\ ItemsStored'
  BY <1>7, <1>8 DEF OffboardIInv, AccessGone, ItemsStored, Planned, records, ghosts
<1>14. ASSUME NEW s \in Jobs
       PROVE  JobSound(s)'
  <2>1. CASE s = j
    BY <1>1, <1>7, <1>10, <2>1 DEF JobSound, Hand, Confirmed, HeldIsExposed, MayFail, Running
  <2>2. CASE s # j
    <3>1. job'[s] = job[s] /\ ItemsGrow /\ AccessGuarded
      BY <1>7, <1>8, <1>10, <2>2 DEF OffboardIInv, OffboardTypes, ItemsGrow, AccessGuarded, ghosts
    <3>2. QED BY <1>7, <1>8, <3>1, JobKept DEF ghosts
  <2>3. QED BY <2>1, <2>2
<1>15. QED BY <1>11, <1>12, <1>13, <1>14 DEF OffboardIInv

\* A removal is recorded for an identity whose access is gone; whoever else could
\* still turn the item to failed exposes it.
LEMMA RecordStep ==
  ASSUME OffboardIInv, NEW j \in Jobs, Record(j)
  PROVE  OffboardIInv'
<1> DEFINE k == job[j].item
<1>1. /\ job[j] \in Job /\ JobSound(j) /\ job[j].step = "record" /\ job[j] # NoJob
  BY Running_ DEF Record, AtItem
<1>2. /\ k \in DOMAIN items /\ k \notin job[j].queue /\ job[j].queue \subseteq DOMAIN items
      /\ items[k].identity \notin access \ regranted
  BY <1>1 DEF JobSound, Hand, Confirmed, Running, IdentityAt
<1>3. /\ items' = [items EXCEPT ![k].status = "removed"]
      /\ exposed' = IF Holders(k) # {j} THEN exposed \cup {k} ELSE exposed
      /\ UNCHANGED <<records, access, regranted>>
  BY DEF Record
<1>4. /\ items' \in Seq(Items) /\ DOMAIN items' = DOMAIN items
      /\ \A n \in DOMAIN items : items'[n].identity = items[n].identity
      /\ \A n \in DOMAIN items : n # k => items'[n] = items[n]
      /\ items'[k].status = "removed"
  <2>1. items[k] \in Items /\ items \in Seq(Items)
    BY <1>2, ItemTyped DEF OffboardIInv, OffboardTypes
  <2>2. PICK x : x = [items[k] EXCEPT !.status = "removed"]
    OBVIOUS
  <2>3. x \in Items /\ x.identity = items[k].identity /\ x.status = "removed"
    BY <2>1, <2>2 DEF Items
  <2>4. items' = [items EXCEPT ![k] = x]
    BY <1>3, <2>2
  <2>5. QED BY <1>2, <2>1, <2>3, <2>4
<1>5. PICK r : r = [job[j] EXCEPT !.step = "deprovision"]
  OBVIOUS
<1>6. /\ r \in Job /\ r.step = "deprovision" /\ r.item = k /\ r.queue = job[j].queue
      /\ job' = [job EXCEPT ![j] = r] /\ job'[j] = r
  BY <1>1, <1>5 DEF Record, Goto, OffboardIInv, OffboardTypes, Job
<1>7. OffboardTypes'
  BY <1>3, <1>4, <1>6 DEF records, OffboardIInv, OffboardTypes
<1>8. OneLiveItem' /\ AccessGone' /\ ItemsStored'
  BY <1>2, <1>3, <1>4 DEF records, OffboardIInv, OneLiveItem, AccessGone, ItemsStored
<1>9. exposed \subseteq exposed'
  BY <1>3
<1>10. ASSUME NEW s \in Jobs
       PROVE  JobSound(s)'
  <2>1. CASE s = j
    <3>1. Hand(j)'
      BY <1>1, <1>2, <1>4, <1>6 DEF Hand, Running
    <3>2. Confirmed(j)'
      BY <1>2, <1>3, <1>4, <1>6 DEF Confirmed, Running, IdentityAt
    <3>3. HeldIsExposed(j)'
      BY <1>1, <1>2, <1>4, <1>6, <1>9 DEF JobSound, HeldIsExposed, MayFail, Running
    <3>4. QED BY <2>1, <3>1, <3>2, <3>3 DEF JobSound
  <2>2. CASE s # j
    <3>1. job'[s] = job[s] /\ ItemsGrow /\ AccessGuarded
      BY <1>3, <1>4, <1>6, <2>2 DEF OffboardIInv, OffboardTypes, ItemsGrow, AccessGuarded
    <3>2. ASSUME NEW n \in DOMAIN items, MayFail(s, n), items'[n].status = "removed"
          PROVE  items[n].status = "removed" \/ n \in exposed'
      <4>1. CASE n # k
        BY <1>4, <3>2, <4>1
      <4>2. CASE n = k
        <5>1. s \in Holders(k)
          BY <3>2, <4>2 DEF Holders, MayFail, Running
        <5>2. QED BY <1>3, <2>2, <4>2, <5>1
      <4>3. QED BY <4>1, <4>2
    <3>3. QED BY <1>9, <3>1, <3>2, JobKept
  <2>3. QED BY <2>1, <2>2
<1>11. QED BY <1>7, <1>8, <1>10 DEF OffboardIInv

LEMMA RecordFailureStep ==
  ASSUME OffboardIInv, NEW j \in Jobs, RecordFailure(j)
  PROVE  OffboardIInv'
<1> DEFINE k == job[j].item
           clash == \E n \in DOMAIN items \ {k} :
                      items[n].identity = items[k].identity /\ items[n].status # "removed"
<1>1. /\ job[j] \in Job /\ JobSound(j) /\ job[j].step = "fail" /\ job[j] # NoJob
  BY Running_ DEF RecordFailure, AtItem
<1>2. /\ k \in DOMAIN items /\ k \notin job[j].queue
      /\ job[j].queue \in SUBSET (DOMAIN items)
      /\ \A n \in job[j].queue : items[n].status = "removed" => n \in exposed
  BY <1>1 DEF JobSound, Hand, HeldIsExposed, MayFail, Running
<1>3. UNCHANGED <<records, access, ghosts>>
  BY DEF RecordFailure
<1>4. CASE clash
  <2>1. items' = items /\ job' = [job EXCEPT ![j] = NoJob] /\ job'[j] = NoJob
    BY <1>4 DEF RecordFailure, OffboardIInv, OffboardTypes
  <2>2. JobSound(j)'
    BY <2>1 DEF JobSound, Hand, Confirmed, HeldIsExposed, MayFail, Running
  <2>3. QED BY <1>3, <2>1, <2>2, QuietStep DEF records, ghosts, AccessGuarded, OffboardIInv, OffboardTypes
<1>5. CASE ~clash
  <2>1. items' = [items EXCEPT ![k].status = "failed"] /\ Continue(j, job[j].queue)
    BY <1>5 DEF RecordFailure
  <2>2. /\ items' \in Seq(Items) /\ DOMAIN items' = DOMAIN items
        /\ \A n \in DOMAIN items : items'[n].identity = items[n].identity
        /\ \A n \in DOMAIN items : n # k => items'[n] = items[n]
        /\ items'[k].status = "failed"
    <3>1. items[k] \in Items /\ items \in Seq(Items)
      BY <1>2, ItemTyped DEF OffboardIInv, OffboardTypes
    <3>2. PICK x : x = [items[k] EXCEPT !.status = "failed"]
      OBVIOUS
    <3>3. x \in Items /\ x.identity = items[k].identity /\ x.status = "failed"
      BY <3>1, <3>2 DEF Items
    <3>4. items' = [items EXCEPT ![k] = x]
      BY <2>1, <3>2
    <3>5. QED BY <1>2, <3>1, <3>3, <3>4
  <2>3. PICK r : /\ r = IF job[j].queue = {} THEN NoJob
                        ELSE [job[j] EXCEPT !.queue = job[j].queue, !.item = 0, !.step = "next"]
                 /\ job' = [job EXCEPT ![j] = r] /\ job'[j] = r
    BY <2>1 DEF Continue, OffboardIInv, OffboardTypes
  <2>4. r \in Job \cup {NoJob}
    BY <1>1, <2>3 DEF Job
  <2>5. job[j].queue # {} => r.queue = job[j].queue /\ r.item = 0 /\ r.step = "next"
    BY <1>1, <2>3 DEF Job
  <2>6. OffboardTypes'
    BY <1>3, <2>2, <2>3, <2>4 DEF records, OffboardIInv, OffboardTypes
  <2>7. OneLiveItem'
    BY <1>2, <1>5, <2>2 DEF OffboardIInv, OneLiveItem
  <2>8. AccessGone'
    <3>1. SUFFICES ASSUME NEW n \in DOMAIN items, items[n].identity \in access \ regranted
                   PROVE  items'[n].status # "removed" /\ items[n].identity \notin deprov
      BY <1>3, <2>2 DEF AccessGone, records, ghosts
    <3>2. items[n].status # "removed" /\ items[n].identity \notin deprov
      BY <3>1 DEF OffboardIInv, AccessGone
    <3>3. QED BY <2>2, <3>2
  <2>9. ItemsStored'
    BY <1>3, <2>2 DEF OffboardIInv, ItemsStored, records
  <2>10. ASSUME NEW s \in Jobs
         PROVE  JobSound(s)'
    <3>1. CASE s = j /\ job[j].queue = {}
      <4>1. job'[j] = NoJob
        BY <2>3, <3>1
      <4>2. QED BY <3>1, <4>1 DEF JobSound, Hand, Confirmed, HeldIsExposed, MayFail, Running
    <3>2. CASE s = j /\ job[j].queue # {}
      <4>1. /\ job'[j].queue = job[j].queue /\ job'[j].item = 0 /\ job'[j].step = "next"
        BY <2>3, <2>5, <3>2
      <4>2. \A n \in job[j].queue : items'[n].status = "removed" => n \in exposed
        BY <1>2, <2>2
      <4>3. QED BY <1>2, <1>3, <2>2, <3>2, <4>1, <4>2
             DEF JobSound, Hand, Confirmed, HeldIsExposed, MayFail, Running, ghosts
    <3>3. CASE s # j
      <4>1. job'[s] = job[s] /\ ItemsGrow /\ AccessGuarded
        BY <1>3, <2>2, <2>3, <3>3 DEF OffboardIInv, OffboardTypes, ItemsGrow, AccessGuarded, ghosts
      <4>2. \A n \in DOMAIN items : items'[n].status = "removed" => items[n].status = "removed"
        BY <2>2
      <4>3. QED BY <1>3, <4>1, <4>2, JobKept DEF ghosts
    <3>4. QED BY <3>1, <3>2, <3>3
  <2>11. QED BY <2>6, <2>7, <2>8, <2>9, <2>10 DEF OffboardIInv
<1>6. QED BY <1>4, <1>5

-----------------------------------------------------------------------------
LEMMA OffboardInductive == OffboardIInv /\ [OffboardNext]_offboardVars => OffboardIInv'
<1> SUFFICES ASSUME OffboardIInv, [OffboardNext]_offboardVars PROVE OffboardIInv'
  OBVIOUS
<1>1. ASSUME NEW j \in Jobs, Step(j) \/ CallFails(j) \/ UpdateFails(j) \/ GrantFails(j)
      PROVE  OffboardIInv'
  BY <1>1, PlanStep, MarkStep, ListStep, CallStep, RecordStep, DeprovisionStep,
     RecordFailureStep, GrantStep, MapStep, UpdateFailsStep DEF Step
<1>2. ASSUME NEW j \in Jobs, NEW p \in Persons, NEW kind \in {"invite", "mint"},
             Sweep(j, p) \/ Join(j, p, kind)
      PROVE  OffboardIInv'
  BY <1>2, BeginStep
<1>3. ASSUME NEW j \in Jobs, NEW k \in DOMAIN items, RetryItem(j, k)
      PROVE  OffboardIInv'
  BY <1>3, RetryStep
<1>4. QED BY <1>1, <1>2, <1>3, TablesStep, CrashStep DEF OffboardNext

LEMMA OffboardStarts == OffboardInit => OffboardIInv
<1> SUFFICES ASSUME OffboardInit PROVE OffboardIInv
  OBVIOUS
<1>1. OffboardTypes
  BY OffboardAssumption DEF OffboardInit, OffboardTypes
<1>2. items = <<>> /\ \A j \in Jobs : job[j] = NoJob
  BY DEF OffboardInit
<1>3. OneLiveItem /\ AccessGone /\ ItemsStored
  BY <1>2 DEF OneLiveItem, AccessGone, ItemsStored
<1>4. QED BY <1>1, <1>2, <1>3, IdleSound DEF OffboardIInv

THEOREM OffboardInvariance == OffboardSpec => []OffboardIInv
<1>1. QED BY OffboardStarts, OffboardInductive, PTL DEF OffboardSpec

\* What is recorded as removed, or as deprovisioned, the vendor honours no more,
\* unless an invite gave it back; the tables have their types, and no identity
\* has two live items.
THEOREM RemovedStaysGone == OffboardSpec => []RemovedIsGone
<1>1. OffboardIInv => RemovedIsGone
  <2>1. OffboardIInv => OffboardTypeOK
    BY DEF OffboardIInv, OffboardTypes, OneLiveItem, JobSound, Hand, OffboardTypeOK
  <2>2. QED BY <2>1 DEF OffboardIInv, AccessGone, RemovedIsGone
<1>2. QED BY <1>1, OffboardInvariance, PTL

\* A removed item turns to failed only if another job held it when it was
\* removed, or the job that removed it failed on the identity.
THEOREM UndoneByOverlaps == OffboardSpec => OnlyOverlapsUndo
<1>1. ASSUME OffboardIInv, [OffboardNext]_offboardVars, NEW k \in DOMAIN items,
             items[k].status = "removed", items'[k].status = "failed"
      PROVE  k \in exposed
  <2>1. k \in 1 .. Len(items)
    BY <1>1, ItemTyped
  <2>2. ASSUME NEW j \in Jobs, RecordFailure(j)
        PROVE  k \in exposed
    <3>1. job[j].item = k
      <4>1. items' = items \/ items' = [items EXCEPT ![job[j].item].status = "failed"]
        BY <2>2 DEF RecordFailure
      <4>2. QED BY <1>1, <4>1
    <3>2. Running(j, {"fail"}) /\ HeldIsExposed(j)
      BY <1>1, <2>2 DEF RecordFailure, AtItem, Running, OffboardIInv, JobSound
    <3>3. QED BY <1>1, <3>1, <3>2 DEF HeldIsExposed, MayFail, Running
  <2>3. ASSUME NEW j \in Jobs, Record(j)
        PROVE  FALSE
    <3>1. items' = [items EXCEPT ![job[j].item].status = "removed"]
      BY <2>3 DEF Record
    <3>2. CASE k = job[j].item
      <4>1. items[k] \in Items
        BY <1>1, ItemTyped
      <4>2. items'[k].status = "removed"
        BY <1>1, <3>1, <3>2, <4>1 DEF Items
      <4>3. QED BY <1>1, <4>2
    <3>3. CASE k # job[j].item
      BY <1>1, <3>1, <3>3
    <3>4. QED BY <3>2, <3>3
  <2>4. ASSUME NEW j \in Jobs, Plan(j)
        PROVE  FALSE
    <3>1. PICK new \in Seq(Items) : items' = items \o new
      <4>1. job[j].person \in Persons
        BY <1>1, <2>4, Running_ DEF Plan
      <4>2. Planned(job[j].person) \subseteq Identities /\ IsFiniteSet(Planned(job[j].person))
        <5>1. Planned(job[j].person) \subseteq Identities
          BY <1>1 DEF Planned, OffboardIInv, OffboardTypes
        <5>2. QED BY <5>1, OffboardAssumption, FS_Subset
      <4>3. PICK n \in Nat : n = Cardinality(Planned(job[j].person))
        BY <4>2, FS_CardinalityType
      <4>4. PICK f \in [1 .. n -> Planned(job[j].person)] :
              items' = items \o [m \in DOMAIN f |->
                [identity |-> f[m], person |-> job[j].person, status |-> "pending"]]
        BY <2>4, <4>3 DEF Plan
      <4>5. DOMAIN f = 1 .. n
        OBVIOUS
      <4>6. \A m \in 1 .. n : [identity |-> f[m], person |-> job[j].person,
                               status |-> "pending"] \in Items
        BY <4>1, <4>2 DEF Items
      <4>7. [m \in DOMAIN f |-> [identity |-> f[m], person |-> job[j].person,
                                 status |-> "pending"]] \in Seq(Items)
        BY <4>5, <4>6
      <4>8. QED BY <4>4, <4>7
    <3>2. items \in Seq(Items)
      BY <1>1 DEF OffboardIInv, OffboardTypes
    <3>3. items'[k] = items[k]
      BY <2>1, <3>1, <3>2
    <3>4. QED BY <1>1, <3>3
  <2>5. CASE items' = items
    BY <1>1, <2>5
  <2>6. ASSUME NEW j \in Jobs, Step(j), ~Plan(j), ~Record(j), ~RecordFailure(j)
        PROVE  items' = items
    BY <2>6 DEF Step, MarkItems, List, CallVendor, Deprovision, Regrant, Map
  <2>7. ASSUME ~ \E j \in Jobs : Step(j)
        PROVE  items' = items
    BY <1>1, <2>7 DEF OffboardNext, CallFails, UpdateFails, GrantFails, Sweep, Join, RetryItem,
       SyncIdentity, Merge, Crash, offboardVars
  <2>8. QED BY <2>2, <2>3, <2>4, <2>5, <2>6, <2>7
<1>2. OffboardIInv /\ [OffboardNext]_offboardVars =>
        [\A k \in DOMAIN items :
           items[k].status = "removed" /\ items'[k].status = "failed" => k \in exposed]_offboardVars
  BY <1>1
<1>3. QED BY <1>2, OffboardInvariance, PTL DEF OffboardSpec, OnlyOverlapsUndo

=============================================================================
