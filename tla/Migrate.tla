------------------------------- MODULE Migrate -------------------------------
(***************************************************************************)
(* The migration runner every container runs before its server             *)
(* (scripts/migrate.mjs). Containers boot side by side, of images with      *)
(* different files; the database may still be starting, or not exist; a     *)
(* boot may be killed anywhere, which ends its session and with it its lock *)
(* and its open transaction. Of two that create the database at the same    *)
(* moment one fails. What a file's SQL does is abstracted to the file's     *)
(* name, and it fails where it was run before (it creates tables).          *)
(***************************************************************************)
EXTENDS Integers, FiniteSetsExt

CONSTANTS
  Boots,      \* boots of containers
  FilesOf,    \* boot -> the migrations of its image, numbered by name
  Broken,     \* the files whose SQL is refused
  MaxKills,   \* bound: boots killed, or started again after they failed
  NoBoot

ASSUME MigrateAssumption ==
  NoBoot \notin Boots /\ (\A b \in Boots : FilesOf[b] \subseteq Nat)

VARIABLES
  server,    \* "starting" | "empty" (no database of that name) | "up"
  schema,    \* the files whose SQL is in effect
  applied,  \* schema_migrations
  held,      \* who holds the advisory lock
  boot,      \* [at, done]: where each boot is, and what it takes for applied
  collided,  \* history: failed boots that created the database beside another
  kills

migrateVars == <<server, schema, applied, held, boot, collided, kills>>

NewBoot == [at |-> "connecting", done |-> {}]

MigrateInit ==
  /\ server = "starting"
  /\ schema = {} /\ applied = {}
  /\ held = NoBoot
  /\ boot = [b \in Boots |-> NewBoot]
  /\ collided = {} /\ kills = 0

GoesTo(b, at) == boot' = [boot EXCEPT ![b].at = at]
Unlock(b) == held' = IF held = b THEN NoBoot ELSE held

\* Postgres is up, without the database of the app
ServerStarts ==
  /\ server = "starting" /\ server' = "empty"
  /\ UNCHANGED <<schema, applied, held, boot, collided, kills>>

\* an attempt to connect: while the server starts it is repeated, up to a
\* deadline; a missing database is created
connectToDatabase(b) ==
  /\ boot[b].at = "connecting"
  /\ GoesTo(b, CASE server = "starting" -> "gaveUp" [] server = "empty" -> "creating" [] OTHER -> "locking")
  /\ UNCHANGED <<server, schema, applied, held, collided, kills>>

\* CREATE DATABASE looks for the name: another boot may have been first, which
\* is as good (42P04)
createTargetDatabase(b) ==
  /\ boot[b].at = "creating"
  /\ GoesTo(b, IF server = "up" THEN "connecting" ELSE "inserting")
  /\ UNCHANGED <<server, schema, applied, held, collided, kills>>

\* and then enters it: the unique name refuses the second of two that both found
\* nothing (23505), and that boot ends
InsertDatabase(b) ==
  /\ boot[b].at = "inserting"
  /\ IF server = "up"
     THEN GoesTo(b, "failed") /\ collided' = collided \cup {b} /\ UNCHANGED server
     ELSE GoesTo(b, "connecting") /\ server' = "up" /\ UNCHANGED collided
  /\ UNCHANGED <<schema, applied, held, kills>>

\* mutant: the boots do not wait for each other
TakeLock_Shared(b) == UNCHANGED held

TakeLock(b) == held = NoBoot /\ held' = b

\* the lock, then what is applied already
ReadDone(b) ==
  /\ boot[b].at = "locking"
  /\ TakeLock(b)
  /\ boot' = [boot EXCEPT ![b] = [at |-> "applying", done |-> applied]]
  /\ UNCHANGED <<server, schema, applied, collided, kills>>

Pending(b) == FilesOf[b] \ boot[b].done

\* one transaction: the file's SQL and its row
ApplyFile(b) ==
  /\ boot[b].at = "applying" /\ Pending(b) # {}
  /\ LET f == Min(Pending(b))
     IN  IF f \in Broken \/ f \in schema
         THEN GoesTo(b, "failed") /\ Unlock(b) /\ UNCHANGED <<schema, applied>>
         ELSE /\ schema' = schema \cup {f}
              /\ applied' = applied \cup {f}
              /\ boot' = [boot EXCEPT ![b].done = @ \cup {f}]
              /\ UNCHANGED held
  /\ UNCHANGED <<server, collided, kills>>

\* all applied: the lock goes and the server of the container starts
UpToDate(b) ==
  /\ boot[b].at = "applying" /\ Pending(b) = {}
  /\ GoesTo(b, "serving") /\ Unlock(b)
  /\ UNCHANGED <<server, schema, applied, collided, kills>>

\* the container is killed, or started again after it failed
RestartBoot(b) ==
  /\ kills < MaxKills
  /\ kills' = kills + 1
  /\ boot' = [boot EXCEPT ![b] = NewBoot]
  /\ Unlock(b)
  /\ collided' = collided \ {b}
  /\ UNCHANGED <<server, schema, applied>>

BootStep(b) ==
  \/ connectToDatabase(b) \/ createTargetDatabase(b) \/ InsertDatabase(b)
  \/ ReadDone(b) \/ ApplyFile(b) \/ UpToDate(b)

MigrateNext == ServerStarts \/ \E b \in Boots : BootStep(b) \/ RestartBoot(b)

\* The server starts; a boot that can go on does; the lock is
\* held only for a while, so who waits for it gets it.
MigrateFair == WF_migrateVars(ServerStarts) /\ \A b \in Boots : WF_migrateVars(BootStep(b))

\* A container serves only when each of its files is applied; files and rows
\* agree; a file is applied after those before it (migrate.mjs: "the container
\* never starts on a half-applied schema").
ServesMigrated ==
  /\ schema = applied
  /\ \A b \in Boots : boot[b].at = "serving" => FilesOf[b] \subseteq schema
  /\ \A f \in schema : \E b \in Boots :
       f \in FilesOf[b] /\ \A g \in FilesOf[b] : g < f => g \in schema

\* Boots side by side do not fail each other once the database exists: one fails
\* over a broken file, or for having created the database at the same moment as
\* another one, and then not again when it is restarted.
NoNeedlessFailure ==
  \A b \in Boots : boot[b].at = "failed" => FilesOf[b] \cap Broken # {} \/ b \in collided

\* Every boot has ended: it serves, or has given up on the server or a file.
\* It holds for good soon after the last restart.
BootsEnd == \A b \in Boots : boot[b].at \in {"serving", "failed", "gaveUp"}
=============================================================================
