------------------------------ MODULE Migrations ------------------------------
(***************************************************************************)
(* "headwaters migrate" against servers that check the schema as they      *)
(* start (run.rs: migrate, ensure_schema_current, check_applied), during   *)
(* deployments of different builds.  sqlx applies each migration and       *)
(* records it in one transaction, under a session advisory lock that ends  *)
(* with the process.  A build is the sequence of the checksums of its      *)
(* migrations.                                                             *)
(***************************************************************************)
EXTENDS Naturals, Sequences

CONSTANTS
  Migrators, Servers,  \* processes
  Checksums,           \* the migrations there are
  Build,               \* Build[p]: the migrations embedded in p's binary
  Databases,           \* the databases it may begin with
  MaxCrashes,          \* bound: processes that crash or are stopped
  Null

Processes == Migrators \cup Servers

\* The migrations of a build are numbered from 1 without gaps, and applied in
\* that order.
Database == [table : BOOLEAN, applied : Seq(Checksums), dirty : BOOLEAN]

ASSUME MigrationsAssumption ==
  /\ Migrators \cap Servers = {} /\ Null \notin Processes
  /\ Build \in [Processes -> Seq(Checksums)]
  /\ Databases \subseteq Database
  /\ MaxCrashes \in Nat

VARIABLES
  db,      \* [table, applied, dirty]: _sqlx_migrations and what it records
  lock,    \* the holder of the advisory lock, or Null
  stage,   \* stage[p]: where process p is
  crashes  \* number of crashes

migrationsVars == <<db, lock, stage, crashes>>

MigrationsInit ==
  /\ db \in Databases
  /\ lock = Null /\ crashes = 0
  /\ stage = [p \in Processes |-> "start"]

MoveTo(p, label) == stage' = [stage EXCEPT ![p] = label]
Acquire(p) == lock = Null /\ lock' = p
Release(p) == lock' = IF lock = p THEN Null ELSE lock

-------------------------------------------------------------------------------
(* What the tables say to a build *)

Known(build) == Len(db.applied) <= Len(build)
Drifted(build) ==
  \E v \in DOMAIN db.applied \cap DOMAIN build : db.applied[v] # build[v]
Pending(build) == DOMAIN build \ DOMAIN db.applied

check_applied(build) ==
  ~ db.dirty /\ Known(build) /\ ~ Drifted(build) /\ Pending(build) = {}

-------------------------------------------------------------------------------
(* headwaters migrate (the migrator is sqlx's) *)

MigrateLock(m) ==
  /\ stage[m] = "start" /\ Acquire(m)
  /\ MoveTo(m, "locked")
  /\ UNCHANGED <<db, crashes>>

\* The table is created if need be; then the same checks, pending ones aside.
MigrateValidate(m) ==
  /\ stage[m] = "locked"
  /\ db' = [db EXCEPT !.table = TRUE]
  /\ IF ~ db.dirty /\ Known(Build[m]) /\ ~ Drifted(Build[m])
     THEN MoveTo(m, "applying") /\ UNCHANGED lock
     ELSE MoveTo(m, "refused") /\ Release(m)
  /\ UNCHANGED crashes

ApplyNext(m) ==
  /\ stage[m] = "applying" /\ Pending(Build[m]) # {}
  /\ db' = [db EXCEPT !.applied = Append(@, Build[m][Len(@) + 1])]
  /\ UNCHANGED <<lock, stage, crashes>>

MigrateDone(m) ==
  /\ stage[m] = "applying" /\ Pending(Build[m]) = {}
  /\ MoveTo(m, "done") /\ Release(m)
  /\ UNCHANGED <<db, crashes>>

\* "running this repeatedly (e.g. once per deploy) is safe"
MigrateAgain(m) ==
  /\ stage[m] \in {"done", "refused"}
  /\ MoveTo(m, "start")
  /\ UNCHANGED <<db, lock, crashes>>

-------------------------------------------------------------------------------
(* ensure_schema_current *)

Probe(s) ==
  /\ stage[s] = "start"
  /\ MoveTo(s, IF db.table THEN "wait" ELSE "refused")
  /\ UNCHANGED <<db, lock, crashes>>

\* Mutation: the applied migrations are read without the lock.
CheckLockNone(s) ==
  /\ stage[s] = "wait"
  /\ MoveTo(s, "check")
  /\ UNCHANGED <<db, lock, crashes>>
CheckLock(s) ==
  /\ stage[s] = "wait" /\ Acquire(s)
  /\ MoveTo(s, "check")
  /\ UNCHANGED <<db, crashes>>

Check(s) ==
  /\ stage[s] = "check"
  /\ MoveTo(s, IF check_applied(Build[s]) THEN "current" ELSE "outdated")
  /\ UNCHANGED <<db, lock, crashes>>

\* Mutation: a passed check returns before the unlock.
UnlockFailedOnly(s) ==
  /\ stage[s] \in {"current", "outdated"}
  /\ MoveTo(s, IF stage[s] = "current" THEN "serving" ELSE "refused")
  /\ IF stage[s] = "current" THEN UNCHANGED lock ELSE Release(s)
  /\ UNCHANGED <<db, crashes>>
Unlock(s) ==
  /\ stage[s] \in {"current", "outdated"}
  /\ MoveTo(s, IF stage[s] = "current" THEN "serving" ELSE "refused")
  /\ Release(s)
  /\ UNCHANGED <<db, crashes>>

\* A server that refused to start is started again.
Restart(s) ==
  /\ stage[s] = "refused"
  /\ MoveTo(s, "start")
  /\ UNCHANGED <<db, lock, crashes>>

\* A process ends anywhere, its connection with it, and is started again.
ProcessEnds(p) ==
  /\ crashes < MaxCrashes /\ stage[p] \notin {"start", "refused", "done"}
  /\ crashes' = crashes + 1
  /\ MoveTo(p, "start") /\ Release(p)
  /\ UNCHANGED db

Migrate(m) == MigrateValidate(m) \/ ApplyNext(m) \/ MigrateDone(m)
Serve(s) == Probe(s) \/ Check(s) \/ Unlock(s) \/ Restart(s)

MigrationsNext ==
  \/ \E m \in Migrators : MigrateLock(m) \/ Migrate(m) \/ MigrateAgain(m)
  \/ \E s \in Servers : CheckLock(s) \/ Serve(s)
  \/ \E p \in Processes : ProcessEnds(p)

MigrationsSpec == MigrationsInit /\ [][MigrationsNext]_migrationsVars

\* Processes run, the orchestrator restarts them, and the database hands the
\* lock to the waiting in turn.
FairMigrations ==
  /\ MigrationsSpec
  /\ \A m \in Migrators : WF_migrationsVars(Migrate(m)) /\ SF_migrationsVars(MigrateLock(m))
  /\ \A s \in Servers : WF_migrationsVars(Serve(s)) /\ SF_migrationsVars(CheckLock(s))

-------------------------------------------------------------------------------
(* Properties *)

\* "a server that starts is guaranteed to be on exactly the schema its binary
\* expects": at the step that lets it serve, whatever migrates meanwhile.
StartsOnExactlyItsSchema ==
  [][\A s \in Servers : stage[s] # "serving" /\ stage'[s] = "serving"
       => db'.applied = Build[s] /\ ~ db'.dirty]_migrationsVars

\* A server of the newest build starts in the end, through crashes of the
\* migrators, restarts of older servers and waiting for the lock, unless the
\* database needs repair (no check strands the lock).
Repairable(s) ==
  /\ \A p \in Processes : Len(Build[p]) <= Len(Build[s])
  /\ \E m \in Migrators : Build[m] = Build[s]
  /\ ~ db.dirty /\ Known(Build[s]) /\ ~ Drifted(Build[s])
EventuallyServes == \A s \in Servers : Repairable(s) ~> stage[s] = "serving"

-------------------------------------------------------------------------------
(* The inductive invariant behind StartsOnExactlyItsSchema *)

MigrationsTypeOK ==
  /\ db \in Database
  /\ lock \in Processes \cup {Null}
  /\ stage \in [Processes -> {"start", "locked", "applying", "done", "refused", "wait",
                              "check", "current", "outdated", "serving"}]
  /\ crashes \in Nat

\* Whoever reads or writes _sqlx_migrations after the probe holds the lock.
LockHeld ==
  \A p \in Processes :
    stage[p] \in {"locked", "applying", "check", "current", "outdated"} => lock = p

\* What a server has found is still so when it acts on it.
FindingIsFresh ==
  \A s \in Servers : stage[s] = "current" => db.applied = Build[s] /\ ~ db.dirty

MigrationsIInv == MigrationsTypeOK /\ LockHeld /\ FindingIsFresh
==============================================================================
