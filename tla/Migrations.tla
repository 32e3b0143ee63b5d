----------------------------- MODULE Migrations -----------------------------
(***************************************************************************)
(* Versioned migrations: backend/db/migrate.go, migrate_cmd.go, and what   *)
(* main.go does with them at boot and before it starts the finance module. *)
(*                                                                         *)
(* Several processes share a database: services that boot, each from the   *)
(* binary of some deploy, and "migrate apply" commands.  A run takes a     *)
(* session lock on one connection, reads the status through the pool, and  *)
(* applies what is pending on the locked connection, one transaction per   *)
(* version.  A process may die and a connection may break at any point;    *)
(* the server then frees the lock.                                         *)
(*                                                                         *)
(* Versions are 1, 2, ...; a binary embeds the first `top` of them, some   *)
(* edited since they were written.                                         *)
(***************************************************************************)
EXTENDS Naturals

CONSTANTS
  Processes,
  NoProcess,
  LastVersion,
  FinanceVersion,   \* web.FinanceMigration
  Binaries,         \* [top : how many migrations it embeds, edited : which of them]
  MaxRuns,          \* bound: processes started
  MaxBreaks         \* bound: crashes, broken connections and failed statements

Baseline == 1
Versions == 1..LastVersion

ASSUME MigrationAssumption ==
  /\ NoProcess \notin Processes
  /\ LastVersion \in Nat \ {0}
  /\ FinanceVersion \in Versions
  /\ Binaries \subseteq [top : Versions, edited : SUBSET Versions]
  /\ MaxRuns \in Nat /\ MaxBreaks \in Nat

VARIABLES
  effects,    \* version -> how often its SQL took effect
  recorded,   \* version -> its checksum in schema_migrations, or "none"
  appliedBy,  \* version -> the kind of run that applied it
  migLock,    \* the session that holds the advisory lock 727001
  proc,       \* process -> its run
  served,     \* processes that started the finance module
  runs, breaks

schemaVars == <<effects, recorded, appliedBy>>
migrationVars == <<schemaVars, migLock, proc, served, runs, breaks>>

IdleProc == [pc |-> "down", kind |-> "none", binary |-> [top |-> Baseline, edited |-> {}],
             upTo |-> 0, done |-> {}, connected |-> FALSE]

MigrationInit ==
  /\ effects = [v \in Versions |-> 0]
  /\ recorded = [v \in Versions |-> "none"]
  /\ appliedBy = [v \in Versions |-> "none"]
  /\ migLock = NoProcess
  /\ proc = [p \in Processes |-> IdleProc]
  /\ served = {}
  /\ runs = 0 /\ breaks = 0

Applied == {v \in Versions : recorded[v] # "none"}

Checksum(b, v) == IF v \in b.edited THEN "edited" ELSE "original"

Embedded(p) == 1..proc[p].binary.top

(* A migration that was applied and edited afterwards. (MigrationStatus)   *)
Modified(p) == {v \in Embedded(p) \cap Applied : recorded[v] # Checksum(proc[p].binary, v)}

(* What the run has still to apply, from the status it read.               *)
Remaining(p) == {v \in Embedded(p) : v <= proc[p].upTo /\ v \notin proc[p].done}

(* Mutant: the latest first.                                               *)
NextVersionLatest(p) == CHOOSE v \in Remaining(p) : \A w \in Remaining(p) : w <= v

NextVersion(p) == CHOOSE v \in Remaining(p) : \A w \in Remaining(p) : v <= w

(* The server frees the lock of a session that ends.                       *)
Unlocked(p) == IF migLock = p THEN NoProcess ELSE migLock

Break == breaks < MaxBreaks /\ breaks' = breaks + 1

EndsRun(p) == proc' = [proc EXCEPT ![p] = IdleProc] /\ migLock' = Unlocked(p)

-----------------------------------------------------------------------------
(* EnsureBaseline at boot, or "migrate apply [version]".                   *)
StartRun(p, kind, b, upTo) ==
  /\ proc[p].pc = "down"
  /\ runs < MaxRuns
  /\ runs' = runs + 1
  /\ proc' = [proc EXCEPT ![p] = [pc |-> "lock", kind |-> kind, binary |-> b,
                                  upTo |-> IF kind = "boot" THEN Baseline ELSE upTo,
                                  done |-> {}, connected |-> TRUE]]
  /\ UNCHANGED <<schemaVars, migLock, served, breaks>>

(* Mutant: the lock is not waited for.                                     *)
LockMigrationsUnheld(p) ==
  /\ proc[p].pc = "lock"
  /\ proc' = [proc EXCEPT ![p].pc = "status"]
  /\ UNCHANGED <<schemaVars, migLock, served, runs, breaks>>

(* pg_advisory_lock on the acquired connection.                            *)
LockMigrations(p) ==
  /\ proc[p].pc = "lock"
  /\ IF proc[p].connected
     THEN /\ migLock = NoProcess
          /\ migLock' = p
          /\ proc' = [proc EXCEPT ![p].pc = "status"]
     ELSE EndsRun(p)
  /\ UNCHANGED <<schemaVars, served, runs, breaks>>

(* MigrationStatus, through the pool: it works while the locked connection *)
(* is broken. A modified migration refuses the run, and a boot with it.    *)
ReadStatus(p) ==
  /\ proc[p].pc = "status"
  /\ IF Modified(p) = {}
     THEN /\ proc' = [proc EXCEPT ![p].pc = "apply", ![p].done = Applied]
          /\ UNCHANGED migLock
     ELSE EndsRun(p)
  /\ UNCHANGED <<schemaVars, served, runs, breaks>>

(* One transaction: the SQL and the row of schema_migrations.              *)
Commit(p, v) ==
  /\ effects' = [effects EXCEPT ![v] = @ + 1]
  /\ recorded' = [recorded EXCEPT ![v] = Checksum(proc[p].binary, v)]
  /\ appliedBy' = [appliedBy EXCEPT ![v] = proc[p].kind]

(* The statements can go through: the connection lives, and the version is *)
(* new to the table's primary key.                                         *)
CanApply(p, v) == proc[p].connected /\ recorded[v] = "none"

ApplyNext(p) ==
  /\ proc[p].pc = "apply"
  /\ Remaining(p) # {}
  /\ LET v == NextVersion(p)
     IN IF CanApply(p, v)
        THEN /\ Commit(p, v)
             /\ proc' = [proc EXCEPT ![p].done = @ \cup {v}]
             /\ UNCHANGED migLock
        ELSE EndsRun(p) /\ UNCHANGED schemaVars
  /\ UNCHANGED <<served, runs, breaks>>

(* The SQL fails and is rolled back, or the commit succeeds and its answer *)
(* is lost; either way the run returns an error.                           *)
ApplyFails(p) ==
  /\ proc[p].pc = "apply"
  /\ Remaining(p) # {}
  /\ Break
  /\ \/ UNCHANGED schemaVars
     \/ CanApply(p, NextVersion(p)) /\ Commit(p, NextVersion(p))
  /\ EndsRun(p)
  /\ UNCHANGED <<served, runs>>

(* Nothing left: the deferred unlock runs; the service goes on, the        *)
(* command exits.                                                          *)
FinishRun(p) ==
  /\ proc[p].pc = "apply"
  /\ Remaining(p) = {}
  /\ migLock' = Unlocked(p)
  /\ proc' = [proc EXCEPT ![p] = IF @.kind = "boot" THEN [@ EXCEPT !.pc = "running", !.connected = FALSE]
                                                      ELSE IdleProc]
  /\ UNCHANGED <<schemaVars, served, runs, breaks>>

BreakConnection(p) ==
  /\ proc[p].connected
  /\ Break
  /\ proc' = [proc EXCEPT ![p].connected = FALSE]
  /\ migLock' = Unlocked(p)
  /\ UNCHANGED <<schemaVars, served, runs>>

Die(p) ==
  /\ proc[p].pc # "down"
  /\ Break
  /\ EndsRun(p)
  /\ served' = served \ {p}
  /\ UNCHANGED <<schemaVars, runs>>

(* startFinance polls IsApplied.                                           *)
FinanceMigrated == recorded[FinanceVersion] # "none"

StartFinance(p) ==
  /\ proc[p].pc = "running"
  /\ p \notin served
  /\ FinanceMigrated
  /\ served' = served \cup {p}
  /\ UNCHANGED <<schemaVars, migLock, proc, runs, breaks>>

MigrationNext ==
  \E p \in Processes :
    \/ \E kind \in {"boot", "apply"}, b \in Binaries, upTo \in Versions : StartRun(p, kind, b, upTo)
    \/ LockMigrations(p) \/ ReadStatus(p) \/ ApplyNext(p) \/ ApplyFails(p) \/ FinishRun(p)
    \/ BreakConnection(p) \/ Die(p) \/ StartFinance(p)

MigrationSpec == MigrationInit /\ [][MigrationNext]_migrationVars

-----------------------------------------------------------------------------
(* Properties.                                                             *)

Checksums == {"original", "edited"}

ProcessRuns ==
  [pc : {"down", "lock", "status", "apply", "running"}, kind : {"none", "boot", "apply"},
   binary : [top : Versions, edited : SUBSET Versions], upTo : Nat, done : SUBSET Versions,
   connected : BOOLEAN]

MigrationTypeOK ==
  /\ effects \in [Versions -> Nat]
  /\ recorded \in [Versions -> Checksums \cup {"none"}]
  /\ appliedBy \in [Versions -> {"none", "boot", "apply"}]
  /\ migLock \in Processes \cup {NoProcess}
  /\ proc \in [Processes -> ProcessRuns]
  /\ served \in SUBSET Processes
  /\ runs \in Nat /\ breaks \in Nat

(* While a run holds its connection, the status it read stays true except  *)
(* for what it applied itself: it never meets a version that another run   *)
(* has applied meanwhile, so it fails for no reason but its own.           *)
(* (migrationLockID, migrate.go 29)                                        *)
StatusHolds ==
  \A p \in Processes : proc[p].pc = "apply" /\ proc[p].connected => proc[p].done = Applied

(* The schema grows version by version, each taking effect once, whichever *)
(* binaries and commands run, and whatever breaks; a deploy changes it by  *)
(* the baseline alone; and no finance module runs before all its tables    *)
(* are there. (migrate.go 18-21, SETUP.md 30-32)                           *)
SchemaGrowsInOrder ==
  /\ \A v \in Versions : effects[v] = IF v \in Applied THEN 1 ELSE 0
  /\ \A v \in Applied : \A w \in Versions : w < v => w \in Applied
  /\ \A v \in Applied : appliedBy[v] = "boot" => v = Baseline
  /\ served # {} => 1..FinanceVersion \subseteq Applied

=============================================================================
