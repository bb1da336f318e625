----------------------------- MODULE Migrations -----------------------------
(***************************************************************************)
(* The schema migrations that every gateway, and the seed command, runs    *)
(* first.  Migrate takes a session-level advisory lock, reads the recorded *)
(* migrations, adopts an unrecorded schema as a baseline when it is the    *)
(* current one, validates the history against the migrations of its own    *)
(* binary and applies those that are missing, each in a transaction that   *)
(* also records it.  Processes of different releases start, fail, crash    *)
(* and restart in any order; the end of a session frees the lock and       *)
(* undoes an open transaction.                                             *)
(***************************************************************************)
EXTENDS Integers, Sequences, FiniteSets

CONSTANTS Processes,  \* gateways and seed commands
          Deployments,\* the sets of processes that are run together
          Versions,   \* 1..N, N the number of migrations of the newest binary
          Binary,     \* [Processes -> Seq(checksums)], the embedded migrations
          Existing,   \* the versions whose objects the database may have at first
          Foreign,    \* histories that another release may have recorded
          None,
          MaxFaults   \* bound on failures and crashes

ASSUME MigrationsAssumption ==
  /\ Deployments \subseteq SUBSET Processes
  /\ Versions \subseteq Nat \ {0}
  /\ \A g \in Processes : DOMAIN Binary[g] \subseteq Versions
  /\ \A g \in Processes : \A v \in DOMAIN Binary[g] : Binary[g][v] # None
  /\ Existing \subseteq SUBSET Versions
  /\ \A h \in Foreign : DOMAIN h \subseteq Versions /\ \A v \in DOMAIN h : h[v] # None
  /\ \A g \in Processes : \A v \in DOMAIN Binary[g] : 1..v \subseteq DOMAIN Binary[g]
  /\ \A h \in Foreign : \A v \in DOMAIN h : 1..v \subseteq DOMAIN h
  /\ None \notin Processes
  /\ MaxFaults \in Nat

\* Releases that did not record their migrations had the first three at most.
ASSUME UnrecordedAssumption ==
  \A present \in Existing : {1, 2} \subseteq present => present \subseteq {1, 2, 3}

VARIABLES runs,      \* how often the SQL of a version took effect
          recorded,  \* schema_migrations: the checksum of a version, or None
          lock,      \* the session that holds migrationAdvisoryLock
          pc,
          applied,   \* what Migrate read of schema_migrations
          faults

migrationVars == <<runs, recorded, lock, pc, applied, faults>>

NoRecords == [v \in Versions |-> None]

MigrationInit ==
  /\ \/ \E present \in Existing :
          /\ runs = [v \in Versions |-> IF v \in present THEN 1 ELSE 0]
          /\ recorded = NoRecords
     \/ \E h \in Foreign :
          /\ runs = [v \in Versions |-> IF v \in DOMAIN h THEN 1 ELSE 0]
          /\ recorded = [v \in Versions |-> IF v \in DOMAIN h THEN h[v] ELSE None]
  /\ lock = None
  /\ \E used \in Deployments :
       pc = [g \in Processes |-> IF g \in used THEN "start" ELSE "unused"]
  /\ applied = [g \in Processes |-> NoRecords]
  /\ faults = 0
-----------------------------------------------------------------------------
Goto(g, from, to) == pc[g] = from /\ pc' = [pc EXCEPT ![g] = to]

\* The deferred pg_advisory_unlock, or the end of the session.
Unlock(g) == lock' = IF lock = g THEN None ELSE lock

\* The process ends, and with it its session.
Ends(g) ==
  /\ pc' = [pc EXCEPT ![g] = "failed"]
  /\ Unlock(g)
  /\ applied' = [applied EXCEPT ![g] = NoRecords]
  /\ UNCHANGED <<runs, recorded>>

\* Migrate returns an error.
Refuse(g) == Ends(g) /\ UNCHANGED faults

Lock(g) ==
  /\ Goto(g, "start", "read")
  /\ lock = None
  /\ lock' = g
  /\ UNCHANGED <<runs, recorded, applied, faults>>

Objects == {v \in Versions : runs[v] > 0}

\* readAppliedMigrations and gatewaySchemaObjectCount.
Read(g) ==
  /\ Goto(g, "read", IF recorded = NoRecords /\ Objects # {} THEN "baseline" ELSE "validate")
  /\ applied' = [applied EXCEPT ![g] = recorded]
  /\ UNCHANGED <<runs, recorded, lock, faults>>

\* validateCurrentSchema: the objects of migrations 1 and 2.
CurrentSchema == {1, 2} \subseteq Objects

BaselineVersions == {1, 2} \cup (Objects \cap {3})

CanBaseline(g) == CurrentSchema /\ BaselineVersions \subseteq DOMAIN Binary[g]

\* Mutant of Baseline: migration 3 is taken for granted.
BaselineAll(g) ==
  /\ Goto(g, "baseline", "validate")
  /\ CanBaseline(g)
  /\ recorded' = [v \in Versions |->
       IF v \in {1, 2, 3} \cap DOMAIN Binary[g] THEN Binary[g][v] ELSE recorded[v]]
  /\ applied' = [applied EXCEPT ![g] = recorded']
  /\ UNCHANGED <<runs, lock, faults>>

\* One transaction; version is the primary key of schema_migrations.
Baseline(g) ==
  /\ Goto(g, "baseline", "validate")
  /\ CanBaseline(g)
  /\ \A v \in BaselineVersions : recorded[v] = None
  /\ recorded' = [v \in Versions |->
       IF v \in BaselineVersions THEN Binary[g][v] ELSE recorded[v]]
  /\ applied' = [applied EXCEPT ![g] = recorded']
  /\ UNCHANGED <<runs, lock, faults>>

BaselineRefused(g) == pc[g] = "baseline" /\ ~CanBaseline(g) /\ Refuse(g)

\* Mutant of Valid: a migration still to be applied is taken for a gap.
ValidComplete(g) == \A v \in Versions :
  IF v \in DOMAIN Binary[g] THEN applied[g][v] = Binary[g][v] ELSE applied[g][v] = None

\* validateAppliedMigrations: known, with the same checksum, without a gap.
Valid(g) ==
  /\ \A v \in Versions : applied[g][v] # None =>
       v \in DOMAIN Binary[g] /\ applied[g][v] = Binary[g][v]
  /\ \A v, w \in Versions : v < w /\ applied[g][w] # None => applied[g][v] # None

\* Mutant of Validate: a history the binary does not know is accepted.
ValidateNothing(g) ==
  /\ Goto(g, "validate", "apply")
  /\ UNCHANGED <<runs, recorded, lock, applied, faults>>

Validate(g) ==
  /\ Goto(g, "validate", "apply")
  /\ Valid(g)
  /\ UNCHANGED <<runs, recorded, lock, applied, faults>>

ValidateRefused(g) == pc[g] = "validate" /\ ~Valid(g) /\ Refuse(g)

Missing(g) == {v \in DOMAIN Binary[g] : applied[g][v] = None}

Next1(g) == CHOOSE v \in Missing(g) : \A w \in Missing(g) : v <= w

\* applyMigration: the SQL and its record, in one transaction.  Under the lock
\* the insert never meets a record of another session.
Apply(g) ==
  /\ pc[g] = "apply" /\ Missing(g) # {}
  /\ LET v == Next1(g)
     IN /\ recorded[v] = None
        /\ runs' = [runs EXCEPT ![v] = @ + 1]
        /\ recorded' = [recorded EXCEPT ![v] = Binary[g][v]]
        /\ applied' = [applied EXCEPT ![g][v] = Binary[g][v]]
  /\ UNCHANGED <<lock, pc, faults>>

\* Migrate returns nil.
Finish(g) ==
  /\ Goto(g, "apply", "configure")
  /\ Missing(g) = {}
  /\ Unlock(g)
  /\ applied' = [applied EXCEPT ![g] = NoRecords]
  /\ UNCHANGED <<runs, recorded, faults>>

\* A statement fails, the startup context ends or the process dies.
Fail(g) ==
  /\ pc[g] \notin {"unused", "start", "failed"}
  /\ faults < MaxFaults
  /\ faults' = faults + 1
  /\ Ends(g)

\* restart: unless-stopped
Restart(g) ==
  /\ Goto(g, "failed", "start")
  /\ UNCHANGED <<runs, recorded, lock, applied, faults>>

Migrate(g) ==
  \/ Read(g) \/ Baseline(g) \/ BaselineRefused(g) \/ Validate(g)
  \/ ValidateRefused(g) \/ Apply(g) \/ Finish(g)
-----------------------------------------------------------------------------
\* Once anything is recorded, schema_migrations tells exactly which migrations
\* took effect, each once and without a gap, whatever failed or crashed.
HistoryMatchesSchema ==
  recorded # NoRecords =>
    /\ \A v \in Versions : runs[v] = 1 <=> recorded[v] # None
    /\ \A v, w \in Versions : v < w /\ recorded[w] # None => recorded[v] # None

\* A gateway that finished Migrate found exactly the migrations of its own
\* binary, although others may have migrated between its reads and its end.
StartsOnOwnSchema ==
  [][\A g \in Processes : pc[g] = "apply" /\ pc'[g] = "configure" =>
       \A v \in Versions :
         recorded'[v] = IF v \in DOMAIN Binary[g] THEN Binary[g][v] ELSE None]_migrationVars

\* The database that a gateway has to refuse: its history has a migration
\* that the binary does not know as such, or an unrecorded schema is not the
\* one that can be adopted.
Refusable(g) ==
  IF recorded = NoRecords THEN Objects # {} /\ ~CanBaseline(g)
  ELSE \E v \in Versions : recorded[v] # None /\
         (v \notin DOMAIN Binary[g] \/ recorded[v] # Binary[g][v])
=============================================================================
