------------------------------ MODULE Startup ------------------------------
(***************************************************************************)
(* The start of a deployment: gateways of different releases run Migrate,  *)
(* make sure of a configuration, take the master key, load their snapshots *)
(* and serve, while the seed command installs the first configuration.     *)
(*                                                                         *)
(* Of the configuration only the global rule sets that are published, by   *)
(* their source, and the global wildcard policies are kept.                *)
(***************************************************************************)
EXTENDS KeyBoot

VARIABLES demo,     \* AllowDemoBootstrap
          managed,  \* managed rule sets that are published
          demoSet,  \* a demo rule set is published
          pols      \* the directions with a global policy

configVars == <<managed, demoSet, pols>>
vars == <<migrationVars, keyVars, demo, configVars>>

Directions == {"request", "response"}
Seeds == Processes \ Gateways

\* A deployment that is new, or one that an earlier release configured.
\* Validate of the configuration admits no demo rules in production.
Init ==
  /\ MigrationInit /\ KeyInit
  /\ demo \in BOOLEAN /\ (demo => ~refuse)
  /\ demoSet = FALSE
  /\ IF Objects = {} THEN managed = 0 /\ pols = {} /\ secrets = {}
     ELSE managed = 1 /\ pols = Directions
-----------------------------------------------------------------------------
HasManagedConfiguration == managed > 0 /\ pols = Directions
Active == managed > 0 \/ demoSet

\* Without the demo configuration the gateway refuses to start until the
\* deployment was seeded; EnsureBootstrap looks for an active set otherwise.
Configure(g) ==
  /\ pc[g] = "configure"
  /\ IF demo
     THEN Goto(g, "configure", IF Active THEN "policies" ELSE "bootstrap")
          /\ UNCHANGED <<schemaVars, keyVars>>
     ELSE IF HasManagedConfiguration
     THEN Goto(g, "configure", "key") /\ UNCHANGED <<schemaVars, keyVars>>
     ELSE Down(g) /\ UNCHANGED <<file, secrets, refuse, made, hist>>
  /\ UNCHANGED <<demo, configVars>>

\* EnsureBootstrap takes a failure to read for the absence of a set.
ReadFails(g) ==
  /\ demo /\ faults < MaxFaults
  /\ Goto(g, "configure", "bootstrap")
  /\ faults' = faults + 1
  /\ UNCHANGED <<runs, recorded, lock, applied, keyVars, demo, configVars>>

\* The rest of EnsureBootstrap: Publish archives whatever is published by now.
Bootstrap(g) ==
  /\ Goto(g, "bootstrap", "policies")
  /\ managed' = 0 /\ demoSet' = TRUE
  /\ UNCHANGED <<schemaVars, keyVars, demo, pols>>

\* EnsurePolicies: one statement for each direction, ON CONFLICT DO NOTHING.
EnsurePolicies(g) ==
  /\ \/ Goto(g, "policies", "responses") /\ pols' = pols \cup {"request"}
     \/ Goto(g, "responses", "key") /\ pols' = pols \cup {"response"}
  /\ UNCHANGED <<schemaVars, keyVars, demo, managed, demoSet>>

\* registry.Refresh by the loader of the mode; the gateway then listens.
LoadSnapshots(g) ==
  /\ pc[g] = "snapshots"
  /\ IF (demo /\ Active) \/ managed > 0
     THEN Goto(g, "snapshots", "serving") /\ UNCHANGED <<schemaVars, keyVars>>
     ELSE Down(g) /\ UNCHANGED <<file, secrets, refuse, made, hist>>
  /\ UNCHANGED <<demo, configVars>>

\* SeedManagedConfiguration: the check, in the transaction that inserts.
SeedChecks(s) ==
  /\ Goto(s, "configure", IF managed > 0 \/ pols # {} THEN "refused" ELSE "seeding")
  /\ UNCHANGED <<schemaVars, keyVars, demo, configVars>>

\* Mutant of SeedCommits: the policies that exist are skipped.
SeedCommitsAnyway(s) ==
  /\ Goto(s, "seeding", "seeded")
  /\ managed' = managed + 1 /\ pols' = Directions
  /\ UNCHANGED <<schemaVars, keyVars, demo, demoSet>>

\* The inserts and COMMIT; a policy that was inserted meanwhile violates the
\* unique constraint and undoes the rule set.
SeedCommits(s) ==
  /\ Goto(s, "seeding", IF pols = {} THEN "seeded" ELSE "refused")
  /\ IF pols = {} THEN managed' = managed + 1 /\ pols' = Directions
     ELSE UNCHANGED <<managed, pols>>
  /\ UNCHANGED <<schemaVars, keyVars, demo, demoSet>>

Migrating(p) == Migrate(p) /\ UNCHANGED <<keyVars, demo, configVars>>
Starting(g) ==
  \/ Migrating(g) \/ Configure(g) \/ Bootstrap(g) \/ EnsurePolicies(g)
  \/ LoadSnapshots(g)
  \/ Boot(g) /\ UNCHANGED <<demo, configVars>>
Locking(p) == Lock(p) /\ UNCHANGED <<keyVars, demo, configVars>>
Restarting(g) == Restart(g) /\ UNCHANGED <<keyVars, demo, configVars>>

\* What operators, administrators and failures do.
Operating ==
  /\ \/ \E g \in Gateways :
          Crash(g) \/ WriteFails(g) \/ Stop(g) \/ StoreSecret(g) \/ EraseSecret(g)
     \/ Restore \/ Rotate
  /\ UNCHANGED <<demo, configVars>>

Seeding(s) == Migrating(s) \/ SeedChecks(s) \/ SeedCommits(s)
SeedFails(s) == pc[s] \notin {"seeded", "refused"} /\ Fail(s) /\ UNCHANGED <<keyVars, demo, configVars>>

Next ==
  \/ \E p \in Processes : Locking(p)
  \/ \E g \in Gateways : Starting(g) \/ ReadFails(g) \/ Restarting(g)
  \/ \E s \in Seeds : Seeding(s) \/ SeedFails(s)
  \/ Operating

Spec == Init /\ [][Next]_vars

\* A process that holds the lock runs, a gateway that waits for the lock gets it
\* in turn, and the supervisor restarts one that stopped.
Fairness ==
  /\ \A s \in Seeds : WF_vars(Migrating(s))
  /\ \A g \in Gateways :
       SF_vars(Locking(g)) /\ WF_vars(Starting(g) \/ Restarting(g))

FairSpec == Spec /\ Fairness
-----------------------------------------------------------------------------
\* "one transaction.  Existing managed configuration is never overwritten"
\* (src/internal/storage/postgres.go:279): of concurrent seed commands at most
\* one takes effect, and a managed set never stands without its policies.
SeededOnce ==
  /\ managed <= 1
  /\ managed = 1 => pols = Directions

\* A gateway of the newest release comes to serve once the operator's key is in
\* place, no start under way has created a key, and the deployment has its
\* configuration, unless the database is one to refuse or the key is rotated:
\* although the lock is contended, older and refused processes start in between
\* and attempts fail half-way.  A start that has created a key may still remove
\* the operator's, and the deployment waits for the operator again.
NewestServes ==
  \A g \in Gateways : DOMAIN Binary[g] = Versions =>
    (/\ pc[g] # "unused"
     /\ file = Original /\ \A h \in Gateways : pc[h] \notin Owning
     /\ demo \/ HasManagedConfiguration)
      ~> (pc[g] = "serving" \/ Refusable(g) \/ file \in Keys \ {Original})
=============================================================================
