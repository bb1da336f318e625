--------------------------- MODULE RuleSnapshots ----------------------------
(***************************************************************************)
(* The snapshot of the active rule set that every gateway audits with.  A  *)
(* gateway reads the active set periodically, after an invalidation        *)
(* message from Redis, which may be lost, and at the end of its own        *)
(* publish and rollback handlers; reading and installing are two steps.    *)
(* The set of a tenant is also looked up by the first request, and then    *)
(* refreshed periodically; until it is found the global set is in effect.  *)
(* Losing PostgreSQL fails the reads and the transactions.                 *)
(***************************************************************************)
EXTENDS RulePublication

CONSTANTS Gateways,
          None,       \* nothing read
          MaxOutages  \* bound: losses of PostgreSQL

ASSUME SnapshotsAssumption == None \notin Versions /\ MaxOutages \in Nat

VARIABLES handler, \* the rest of a publish handler: its step, gateway and read
          dbUp, outages,
          reg,     \* globalVersion, or the version in tenants, if resolved
          stale,   \* Registry.globalStale
          ready,   \* what /readyz last computed
          inbox,   \* invalidation messages waiting in the subscription
          load     \* what a loader has read and not yet installed

gwVars == <<reg, stale, ready, inbox, load>>
vars == <<pubVars, handler, dbUp, outages, gwVars>>

Loaders == {"poll", "event"}
Readers == Loaders \cup {"request"}
NoHandler == [pc |-> "idle", g |-> CHOOSE g \in Gateways : TRUE, read |-> None]

Init ==
  /\ PubInit
  /\ handler = [a \in Publishers |-> NoHandler]
  /\ dbUp = TRUE /\ outages = 0
  /\ reg = [g \in Gateways |-> IF scope = "global" THEN Initial ELSE None]
  /\ stale = [g \in Gateways |-> FALSE]
  /\ ready = [g \in Gateways |-> TRUE]
  /\ inbox = [g \in Gateways |-> 0]
  /\ load = [g \in Gateways |-> [l \in Readers |-> None]]

\* ActiveDefinitions; None is its error.
Read == IF dbUp /\ Published # {} THEN Active ELSE None

\* A refresh of the global set clears the mark.
Cleared(g) == stale' = [stale EXCEPT ![g] = @ /\ scope # "global"]
-----------------------------------------------------------------------------
(***************************************************************************)
(* The publish and rollback handlers.                                      *)
(***************************************************************************)
At(a, from, to) == handler[a].pc = from /\ handler' = [handler EXCEPT ![a] = to]

Begin(a, v, g) ==
  /\ dbUp /\ PublishBegin(a, v)
  /\ At(a, "idle", [NoHandler EXCEPT !.pc = "publish", !.g = g])
  /\ UNCHANGED <<dbUp, outages, gwVars>>

Transact(a) ==
  /\ dbUp /\ (PublishSnapshot(a) \/ PublishArchive(a))
  /\ UNCHANGED <<handler, dbUp, outages, gwVars>>

Commit(a) ==
  /\ dbUp /\ PublishCommit(a)
  /\ At(a, "publish", [handler[a] EXCEPT !.pc = "committed"])
  /\ UNCHANGED <<dbUp, outages, gwVars>>

Abort(a) ==
  /\ PublishAbort(a)
  /\ At(a, "publish", NoHandler)
  /\ UNCHANGED <<dbUp, outages, gwVars>>

\* The rule set is read back and RuleChanged publishes the invalidation; it
\* reaches the subscriptions in S.
Notify(a, S) ==
  /\ dbUp
  /\ At(a, "committed", [handler[a] EXCEPT !.pc = "notified"])
  /\ inbox' = [g \in Gateways |-> IF g \in S THEN inbox[g] + 1 ELSE inbox[g]]
  /\ UNCHANGED <<pubVars, dbUp, outages, reg, stale, ready, load>>

\* Registry.Refresh at the end of the handler: the read, then the install.
HandlerReads(a) ==
  /\ dbUp
  /\ At(a, "notified", [handler[a] EXCEPT !.pc = "read", !.read = Read])
  /\ UNCHANGED <<pubVars, dbUp, outages, gwVars>>

HandlerInstalls(a) ==
  /\ At(a, "read", NoHandler)
  /\ reg' = [reg EXCEPT ![handler[a].g] = handler[a].read]
  /\ Cleared(handler[a].g)
  /\ UNCHANGED <<pubVars, dbUp, outages, ready, inbox, load>>

\* Reading back, or the refresh, failed: an error is answered although the
\* publication is committed.
HandlerFails(a) ==
  /\ ~dbUp /\ handler[a].pc \in {"committed", "notified"}
  /\ handler' = [handler EXCEPT ![a] = NoHandler]
  /\ UNCHANGED <<pubVars, dbUp, outages, gwVars>>
-----------------------------------------------------------------------------
(***************************************************************************)
(* The gateways' background loaders and probes.                            *)
(***************************************************************************)
\* Mutant of Polled: the ticker refreshes the global set only.
PolledGlobal(g) == IF scope = "global" THEN Read ELSE None

\* What a tick reads of the scope: TenantScopes are the resolved ones.
Polled(g) == IF scope = "global" \/ reg[g] # None THEN Read ELSE None

\* A tick of refreshSnapshots: the global set, here installed at once when the
\* scope is a tenant's, and then the set of the tenant.
PollReads(g) ==
  /\ dbUp /\ load[g]["poll"] = None
  /\ load' = [load EXCEPT ![g]["poll"] = Polled(g)]
  /\ stale' = [stale EXCEPT ![g] = @ /\ scope = "global"]
  /\ UNCHANGED <<pubVars, handler, dbUp, outages, reg, ready, inbox>>

PollFails(g) ==
  /\ ~dbUp /\ load[g]["poll"] = None
  /\ stale' = [stale EXCEPT ![g] = TRUE]
  /\ UNCHANGED <<pubVars, handler, dbUp, outages, reg, ready, inbox, load>>

\* An invalidation message: one refresh, which on failure only logs.
EventReads(g) ==
  /\ inbox[g] > 0 /\ load[g]["event"] = None
  /\ inbox' = [inbox EXCEPT ![g] = @ - 1]
  /\ load' = [load EXCEPT ![g]["event"] = Read]
  /\ UNCHANGED <<pubVars, handler, dbUp, outages, reg, stale, ready>>

\* The second half of Registry.Refresh, under the registry's lock.
Install(g, l) ==
  /\ load[g][l] # None
  /\ reg' = [reg EXCEPT ![g] = load[g][l]]
  /\ Cleared(g)
  /\ load' = [load EXCEPT ![g][l] = None]
  /\ UNCHANGED <<pubVars, handler, dbUp, outages, ready, inbox>>

\* EnsureTenant, for a request: a tenant that is not resolved is looked up.
RequestReads(g) ==
  /\ scope = "tenant" /\ reg[g] = None /\ load[g]["request"] = None
  /\ load' = [load EXCEPT ![g]["request"] = Read]
  /\ UNCHANGED <<pubVars, handler, dbUp, outages, reg, stale, ready, inbox>>

\* The second half of EnsureTenant: a refresh that came first stands.
RequestInstalls(g) ==
  /\ load[g]["request"] # None
  /\ reg' = [reg EXCEPT ![g] = IF @ = None THEN load[g]["request"] ELSE @]
  /\ load' = [load EXCEPT ![g]["request"] = None]
  /\ UNCHANGED <<pubVars, handler, dbUp, outages, stale, ready, inbox>>

\* Mutant of Probe: readiness is not withdrawn once it was reached.
ProbeReadyOnce(g) ==
  /\ stale' = [stale EXCEPT ![g] = @ \/ ~dbUp]
  /\ ready' = [ready EXCEPT ![g] = @ \/ (dbUp /\ ~stale[g])]
  /\ UNCHANGED <<pubVars, handler, dbUp, outages, reg, inbox, load>>

\* health.ProbeNow: the "postgres" probe, which marks the snapshot when
\* PostgreSQL is lost, and the "rules" probe.
Probe(g) ==
  /\ stale' = [stale EXCEPT ![g] = @ \/ ~dbUp]
  /\ ready' = [ready EXCEPT ![g] = dbUp /\ ~stale[g]]
  /\ UNCHANGED <<pubVars, handler, dbUp, outages, reg, inbox, load>>

DbLost ==
  /\ dbUp /\ outages < MaxOutages
  /\ dbUp' = FALSE /\ outages' = outages + 1
  /\ UNCHANGED <<pubVars, handler, gwVars>>

DbBack ==
  /\ ~dbUp
  /\ dbUp' = TRUE
  /\ UNCHANGED <<pubVars, handler, outages, gwVars>>

Publish(a) == Transact(a) \/ Commit(a) \/ Abort(a)

Reply(a) ==
  \/ \E S \in SUBSET Gateways : Notify(a, S)
  \/ HandlerReads(a) \/ HandlerInstalls(a) \/ HandlerFails(a)

Poll(g) == PollReads(g) \/ PollFails(g)

Next ==
  \/ \E a \in Publishers :
       \/ \E v \in Versions, g \in Gateways : Begin(a, v, g)
       \/ Publish(a) \/ Reply(a)
  \/ \E g \in Gateways :
       \/ Poll(g) \/ EventReads(g) \/ Probe(g)
       \/ RequestReads(g) \/ RequestInstalls(g)
       \/ \E l \in Loaders : Install(g, l)
  \/ DbLost \/ DbBack

Spec == Init /\ [][Next]_vars

\* Handlers run to their end, by an error if PostgreSQL is lost; tickers
\* tick; the subscription is drained.
Fairness ==
  /\ \A a \in Publishers : WF_vars(Publish(a)) /\ WF_vars(Reply(a))
  /\ \A g \in Gateways :
       /\ WF_vars(Poll(g)) /\ WF_vars(EventReads(g)) /\ WF_vars(Probe(g))
       /\ WF_vars(RequestInstalls(g))
       /\ \A l \in Loaders : WF_vars(Install(g, l))

FairSpec == Spec /\ Fairness
-----------------------------------------------------------------------------
\* Every gateway comes to audit with the active set, of the tenant if it has
\* resolved it, and to report ready, whatever messages were lost and in whatever
\* order refreshes and lookups were installed, provided PostgreSQL stays
\* reachable ("Tenant snapshots resolved on this instance must also converge
\* after publish/rollback", src/cmd/gateway/main.go:352).
Converges ==
  <>[]dbUp =>
    <>[](\A g \in Gateways : /\ reg[g] # None \/ scope = "global" => reg[g] = Active
                             /\ ~stale[g] /\ ready[g])

\* "PostgreSQL loss marks cached snapshots stale, returns 503 for load
\* balancers" (docs/operations.md:30), also when a refresh that had already
\* read its set clears the mark meanwhile.
OutageWithdrawsReadiness ==
  <>[]~dbUp => <>[](\A g \in Gateways : stale[g] /\ ~ready[g])
=============================================================================
