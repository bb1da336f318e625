--------------------------- MODULE UpstreamLifecycle ---------------------------
(***************************************************************************)
(* upstream_configs and gateway_api_keys: the administrators that create,  *)
(* update and delete upstreams and keys, the finalizer that every gateway  *)
(* runs to purge deleted upstreams, and the requests that resolve a key to *)
(* its upstream.  A statement of its own is one step; a transaction that   *)
(* takes a row lock is two, the lock (SELECT ... FOR UPDATE) and the       *)
(* commit, and other actors interleave between them.                       *)
(***************************************************************************)
EXTENDS Integers, FiniteSets

CONSTANTS Upstreams,  \* ids; an id is never used twice
          Keys,       \* ids of gateway API keys
          Admins,     \* connections serving the management API
          Finalizers, \* runUpstreamDeletionFinalizer, one per gateway
          Requests,   \* connections serving the proxy
          NoOne,      \* no lock holder; no upstream, no key
          MaxAborts   \* bound: transactions that fail before the commit

Actors == Admins \cup Finalizers

ASSUME LifecycleAssumption ==
  /\ NoOne \notin Actors \cup Upstreams \cup Keys
  /\ MaxAborts \in Nat

VARIABLES ups,    \* lifecycle_state, "none" before the insert, "gone" after the purge
          secret, \* api_key_ciphertext IS NOT NULL
          due,    \* purge_after <= now()
          lock,   \* holder of the row lock on an upstream
          key,    \* state of a key
          bind,   \* its upstream_id
          tx,     \* the open transaction of an actor
          req,    \* a proxied request
          aborts

upstreamVars == <<ups, secret, due, lock, key, bind, tx, req, aborts>>

Idle   == [op |-> "idle", u |-> NoOne, k |-> NoOne]
NoReq  == [pc |-> "idle", k |-> NoOne, u |-> NoOne]

UpstreamInit ==
  /\ ups = [u \in Upstreams |-> "none"]
  /\ secret = [u \in Upstreams |-> FALSE]
  /\ due = [u \in Upstreams |-> FALSE]
  /\ lock = [u \in Upstreams |-> NoOne]
  /\ key = [k \in Keys |-> "none"]
  /\ bind = [k \in Keys |-> NoOne]
  /\ tx = [a \in Actors |-> Idle]
  /\ req = [r \in Requests |-> NoReq]
  /\ aborts = 0
-----------------------------------------------------------------------------
upstreamLifecycle(enabled) == IF enabled THEN "active" ELSE "disabled"

CreateUpstream(u, enabled, apiKey) ==
  /\ ups[u] = "none"
  /\ ups' = [ups EXCEPT ![u] = upstreamLifecycle(enabled)]
  /\ secret' = [secret EXCEPT ![u] = apiKey]
  /\ UNCHANGED <<due, lock, key, bind, tx, req, aborts>>

\* Mutant of UpdateUpstream: neither the WHERE clause nor the projection
\* trigger looks at the old lifecycle state.
UpdateAnyState(u, enabled, apiKey) ==
  /\ ups[u] \notin {"none", "gone"}
  /\ lock[u] = NoOne
  /\ ups' = [ups EXCEPT ![u] = upstreamLifecycle(enabled)]
  /\ secret' = [secret EXCEPT ![u] = @ \/ apiKey]
  /\ UNCHANGED <<due, lock, key, bind, tx, req, aborts>>

\* One UPDATE, which waits for the row lock and then evaluates its WHERE
\* clause again; an empty API key keeps the stored one.
UpdateUpstream(u, enabled, apiKey) ==
  /\ ups[u] \in {"active", "disabled"}
  /\ lock[u] = NoOne
  /\ ups' = [ups EXCEPT ![u] = upstreamLifecycle(enabled)]
  /\ secret' = [secret EXCEPT ![u] = @ \/ apiKey]
  /\ UNCHANGED <<due, lock, key, bind, tx, req, aborts>>

Begin(a, op, u, k) ==
  /\ tx[a] = Idle
  /\ lock[u] = NoOne
  /\ lock' = [lock EXCEPT ![u] = a]
  /\ tx' = [tx EXCEPT ![a] = [op |-> op, u |-> u, k |-> k]]

End(a) ==
  /\ lock' = [lock EXCEPT ![tx[a].u] = NoOne]
  /\ tx' = [tx EXCEPT ![a] = Idle]

\* Mutant of CreateKeyBegin: the state is read without FOR UPDATE.
CreateKeyUnlocked(a, u, k) ==
  /\ key[k] = "none" /\ \A b \in Admins : tx[b].k # k
  /\ ups[u] = "active"
  /\ tx[a] = Idle
  /\ tx' = [tx EXCEPT ![a] = [op |-> "key", u |-> u, k |-> k]]
  /\ UNCHANGED <<ups, secret, due, lock, key, bind, req, aborts>>

\* CreateGatewayAPIKey: SELECT ... FOR UPDATE, refused unless active; the id
\* of the key is fresh.
CreateKeyBegin(a, u, k) ==
  /\ key[k] = "none" /\ \A b \in Admins : tx[b].k # k
  /\ ups[u] = "active"
  /\ Begin(a, "key", u, k)
  /\ UNCHANGED <<ups, secret, due, key, bind, req, aborts>>

CreateKeyCommit(a) ==
  /\ tx[a].op = "key"
  /\ key' = [key EXCEPT ![tx[a].k] = "live"]
  /\ bind' = [bind EXCEPT ![tx[a].k] = tx[a].u]
  /\ End(a)
  /\ UNCHANGED <<ups, secret, due, req, aborts>>

RevokeKey(k) ==
  /\ key[k] = "live"
  /\ key' = [key EXCEPT ![k] = "revoked"]
  /\ UNCHANGED <<ups, secret, due, lock, bind, tx, req, aborts>>

\* RequestUpstreamDeletion; on a deleting upstream it changes nothing.
DeletionBegin(a, u) ==
  /\ ups[u] \in {"active", "disabled"}
  /\ Begin(a, "delete", u, NoOne)
  /\ UNCHANGED <<ups, secret, due, key, bind, req, aborts>>

\* Mutant of DeletionCommit: the keys of the upstream are not revoked.
DeletionKeepsKeys(a) ==
  /\ tx[a].op = "delete"
  /\ ups' = [ups EXCEPT ![tx[a].u] = "deleting"]
  /\ secret' = [secret EXCEPT ![tx[a].u] = FALSE]
  /\ End(a)
  /\ UNCHANGED <<due, key, bind, req, aborts>>

DeletionCommit(a) ==
  /\ tx[a].op = "delete"
  /\ ups' = [ups EXCEPT ![tx[a].u] = "deleting"]
  /\ secret' = [secret EXCEPT ![tx[a].u] = FALSE]
  /\ key' = [k \in Keys |-> IF key[k] = "live" /\ bind[k] = tx[a].u
                            THEN "revoked" ELSE key[k]]
  /\ End(a)
  /\ UNCHANGED <<due, bind, req, aborts>>

GraceElapses(u) ==
  /\ ups[u] = "deleting" /\ ~due[u]
  /\ due' = [due EXCEPT ![u] = TRUE]
  /\ UNCHANGED <<ups, secret, lock, key, bind, tx, req, aborts>>

\* FinalizeDueUpstreamDeletionsResult: FOR UPDATE SKIP LOCKED.
FinalizeBegin(f, u) ==
  /\ ups[u] = "deleting" /\ due[u]
  /\ Begin(f, "purge", u, NoOne)
  /\ UNCHANGED <<ups, secret, due, key, bind, req, aborts>>

\* Delete the revoked keys, then the row; a key that is still live makes the
\* foreign key (ON DELETE RESTRICT) refuse, and the transaction rolls back.
FinalizeCommit(f) ==
  /\ tx[f].op = "purge"
  /\ IF \E k \in Keys : bind[k] = tx[f].u /\ key[k] = "live"
     THEN UNCHANGED <<ups, key>>
     ELSE /\ key' = [k \in Keys |-> IF bind[k] = tx[f].u THEN "deleted" ELSE key[k]]
          /\ ups' = [ups EXCEPT ![tx[f].u] = "gone"]
  /\ End(f)
  /\ UNCHANGED <<secret, due, bind, req, aborts>>

\* A statement of a transaction fails or its connection is lost.
Abort(a) ==
  /\ tx[a] # Idle /\ aborts < MaxAborts
  /\ aborts' = aborts + 1
  /\ End(a)
  /\ UNCHANGED <<ups, secret, due, key, bind, req>>

\* The proxy: Manager.Authenticate looks the key up, GetUpstreamForGatewayKey
\* resolves it later; either may refuse, as may the steps that follow.
Authenticate(r, k) ==
  /\ req[r].pc = "idle" /\ key[k] = "live"
  /\ req' = [req EXCEPT ![r] = [pc |-> "known", k |-> k, u |-> NoOne]]
  /\ UNCHANGED <<ups, secret, due, lock, key, bind, tx, aborts>>

Resolve(r) ==
  /\ req[r].pc = "known"
  /\ req' = [req EXCEPT ![r] =
       IF key[@.k] = "live" /\ ups[bind[@.k]] = "active"
       THEN [pc |-> "bound", k |-> @.k, u |-> bind[@.k]] ELSE NoReq]
  /\ UNCHANGED <<ups, secret, due, lock, key, bind, tx, aborts>>

\* The upstream exchange, with the configuration read by Resolve.
Finish(r) ==
  /\ req[r].pc = "bound"
  /\ req' = [req EXCEPT ![r] = NoReq]
  /\ UNCHANGED <<ups, secret, due, lock, key, bind, tx, aborts>>

Finalize(f) == FinalizeCommit(f) \/ \E u \in Upstreams : FinalizeBegin(f, u)

UpstreamNext ==
  \/ \E u \in Upstreams, e, s \in BOOLEAN : CreateUpstream(u, e, s) \/ UpdateUpstream(u, e, s)
  \/ \E a \in Admins, u \in Upstreams, k \in Keys : CreateKeyBegin(a, u, k)
  \/ \E a \in Admins, u \in Upstreams : DeletionBegin(a, u)
  \/ \E a \in Admins : CreateKeyCommit(a) \/ DeletionCommit(a)
  \/ \E k \in Keys : RevokeKey(k)
  \/ \E u \in Upstreams : GraceElapses(u)
  \/ \E f \in Finalizers : Finalize(f)
  \/ \E a \in Actors : Abort(a)
  \/ \E r \in Requests, k \in Keys : Authenticate(r, k)
  \/ \E r \in Requests : Resolve(r) \/ Finish(r)

UpstreamSpec == UpstreamInit /\ [][UpstreamNext]_upstreamVars

\* Time passes, an open transaction ends, the sweep runs on every tick.
UpstreamFairness ==
  /\ \A u \in Upstreams : WF_upstreamVars(GraceElapses(u))
  /\ \A a \in Admins : WF_upstreamVars(CreateKeyCommit(a) \/ DeletionCommit(a))
  /\ \A f \in Finalizers :
       /\ WF_upstreamVars(FinalizeCommit(f))
       /\ \A u \in Upstreams : SF_upstreamVars(FinalizeBegin(f, u))

FairUpstreamSpec == UpstreamSpec /\ UpstreamFairness
-----------------------------------------------------------------------------
\* Every variable stays within its type, and an open transaction holds the
\* lock on its upstream.
UpstreamTypeOK ==
  /\ ups \in [Upstreams -> {"none", "active", "disabled", "deleting", "gone"}]
  /\ secret \in [Upstreams -> BOOLEAN] /\ due \in [Upstreams -> BOOLEAN]
  /\ lock \in [Upstreams -> Actors \cup {NoOne}]
  /\ key \in [Keys -> {"none", "live", "revoked", "deleted"}]
  /\ bind \in [Keys -> Upstreams \cup {NoOne}]
  /\ tx \in [Actors -> [op : {"idle", "key", "delete", "purge"},
                        u : Upstreams \cup {NoOne}, k : Keys \cup {NoOne}]]
  /\ req \in [Requests -> [pc : {"idle", "known", "bound"},
                           k : Keys \cup {NoOne}, u : Upstreams \cup {NoOne}]]
  /\ aborts \in 0..MaxAborts
  /\ \A a \in Actors : tx[a] # Idle => lock[tx[a].u] = a

\* RequestUpstreamDeletion "atomically transitions an upstream into deleting,
\* revokes its gateway keys, and erases its stored secret": no key created or
\* secret stored concurrently survives it.
DeletingIsSealed ==
  \A u \in Upstreams : ups[u] \in {"deleting", "gone"} =>
    /\ ~secret[u]
    /\ \A k \in Keys : bind[k] = u => key[k] # "live"

\* Deleting is terminal: no update, nor a transaction that was already open,
\* brings an upstream back, and a key that was revoked stays so.
DeletionIsFinal ==
  [][/\ \A u \in Upstreams :
          /\ ups[u] = "deleting" => ups'[u] \in {"deleting", "gone"}
          /\ ups[u] = "gone" => ups'[u] = "gone"
     /\ \A k \in Keys : key[k] \in {"revoked", "deleted"} => key'[k] # "live"]_upstreamVars

\* A route is only taken from a live key to an active upstream, although the
\* key was authenticated by an earlier query (GetUpstreamForGatewayKey).
RouteWhileActive ==
  [][\A r \in Requests : req'[r].pc = "bound" /\ req[r].pc # "bound" =>
       key[req'[r].k] = "live" /\ ups[req'[r].u] = "active"]_upstreamVars

\* A deleted upstream is purged in the end: the finalizer is not blocked by a
\* key (ON DELETE RESTRICT) nor by another gateway's finalizer.
DeletionCompletes ==
  \A u \in Upstreams : ups[u] = "deleting" ~> ups[u] = "gone"
=============================================================================
