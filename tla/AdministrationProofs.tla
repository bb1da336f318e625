------------------------ MODULE AdministrationProofs ------------------------
(***************************************************************************)
(* What administrators do: the lifecycle of upstreams and keys, and the    *)
(* account, its sign-ins and its sessions.                                 *)
(*                                                                         *)
(* Deletion seals an upstream.  The row lock alone does not say so: what a *)
(* transaction found when it took the lock must still hold when it         *)
(* commits, which is the part of the inductive invariant called Found.     *)
(*                                                                         *)
(* An old password ends.  The inductive invariant says of a pending        *)
(* sign-in what the property says of a session.                            *)
(***************************************************************************)
EXTENDS UpstreamLifecycle, AdminSessions, FiniteSetTheorems, TLAPS

dbVars == <<ups, secret, lock, key, bind, tx>>

\* The types the invariant rests on.
Types ==
  /\ ups \in [Upstreams -> {"none", "active", "disabled", "deleting", "gone"}]
  /\ lock \in [Upstreams -> Actors \cup {NoOne}]
  /\ key \in [Keys -> {"none", "live", "revoked", "deleted"}]
  /\ bind \in [Keys -> Upstreams \cup {NoOne}]
  /\ tx \in [Actors -> [op : {"idle", "key", "delete", "purge"},
                        u : Upstreams \cup {NoOne}, k : Keys \cup {NoOne}]]

\* An open transaction holds the lock of its upstream.
LockHeld ==
  \A a \in Actors : tx[a].op # "idle" => tx[a].u \in Upstreams /\ lock[tx[a].u] = a

\* What a transaction found under the lock still holds.
Found ==
  \A a \in Actors :
    /\ tx[a].op = "idle" => tx[a].k = NoOne /\ tx[a].u = NoOne
    /\ tx[a].op = "key" => /\ a \in Admins /\ tx[a].k \in Keys
                          /\ ups[tx[a].u] = "active" /\ key[tx[a].k] = "none"
    /\ tx[a].op = "delete" => ups[tx[a].u] \in {"active", "disabled"}
    /\ tx[a].op = "purge" => ups[tx[a].u] = "deleting"

\* Key ids are fresh: two open transactions create different keys, and a key
\* is bound when it is created.
Fresh ==
  /\ \A a, b \in Actors : tx[a].op = "key" /\ tx[b].op = "key" /\ a # b => tx[a].k #
     tx[b].k
  /\ \A k \in Keys : key[k] = "none" => bind[k] = NoOne

Sealed ==
  \A u \in Upstreams, k \in Keys :
    ups[u] \in {"deleting", "gone"} /\ bind[k] = u => key[k] # "live"

SecretErased ==
  \A u \in Upstreams : ups[u] \in {"deleting", "gone"} => ~secret[u]

\* The types of the other variables.
SecretType == secret \in [Upstreams -> BOOLEAN]

DueType == due \in [Upstreams -> BOOLEAN]
ReqType ==
  /\ req \in [Requests -> [pc : {"idle", "known", "bound"},
                           k : Keys \cup {NoOne}, u : Upstreams \cup {NoOne}]]
  /\ \A r \in Requests : req[r].pc = "known" => req[r].k \in Keys
AbortsType == aborts \in 0..MaxAborts
Rest == SecretType /\ DueType /\ ReqType /\ AbortsType

\* The inductive invariant.
DbInv == Types /\ LockHeld /\ Found /\ Fresh /\ Sealed
UpstreamInv == DbInv /\ Rest /\ SecretErased

USE LifecycleAssumption DEF LifecycleAssumption, Actors
-----------------------------------------------------------------------------
\* A step that is not one of these leaves the tables, their locks and the
\* open transactions alone.
LEMMA Frame ==
  [UpstreamNext]_upstreamVars =>
    \/ UNCHANGED dbVars
    \/ \E u \in Upstreams, e \in BOOLEAN, s \in BOOLEAN : CreateUpstream(u, e, s)
    \/ \E u \in Upstreams, e \in BOOLEAN, s \in BOOLEAN : UpdateUpstream(u, e, s)
    \/ \E a \in Admins, u \in Upstreams, k \in Keys : CreateKeyBegin(a, u, k)
    \/ \E a \in Admins, u \in Upstreams : DeletionBegin(a, u)
    \/ \E a \in Admins : CreateKeyCommit(a)
    \/ \E a \in Admins : DeletionCommit(a)
    \/ \E k \in Keys : RevokeKey(k)
    \/ \E f \in Finalizers, u \in Upstreams : FinalizeBegin(f, u)
    \/ \E f \in Finalizers : FinalizeCommit(f)
    \/ \E a \in Actors : Abort(a)
<1>1. UNCHANGED upstreamVars => UNCHANGED dbVars
  BY Zenon DEF upstreamVars, dbVars
<1>2. ASSUME NEW u \in Upstreams, GraceElapses(u) PROVE UNCHANGED dbVars
  BY <1>2, Zenon DEF GraceElapses, dbVars
<1>3. ASSUME NEW r \in Requests, NEW k \in Keys, Authenticate(r, k)
      PROVE UNCHANGED dbVars
  BY <1>3, Zenon DEF Authenticate, dbVars
<1>4. ASSUME NEW r \in Requests, Resolve(r) \/ Finish(r) PROVE UNCHANGED dbVars
  BY <1>4, Zenon DEF Resolve, Finish, dbVars
<1> QED
  BY <1>1, <1>2, <1>3, <1>4, Zenon DEF UpstreamNext, Finalize

\* Nothing exists at first.
LEMMA InitDbInv == UpstreamInit => DbInv
  BY SMT DEF UpstreamInit, Idle, DbInv, Types, LockHeld, Found, Fresh, Sealed

\* Every step keeps the types.
LEMMA TypesStep == Types /\ LockHeld /\ Found /\ [UpstreamNext]_upstreamVars => Types'
<1> SUFFICES ASSUME Types, LockHeld, Found, [UpstreamNext]_upstreamVars PROVE Types'
  OBVIOUS
<1> DEFINE Goal == Types'
<1>0. CASE UNCHANGED dbVars
  BY <1>0, SMT DEF Types, LockHeld, Found, Idle, dbVars
<1>1. ASSUME NEW u \in Upstreams, NEW e \in BOOLEAN, NEW s \in BOOLEAN,
   CreateUpstream(u, e, s)
      PROVE  Goal
  BY <1>1, SMT DEF Types, LockHeld, Found, Idle, CreateUpstream, upstreamLifecycle
<1>2. ASSUME NEW u \in Upstreams, NEW e \in BOOLEAN, NEW s \in BOOLEAN,
   UpdateUpstream(u, e, s)
      PROVE  Goal
  BY <1>2, SMT DEF Types, LockHeld, Found, Idle, UpdateUpstream, upstreamLifecycle
<1>3. ASSUME NEW a \in Admins, NEW u \in Upstreams, NEW k \in Keys, CreateKeyBegin(a, u,
   k)
      PROVE  Goal
  BY <1>3, SMT DEF Types, LockHeld, Found, Idle, CreateKeyBegin, Begin
<1>4. ASSUME NEW a \in Admins, NEW u \in Upstreams, DeletionBegin(a, u)
      PROVE  Goal
  BY <1>4, SMT DEF Types, LockHeld, Found, Idle, DeletionBegin, Begin
<1>5. ASSUME NEW a \in Admins, CreateKeyCommit(a)
      PROVE  Goal
  BY <1>5, SMTT(30) DEF Types, LockHeld, Found, Idle, CreateKeyCommit, End
<1>6. ASSUME NEW a \in Admins, DeletionCommit(a)
      PROVE  Goal
  BY <1>6, SMT DEF Types, LockHeld, Found, Idle, DeletionCommit, End
<1>7. ASSUME NEW k \in Keys, RevokeKey(k)
      PROVE  Goal
  BY <1>7, SMT DEF Types, LockHeld, Found, Idle, RevokeKey
<1>8. ASSUME NEW f \in Finalizers, NEW u \in Upstreams, FinalizeBegin(f, u)
      PROVE  Goal
  BY <1>8, SMTT(30) DEF Types, LockHeld, Found, Idle, FinalizeBegin, Begin
<1>9. ASSUME NEW f \in Finalizers, FinalizeCommit(f)
      PROVE  Goal
  BY <1>9, SMTT(30) DEF Types, LockHeld, Found, Idle, FinalizeCommit, End
<1>10. ASSUME NEW a \in Actors, Abort(a)
      PROVE  Goal
  BY <1>10, SMT DEF Types, LockHeld, Found, Idle, Abort, End
<1> QED
  BY Frame, <1>0, <1>1, <1>2, <1>3, <1>4, <1>5, <1>6, <1>7, <1>8, <1>9, <1>10, Zenon

\* Two transactions never hold one lock, so the end of one leaves the others theirs.
LEMMA LockStep == Types /\ LockHeld /\ Found /\ [UpstreamNext]_upstreamVars => LockHeld'
<1> SUFFICES ASSUME Types, LockHeld, Found, [UpstreamNext]_upstreamVars PROVE LockHeld'
  OBVIOUS
<1> DEFINE Goal == LockHeld'
<1>0. CASE UNCHANGED dbVars
  BY <1>0, SMT DEF Types, LockHeld, Found, Idle, dbVars
<1>1. ASSUME NEW u \in Upstreams, NEW e \in BOOLEAN, NEW s \in BOOLEAN,
   CreateUpstream(u, e, s)
      PROVE  Goal
  BY <1>1, SMT DEF Types, LockHeld, Found, Idle, CreateUpstream, upstreamLifecycle
<1>2. ASSUME NEW u \in Upstreams, NEW e \in BOOLEAN, NEW s \in BOOLEAN,
   UpdateUpstream(u, e, s)
      PROVE  Goal
  BY <1>2, SMTT(30) DEF Types, LockHeld, Found, Idle, UpdateUpstream, upstreamLifecycle
<1>3. ASSUME NEW a \in Admins, NEW u \in Upstreams, NEW k \in Keys, CreateKeyBegin(a, u,
   k)
      PROVE  Goal
  BY <1>3, SMTT(30) DEF Types, LockHeld, Found, Idle, CreateKeyBegin, Begin
<1>4. ASSUME NEW a \in Admins, NEW u \in Upstreams, DeletionBegin(a, u)
      PROVE  Goal
  BY <1>4, SMTT(30) DEF Types, LockHeld, Found, Idle, DeletionBegin, Begin
<1>5. ASSUME NEW a \in Admins, CreateKeyCommit(a)
      PROVE  Goal
  BY <1>5, SMT DEF Types, LockHeld, Found, Idle, CreateKeyCommit, End
<1>6. ASSUME NEW a \in Admins, DeletionCommit(a)
      PROVE  Goal
  BY <1>6, SMT DEF Types, LockHeld, Found, Idle, DeletionCommit, End
<1>7. ASSUME NEW k \in Keys, RevokeKey(k)
      PROVE  Goal
  BY <1>7, SMTT(30) DEF Types, LockHeld, Found, Idle, RevokeKey
<1>8. ASSUME NEW f \in Finalizers, NEW u \in Upstreams, FinalizeBegin(f, u)
      PROVE  Goal
  BY <1>8, SMT DEF Types, LockHeld, Found, Idle, FinalizeBegin, Begin
<1>9. ASSUME NEW f \in Finalizers, FinalizeCommit(f)
      PROVE  Goal
  BY <1>9, SMTT(30) DEF Types, LockHeld, Found, Idle, FinalizeCommit, End
<1>10. ASSUME NEW a \in Actors, Abort(a)
      PROVE  Goal
  BY <1>10, SMT DEF Types, LockHeld, Found, Idle, Abort, End
<1> QED
  BY Frame, <1>0, <1>1, <1>2, <1>3, <1>4, <1>5, <1>6, <1>7, <1>8, <1>9, <1>10, Zenon

\* No step changes an upstream that a transaction has locked, nor its key.
LEMMA FoundStep == Types /\ LockHeld /\ Found /\ Fresh /\ [UpstreamNext]_upstreamVars => Found'
<1> SUFFICES ASSUME Types, LockHeld, Found, Fresh, [UpstreamNext]_upstreamVars PROVE Found'
  BY SMTT(30)
<1> DEFINE Goal == Found'
<1>0. CASE UNCHANGED dbVars
  BY <1>0, SMTT(30) DEF Types, LockHeld, Found, Fresh, Idle, dbVars
<1>1. ASSUME NEW u \in Upstreams, NEW e \in BOOLEAN, NEW s \in BOOLEAN,
   CreateUpstream(u, e, s)
      PROVE  Goal
  BY <1>1, SMTT(30) DEF Types, LockHeld, Found, Fresh, Idle, CreateUpstream,
     upstreamLifecycle
<1>2. ASSUME NEW u \in Upstreams, NEW e \in BOOLEAN, NEW s \in BOOLEAN,
   UpdateUpstream(u, e, s)
      PROVE  Goal
  BY <1>2, SMTT(30) DEF Types, LockHeld, Found, Fresh, Idle, UpdateUpstream,
     upstreamLifecycle
<1>3. ASSUME NEW a \in Admins, NEW u \in Upstreams, NEW k \in Keys, CreateKeyBegin(a, u,
   k)
      PROVE  Goal
  BY <1>3, SMTT(30) DEF Types, LockHeld, Found, Fresh, Idle, CreateKeyBegin, Begin
<1>4. ASSUME NEW a \in Admins, NEW u \in Upstreams, DeletionBegin(a, u)
      PROVE  Goal
  BY <1>4, SMTT(30) DEF Types, LockHeld, Found, Fresh, Idle, DeletionBegin, Begin
<1>5. ASSUME NEW a \in Admins, CreateKeyCommit(a)
      PROVE  Goal
  BY <1>5, SMTT(30) DEF Types, LockHeld, Found, Fresh, Idle, CreateKeyCommit, End
<1>6. ASSUME NEW a \in Admins, DeletionCommit(a)
      PROVE  Goal
  BY <1>6, SMTT(30) DEF Types, LockHeld, Found, Fresh, Idle, DeletionCommit, End
<1>7. ASSUME NEW k \in Keys, RevokeKey(k)
      PROVE  Goal
  BY <1>7, SMTT(30) DEF Types, LockHeld, Found, Fresh, Idle, RevokeKey
<1>8. ASSUME NEW f \in Finalizers, NEW u \in Upstreams, FinalizeBegin(f, u)
      PROVE  Goal
  BY <1>8, SMTT(30) DEF Types, LockHeld, Found, Fresh, Idle, FinalizeBegin, Begin
<1>9. ASSUME NEW f \in Finalizers, FinalizeCommit(f)
      PROVE  Goal
  BY <1>9, SMTT(30) DEF Types, LockHeld, Found, Fresh, Idle, FinalizeCommit, End
<1>10. ASSUME NEW a \in Actors, Abort(a)
      PROVE  Goal
  BY <1>10, SMT DEF Types, LockHeld, Found, Fresh, Idle, Abort, End
<1> QED
  BY Frame, <1>0, <1>1, <1>2, <1>3, <1>4, <1>5, <1>6, <1>7, <1>8, <1>9, <1>10, Zenon

\* A key id is taken by one transaction.
LEMMA FreshStep == Types /\ LockHeld /\ Found /\ Fresh /\ [UpstreamNext]_upstreamVars => Fresh'
<1> SUFFICES ASSUME Types, LockHeld, Found, Fresh, [UpstreamNext]_upstreamVars PROVE Fresh'
  OBVIOUS
<1> DEFINE Goal == Fresh'
<1>0. CASE UNCHANGED dbVars
  BY <1>0, SMTT(30) DEF Types, LockHeld, Found, Fresh, Idle, dbVars
<1>1. ASSUME NEW u \in Upstreams, NEW e \in BOOLEAN, NEW s \in BOOLEAN,
   CreateUpstream(u, e, s)
      PROVE  Goal
  BY <1>1, SMTT(30) DEF Types, LockHeld, Found, Fresh, Idle, CreateUpstream,
     upstreamLifecycle
<1>2. ASSUME NEW u \in Upstreams, NEW e \in BOOLEAN, NEW s \in BOOLEAN,
   UpdateUpstream(u, e, s)
      PROVE  Goal
  BY <1>2, SMTT(30) DEF Types, LockHeld, Found, Fresh, Idle, UpdateUpstream,
     upstreamLifecycle
<1>3. ASSUME NEW a \in Admins, NEW u \in Upstreams, NEW k \in Keys, CreateKeyBegin(a, u,
   k)
      PROVE  Goal
  BY <1>3, SMTT(30) DEF Types, LockHeld, Found, Fresh, Idle, CreateKeyBegin, Begin
<1>4. ASSUME NEW a \in Admins, NEW u \in Upstreams, DeletionBegin(a, u)
      PROVE  Goal
  BY <1>4, SMTT(30) DEF Types, LockHeld, Found, Fresh, Idle, DeletionBegin, Begin
<1>5. ASSUME NEW a \in Admins, CreateKeyCommit(a)
      PROVE  Goal
  BY <1>5, SMTT(30) DEF Types, LockHeld, Found, Fresh, Idle, CreateKeyCommit, End
<1>6. ASSUME NEW a \in Admins, DeletionCommit(a)
      PROVE  Goal
  BY <1>6, SMTT(30) DEF Types, LockHeld, Found, Fresh, Idle, DeletionCommit, End
<1>7. ASSUME NEW k \in Keys, RevokeKey(k)
      PROVE  Goal
  BY <1>7, SMTT(30) DEF Types, LockHeld, Found, Fresh, Idle, RevokeKey
<1>8. ASSUME NEW f \in Finalizers, NEW u \in Upstreams, FinalizeBegin(f, u)
      PROVE  Goal
  BY <1>8, SMTT(30) DEF Types, LockHeld, Found, Fresh, Idle, FinalizeBegin, Begin
<1>9. ASSUME NEW f \in Finalizers, FinalizeCommit(f)
      PROVE  Goal
  BY <1>9, SMTT(30) DEF Types, LockHeld, Found, Fresh, Idle, FinalizeCommit, End
<1>10. ASSUME NEW a \in Actors, Abort(a)
      PROVE  Goal
  BY <1>10, SMT DEF Types, LockHeld, Found, Fresh, Idle, Abort, End
<1> QED
  BY Frame, <1>0, <1>1, <1>2, <1>3, <1>4, <1>5, <1>6, <1>7, <1>8, <1>9, <1>10, Zenon

\* A key is created only while its upstream is active, and deletion revokes the live
\* ones.
LEMMA SealedStep ==
  Types /\ LockHeld /\ Found /\ Fresh /\ Sealed /\ [UpstreamNext]_upstreamVars => Sealed'
<1> SUFFICES ASSUME Types, LockHeld, Found, Fresh, Sealed, [UpstreamNext]_upstreamVars PROVE Sealed'
  OBVIOUS
<1> DEFINE Goal == Sealed'
<1>0. CASE UNCHANGED dbVars
  BY <1>0, SMTT(30) DEF Types, LockHeld, Found, Fresh, Sealed, Idle, dbVars
<1>1. ASSUME NEW u \in Upstreams, NEW e \in BOOLEAN, NEW s \in BOOLEAN,
   CreateUpstream(u, e, s)
      PROVE  Goal
  BY <1>1, SMTT(30) DEF Types, LockHeld, Found, Fresh, Sealed, Idle, CreateUpstream,
     upstreamLifecycle
<1>2. ASSUME NEW u \in Upstreams, NEW e \in BOOLEAN, NEW s \in BOOLEAN,
   UpdateUpstream(u, e, s)
      PROVE  Goal
  BY <1>2, SMTT(30) DEF Types, LockHeld, Found, Fresh, Sealed, Idle, UpdateUpstream,
     upstreamLifecycle
<1>3. ASSUME NEW a \in Admins, NEW u \in Upstreams, NEW k \in Keys, CreateKeyBegin(a, u,
   k)
      PROVE  Goal
  BY <1>3, SMTT(30) DEF Types, LockHeld, Found, Fresh, Sealed, Idle, CreateKeyBegin, Begin
<1>4. ASSUME NEW a \in Admins, NEW u \in Upstreams, DeletionBegin(a, u)
      PROVE  Goal
  BY <1>4, SMTT(30) DEF Types, LockHeld, Found, Fresh, Sealed, Idle, DeletionBegin, Begin
<1>5. ASSUME NEW a \in Admins, CreateKeyCommit(a)
      PROVE  Goal
  BY <1>5, SMTT(30) DEF Types, LockHeld, Found, Fresh, Sealed, Idle, CreateKeyCommit, End
<1>6. ASSUME NEW a \in Admins, DeletionCommit(a)
      PROVE  Goal
  BY <1>6, SMTT(30) DEF Types, LockHeld, Found, Fresh, Sealed, Idle, DeletionCommit, End
<1>7. ASSUME NEW k \in Keys, RevokeKey(k)
      PROVE  Goal
  BY <1>7, SMTT(30) DEF Types, LockHeld, Found, Fresh, Sealed, Idle, RevokeKey
<1>8. ASSUME NEW f \in Finalizers, NEW u \in Upstreams, FinalizeBegin(f, u)
      PROVE  Goal
  BY <1>8, SMTT(30) DEF Types, LockHeld, Found, Fresh, Sealed, Idle, FinalizeBegin, Begin
<1>9. ASSUME NEW f \in Finalizers, FinalizeCommit(f)
      PROVE  Goal
  BY <1>9, SMTT(30) DEF Types, LockHeld, Found, Fresh, Sealed, Idle, FinalizeCommit, End
<1>10. ASSUME NEW a \in Actors, Abort(a)
      PROVE  Goal
  BY <1>10, SMT DEF Types, LockHeld, Found, Fresh, Sealed, Idle, Abort, End
<1> QED
  BY Frame, <1>0, <1>1, <1>2, <1>3, <1>4, <1>5, <1>6, <1>7, <1>8, <1>9, <1>10, Zenon

\* An update cannot store a secret in a deleted upstream.
LEMMA SecretStep ==
  Types /\ SecretType /\ LockHeld /\ Found /\ SecretErased /\ [UpstreamNext]_upstreamVars => SecretErased'
<1> SUFFICES ASSUME Types, SecretType, LockHeld, Found, SecretErased, [UpstreamNext]_upstreamVars PROVE
   SecretErased'
  OBVIOUS
<1> DEFINE Goal == SecretErased'
<1>0. CASE UNCHANGED dbVars
  BY <1>0, SMTT(30) DEF Types, SecretType, LockHeld, Found, SecretErased, Idle, dbVars
<1>1. ASSUME NEW u \in Upstreams, NEW e \in BOOLEAN, NEW s \in BOOLEAN,
   CreateUpstream(u, e, s)
      PROVE  Goal
  BY <1>1, SMTT(30) DEF Types, SecretType, LockHeld, Found, SecretErased, Idle,
     CreateUpstream, upstreamLifecycle
<1>2. ASSUME NEW u \in Upstreams, NEW e \in BOOLEAN, NEW s \in BOOLEAN,
   UpdateUpstream(u, e, s)
      PROVE  Goal
  BY <1>2, SMTT(30) DEF Types, SecretType, LockHeld, Found, SecretErased, Idle,
     UpdateUpstream, upstreamLifecycle
<1>3. ASSUME NEW a \in Admins, NEW u \in Upstreams, NEW k \in Keys, CreateKeyBegin(a, u,
   k)
      PROVE  Goal
  BY <1>3, SMTT(30) DEF Types, SecretType, LockHeld, Found, SecretErased, Idle,
     CreateKeyBegin, Begin
<1>4. ASSUME NEW a \in Admins, NEW u \in Upstreams, DeletionBegin(a, u)
      PROVE  Goal
  BY <1>4, SMTT(30) DEF Types, SecretType, LockHeld, Found, SecretErased, Idle,
     DeletionBegin, Begin
<1>5. ASSUME NEW a \in Admins, CreateKeyCommit(a)
      PROVE  Goal
  BY <1>5, SMTT(30) DEF Types, SecretType, LockHeld, Found, SecretErased, Idle,
     CreateKeyCommit, End
<1>6. ASSUME NEW a \in Admins, DeletionCommit(a)
      PROVE  Goal
  BY <1>6, SMT DEF Types, SecretType, LockHeld, Found, SecretErased, Idle,
     DeletionCommit, End
<1>7. ASSUME NEW k \in Keys, RevokeKey(k)
      PROVE  Goal
  BY <1>7, SMTT(30) DEF Types, SecretType, LockHeld, Found, SecretErased, Idle, RevokeKey
<1>8. ASSUME NEW f \in Finalizers, NEW u \in Upstreams, FinalizeBegin(f, u)
      PROVE  Goal
  BY <1>8, SMTT(30) DEF Types, SecretType, LockHeld, Found, SecretErased, Idle,
     FinalizeBegin, Begin
<1>9. ASSUME NEW f \in Finalizers, FinalizeCommit(f)
      PROVE  Goal
  BY <1>9, SMTT(30) DEF Types, SecretType, LockHeld, Found, SecretErased, Idle,
     FinalizeCommit, End
<1>10. ASSUME NEW a \in Actors, Abort(a)
      PROVE  Goal
  BY <1>10, SMT DEF Types, SecretType, LockHeld, Found, SecretErased, Idle, Abort, End
<1> QED
  BY Frame, <1>0, <1>1, <1>2, <1>3, <1>4, <1>5, <1>6, <1>7, <1>8, <1>9, <1>10, Zenon

\* The steps that write a secret.
LEMMA SecretTypeStep == Types /\ SecretType /\ [UpstreamNext]_upstreamVars => SecretType'
<1> SUFFICES ASSUME Types, SecretType, [UpstreamNext]_upstreamVars PROVE SecretType'
  OBVIOUS
<1>1. ASSUME NEW u \in Upstreams, NEW e \in BOOLEAN, NEW s \in BOOLEAN,
             CreateUpstream(u, e, s)
      PROVE SecretType'
  BY <1>1, Zenon DEF SecretType, CreateUpstream, upstreamLifecycle
<1>2. ASSUME NEW u \in Upstreams, NEW e \in BOOLEAN, NEW s \in BOOLEAN,
             UpdateUpstream(u, e, s)
      PROVE SecretType'
  BY <1>2, Zenon DEF SecretType, UpdateUpstream, upstreamLifecycle
<1>3. ASSUME NEW a \in Admins, DeletionCommit(a) PROVE SecretType'
  BY <1>3, Zenon DEF SecretType, DeletionCommit, End
<1>4. secret' = secret => SecretType'
  BY Zenon DEF SecretType
<1>5. \/ secret' = secret
      \/ \E u \in Upstreams, e \in BOOLEAN, s \in BOOLEAN : CreateUpstream(u, e, s)
      \/ \E u \in Upstreams, e \in BOOLEAN, s \in BOOLEAN : UpdateUpstream(u, e, s)
      \/ \E a \in Admins : DeletionCommit(a)
  BY Zenon DEF UpstreamNext, Finalize, upstreamVars, CreateKeyBegin, Begin, DeletionBegin,
     CreateKeyCommit, End, RevokeKey, GraceElapses, FinalizeBegin, FinalizeCommit,
     Abort, Authenticate, Resolve, Finish
<1> QED
  BY <1>1, <1>2, <1>3, <1>4, <1>5, Zenon

\* The clock.
LEMMA DueStep == Types /\ DueType /\ [UpstreamNext]_upstreamVars => DueType'
<1> SUFFICES ASSUME Types, DueType, [UpstreamNext]_upstreamVars PROVE DueType'
  OBVIOUS
<1>1. ASSUME NEW u \in Upstreams, GraceElapses(u) PROVE DueType'
  BY <1>1, Zenon DEF DueType, GraceElapses
<1>2. due' = due => DueType'
  BY Zenon DEF DueType
<1>3. \/ due' = due
      \/ \E u \in Upstreams : GraceElapses(u)
  BY Zenon
    DEF UpstreamNext, Finalize, upstreamVars, CreateUpstream, UpdateUpstream, CreateKeyBegin,
     Begin, DeletionBegin, CreateKeyCommit, End, DeletionCommit, RevokeKey,
     FinalizeBegin, FinalizeCommit, Abort, Authenticate, Resolve, Finish
<1> QED
  BY <1>1, <1>2, <1>3, Zenon

\* The steps of a request.
LEMMA ReqStep == Types /\ ReqType /\ [UpstreamNext]_upstreamVars => ReqType'
<1> SUFFICES ASSUME Types, ReqType, [UpstreamNext]_upstreamVars PROVE ReqType'
  OBVIOUS
<1>1. ASSUME NEW r \in Requests, NEW k \in Keys, Authenticate(r, k) PROVE ReqType'
  BY <1>1, SMTT(30) DEF ReqType, Types, NoReq, Authenticate
<1>2. ASSUME NEW r \in Requests, Resolve(r) PROVE ReqType'
  <2>1. req[r].k \in Keys /\ bind[req[r].k] \in Upstreams \cup {NoOne}
    BY <1>2, SMT DEF ReqType, Types, Resolve
  <2>2. CASE req' = [req EXCEPT ![r] = NoReq]
    BY <2>2, SMTT(30) DEF ReqType, NoReq
  <2>3. CASE req' = [req EXCEPT ![r] = [pc |-> "bound", k |-> req[r].k, u |->
     bind[req[r].k]]]
    BY <2>1, <2>3, SMTT(30) DEF ReqType
  <2> QED
    BY <1>2, <2>2, <2>3, Zenon DEF Resolve
<1>3. ASSUME NEW r \in Requests, Finish(r) PROVE ReqType'
  BY <1>3, SMT DEF ReqType, Types, NoReq, Finish
<1>4. req' = req => ReqType'
  BY Zenon DEF ReqType
<1>5. \/ req' = req
      \/ \E r \in Requests, k \in Keys : Authenticate(r, k)
      \/ \E r \in Requests : Resolve(r)
      \/ \E r \in Requests : Finish(r)
  BY Zenon
    DEF UpstreamNext, Finalize, upstreamVars, CreateUpstream, UpdateUpstream, CreateKeyBegin,
     Begin, DeletionBegin, CreateKeyCommit, End, DeletionCommit, RevokeKey,
     GraceElapses, FinalizeBegin, FinalizeCommit, Abort
<1> QED
  BY <1>1, <1>2, <1>3, <1>4, <1>5, Zenon

\* The bound on aborts.
LEMMA AbortsStep == Types /\ AbortsType /\ [UpstreamNext]_upstreamVars => AbortsType'
<1> SUFFICES ASSUME Types, AbortsType, [UpstreamNext]_upstreamVars PROVE AbortsType'
  OBVIOUS
<1>1. ASSUME NEW a \in Actors, Abort(a) PROVE AbortsType'
  BY <1>1, SMT DEF AbortsType, Types, NoReq, Abort, End
<1>2. aborts' = aborts => AbortsType'
  BY Zenon DEF AbortsType
<1>3. \/ aborts' = aborts
      \/ \E a \in Actors : Abort(a)
  BY Zenon
    DEF UpstreamNext, Finalize, upstreamVars, CreateUpstream, UpdateUpstream, CreateKeyBegin,
     Begin, DeletionBegin, CreateKeyCommit, End, DeletionCommit, RevokeKey,
     GraceElapses, FinalizeBegin, FinalizeCommit, Authenticate, Resolve, Finish
<1> QED
  BY <1>1, <1>2, <1>3, Zenon

\* The parts together.
LEMMA StepUpstreamInv == UpstreamInv /\ [UpstreamNext]_upstreamVars => UpstreamInv'
  BY TypesStep, LockStep, FoundStep, FreshStep, SealedStep, SecretStep, SecretTypeStep,
     DueStep,
     ReqStep, AbortsStep, Zenon DEF UpstreamInv, DbInv, Rest

\* The initial state satisfies the whole invariant.
LEMMA InitUpstreamInv == UpstreamInit => UpstreamInv
<1> SUFFICES ASSUME UpstreamInit PROVE UpstreamInv
  OBVIOUS
<1>1. SecretType /\ DueType
  BY Zenon DEF UpstreamInit, SecretType, DueType
<1>2. SecretErased
  BY SMT DEF UpstreamInit, SecretErased
<1>3. ReqType /\ AbortsType
  BY SMT DEF UpstreamInit, NoReq, ReqType, AbortsType
<1> QED
  BY InitDbInv, <1>1, <1>2, <1>3, Zenon DEF UpstreamInv, Rest

\* The invariant holds in every reachable state.
LEMMA UpstreamInvariance == UpstreamSpec => []UpstreamInv
  BY InitUpstreamInv, StepUpstreamInv, PTL DEF UpstreamSpec
-----------------------------------------------------------------------------
\* The variables keep their types and an open transaction holds the lock it
\* took, for any number of upstreams, keys, administrators and gateways.
THEOREM TypeCorrect == UpstreamSpec => []UpstreamTypeOK
<1>1. UpstreamInv => UpstreamTypeOK
  <2> SUFFICES ASSUME UpstreamInv PROVE UpstreamTypeOK
    BY SMTT(30)
  <2>1. \A a \in Actors : tx[a] # Idle => lock[tx[a].u] = a
    BY SMT DEF UpstreamInv, DbInv, Types, LockHeld, Found, Idle
  <2> QED
    BY <2>1, Zenon
      DEF UpstreamInv, DbInv, Types, Rest, SecretType, DueType, ReqType, AbortsType,
       UpstreamTypeOK
<1> QED
  BY <1>1, UpstreamInvariance, PTL

\* RequestUpstreamDeletion seals an upstream: from its commit on it has no
\* secret and no live key, whatever creations and updates were under way.
THEOREM DeletionSeals == UpstreamSpec => []DeletingIsSealed
<1>1. UpstreamInv => DeletingIsSealed
  BY Zenon DEF UpstreamInv, DbInv, Sealed, SecretErased, DeletingIsSealed
<1> QED
  BY <1>1, UpstreamInvariance, PTL

\* No step of any actor brings back a deleted upstream or a revoked key.
THEOREM DeletionHolds == UpstreamSpec => DeletionIsFinal
<1> DEFINE Goal ==
     /\ \A u \in Upstreams :
          /\ ups[u] = "deleting" => ups'[u] \in {"deleting", "gone"}
          /\ ups[u] = "gone" => ups'[u] = "gone"
     /\ \A k \in Keys : key[k] \in {"revoked", "deleted"} => key'[k] # "live"
<1>a. UpstreamInv /\ [UpstreamNext]_upstreamVars => Goal
  <2> SUFFICES ASSUME UpstreamInv, [UpstreamNext]_upstreamVars PROVE Goal
    OBVIOUS
  <2> Types /\ LockHeld /\ Found
    BY SMTT(30) DEF UpstreamInv, DbInv
  <2>0. CASE UNCHANGED dbVars
    BY <2>0, SMTT(30) DEF Types, LockHeld, Found, dbVars
  <2>1. ASSUME NEW u \in Upstreams, NEW e \in BOOLEAN, NEW s \in BOOLEAN,
     CreateUpstream(u, e, s)
        PROVE  Goal
    BY <2>1, SMTT(30) DEF Types, LockHeld, Found, CreateUpstream, upstreamLifecycle
  <2>2. ASSUME NEW u \in Upstreams, NEW e \in BOOLEAN, NEW s \in BOOLEAN,
     UpdateUpstream(u, e, s)
        PROVE  Goal
    BY <2>2, SMTT(30) DEF Types, LockHeld, Found, UpdateUpstream, upstreamLifecycle
  <2>3. ASSUME NEW a \in Admins, NEW u \in Upstreams, NEW k \in Keys, CreateKeyBegin(a,
     u, k)
        PROVE  Goal
    BY <2>3, SMTT(30) DEF Types, LockHeld, Found, CreateKeyBegin, Begin
  <2>4. ASSUME NEW a \in Admins, NEW u \in Upstreams, DeletionBegin(a, u)
        PROVE  Goal
    BY <2>4, SMTT(30) DEF Types, LockHeld, Found, DeletionBegin, Begin
  <2>5. ASSUME NEW a \in Admins, CreateKeyCommit(a)
        PROVE  Goal
    BY <2>5, SMTT(30) DEF Types, LockHeld, Found, CreateKeyCommit, End
  <2>6. ASSUME NEW a \in Admins, DeletionCommit(a)
        PROVE  Goal
    BY <2>6, SMTT(30) DEF Types, LockHeld, Found, DeletionCommit, End
  <2>7. ASSUME NEW k \in Keys, RevokeKey(k)
        PROVE  Goal
    BY <2>7, SMTT(30) DEF Types, LockHeld, Found, RevokeKey
  <2>8. ASSUME NEW f \in Finalizers, NEW u \in Upstreams, FinalizeBegin(f, u)
        PROVE  Goal
    BY <2>8, SMTT(30) DEF Types, LockHeld, Found, FinalizeBegin, Begin
  <2>9. ASSUME NEW f \in Finalizers, FinalizeCommit(f)
        PROVE  Goal
    BY <2>9, SMTT(30) DEF Types, LockHeld, Found, FinalizeCommit, End
  <2>10. ASSUME NEW a \in Actors, Abort(a)
        PROVE  Goal
    BY <2>10, SMT DEF Types, LockHeld, Found, Abort, End
  <2> QED
    BY Frame, <2>0, <2>1, <2>2, <2>3, <2>4, <2>5, <2>6, <2>7, <2>8, <2>9, <2>10, ZenonT(60)
<1> QED
  BY <1>a, UpstreamInvariance, PTL DEF UpstreamSpec, DeletionIsFinal

\* GetUpstreamForGatewayKey gives out a route only from a live key to an
\* active upstream.
THEOREM RoutesAreActive == UpstreamSpec => RouteWhileActive
<1> DEFINE Goal == \A r \in Requests : req'[r].pc = "bound" /\ req[r].pc # "bound" =>
                     key[req'[r].k] = "live" /\ ups[req'[r].u] = "active"
<1>a. UpstreamInv /\ [UpstreamNext]_upstreamVars => Goal
  <2> SUFFICES ASSUME UpstreamInv, [UpstreamNext]_upstreamVars PROVE Goal
    OBVIOUS
  <2>1. req' = req => Goal
    BY SMTT(30)
  <2>2. ASSUME NEW r \in Requests, NEW k \in Keys, Authenticate(r, k) PROVE Goal
    BY <2>2, SMTT(30) DEF Authenticate, UpstreamInv, Rest, ReqType
  <2>3. ASSUME NEW r \in Requests, Resolve(r) PROVE Goal
    BY <2>3, SMTT(30) DEF Resolve, NoReq, UpstreamInv, Rest, ReqType
  <2>4. ASSUME NEW r \in Requests, Finish(r) PROVE Goal
    BY <2>4, SMTT(30) DEF Finish, NoReq, UpstreamInv, Rest, ReqType
  <2>5. \/ req' = req
        \/ \E r \in Requests, k \in Keys : Authenticate(r, k)
        \/ \E r \in Requests : Resolve(r)
        \/ \E r \in Requests : Finish(r)
    BY Zenon
      DEF UpstreamNext, Finalize, upstreamVars, CreateUpstream, UpdateUpstream, CreateKeyBegin,
       Begin,
       DeletionBegin, CreateKeyCommit, End, DeletionCommit, RevokeKey, GraceElapses,
       FinalizeBegin, FinalizeCommit, Abort
  <2> QED
    BY <2>1, <2>2, <2>3, <2>4, <2>5, Zenon
<1> QED
  BY <1>a, UpstreamInvariance, PTL DEF UpstreamSpec, RouteWhileActive

-----------------------------------------------------------------------------
\* The account and its sessions, for any number of sign-ins, sessions and
\* passwords and any limits of the guards.

Phases == {"idle", "read", "matched", "insert"}
Rows == [by : Int, excused : BOOLEAN]
Logins == [pc : Phases, read : Int \cup {None}, excused : BOOLEAN]

\* A session to be: the password was compared and the row is not stored yet.
Pending == {r \in SignIns : login[r].pc \in {"matched", "insert"}}

Updating == \E c \in Changes : change[c].pc = "updated"

SessionTypes ==
  /\ password \in Nat \cup {None} /\ chosen \in Nat /\ issued \in Nat
  /\ row \in [Sessions -> Rows \cup {None}]
  /\ login \in [SignIns -> Logins]
  /\ change \in [Changes -> [pc : {"idle", "setup", "verified", "updated"},
                             token : Sessions \cup {None}]]
  /\ \A r \in Pending : login[r].read \in Int

\* What OldPasswordEnds says of sessions, said of pending sign-ins too, and that
\* without an account there is neither: setup is then the first to choose a
\* password that anything could have been compared with.
SessionInv ==
  /\ SessionTypes
  /\ OldPasswordEnds
  /\ \A r \in Pending : login[r].read = password \/ login[r].excused \/ Updating
  /\ password = None => Live = {} /\ Pending = {}
-----------------------------------------------------------------------------
\* No session, sign-in or change before the account is set up.
LEMMA InitSessionInv == Init => SessionInv
<1> SUFFICES ASSUME Init PROVE SessionInv  OBVIOUS
<1>1. \A r \in SignIns : login[r] = IdleLogin  BY SMTT(30) DEF Init
<1>2. Pending = {}  BY <1>1 DEF Pending, IdleLogin
<1>3. Live = {}  BY DEF Init, Live
<1>4. SessionTypes
  <2>1. IdleLogin \in Logins  BY DEF IdleLogin, Logins, Phases
  <2>2. IdleChange \in [pc : {"idle", "setup", "verified", "updated"},
                        token : Sessions \cup {None}]
    BY DEF IdleChange
  <2> QED  BY <1>2, <2>1, <2>2, SMTT(30) DEF Init, SessionTypes
<1> QED  BY <1>2, <1>3, <1>4 DEF SessionInv, OldPasswordEnds

\* A step that leaves the account, its sessions and the changes alone, where a
\* sign-in that gets past its comparison was compared with the password.
LEMMA LoginIInv ==
  ASSUME SessionInv, NEW r \in SignIns, NEW new \in Logins,
         login' = [login EXCEPT ![r] = new],
         UNCHANGED <<accountVars, change>>,
         new.pc \in {"matched", "insert"} =>
           \/ new.read = password /\ password # None
           \/ r \in Pending /\ new.read = login[r].read /\ new.excused = login[r].excused
  PROVE  SessionInv'
<1> USE DEF SessionInv
<1>1. login' \in [SignIns -> Logins] /\ login'[r] = new
      /\ (\A q \in SignIns : q # r => login'[q] = login[q])
  BY SMTT(30) DEF SessionTypes
<1>2. Live' = Live /\ (Updating' <=> Updating) /\ OldPasswordEnds'
  BY DEF accountVars, userVars, Live, Updating, OldPasswordEnds
<1>3. \A q \in Pending' : \/ login'[q].read = password /\ password # None
                          \/ /\ q \in Pending /\ login'[q].read = login[q].read
                             /\ login'[q].excused = login[q].excused
  BY <1>1, SMTT(30) DEF Pending
<1>4. SessionTypes'
  <2>1. \A q \in Pending' : login'[q].read \in Int  BY <1>3, SMT DEF SessionTypes
  <2> QED  BY <1>1, <2>1 DEF SessionTypes, accountVars, userVars
<1>5. \A q \in Pending' : login'[q].read = password \/ login'[q].excused \/ Updating
  BY <1>3
<1>6. password = None => Pending' = {}  BY <1>3, SMTT(30)
<1> QED  BY <1>2, <1>4, <1>5, <1>6, SMTT(30) DEF accountVars, userVars

\* A step that only ends sessions.
LEMMA EndIInv ==
  ASSUME SessionInv, row' \in [Sessions -> Rows \cup {None}],
         \A s \in Sessions : row'[s] = None \/ row'[s] = row[s],
         UNCHANGED <<password, chosen, issued, login, change>>
  PROVE  SessionInv'
<1> USE DEF SessionInv
<1>1. \A s \in Live' : s \in Live /\ row'[s] = row[s]  BY DEF Live
<1>2. OldPasswordEnds'  BY <1>1, SMTT(30) DEF OldPasswordEnds
<1>3. Pending' = Pending /\ (Updating' <=> Updating)  BY SMTT(30) DEF Pending, Updating
<1>4. SessionTypes'  BY <1>3, SMTT(30) DEF SessionTypes
<1> QED  BY <1>1, <1>2, <1>3, <1>4, SMTT(30)

\* A session is ended or excused.
ExcuseRows ==
  \A s \in Sessions : \/ row'[s] = None
                      \/ row[s] # None /\ row'[s] = [row[s] EXCEPT !.excused = TRUE]

\* A step by which every session and pending sign-in that is left is excused.
LEMMA ExcuseIInv ==
  ASSUME SessionInv, NEW c \in Changes,
         change' = [change EXCEPT ![c] = IdleChange],
         ExcuseRows,
         row' \in [Sessions -> Rows \cup {None}],
         ExcusePending,
         UNCHANGED <<password, chosen, issued>>
  PROVE  SessionInv'
<1> USE DEF SessionInv
<1>1. \A s \in Sessions : row'[s] # None =>
        row[s] # None /\ row'[s] \in Rows /\ row'[s].excused
  BY SMTT(30) DEF SessionTypes, Rows, ExcuseRows
<1>2. \A r \in SignIns :
        /\ login'[r] \in Logins /\ login'[r].pc = login[r].pc
        /\ login'[r].read = login[r].read
        /\ login[r].pc \in {"matched", "insert"} => login'[r].excused
  <2> SUFFICES ASSUME NEW r \in SignIns
               PROVE  /\ login'[r] \in Logins /\ login'[r].pc = login[r].pc
                      /\ login'[r].read = login[r].read
                      /\ login[r].pc \in {"matched", "insert"} => login'[r].excused
    OBVIOUS
  <2>1. login[r] \in Logins  BY DEF SessionTypes
  <2>2. CASE login[r].pc \in {"matched", "insert"}
    <3>1. login'[r] = [login[r] EXCEPT !.excused = TRUE]  BY <2>2, SMTT(30)
                                                            DEF ExcusePending
    <3> QED  BY <2>1, <3>1, Zenon DEF Logins
  <2>3. CASE login[r].pc \notin {"matched", "insert"}
    <3>1. login'[r] = login[r]  BY <2>3, SMTT(30) DEF ExcusePending
    <3> QED  BY <2>1, <2>3, <3>1
  <2> QED  BY <2>2, <2>3, SMTT(30)
<1>3. Pending' = Pending /\ Live' \subseteq Live  BY <1>1, <1>2, SMTT(30) DEF Pending, Live
<1>4. OldPasswordEnds'  BY <1>1, SMTT(30) DEF OldPasswordEnds, Live
<1>5. \A r \in Pending' : login'[r].excused  BY <1>2, <1>3, SMTT(30) DEF Pending
<1>6. SessionTypes'
  <2>2. login' \in [SignIns -> Logins]  BY <1>2, SMTT(30) DEF ExcusePending
  <2>3. change' \in [Changes -> [pc : {"idle", "setup", "verified", "updated"},
                                 token : Sessions \cup {None}]]
    BY SMTT(30) DEF SessionTypes, IdleChange
  <2>4. \A r \in Pending' : login'[r].read \in Int  BY <1>2, <1>3, SMTT(30)
                                                      DEF SessionTypes, Pending
  <2> QED  BY <2>2, <2>3, <2>4 DEF SessionTypes
<1> QED  BY <1>3, <1>4, <1>5, <1>6

\* A step of a setup or a change that leaves sessions and sign-ins alone.
LEMMA ChangeIInv ==
  ASSUME SessionInv, NEW c \in Changes,
         NEW new \in [pc : {"idle", "setup", "verified", "updated"},
                      token : Sessions \cup {None}],
         change' = [change EXCEPT ![c] = new],
         change[c].pc # "updated",
         UNCHANGED <<row, issued, login>>,
         chosen' \in Nat,
         \/ password' = password
         \/ password = None /\ password' \in Nat
         \/ new.pc = "updated" /\ password' \in Nat
  PROVE  SessionInv'
<1> USE DEF SessionInv
<1>1. /\ change' \in [Changes -> [pc : {"idle", "setup", "verified", "updated"},
                                  token : Sessions \cup {None}]]
      /\ change'[c] = new
      /\ \A d \in Changes : d # c => change'[d] = change[d]
  BY SMTT(30) DEF SessionTypes
<1>2. Updating => Updating'  BY <1>1, SMTT(30) DEF Updating
<1>3. new.pc = "updated" => Updating'  BY <1>1, SMTT(30) DEF Updating
<1>4. Live' = Live /\ Pending' = Pending  BY SMTT(30) DEF Live, Pending
<1>5. password' # password => password = None \/ Updating'  BY <1>3, SMTT(30)
<1>6. OldPasswordEnds'
  BY <1>2, <1>4, <1>5, SMTT(30) DEF OldPasswordEnds, Updating
<1>7. \A r \in Pending' : login'[r].read = password' \/ login'[r].excused \/ Updating'
  BY <1>2, <1>4, <1>5, SMTT(30)
<1>8. SessionTypes'  BY <1>1, <1>4, SMTT(30) DEF SessionTypes
<1>9. password' = None => password = None  BY LoginGuardAssumption, SMTT(30)
<1> QED  BY <1>4, <1>6, <1>7, <1>8, <1>9, SMTT(30)

\* Every step of the requests, of the administrator and of the clock.
LEMMA NextIInv == SessionInv /\ [Next]_vars => SessionInv'
<1> SUFFICES ASSUME SessionInv, [Next]_vars PROVE SessionInv'  BY SMTT(30)
<1> USE DEF SessionInv
<1>0. IdleLogin \in Logins /\ IdleLogin.pc = "idle"
  BY SMTT(30) DEF IdleLogin, Logins, Phases
<1>1. ASSUME NEW r \in SignIns, LoginBegins(r) PROVE SessionInv'
  <2> DEFINE new == [IdleLogin EXCEPT !.pc = "read"]
  <2>1. new \in Logins /\ new.pc = "read"  BY Zenon DEF IdleLogin, Logins, Phases
  <2>2. login' = [login EXCEPT ![r] = new] /\ UNCHANGED <<accountVars, change>>
    BY <1>1, SMTT(30) DEF LoginBegins, At
  <2> HIDE DEF new
  <2> QED  BY <2>1, <2>2, LoginIInv, Zenon
<1>2. ASSUME NEW r \in SignIns, LoginReads(r) PROVE SessionInv'
  <2> DEFINE new == [IdleLogin EXCEPT !.pc = "matched", !.read = password]
  <2>1. password # None /\ password \in Int  BY <1>2, SMT DEF LoginReads, SessionTypes
  <2>2. new \in Logins /\ new.read = password /\ new.pc = "matched"
    BY <2>1, Zenon DEF IdleLogin, Logins, Phases
  <2>3. login' = [login EXCEPT ![r] = new] /\ UNCHANGED <<accountVars, change>>
    BY <1>2, SMTT(30) DEF LoginReads, At
  <2> HIDE DEF new
  <2> QED  BY <2>1, <2>2, <2>3, LoginIInv, Zenon
<1>3. ASSUME NEW r \in SignIns, LoginFails(r) PROVE SessionInv'
  BY <1>0, <1>3, LoginIInv, ZenonT(60) DEF LoginFails, At
<1>4. ASSUME NEW r \in SignIns, LoginSucceeds(r) PROVE SessionInv'
  <2> DEFINE new == [login[r] EXCEPT !.pc = "insert"]
  <2>1. login[r] \in Logins /\ login[r].pc = "matched" /\ r \in Pending
    BY <1>4, SMTT(30) DEF LoginSucceeds, At, SessionTypes, Pending
  <2>2. new \in Logins /\ new.read = login[r].read /\ new.excused = login[r].excused
        /\ new.pc = "insert"
    BY <2>1, SMTT(30) DEF Logins, Phases
  <2>3. login' = [login EXCEPT ![r] = new] /\ UNCHANGED <<accountVars, change>>
    BY <1>4, SMTT(30) DEF LoginSucceeds, At
  <2> HIDE DEF new
  <2> QED  BY <2>1, <2>2, <2>3, LoginIInv, Zenon
<1>5. ASSUME NEW r \in SignIns, LoginInserts(r) PROVE SessionInv'
  <2> DEFINE new == [by |-> login[r].read, excused |-> login[r].excused]
  <2>1. r \in Pending /\ login' = [login EXCEPT ![r] = IdleLogin]
        /\ UNCHANGED <<userVars, password, chosen, change>>
    BY <1>5, ZenonT(60) DEF LoginInserts, At, Pending, userVars
  <2>2. CASE UNCHANGED <<row, issued>>
    BY <1>0, <2>1, <2>2, LoginIInv, ZenonT(60) DEF accountVars, userVars
  <2>3. CASE /\ issued < MaxSessions /\ issued' = issued + 1
             /\ row' = [row EXCEPT ![issued'] = new]
    <3>1. new \in Rows /\ new.by = login[r].read /\ new.excused = login[r].excused
      BY <2>1, ZenonT(60) DEF SessionTypes, Pending, Logins, Rows
    <3>2. issued' \in Sessions /\ issued' \in Nat
      BY <2>3, AdminSessionsAssumption, SMTT(30) DEF SessionTypes, Sessions
    <3>3. /\ row' \in [Sessions -> Rows \cup {None}]
          /\ \A s \in Sessions : row'[s] = row[s] \/ row'[s] = new
      <4> HIDE DEF new
      <4> QED  BY <2>3, <3>1, <3>2, ZenonT(60) DEF SessionTypes
    <3>4. /\ login' \in [SignIns -> Logins] /\ login'[r].pc = "idle"
          /\ \A q \in SignIns : q # r => login'[q] = login[q]
      BY <1>0, <2>1, SMTT(30) DEF SessionTypes, Pending
    <3>5. Pending' \subseteq Pending /\ (\A q \in Pending' : login'[q] = login[q])
      BY <3>4, SMTT(30) DEF Pending
    <3>6. Updating' <=> Updating  BY <2>1, SMTT(30) DEF Updating
    <3>7. new.by = password \/ new.excused \/ Updating  BY <2>1, <3>1, SMTT(30)
    <3>8. OldPasswordEnds'
      <4> HIDE DEF new
      <4> QED  BY <2>1, <3>3, <3>6, <3>7, ZenonT(60) DEF OldPasswordEnds, Live, Updating
    <3>9. SessionTypes'
      BY <2>1, <3>2, <3>3, <3>4, <3>5, ZenonT(60) DEF SessionTypes
    <3>10. password # None  BY <2>1, SMTT(30)
    <3> QED  BY <2>1, <3>5, <3>6, <3>8, <3>9, <3>10
  <2> QED  BY <1>5, <2>2, <2>3, ZenonT(60) DEF LoginInserts
<1> DEFINE States == [pc : {"idle", "setup", "verified", "updated"}, token : Sessions \cup {None}]
<1>6. ASSUME NEW c \in Changes, SetupCounts(c) PROVE SessionInv'
  <2> DEFINE new == [IdleChange EXCEPT !.pc = "setup"]
  <2>1. new \in States /\ new.pc = "setup"  BY DEF IdleChange
  <2>2. change' = [change EXCEPT ![c] = new] /\ change[c].pc = "idle"
        /\ UNCHANGED <<row, issued, login, chosen, password>>
    BY <1>6, SMTT(30) DEF SetupCounts, Moves, accountVars, userVars
  <2> HIDE DEF new
  <2> QED  BY <2>1, <2>2, ChangeIInv, Zenon DEF SessionTypes
<1>7. ASSUME NEW c \in Changes, SetupCreates(c) PROVE SessionInv'
  <2>1. IdleChange \in States  BY SMTT(30) DEF IdleChange
  <2>2. change' = [change EXCEPT ![c] = IdleChange] /\ change[c].pc = "setup"
        /\ UNCHANGED <<row, issued, login>>
    BY <1>7, SMTT(30) DEF SetupCreates, Moves
  <2>3. chosen' \in Nat /\ (password' = password \/ (password = None /\ password' \in Nat))
    BY <1>7, SMTT(30) DEF SetupCreates, CreateAdminUser, SessionTypes, userVars
  <2> QED  BY <2>1, <2>2, <2>3, ChangeIInv, ZenonT(60)
<1>8. ASSUME NEW c \in Changes, NEW s \in Sessions, ChangeVerifies(c, s) PROVE SessionInv'
  <2> DEFINE new == [pc |-> "verified", token |-> s]
  <2>1. new \in States  BY SMTT(30)
  <2>2. change' = [change EXCEPT ![c] = new] /\ change[c].pc = "idle"
        /\ UNCHANGED <<row, issued, login, chosen, password>>
    BY <1>8, SMTT(30) DEF ChangeVerifies, Moves, accountVars, userVars
  <2> HIDE DEF new
  <2> QED  BY <2>1, <2>2, ChangeIInv, ZenonT(60) DEF SessionTypes
<1>9. ASSUME NEW c \in Changes, ChangeUpdates(c, "verified", "updated") PROVE SessionInv'
  <2> DEFINE new == [change[c] EXCEPT !.pc = "updated"]
  <2>1. change[c] \in States  BY DEF SessionTypes
  <2>2. new \in States /\ new.pc = "updated"  BY <2>1
  <2>3. change' = [change EXCEPT ![c] = new] /\ change[c].pc = "verified"
        /\ UNCHANGED <<row, issued, login>>
    BY <1>9, SMTT(30) DEF ChangeUpdates, Moves
  <2>4. chosen' \in Nat /\ password' \in Nat  BY <1>9, SMTT(30)
                                                DEF ChangeUpdates, SessionTypes
  <2> HIDE DEF new
  <2> QED  BY <2>2, <2>3, <2>4, ChangeIInv, ZenonT(60)
<1>10. ASSUME NEW c \in Changes, ChangeRevokes(c, "updated", IdleChange) PROVE SessionInv'
  <2>1. ExcuseRows  BY <1>10, SMTT(30) DEF ExcuseRows, ChangeRevokes
  <2>2. \A s \in Sessions : row[s] # None => [row[s] EXCEPT !.excused = TRUE] \in Rows
    BY ZenonT(60) DEF SessionTypes, Rows
  <2>3. row' \in [Sessions -> Rows \cup {None}]
    <3>1. \A s \in Sessions : row'[s] \in Rows \cup {None}  BY <2>1, <2>2, Zenon
                                                              DEF ExcuseRows
    <3>2. DOMAIN row' = Sessions /\ row' = [s \in DOMAIN row' |-> row'[s]]
      BY <1>10, Zenon DEF ChangeRevokes
    <3> QED  BY <3>1, <3>2
  <2>4. change' = [change EXCEPT ![c] = IdleChange] /\ UNCHANGED <<password, chosen, issued>>
    BY <1>10, SMTT(30) DEF ChangeRevokes, Moves, userVars
  <2>5. ExcusePending  BY <1>10, SMTT(30) DEF ChangeRevokes
  <2> QED  BY <2>1, <2>3, <2>4, <2>5, ExcuseIInv, ZenonT(60)
<1>11. ASSUME NEW c \in Changes, ChangeFails(c) PROVE SessionInv'
  <2>1. ExcuseRows  BY <1>11, SMTT(30) DEF ExcuseRows, ChangeFails
  <2>2. \A s \in Sessions : row[s] # None => [row[s] EXCEPT !.excused = TRUE] \in Rows
    BY Zenon DEF SessionTypes, Rows
  <2>3. row' \in [Sessions -> Rows \cup {None}]
    <3>1. \A s \in Sessions : row'[s] \in Rows \cup {None}  BY <2>1, <2>2, Zenon
                                                              DEF ExcuseRows
    <3>2. DOMAIN row' = Sessions /\ row' = [s \in DOMAIN row' |-> row'[s]]
      BY <1>11, ZenonT(60) DEF ChangeFails
    <3> QED  BY <3>1, <3>2
  <2>4. change' = [change EXCEPT ![c] = IdleChange] /\ UNCHANGED <<password, chosen, issued>>
    BY <1>11, SMTT(30) DEF ChangeFails, Moves, userVars
  <2>5. ExcusePending  BY <1>11, SMTT(30) DEF ChangeFails
  <2> QED  BY <2>1, <2>3, <2>4, <2>5, ExcuseIInv, Zenon
<1>12. ASSUME NEW s \in Sessions, Logout(s) \/ LogoutAll(s) PROVE SessionInv'
  <2>1. /\ row' \in [Sessions -> Rows \cup {None}]
        /\ \A t \in Sessions : row'[t] = None \/ row'[t] = row[t]
        /\ UNCHANGED <<password, chosen, issued, login, change>>
    BY <1>12, ZenonT(60) DEF Logout, LogoutAll, SessionTypes, userVars
  <2> QED  BY <2>1, EndIInv, ZenonT(60)
<1>13. ASSUME UNCHANGED <<accountVars, login, change>> PROVE SessionInv'
  BY <1>13, ZenonT(60)
    DEF SessionTypes, OldPasswordEnds, Pending, Updating, Live, accountVars, userVars
<1>14. CASE TimePasses  BY <1>13, <1>14, ZenonT(60) DEF TimePasses
<1>15. CASE UNCHANGED vars  BY <1>13, <1>15, ZenonT(60) DEF vars
<1> QED
  BY <1>1, <1>2, <1>3, <1>4, <1>5, <1>6, <1>7, <1>8, <1>9, <1>10, <1>11, <1>12, <1>14, <1>15, ZenonT(60)
  DEF Next, Login, Change

\* The invariant holds in every reachable state.
LEMMA SessionInvariance == Spec => []SessionInv
  BY InitSessionInv, NextIInv, PTL DEF Spec
-----------------------------------------------------------------------------
\* changePassword and login, each several statements that interleave: a session
\* on a password that was replaced is one of the exceptions that
\* OldPasswordEnds names.
THEOREM OldSessionsEnd == Spec => []OldPasswordEnds
<1>1. SessionInv => OldPasswordEnds  BY DEF SessionInv
<1> QED  BY <1>1, SessionInvariance, PTL

(***************************************************************************)
(* The accounts that setups create.  Once there is one no setup counts     *)
(* none any more, and those that had are fewer with every account.         *)
(***************************************************************************)
SetupInv ==
  /\ others \subseteq OtherNames /\ late \in Nat
  /\ Accounts > 0 => Accounts + Cardinality(InSetup) <= 1 + late

\* The accounts and the setups under way can be counted.
LEMMA SetupCounted ==
  ASSUME others \subseteq OtherNames
  PROVE  /\ IsFiniteSet(others) /\ Cardinality(others) \in Nat /\ Accounts \in Nat
         /\ IsFiniteSet(InSetup) /\ Cardinality(InSetup) \in Nat
<1>1. IsFiniteSet(others) /\ IsFiniteSet(InSetup)
  BY AdminSessionsAssumption, FS_Subset, SMTT(30) DEF InSetup
<1> QED  BY <1>1, FS_CardinalityType, SMTT(30) DEF Accounts

\* A step that creates no account, and after which no setup is under way that was
\* not before.
LEMMA SetupSame ==
  ASSUME SetupInv, UNCHANGED <<others, late>>, Accounts' = Accounts,
         InSetup' \subseteq InSetup
  PROVE  SetupInv'
<1>1. Cardinality(InSetup') <= Cardinality(InSetup) /\ Cardinality(InSetup') \in Nat
  BY SetupCounted, FS_Subset, FS_CardinalityType, SMTT(30) DEF SetupInv
<1>2. Cardinality(InSetup) \in Nat /\ Accounts \in Nat  BY SetupCounted DEF SetupInv
<1> QED  BY <1>1, <1>2, SMTT(30) DEF SetupInv

\* CreateAdminUser in a setup that had counted no account.
LEMMA CreatesSetupInv ==
  ASSUME SessionTypes, SetupInv, NEW c \in Changes, SetupCreates(c)
  PROVE  SetupInv'
<1>1. /\ InSetup' = InSetup \ {c} /\ c \in InSetup
  BY SMTT(30) DEF SetupCreates, Moves, InSetup, SessionTypes, IdleChange
<1>2. /\ Cardinality(InSetup') = Cardinality(InSetup) - 1
      /\ Cardinality(InSetup) \in Nat /\ Cardinality(InSetup') \in Nat
      /\ IsFiniteSet(others) /\ Cardinality(others) \in Nat /\ Accounts \in Nat
  BY <1>1, SetupCounted, FS_RemoveElement, FS_CardinalityType, SMTT(30) DEF SetupInv
<1>3. CASE UNCHANGED userVars
  <2>1. UNCHANGED <<others, late, password>>  BY <1>3 DEF userVars
  <2>2. Accounts' = Accounts  BY <2>1 DEF Accounts
  <2> QED  BY <1>1, <2>1, <2>2, SetupSame, SMTT(30)
<1>4. ASSUME late' = IF Accounts = 0 THEN Cardinality(InSetup \ {c}) ELSE late,
             others' \subseteq OtherNames, Accounts' = Accounts + 1
      PROVE  SetupInv'
  <2>1. late' \in Nat /\ (Accounts = 0 => late' = Cardinality(InSetup'))
        /\ (Accounts # 0 => late' = late)
    BY <1>1, <1>2, <1>4, SMTT(30) DEF SetupInv
  <2> QED  BY <1>2, <1>4, <2>1, SMTT(30) DEF SetupInv
<1>5. CASE /\ password = None /\ chosen < MaxPasswords
           /\ chosen' = chosen + 1 /\ password' = chosen' /\ UNCHANGED others
           /\ late' = IF Accounts = 0 THEN Cardinality(InSetup \ {c}) ELSE late
  <2>1. password' # None  BY <1>5, LoginGuardAssumption, SMTT(30) DEF SessionTypes
  <2>2. Accounts' = Accounts + 1  BY <1>2, <1>5, <2>1, SMTT(30) DEF Accounts
  <2> QED  BY <1>4, <1>5, <2>2 DEF SetupInv
<1>6. CASE /\ \E name \in OtherNames \ others : others' = others \cup {name}
           /\ UNCHANGED <<password, chosen>>
           /\ late' = IF Accounts = 0 THEN Cardinality(InSetup \ {c}) ELSE late
  <2>1. PICK name \in OtherNames \ others : others' = others \cup {name}  BY <1>6
  <2>2. Cardinality(others') = Cardinality(others) + 1
    <3>1. Cardinality(others \cup {name})
            = IF name \in others THEN Cardinality(others) ELSE Cardinality(others) + 1
      BY <1>2, FS_AddElement, Zenon
    <3> QED  BY <2>1, <3>1, Zenon
  <2>3. Accounts' = Accounts + 1  BY <1>2, <1>6, <2>2, SMTT(30) DEF Accounts
  <2> QED  BY <1>4, <1>6, <2>1, <2>3, SMTT(30) DEF SetupInv
<1> QED  BY <1>3, <1>5, <1>6, Zenon DEF SetupCreates, CreateAdminUser

\* Every step, of which only a setup's touch what SetupInv is about.
LEMMA NextSetupInv == SessionInv /\ SetupInv /\ [Next]_vars => SetupInv'
<1> SUFFICES ASSUME SessionInv, SetupInv, [Next]_vars PROVE SetupInv'  BY SMTT(30)
<1>0. SessionTypes  BY DEF SessionInv
<1>1. ASSUME UNCHANGED <<password, others, late, change>> PROVE SetupInv'
  <2>1. Accounts' = Accounts /\ InSetup' = InSetup  BY <1>1 DEF Accounts, InSetup
  <2> QED  BY <1>1, <2>1, SetupSame, SMTT(30)
<1>2. ASSUME NEW c \in Changes, SetupCounts(c) PROVE SetupInv'
  <2>1. UNCHANGED <<password, others, late>> /\ Accounts = 0
    BY <1>2 DEF SetupCounts, accountVars, userVars
  <2>2. Accounts' = 0  BY <2>1 DEF Accounts
  <2> QED  BY <2>1, <2>2, SMTT(30) DEF SetupInv
<1>3. ASSUME NEW c \in Changes, NEW from, NEW to, Moves(c, from, to),
             from # "setup", to.pc # "setup", UNCHANGED <<others, late>>,
             password' = None <=> password = None
      PROVE  SetupInv'
  <2>1. InSetup' = InSetup  BY <1>0, <1>3, SMTT(30) DEF Moves, InSetup, SessionTypes
  <2>2. Accounts' = Accounts  BY <1>3, SMTT(30) DEF Accounts
  <2> QED  BY <1>3, <2>1, <2>2, SetupSame, SMTT(30)
<1>4. ASSUME NEW c \in Changes, Change(c) PROVE SetupInv'
  <2>1. CASE ChangeUpdates(c, "verified", "updated")
    <3>1. password # None /\ password' # None
      BY <2>1, <1>0, LoginGuardAssumption, SMTT(30) DEF ChangeUpdates, SessionTypes
    <3>2. [change[c] EXCEPT !.pc = "updated"].pc = "updated"
      BY <1>0, SMTT(30) DEF SessionTypes
    <3> QED  BY <1>3, <2>1, <3>1, <3>2, Zenon DEF ChangeUpdates
  <2>2. CASE ChangeRevokes(c, "updated", IdleChange) \/ ChangeFails(c)
    BY <1>3, <2>2, Zenon DEF ChangeRevokes, ChangeFails, IdleChange, userVars
  <2> QED  BY <1>4, <2>1, <2>2 DEF Change
<1>5. ASSUME NEW c \in Changes, NEW s \in Sessions, ChangeVerifies(c, s) PROVE SetupInv'
  BY <1>3, <1>5, Zenon DEF ChangeVerifies, accountVars, userVars
<1>6. CASE (\E r \in SignIns : Login(r)) \/ TimePasses \/ UNCHANGED vars
           \/ (\E s \in Sessions : Logout(s) \/ LogoutAll(s))
  BY <1>1, <1>6, ZenonT(60)
    DEF Login, LoginBegins, LoginReads, LoginFails, LoginSucceeds, LoginInserts, TimePasses,
        Logout, LogoutAll, vars, accountVars, userVars
<1> QED
  BY <1>0, <1>2, <1>4, <1>5, <1>6, CreatesSetupInv, ZenonT(60) DEF Next

\* setup counts the accounts and creates one by two statements: however many
\* setups overlap and whatever names they ask for, the accounts are bounded by
\* those that had counted none when the first was created.
THEOREM SetupsBounded == Spec => []SetupsOverlap
<1>1. Init => SetupInv
  <2> SUFFICES ASSUME Init PROVE SetupInv  OBVIOUS
  <2>1. Accounts = 0  BY FS_EmptySet, SMTT(30) DEF Init, Accounts
  <2> QED  BY <2>1, SMTT(30) DEF Init, SetupInv
<1>2. SetupInv => SetupsOverlap
  <2> SUFFICES ASSUME SetupInv PROVE SetupsOverlap  OBVIOUS
  <2>1. Cardinality(InSetup) \in Nat /\ Accounts \in Nat  BY SetupCounted DEF SetupInv
  <2> QED  BY <2>1, SMTT(30) DEF SetupInv, SetupsOverlap
<1> QED  BY <1>1, <1>2, NextSetupInv, SessionInvariance, PTL DEF Spec
-----------------------------------------------------------------------------
(***************************************************************************)
(* The failures that a window sees.  The guard counts from the start of    *)
(* its own window, which need not be the window that is looked at: what    *)
(* came before the start must be bounded too, and so must be the requests  *)
(* that may still fail after the account is locked.                        *)
(***************************************************************************)
Younger(F, k) == {f \in F : f[1] < k}

\* Sign-ins that have passed the guard and may fail.
InFlight == {r \in SignIns : login[r].pc = "read"}

Bound == 2 * MaxFailures - 1 + Cardinality(SignIns) - 1

\* What happened after the tick in which the guard's window started is counted.
\* Before it there was less than a budget, unless a lockout started it; while
\* the lockout lasts nobody passes the guard.
EntryInv ==
  /\ entry.left > 0 => entry.age + entry.left = Window
  /\ Cardinality(Younger(Failures, entry.age)) <= entry.count
  /\ IF entry.left = 0 THEN Cardinality(Failures) <= MaxFailures - 1 + entry.count
     ELSE Cardinality(Failures) + Cardinality(InFlight) <= Bound

Entries == [age : 0..(Window + 1), left : 0..Window, count : 0..(MaxFailures - 1)]

GInv ==
  /\ recent \in [Ages -> Nat]
  /\ IsFiniteSet(Failures)
  /\ entry \in Entries \cup {None}
  /\ entry = None => Failures = {}
  /\ entry # None => EntryInv

\* A failure is its age and a number.
LEMMA FailureIs ==
  ASSUME NEW r \in [Ages -> Nat], NEW f
  PROVE  f \in UNION {{i} \X (1..r[i]) : i \in Ages}
           <=> \E i \in Ages : \E n \in 1..r[i] : f = <<i, n>>
<1>1. f \in UNION {{i} \X (1..r[i]) : i \in Ages}
        <=> \E i \in Ages : f \in {i} \X (1..r[i])
  BY ZenonT(60)
<1>2. ASSUME NEW i \in Ages
      PROVE  f \in {i} \X (1..r[i]) <=> \E n \in 1..r[i] : f = <<i, n>>
  BY SMTT(30)
<1> QED  BY <1>1, <1>2, SMTT(30)

\* The failures, and those after a moment, are finitely many.
LEMMA FailuresCounted ==
  ASSUME IsFiniteSet(Failures), NEW k
  PROVE  /\ Cardinality(Failures) \in Nat
         /\ IsFiniteSet(Younger(Failures, k)) /\ Cardinality(Younger(Failures, k)) \in Nat
         /\ Cardinality(Younger(Failures, k)) <= Cardinality(Failures)
<1>1. Younger(Failures, k) \in SUBSET Failures  BY SMTT(30) DEF Younger
<1> QED  BY <1>1, FS_Subset, FS_CardinalityType, ZenonT(60)

\* The numbers of the assumptions.
LEMMA GuardConstants ==
  /\ MaxFailures \in Nat /\ MaxFailures >= 1 /\ Window \in Nat /\ Window >= 1
  /\ 0 \in Ages /\ None \notin Entries
  /\ IsFiniteSet(InFlight) /\ Cardinality(InFlight) \in Nat
  /\ Cardinality(SignIns) \in Nat /\ Cardinality(InFlight) <= Cardinality(SignIns)
<1>1. /\ MaxFailures \in Nat /\ MaxFailures >= 1 /\ Window \in Nat /\ Window >= 1
      /\ 0 \in Ages
  BY LoginGuardAssumption, SMTT(30) DEF Ages
<1>2. InFlight \in SUBSET SignIns  BY SMTT(30) DEF InFlight
<1>3. Entries \subseteq [age : Int, left : Int, count : Int]  BY <1>1, SMTT(30) DEF Entries
<1> QED
  BY <1>1, <1>2, <1>3, LoginGuardAssumption, AdminSessionsAssumption, FS_Subset,
     FS_CardinalityType, ZenonT(60)

\* loginFailed adds one failure of age zero.
LEMMA FailureAdds ==
  ASSUME recent \in [Ages -> Nat], IsFiniteSet(Failures),
         recent' = [recent EXCEPT ![0] = @ + 1]
  PROVE  /\ recent' \in [Ages -> Nat]
         /\ IsFiniteSet(Failures')
         /\ Cardinality(Failures') = Cardinality(Failures) + 1
         /\ \A k \in Nat :
              Cardinality(Younger(Failures', k)) <= Cardinality(Younger(Failures, k)) + 1
         /\ Younger(Failures', 0) = {}
<1> DEFINE new == <<0, recent[0] + 1>>
<1>0. 0 \in Ages /\ recent[0] \in Nat  BY GuardConstants, SMTT(30)
<1>1. /\ recent' \in [Ages -> Nat] /\ recent'[0] = recent[0] + 1
      /\ \A i \in Ages : i # 0 => recent'[i] = recent[i]
  BY <1>0, SMTT(30)
<1>2. \A f : f \in Failures <=> \E i \in Ages : \E n \in 1..recent[i] : f = <<i, n>>
  BY FailureIs, SMTT(30) DEF Failures
<1>3. \A f : f \in Failures' <=> \E i \in Ages : \E n \in 1..recent'[i] : f = <<i, n>>
  BY <1>1, FailureIs, ZenonT(60) DEF Failures
<1>4. ASSUME NEW f PROVE f \in Failures' <=> f \in Failures \cup {new}
  <2>1. ASSUME NEW i \in Ages, NEW n \in 1..recent'[i], f = <<i, n>>
        PROVE  f \in Failures \cup {new}
    <3>1. CASE i = 0 /\ n = recent[0] + 1  BY <2>1, <3>1, SMTT(30)
    <3>2. CASE ~(i = 0 /\ n = recent[0] + 1)
      <4>1. n \in 1..recent[i]  BY <1>0, <1>1, <3>2, SMTT(30)
      <4> QED  BY <1>2, <2>1, <4>1, SMTT(30)
    <3> QED  BY <3>1, <3>2, SMTT(30)
  <2>2. ASSUME NEW i \in Ages, NEW n \in 1..recent[i], f = <<i, n>>
        PROVE  f \in Failures'
    <3>1. recent[i] \in Nat /\ n \in 1..recent'[i]
      <4>1. recent[i] \in Nat  BY SMTT(30)
      <4> QED  BY <1>1, <4>1, SMTT(30)
    <3> QED  BY <1>3, <2>2, <3>1, SMTT(30)
  <2>3. new \in Failures'
    <3>1. recent[0] + 1 \in 1..recent'[0]  BY <1>0, <1>1, SMTT(30)
    <3> QED  BY <1>0, <1>3, <3>1, SMTT(30)
  <2> QED  BY <1>2, <1>3, <2>1, <2>2, <2>3, SMTT(30)
<1>5. Failures' = Failures \cup {new}  BY <1>4, SMTT(30)
<1>6. new \notin Failures
  <2> SUFFICES ASSUME NEW i \in Ages, NEW n \in 1..recent[i], new = <<i, n>>
               PROVE  FALSE
    BY <1>2, SMTT(30)
  <2> QED  BY <1>0, SMTT(30)
<1>7. IsFiniteSet(Failures') /\ Cardinality(Failures') = Cardinality(Failures) + 1
  BY <1>5, <1>6, FS_AddElement, ZenonT(60)
<1>8. ASSUME NEW k \in Nat
      PROVE  Cardinality(Younger(Failures', k)) <= Cardinality(Younger(Failures, k)) + 1
  <2> DEFINE old == Younger(Failures, k)
  <2>1. IsFiniteSet(old) /\ Cardinality(old) \in Nat  BY FailuresCounted, ZenonT(60)
  <2>2. Younger(Failures', k) = old \/ Younger(Failures', k) = old \cup {new}
    <3> HIDE DEF new
    <3> QED  BY <1>5, SMTT(30) DEF Younger
  <2> HIDE DEF new, old
  <2>3. Cardinality(old \cup {new}) =
          IF new \in old THEN Cardinality(old) ELSE Cardinality(old) + 1
    BY <2>1, FS_AddElement, ZenonT(60)
  <2>4. Cardinality(old \cup {new}) <= Cardinality(old) + 1  BY <2>1, <2>3, SMTT(30)
  <2>5. Cardinality(Younger(Failures', k)) <= Cardinality(old) + 1
    <3>1. \A c \in Nat : c <= c + 1  BY SMT
    <3>2. CASE Younger(Failures', k) = old  BY <2>1, <3>1, <3>2, Zenon
    <3>3. CASE Younger(Failures', k) = old \cup {new}  BY <2>4, <3>3, Zenon
    <3> QED  BY <2>2, <3>2, <3>3, Zenon
  <2> QED  BY <2>5, SMTT(30) DEF old
<1>9. Younger(Failures', 0) = {}
  <2>1. \A f \in Failures' : ~(f[1] < 0)  BY <1>3 DEF Ages
  <2> QED  BY <2>1 DEF Younger
<1> QED  BY <1>1, <1>7, <1>8, <1>9, SMTT(30)

\* A tick moves every failure to the next age, or out of the window.
LEMMA TickShifts ==
  ASSUME recent \in [Ages -> Nat], IsFiniteSet(Failures),
         recent' = [i \in Ages |-> IF i = 0 THEN 0 ELSE recent[i - 1]]
  PROVE  /\ recent' \in [Ages -> Nat]
         /\ IsFiniteSet(Failures')
         /\ Cardinality(Failures') <= Cardinality(Failures)
         /\ \A k \in Nat :
              /\ Cardinality(Younger(Failures', k + 1)) <= Cardinality(Younger(Failures, k))
              /\ Cardinality(Younger(Failures', k)) <= Cardinality(Younger(Failures, k))
<1>0. Window \in Nat /\ Window >= 1 /\ Ages = 0..(Window - 1)  BY GuardConstants, SMTT(30) DEF Ages
<1>1. /\ recent' \in [Ages -> Nat] /\ recent'[0] = 0
      /\ \A i \in Ages : i # 0 => i - 1 \in Ages /\ recent'[i] = recent[i - 1]
  <2>1. \A i \in Ages : i # 0 => i - 1 \in Ages  BY <1>0, SMTT(30)
  <2> QED  BY <1>0, <2>1, SMTT(30)
<1>2. \A f : f \in Failures <=> \E i \in Ages : \E n \in 1..recent[i] : f = <<i, n>>
  BY FailureIs, ZenonT(60) DEF Failures
<1>3. \A f : f \in Failures' <=> \E i \in Ages : \E n \in 1..recent'[i] : f = <<i, n>>
  BY <1>1, FailureIs, ZenonT(60) DEF Failures
<1> DEFINE back == [f \in Failures' |-> <<f[1] - 1, f[2]>>]
<1>4. ASSUME NEW f \in Failures'
      PROVE  /\ back[f] \in Failures /\ f[1] \in Int /\ f = <<f[1], f[2]>>
             /\ back[f] = <<f[1] - 1, f[2]>>
  <2>1. PICK i \in Ages : \E n \in 1..recent'[i] : f = <<i, n>>  BY <1>3, SMTT(30)
  <2>2. PICK n \in 1..recent'[i] : f = <<i, n>>  BY <2>1, SMTT(30)
  <2>3. i # 0  BY <1>1, <2>2, SMTT(30)
  <2>4. i - 1 \in Ages /\ n \in 1..recent[i - 1] /\ i \in Int  BY <1>0, <1>1, <2>3, SMTT(30)
  <2>5. <<i - 1, n>> \in Failures  BY <1>2, <2>4, SMTT(30)
  <2> QED  BY <2>2, <2>4, <2>5, ZenonT(60)
<1>5. \A f, g \in Failures' : back[f] = back[g] => f = g
  <2> SUFFICES ASSUME NEW f \in Failures', NEW g \in Failures', back[f] = back[g]
               PROVE  f = g
    BY ZenonT(60)
  <2>1. <<f[1] - 1, f[2]>> = <<g[1] - 1, g[2]>>  BY <1>4, SMTT(30)
  <2>2. f[1] \in Int /\ g[1] \in Int /\ f = <<f[1], f[2]>> /\ g = <<g[1], g[2]>>
    BY <1>4
  <2>3. f[1] - 1 = g[1] - 1 /\ f[2] = g[2]  BY <2>1, Zenon
  <2>4. f[1] = g[1]  BY <2>2, <2>3, SMTT(30)
  <2> QED  BY <2>2, <2>3, <2>4, ZenonT(60)
<1>6. IsFiniteSet(Failures') /\ Cardinality(Failures') <= Cardinality(Failures)
  <2>1. back \in Injection(Failures', Failures)
    <3> HIDE DEF back
    <3>1. back \in [Failures' -> Failures]  BY <1>4, SMTT(30) DEF back
    <3> QED  BY <1>5, <3>1, SMTT(30) DEF Injection, IsInjective
  <2> HIDE DEF back
  <2> QED  BY <2>1, FS_Injection, SMTT(30)
<1>7. ASSUME NEW k \in Nat
      PROVE  Cardinality(Younger(Failures', k + 1)) <= Cardinality(Younger(Failures, k))
  <2> DEFINE some == [f \in Younger(Failures', k + 1) |-> back[f]]
  <2>1. Younger(Failures', k + 1) \subseteq Failures' /\ IsFiniteSet(Younger(Failures, k))
    BY FailuresCounted, SMTT(30) DEF Younger
  <2>2. \A f \in Younger(Failures', k + 1) : back[f] \in Younger(Failures, k)
    <3> SUFFICES ASSUME NEW f \in Younger(Failures', k + 1) PROVE back[f] \in Younger(Failures, k)
      BY Zenon
    <3>1. /\ back[f] \in Failures /\ f[1] \in Int /\ back[f] = <<f[1] - 1, f[2]>>
          /\ f[1] < k + 1
      BY <1>4, <2>1, SMTT(30) DEF Younger
    <3>2. back[f][1] < k
      <4>1. back[f][1] = f[1] - 1  BY <3>1, SMTT(30)
      <4> QED  BY <3>1, <4>1, SMTT(30)
    <3> QED  BY <3>1, <3>2, SMTT(30) DEF Younger
  <2>3. some \in Injection(Younger(Failures', k + 1), Younger(Failures, k))
    <3> HIDE DEF back
    <3> QED  BY <1>5, <2>1, <2>2, SMTT(30) DEF Injection, IsInjective
  <2> HIDE DEF some
  <2> QED  BY <2>1, <2>3, FS_Injection, SMTT(30)
<1>8. ASSUME NEW k \in Nat
      PROVE  Cardinality(Younger(Failures', k)) <= Cardinality(Younger(Failures, k))
  <2>1. Younger(Failures', k) \in SUBSET Younger(Failures', k + 1)
    <3>1. \A f \in Failures' : f[1] < k => f[1] < k + 1
      <4> SUFFICES ASSUME NEW f \in Failures', f[1] < k PROVE f[1] < k + 1  BY SMTT(30)
      <4>1. f[1] \in Int  BY <1>4, Zenon
      <4> QED  BY <4>1, SMTT(30)
    <3> QED  BY <3>1, SMTT(30) DEF Younger
  <2>2. IsFiniteSet(Younger(Failures', k + 1)) /\ Cardinality(Younger(Failures', k + 1)) \in Nat
    <3>1. Younger(Failures', k + 1) \in SUBSET Failures'  BY SMTT(30) DEF Younger
    <3> QED  BY <1>6, <3>1, FS_Subset, FS_CardinalityType, SMTT(30)
  <2>3. /\ Cardinality(Younger(Failures', k)) <= Cardinality(Younger(Failures', k + 1))
        /\ Cardinality(Younger(Failures', k)) \in Nat
    BY <2>1, <2>2, FS_Subset, FS_CardinalityType, SMTT(30)
  <2>4. Cardinality(Younger(Failures, k)) \in Nat  BY FailuresCounted
  <2> QED  BY <1>7, <2>2, <2>3, <2>4, SMTT(30)
<1> QED  BY <1>1, <1>6, <1>7, <1>8, ZenonT(60)

\* What the library calls the larger of two numbers.
LEMMA MaxOfTwo == \A n \in Int : Max({0, n}) = IF n > 0 THEN n ELSE 0
<1> SUFFICES ASSUME NEW n \in Int PROVE Max({0, n}) = IF n > 0 THEN n ELSE 0
  OBVIOUS
<1> DEFINE m == IF n > 0 THEN n ELSE 0
<1>1. m \in {0, n} /\ \A y \in {0, n} : m >= y  OBVIOUS
<1>2. \A x \in {0, n} : (\A y \in {0, n} : x >= y) => x = m  OBVIOUS
<1> QED  BY <1>1, <1>2, SMTT(30) DEF Max

\* A window as old as the guard's own holds nothing from before it.
LEMMA OldWindow ==
  ASSUME GInv, entry # None, entry.age >= Window
  PROVE  Younger(Failures, entry.age) = Failures
<1>1. \A f \in Failures : f[1] \in Ages
  <2>1. \A f \in Failures : \E i \in Ages : \E n \in 1..recent[i] : f = <<i, n>>
    BY FailureIs DEF GInv, Failures
  <2> QED  BY <2>1, SMTT(30)
<1>2. \A f \in Failures : f[1] < entry.age
  <2>1. entry.age \in Int /\ Window \in Nat  BY GuardConstants, SMTT(30) DEF GInv, Entries
  <2> QED  BY <1>1, <2>1, SMTT(30) DEF Ages
<1> QED  BY <1>2 DEF Younger

\* What an entry says in any case: less than a budget before the guard counts on.
LEMMA EntryFacts ==
  ASSUME GInv, entry # None
  PROVE  /\ entry.age \in 0..(Window + 1) /\ entry.left \in 0..Window
         /\ entry.count \in 0..(MaxFailures - 1)
         /\ EntryInv
         /\ Cardinality(Failures) \in Nat
         /\ entry.age >= Window => Cardinality(Failures) <= entry.count
<1>1. entry \in Entries /\ EntryInv /\ IsFiniteSet(Failures)  BY DEF GInv
<1>2. Cardinality(Failures) \in Nat  BY <1>1, FailuresCounted, SMTT(30)
<1>3. entry.age >= Window => Cardinality(Failures) <= entry.count
  BY <1>1, OldWindow DEF EntryInv
<1> QED  BY <1>1, <1>2, <1>3, SMTT(30) DEF Entries

\* A failure of a request that had passed the guard.
LEMMA FailureGInv ==
  ASSUME GInv, Failure, Cardinality(InFlight') + 1 <= Cardinality(InFlight),
         Cardinality(InFlight') \in Nat
  PROVE  GInv'
<1> DEFINE fresh == [age |-> 0, left |-> 0, count |-> 0]
           e == IF entry = None \/ entry.age > Window THEN fresh ELSE entry
           shut == [age |-> 0, left |-> Window, count |-> 0]
<1>0. /\ MaxFailures \in Nat /\ MaxFailures >= 1 /\ Window \in Nat /\ Window >= 1
      /\ Cardinality(InFlight) \in Nat /\ Cardinality(SignIns) \in Nat
      /\ Cardinality(InFlight) <= Cardinality(SignIns)
      /\ None \notin Entries
  BY GuardConstants, SMTT(30)
<1>1. /\ recent' \in [Ages -> Nat] /\ IsFiniteSet(Failures')
      /\ Cardinality(Failures') = Cardinality(Failures) + 1
      /\ \A k \in Nat :
           Cardinality(Younger(Failures', k)) <= Cardinality(Younger(Failures, k)) + 1
      /\ Younger(Failures', 0) = {}
  BY FailureAdds, SMTT(30) DEF GInv, Failure
<1>2. Cardinality(Failures) \in Nat  BY FailuresCounted DEF GInv
<1>3. Cardinality({}) = 0  BY FS_EmptySet, SMTT(30)
<1>4. /\ e \in Entries
      /\ e.left = 0 => Cardinality(Failures) <= MaxFailures - 1 + e.count
      /\ e.left > 0 => /\ Cardinality(Failures) + Cardinality(InFlight) <= Bound
                       /\ e.age + e.left = Window
      /\ e.age # 0 => Cardinality(Younger(Failures, e.age)) <= e.count
  <2>1. CASE entry = None
    <3>1. e = fresh /\ fresh \in Entries  BY <1>0, <2>1, SMTT(30) DEF Entries
    <3>2. Cardinality(Failures) = 0  BY <1>3, <2>1, SMTT(30) DEF GInv
    <3> QED  BY <1>0, <3>1, <3>2, SMTT(30)
  <2>2. CASE entry # None /\ entry.age > Window
    <3>1. e = fresh /\ fresh \in Entries  BY <1>0, <2>2, SMTT(30) DEF Entries
    <3>2. entry.age \in Int /\ entry.count \in 0..(MaxFailures - 1)
          /\ Cardinality(Failures) <= entry.count
      BY <1>0, <2>2, EntryFacts, SMTT(30)
    <3> QED  BY <1>0, <1>2, <3>1, <3>2, SMTT(30)
  <2>3. CASE entry # None /\ ~(entry.age > Window)
    BY <2>3, EntryFacts, SMTT(30) DEF GInv, EntryInv
  <2> QED  BY <2>1, <2>2, <2>3, ZenonT(60)
<1> HIDE DEF e
<1>5. e.age \in 0..(Window + 1) /\ e.left \in 0..Window /\ e.count \in 0..(MaxFailures - 1)
  BY <1>4, SMTT(30) DEF Entries
<1>6. entry' = Counted(e)  BY SMTT(30) DEF Failure, e
<1>7. Bound \in Int /\ Bound = 2 * MaxFailures - 1 + Cardinality(SignIns) - 1
      /\ Bound' = Bound
  BY <1>0, SMTT(30) DEF Bound
<1>8. CASE e.count + 1 >= MaxFailures
  <2>1. entry' = shut  BY <1>6, <1>8, SMTT(30) DEF Counted
  <2>2. shut \in Entries /\ shut.age = 0 /\ shut.left = Window /\ shut.count = 0
    BY <1>0, SMTT(30) DEF Entries
  <2>3. Cardinality(Failures') + Cardinality(InFlight') <= Bound
    <3>1. CASE e.left > 0  BY <1>0, <1>1, <1>2, <1>4, <1>7, <3>1, SMTT(30)
    <3>2. CASE e.left = 0  BY <1>0, <1>1, <1>2, <1>4, <1>5, <1>7, <3>2, SMTT(30)
    <3> QED  BY <1>5, <3>1, <3>2, SMTT(30)
  <2>4. EntryInv'
    <3>1. entry'.age = 0 /\ entry'.left = Window /\ entry'.count = 0  BY <2>1, <2>2, Zenon
    <3>2. 0 <= 0 /\ Window # 0 /\ 0 + Window = Window  BY <1>0, SMT
    <3>3. Cardinality(Younger(Failures', entry'.age)) <= entry'.count
      BY <1>1, <1>3, <3>1, <3>2, Zenon
    <3> QED  BY <2>3, <3>1, <3>2, <3>3, Zenon DEF EntryInv
  <2> QED  BY <1>0, <1>1, <2>1, <2>2, <2>4, SMTT(30) DEF GInv, Entries
<1>9. CASE ~(e.count + 1 >= MaxFailures)
  <2> DEFINE up == [e EXCEPT !.count = @ + 1]
  <2>1. entry' = up  BY <1>6, <1>9 DEF Counted
  <2>2. up.age = e.age /\ up.left = e.left /\ up.count = e.count + 1 /\ up \in Entries
    BY <1>0, <1>4, <1>5, <1>9 DEF Entries
  <2>3. Cardinality(Younger(Failures', e.age)) <= e.count + 1
    <3>1. CASE e.age = 0  BY <1>1, <1>3, <1>5, <3>1, SMTT(30)
    <3>2. CASE e.age # 0
      <4>1. Cardinality(Younger(Failures, e.age)) \in Nat  BY FailuresCounted DEF GInv
      <4>2. Cardinality(Younger(Failures, e.age)) <= e.count  BY <1>4, <3>2
      <4>3. Cardinality(Younger(Failures', e.age)) <= Cardinality(Younger(Failures, e.age)) + 1
        BY <1>1, <1>5, SMTT(30)
      <4>4. Cardinality(Younger(Failures', e.age)) \in Nat
        <5>1. Younger(Failures', e.age) \in SUBSET Failures'  BY DEF Younger
        <5> QED  BY <1>1, <5>1, FS_Subset, FS_CardinalityType, SMTT(30)
      <4> QED  BY <1>5, <4>1, <4>2, <4>3, <4>4
    <3> QED  BY <3>1, <3>2
  <2>4. EntryInv'
    BY <1>0, <1>1, <1>2, <1>4, <1>5, <1>7, <2>1, <2>2, <2>3, SMTT(30) DEF EntryInv
  <2> QED  BY <1>0, <1>1, <2>1, <2>2, <2>4 DEF GInv, Entries
<1> QED  BY <1>8, <1>9, SMTT(30)

\* Time passes: the guard's window grows older with the failures, and a lockout
\* ends when what led to it has left the window.
LEMMA TickGInv ==
  ASSUME GInv, Tick, InFlight' = InFlight
  PROVE  GInv'
<1>0. /\ MaxFailures \in Nat /\ MaxFailures >= 1 /\ Window \in Nat /\ Window >= 1
      /\ Cardinality(InFlight) \in Nat /\ Cardinality(SignIns) \in Nat
      /\ None \notin Entries
  BY GuardConstants
<1>1. /\ recent' \in [Ages -> Nat] /\ IsFiniteSet(Failures')
      /\ Cardinality(Failures') <= Cardinality(Failures)
      /\ \A k \in Nat :
           /\ Cardinality(Younger(Failures', k + 1)) <= Cardinality(Younger(Failures, k))
           /\ Cardinality(Younger(Failures', k)) <= Cardinality(Younger(Failures, k))
  BY TickShifts, SMTT(30) DEF GInv, Tick
<1>2. Cardinality(Failures) \in Nat  BY FailuresCounted, SMTT(30) DEF GInv
<1>3. \A k : Cardinality(Younger(Failures', k)) \in Nat /\ Cardinality(Failures') \in Nat
  <2>1. \A k : Younger(Failures', k) \in SUBSET Failures'  BY SMTT(30) DEF Younger
  <2> QED  BY <1>1, <2>1, FS_Subset, FS_CardinalityType, SMTT(30)
<1>4. Bound \in Int /\ Bound' = Bound  BY <1>0, SMTT(30) DEF Bound
<1>5. CASE entry = None
  <2>1. entry' = None  BY <1>5, SMTT(30) DEF Tick
  <2>2. Cardinality(Failures') = 0
    <3>1. Cardinality(Failures) = 0  BY <1>5, FS_EmptySet, SMTT(30) DEF GInv
    <3> QED  BY <1>1, <1>3, <3>1, SMTT(30)
  <2>3. Failures' = {}  BY <1>1, <2>2, FS_EmptySet, SMTT(30)
  <2> QED  BY <1>1, <2>1, <2>3, SMTT(30) DEF GInv, Entries
<1>6. CASE entry # None
  <2>1. /\ entry.age \in 0..(Window + 1) /\ entry.left \in 0..Window
        /\ entry.count \in 0..(MaxFailures - 1)
        /\ EntryInv /\ entry \in Entries
        /\ entry.age >= Window => Cardinality(Failures) <= entry.count
    BY <1>6, EntryFacts, SMTT(30) DEF GInv
  <2>2. /\ Cardinality(Younger(Failures, entry.age)) \in Nat
        /\ Cardinality(Younger(Failures, entry.age)) <= entry.count
    BY <2>1, FailuresCounted, SMTT(30) DEF GInv, EntryInv
  <2>3. CASE entry.age > Window
    <3>1. entry' = entry  BY <1>6, <2>3, SMTT(30) DEF Tick
    <3>2. entry.left = 0  BY <1>0, <2>1, <2>3, SMTT(30) DEF EntryInv
    <3>3. Cardinality(Younger(Failures', entry.age)) <= entry.count
      BY <1>1, <1>3, <2>1, <2>2, SMTT(30)
    <3>4. Cardinality(Failures') <= MaxFailures - 1 + entry.count
      BY <1>0, <1>1, <1>2, <1>3, <2>1, <2>3, SMTT(30)
    <3>5. EntryInv'  BY <3>1, <3>2, <3>3, <3>4, <2>1, SMTT(30) DEF EntryInv
    <3> QED  BY <1>1, <1>6, <2>1, <3>1, <3>5, SMTT(30) DEF GInv, Entries
  <2>4. CASE ~(entry.age > Window)
    <3> DEFINE left == IF entry.left - 1 > 0 THEN entry.left - 1 ELSE 0
               new == [entry EXCEPT !.age = entry.age + 1, !.left = left]
    <3>1. entry' = new
      <4>1. entry' = [entry EXCEPT !.age = entry.age + 1, !.left = Max({0, entry.left - 1})]
        BY <1>6, <2>4, SMTT(30) DEF Tick
      <4>2. entry.left - 1 \in Int  BY <2>1, SMTT(30)
      <4>3. Max({0, entry.left - 1}) = left  BY <4>2, MaxOfTwo, SMTT(30)
      <4> QED  BY <4>1, <4>3, Zenon
    <3>2. /\ left \in 0..Window
          /\ entry.left = 0 => left = 0
          /\ left = 0 => entry.left \in {0, 1}
          /\ left > 0 => left = entry.left - 1 /\ entry.left > 0
      BY <1>0, <2>1
    <3>3. /\ new.age = entry.age + 1 /\ new.left = left /\ new.count = entry.count
          /\ new \in Entries
      <4> HIDE DEF left
      <4>1. entry.age + 1 \in 0..(Window + 1)  BY <1>0, <2>1, <2>4, SMTT(30)
      <4> QED  BY <2>1, <3>2, <4>1, ZenonT(60) DEF Entries
    <3> HIDE DEF new
    <3>4. Cardinality(Younger(Failures', entry.age + 1)) <= entry.count
      <4>1. Cardinality(Younger(Failures', entry.age + 1)) <= Cardinality(Younger(Failures, entry.age))
        BY <1>1, <2>1, SMTT(30)
      <4> QED  BY <1>3, <2>1, <2>2, <4>1, SMTT(30)
    <3>5. CASE left > 0
      <4>1. entry.left > 0 /\ entry.age + entry.left = Window
            /\ Cardinality(Failures) + Cardinality(InFlight) <= Bound
        BY <2>1, <3>2, <3>5, SMTT(30) DEF EntryInv
      <4>2. Cardinality(Failures') + Cardinality(InFlight) <= Bound
        BY <1>0, <1>1, <1>2, <1>3, <1>4, <4>1, SMTT(30)
      <4>3. entry.age + 1 + left = Window  BY <2>1, <3>2, <3>5, <4>1, SMTT(30)
      <4>4. left # 0  BY <3>2, <3>5, SMTT(30)
      <4> HIDE DEF left
      <4>5. EntryInv'
        BY <1>4, <3>1, <3>3, <3>4, <4>2, <4>3, <4>4, SMTT(30) DEF EntryInv
      <4> QED  BY <1>0, <1>1, <3>1, <3>3, <4>5, SMTT(30) DEF GInv, Entries
    <3>6. CASE ~(left > 0)
      <4>1. left = 0  BY <3>2, <3>6, SMTT(30)
      <4>2. Cardinality(Failures') <= MaxFailures - 1 + entry.count
        <5>1. CASE entry.left = 0
          <6>1. Cardinality(Failures) <= MaxFailures - 1 + entry.count
            BY <2>1, <5>1, SMTT(30) DEF EntryInv
          <6> QED  BY <1>0, <1>1, <1>2, <1>3, <2>1, <6>1, SMTT(30)
        <5>2. CASE entry.left = 1
          <6>1. entry.age + 1 = Window  BY <2>1, <5>2, SMTT(30) DEF EntryInv
          <6>2. Younger(Failures', Window) = Failures'
            <7>1. \A f \in Failures' : \E i \in Ages : \E n \in 1..recent'[i] : f = <<i, n>>
              BY <1>1, FailureIs, SMTT(30) DEF Failures
            <7>2. \A f \in Failures' : f[1] < Window  BY <1>0, <7>1, SMTT(30) DEF Ages
            <7> QED  BY <7>2, SMTT(30) DEF Younger
          <6>3. Cardinality(Failures') <= entry.count  BY <3>4, <6>1, <6>2, SMTT(30)
          <6>4. Cardinality(Failures') \in Nat  BY <1>3, SMTT(30)
          <6> QED  BY <1>0, <2>1, <6>3, <6>4, SMTT(30)
        <5> QED  BY <3>2, <4>1, <5>1, <5>2, SMTT(30)
      <4> HIDE DEF left
      <4>3. EntryInv'
        BY <3>1, <3>3, <3>4, <4>1, <4>2, SMTT(30) DEF EntryInv
      <4> QED  BY <1>0, <1>1, <3>1, <3>3, <4>3 DEF GInv, Entries
    <3> QED  BY <3>5, <3>6
  <2> QED  BY <2>3, <2>4, SMTT(30)
<1> QED  BY <1>5, <1>6, SMTT(30)

\* A request that begins, ends its comparison, or leaves without a failure.
LEMMA LoginGInv ==
  ASSUME SessionInv, GInv, NEW r \in SignIns, Login(r)
  PROVE  GInv'
<1>0. login \in [SignIns -> Logins] /\ IdleLogin.pc = "idle"
  BY SMTT(30) DEF SessionInv, SessionTypes, IdleLogin
<1>1. IsFiniteSet(InFlight) /\ Cardinality(InFlight) \in Nat  BY GuardConstants, SMTT(30)
<1>2. ASSUME NEW to, login' = [login EXCEPT ![r] = to], to.pc # "read"
      PROVE  InFlight' = InFlight \ {r}
  BY <1>0, <1>2, SMTT(30) DEF InFlight
<1>3. ASSUME UNCHANGED guardVars, InFlight' \subseteq InFlight PROVE GInv'
  <2>1. UNCHANGED <<entry, recent>> /\ Failures' = Failures  BY <1>3, SMTT(30)
                                                               DEF guardVars, Failures
  <2>2. Cardinality(InFlight') <= Cardinality(InFlight) /\ Cardinality(InFlight') \in Nat
    BY <1>1, <1>3, FS_Subset, FS_CardinalityType, SMTT(30)
  <2>3. Bound' = Bound /\ Bound \in Int  BY GuardConstants, SMTT(30) DEF Bound
  <2>4. IsFiniteSet(Failures) /\ Cardinality(Failures) \in Nat  BY FailuresCounted, SMTT(30) DEF GInv
  <2>5. EntryInv => EntryInv'  BY <1>1, <2>1, <2>2, <2>3, <2>4, SMTT(30) DEF EntryInv
  <2> QED  BY <2>1, <2>5, SMTT(30) DEF GInv, Entries
<1>4. ASSUME LoginBegins(r) PROVE GInv'
  <2>1. UNCHANGED <<entry, recent>> /\ Failures' = Failures /\ ~Locked
    BY <1>4, SMTT(30) DEF LoginBegins, guardVars, Failures
  <2>2. entry # None => entry.left = 0
    <3> SUFFICES ASSUME entry # None PROVE entry.left = 0  BY SMTT(30)
    <3>1. entry.left \in 0..Window /\ Window \in Nat
      BY GuardConstants, SMTT(30) DEF GInv, Entries
    <3> QED  BY <2>1, <3>1, SMTT(30) DEF Locked
  <2>3. entry # None => EntryInv'  BY <2>1, <2>2, SMTT(30) DEF GInv, EntryInv
  <2> QED  BY <2>1, <2>3 DEF GInv, Entries
<1>5. CASE LoginReads(r)
  <2>1. login[r].pc = "read" /\ UNCHANGED guardVars  BY <1>5 DEF LoginReads, At
  <2>2. \A q \in SignIns : q # r => login'[q] = login[q]
    BY <1>0, <1>5, SMTT(30) DEF LoginReads, At
  <2> QED  BY <1>3, <2>1, <2>2, SMTT(30) DEF InFlight
<1>6. CASE LoginFails(r)
  <2>1. /\ Failure /\ login[r].pc = "read" /\ login' = [login EXCEPT ![r] = IdleLogin]
    BY <1>6, SMTT(30) DEF LoginFails, At
  <2>2. InFlight' = InFlight \ {r} /\ r \in InFlight  BY <1>0, <1>2, <2>1, SMTT(30)
                                                        DEF InFlight
  <2>3. Cardinality(InFlight') = Cardinality(InFlight) - 1 /\ Cardinality(InFlight') \in Nat
    BY <1>1, <2>2, FS_RemoveElement, FS_CardinalityType, SMTT(30)
  <2> QED  BY <1>1, <2>1, <2>3, FailureGInv, SMTT(30)
<1>7. CASE LoginSucceeds(r)
  <2>1. entry' = None /\ recent' = NoFailures  BY <1>7 DEF LoginSucceeds, Success
  <2>2. recent' \in [Ages -> Nat]  BY <2>1, SMTT(30) DEF NoFailures
  <2>3. Failures' = {}
    <3>1. \A f : f \in Failures' <=> \E i \in Ages : \E n \in 1..recent'[i] : f = <<i, n>>
      BY <2>2, FailureIs, SMTT(30) DEF Failures
    <3>2. \A i \in Ages : recent'[i] = 0  BY <2>1, SMTT(30) DEF NoFailures
    <3> QED  BY <3>1, <3>2, SMTT(30)
  <2> QED  BY <2>1, <2>2, <2>3, FS_EmptySet, SMTT(30) DEF GInv
<1>8. CASE LoginInserts(r)
  <2>1. UNCHANGED guardVars /\ login' = [login EXCEPT ![r] = IdleLogin]
    BY <1>8 DEF LoginInserts, At
  <2> QED  BY <1>0, <1>2, <1>3, <2>1, ZenonT(60)
<1> QED  BY <1>4, <1>5, <1>6, <1>7, <1>8, SMTT(30) DEF Login

\* The bookkeeping of the failures in every reachable state.
LEMMA GuardInvariance == Spec => []GInv
<1>1. Init => GInv
  <2> SUFFICES ASSUME Init PROVE GInv  OBVIOUS
  <2>1. entry = None /\ recent = NoFailures  BY DEF Init, GuardInit
  <2>2. recent \in [Ages -> Nat]  BY <2>1, SMTT(30) DEF NoFailures
  <2>3. Failures = {}
    <3>1. \A f : f \in Failures <=> \E i \in Ages : \E n \in 1..recent[i] : f = <<i, n>>
      BY <2>2, FailureIs, SMTT(30) DEF Failures
    <3>2. \A i \in Ages : recent[i] = 0  BY <2>1, SMTT(30) DEF NoFailures
    <3> QED  BY <3>1, <3>2, SMTT(30)
  <2> QED  BY <2>1, <2>2, <2>3, FS_EmptySet, SMTT(30) DEF GInv
<1>2. SessionInv /\ GInv /\ [Next]_vars => GInv'
  <2> SUFFICES ASSUME SessionInv, GInv, [Next]_vars PROVE GInv'  BY SMTT(30)
  <2>1. ASSUME UNCHANGED guardVars, InFlight' = InFlight PROVE GInv'
    <3>1. UNCHANGED <<entry, recent>> /\ Failures' = Failures  BY <2>1, SMTT(30)
                                                                 DEF guardVars, Failures
    <3>2. EntryInv => EntryInv'  BY <2>1, <3>1, SMTT(30) DEF EntryInv, Bound
    <3> QED  BY <3>1, <3>2, SMTT(30) DEF GInv, Entries
  <2>2. CASE TimePasses
    <3>1. Tick /\ InFlight' = InFlight  BY <2>2, SMTT(30) DEF TimePasses, InFlight
    <3> QED  BY <3>1, TickGInv, SMTT(30)
  <2>3. ASSUME ExcusePending PROVE InFlight' = InFlight
    <3>1. ASSUME NEW r \in SignIns PROVE login'[r].pc = login[r].pc
      <4>1. login[r] \in Logins  BY DEF SessionInv, SessionTypes
      <4>2. CASE login[r].pc \in {"matched", "insert"}
        <5>1. login'[r] = [login[r] EXCEPT !.excused = TRUE]  BY <2>3, <4>2
                                                                DEF ExcusePending
        <5> QED  BY <4>1, <5>1 DEF Logins
      <4>3. CASE login[r].pc \notin {"matched", "insert"}
        BY <2>3, <4>3, SMTT(30) DEF ExcusePending
      <4> QED  BY <4>2, <4>3, SMTT(30)
    <3> QED  BY <3>1, SMTT(30) DEF InFlight
  <2>4. ASSUME NEW c \in Changes,
               SetupCounts(c) \/ SetupCreates(c) \/ Change(c)
                 \/ \E s \in Sessions : ChangeVerifies(c, s)
        PROVE  GInv'
    <3>1. UNCHANGED guardVars /\ (login' = login \/ ExcusePending)
      BY <2>4, ZenonT(60)
        DEF SetupCounts, SetupCreates, Change, ChangeVerifies, ChangeUpdates,
                  ChangeRevokes, ChangeFails
    <3>2. InFlight' = InFlight  BY <2>3, <3>1, SMTT(30) DEF InFlight
    <3> QED  BY <2>1, <3>1, <3>2
  <2>5. ASSUME NEW s \in Sessions, Logout(s) \/ LogoutAll(s) PROVE GInv'
    <3>1. UNCHANGED guardVars /\ InFlight' = InFlight
      BY <2>5, SMTT(30) DEF Logout, LogoutAll, InFlight
    <3> QED  BY <2>1, <3>1, SMTT(30)
  <2>6. CASE UNCHANGED vars
    BY <2>1, <2>6, SMTT(30) DEF vars, InFlight
  <2>7. ASSUME NEW r \in SignIns, Login(r) PROVE GInv'
    BY <2>7, LoginGInv, SMTT(30)
  <2> QED  BY <2>2, <2>4, <2>5, <2>6, <2>7, SMTT(30) DEF Next
<1> QED  BY <1>1, <1>2, SessionInvariance, PTL DEF Spec

\* ADMIN_LOGIN_MAX_FAILURES: for every budget, window and number of requests at
\* once, a window without a success sees less than two budgets of failures and
\* one for each other request that had passed the guard when it locked.
THEOREM GuessesBounded == Spec => []BoundedGuesses
<1>1. GInv => BoundedGuesses
  <2> SUFFICES ASSUME GInv PROVE Cardinality(Failures) <= Bound
    BY SMTT(30) DEF BoundedGuesses, Bound
  <2>0. /\ MaxFailures \in Nat /\ MaxFailures >= 1
        /\ Cardinality(InFlight) \in Nat /\ Cardinality(SignIns) \in Nat
    BY GuardConstants, SMTT(30)
  <2>1. CASE entry = None
    <3>1. Cardinality(Failures) = 0  BY <2>1, FS_EmptySet, SMTT(30) DEF GInv
    <3> QED  BY <2>0, <3>1, SMTT(30) DEF Bound
  <2>2. CASE entry # None
    <3>1. entry.count \in 0..(MaxFailures - 1) /\ EntryInv /\ Cardinality(Failures) \in Nat
      BY <2>2, EntryFacts
    <3> QED  BY <2>0, <3>1, SMTT(30) DEF EntryInv, Bound
  <2> QED  BY <2>1, <2>2, SMTT(30)
<1> QED  BY <1>1, GuardInvariance, PTL
=============================================================================
