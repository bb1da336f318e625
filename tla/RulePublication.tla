-------------------------- MODULE RulePublication ---------------------------
(***************************************************************************)
(* The publication of the rule sets of one scope by concurrent             *)
(* administrators: Repository.Publish, and Rollback which ends in it.  The *)
(* scope is the global one, which has a set from the start, or a tenant's, *)
(* which has none until the first publication.                             *)
(*                                                                         *)
(* Publish runs in a READ COMMITTED transaction.  Its first UPDATE sees    *)
(* the rows that were published when it began, waits for the row locks of  *)
(* other transactions, and archives those that still are published; its    *)
(* second one publishes the set at now(), the start of the transaction.    *)
(***************************************************************************)
EXTENDS Integers

CONSTANTS Versions, Initial,  \* the rule sets, and the one published at first
          Publishers,
          MaxPublishes        \* bound: publications begun, by scope

ASSUME PublicationAssumption ==
  Initial \in Versions /\ MaxPublishes \in [{"global", "tenant"} -> Nat]

VARIABLES scope,
          status,  \* rule_sets.status
          at,      \* rule_sets.published_at
          tx,      \* the transaction of each administrator
          now      \* publications begun

pubVars == <<scope, status, at, tx, now>>

\* snap and held: the rows the first UPDATE sees and locks; seen (history):
\* published_at of the sets that were published at BEGIN.
Idle == [pc |-> "idle", v |-> Initial, start |-> 0, snap |-> {}, held |-> {}, seen |-> {}]
Published == {v \in Versions : status[v] = "published"}

\* Repository.Active: ORDER BY published_at DESC LIMIT 1.
Active == CHOOSE v \in Published : \A w \in Published : at[w] <= at[v]

PubInit ==
  /\ scope \in DOMAIN MaxPublishes
  /\ status = [v \in Versions |-> IF v = Initial /\ scope = "global" THEN "published"
                                  ELSE "draft"]
  /\ at = [v \in Versions |-> 0]
  /\ tx = [a \in Publishers |-> Idle]
  /\ now = 0
-----------------------------------------------------------------------------
Step(a, from, to) == tx[a].pc = from /\ tx' = [tx EXCEPT ![a] = to]

\* The rows other transactions have updated and not committed.
Locked(a) == UNION {tx[b].held : b \in Publishers \ {a}}

\* GetRuleSet, validate and BEGIN.
PublishBegin(a, v) ==
  /\ now < MaxPublishes[scope]
  /\ Step(a, "idle", [Idle EXCEPT !.pc = "began", !.v = v, !.start = now + 1,
                                 !.seen = {at[w] : w \in Published}])
  /\ now' = now + 1
  /\ UNCHANGED <<scope, status, at>>

\* Mutant of PublishSnapshot: one row is taken for the published one.
SnapshotOne(a) ==
  /\ Step(a, "began", [tx[a] EXCEPT !.pc = "update",
                         !.snap = {v \in Published : v = CHOOSE u \in Published :
                                                     \A w \in Published : at[w] >= at[u]}])
  /\ UNCHANGED <<scope, status, at, now>>

\* The archiving UPDATE takes its snapshot.
PublishSnapshot(a) ==
  /\ Step(a, "began", [tx[a] EXCEPT !.pc = "update", !.snap = Published])
  /\ UNCHANGED <<scope, status, at, now>>

\* It gets the row locks; a row another transaction archived is skipped.
PublishArchive(a) ==
  /\ tx[a].snap \cap Locked(a) = {}
  /\ Step(a, "update", [tx[a] EXCEPT !.pc = "archived", !.held = tx[a].snap \cap Published])
  /\ UNCHANGED <<scope, status, at, now>>

\* The publishing UPDATE, once its row is free, and COMMIT.
PublishCommit(a) ==
  /\ tx[a].v \notin Locked(a)
  /\ Step(a, "archived", Idle)
  /\ status' = [w \in Versions |-> IF w = tx[a].v THEN "published"
                                   ELSE IF w \in tx[a].held THEN "archived" ELSE status[w]]
  /\ at' = [at EXCEPT ![tx[a].v] = tx[a].start]
  /\ UNCHANGED <<scope, now>>

\* An error, or a deadlock PostgreSQL breaks: the deferred ROLLBACK.
PublishAbort(a) ==
  /\ tx[a].pc # "idle"
  /\ tx' = [tx EXCEPT ![a] = Idle]
  /\ UNCHANGED <<scope, status, at, now>>

PubNext ==
  \E a \in Publishers :
    \/ \E v \in Versions : PublishBegin(a, v)
    \/ PublishSnapshot(a) \/ PublishArchive(a) \/ PublishCommit(a) \/ PublishAbort(a)

PubSpec == PubInit /\ [][PubNext]_pubVars
-----------------------------------------------------------------------------
\* A publication replaces every set that was published when it began: also
\* what overlapping publications left published, which published_at, the start
\* of a transaction, would order wrongly.  No replaced set is active again.
ReplacesWhatItSaw ==
  [][\A a \in Publishers : at' # at /\ at'[tx[a].v] = tx[a].start =>
       \A w \in Versions \ {tx[a].v} :
         status'[w] = "published" => at'[w] \notin tx[a].seen]_pubVars
=============================================================================
