-------------------------- MODULE PolicySnapshots ---------------------------
(***************************************************************************)
(* The policy snapshot of one gateway.  Refresh lists the policies and     *)
(* then stores a snapshot; MarkStale loads the snapshot and then stores a  *)
(* copy of it that is marked.  The ticker, the Redis subscription, the     *)
(* administrators' handlers and the health probe do so concurrently, and   *)
(* whoever stores last wins.                                               *)
(***************************************************************************)
EXTENDS Policies

CONSTANTS Admins,
          MaxChanges,  \* bound: changes of the policies
          MaxOutages   \* bound: losses of PostgreSQL

ASSUME PolicySnapshotsAssumption ==
  /\ MaxChanges \in Nat /\ MaxOutages \in Nat
  /\ Admins \cap {"poll", "event", "probe"} = {}

VARIABLES past,     \* every content of the table so far
          changes, dbUp, outages,
          snap,     \* Resolver.current: policies and stale
          pend,     \* what a goroutine is about to store
          handler,  \* where an administrator's handler is
          inbox,    \* a message waits in the subscription
          ready     \* the last outcome of the probes

vars == <<db, past, changes, dbUp, outages, snap, pend, handler, inbox, ready>>

Writers == Admins \cup {"poll", "event", "probe"}

Init ==
  /\ TableInit
  /\ past = {Seeded} /\ changes = 0
  /\ dbUp = TRUE /\ outages = 0
  /\ snap = [policies |-> Seeded, stale |-> FALSE]
  /\ pend = [w \in Writers |-> None]
  /\ handler = [a \in Admins |-> "idle"]
  /\ inbox = FALSE /\ ready = TRUE
-----------------------------------------------------------------------------
\* The handlers of createPolicy, updatePolicy and deletePolicy.
Change(a) ==
  /\ dbUp /\ changes < MaxChanges /\ handler[a] = "idle"
  /\ TableNext
  /\ past' = past \cup {db'}
  /\ changes' = changes + 1
  /\ handler' = [handler EXCEPT ![a] = "refresh"]
  /\ UNCHANGED <<dbUp, outages, snap, pend, inbox, ready>>

OnlyDefault ==
  [t \in Targets |-> IF t = <<Global, AnyRoute, "request">> THEN Default ELSE None]

\* Mutant of Listed: rows that are gone stay.
ListedMerged == [t \in Targets |-> IF db[t] = None THEN snap.policies[t] ELSE db[t]]

\* What Refresh compiles of the rows it listed.
Listed == IF Count(db) = 0 THEN OnlyDefault ELSE db

Lists(w) == pend' = [pend EXCEPT ![w] = [policies |-> Listed, stale |-> FALSE]]

\* The first half of MarkStale.
LoadsMark(w) ==
  pend' = [pend EXCEPT ![w] = [policies |-> snap.policies, stale |-> TRUE]]

\* Resolver.current.Store
Store(w) ==
  /\ pend[w] # None
  /\ snap' = pend[w]
  /\ pend' = [pend EXCEPT ![w] = None]
  /\ handler' = IF w \in Admins THEN [handler EXCEPT ![w] = "notify"] ELSE handler
  /\ UNCHANGED <<db, past, changes, dbUp, outages, inbox, ready>>

\* refreshPolicies: an error of Refresh is dropped.
HandlerLists(a) ==
  /\ handler[a] = "refresh" /\ pend[a] = None
  /\ IF dbUp THEN Lists(a) /\ UNCHANGED handler
     ELSE handler' = [handler EXCEPT ![a] = "notify"] /\ UNCHANGED pend
  /\ UNCHANGED <<db, past, changes, dbUp, outages, snap, inbox, ready>>

\* The message may be lost.
Notify(a) ==
  /\ handler[a] = "notify"
  /\ handler' = [handler EXCEPT ![a] = "idle"]
  /\ inbox' \in {inbox, TRUE}
  /\ UNCHANGED <<db, past, changes, dbUp, outages, snap, pend, ready>>

\* Mutant of Poll: the ticker skips the snapshot that it once marked.
PollUnlessStale ==
  /\ pend["poll"] = None
  /\ IF dbUp /\ ~snap.stale THEN Lists("poll") ELSE LoadsMark("poll")
  /\ UNCHANGED <<db, past, changes, dbUp, outages, snap, handler, inbox, ready>>

\* A tick of refreshSnapshots.
Poll ==
  /\ pend["poll"] = None
  /\ IF dbUp THEN Lists("poll") ELSE LoadsMark("poll")
  /\ UNCHANGED <<db, past, changes, dbUp, outages, snap, handler, inbox, ready>>

Event ==
  /\ inbox /\ pend["event"] = None
  /\ inbox' = FALSE
  /\ IF dbUp THEN Lists("event") ELSE UNCHANGED pend
  /\ UNCHANGED <<db, past, changes, dbUp, outages, snap, handler, ready>>

\* The "postgres" and "policies" probes.
Probe ==
  /\ pend["probe"] = None
  /\ ready' = (dbUp /\ ~snap.stale /\ Count(snap.policies) >= 2)
  /\ IF dbUp THEN UNCHANGED pend ELSE LoadsMark("probe")
  /\ UNCHANGED <<db, past, changes, dbUp, outages, snap, handler, inbox>>

DbLost ==
  /\ dbUp /\ outages < MaxOutages
  /\ dbUp' = FALSE /\ outages' = outages + 1
  /\ UNCHANGED <<db, past, changes, snap, pend, handler, inbox, ready>>

DbBack ==
  /\ ~dbUp
  /\ dbUp' = TRUE
  /\ UNCHANGED <<db, past, changes, outages, snap, pend, handler, inbox, ready>>

Next ==
  \/ \E a \in Admins : Change(a) \/ HandlerLists(a) \/ Notify(a)
  \/ \E w \in Writers : Store(w)
  \/ Poll \/ Event \/ Probe \/ DbLost \/ DbBack

Spec == Init /\ [][Next]_vars

\* Goroutines run, tickers tick, the subscription is drained.
Fairness ==
  /\ \A a \in Admins : WF_vars(HandlerLists(a)) /\ WF_vars(Notify(a))
  /\ \A w \in Writers : WF_vars(Store(w))
  /\ WF_vars(Poll) /\ WF_vars(Event) /\ WF_vars(Probe)

FairSpec == Spec /\ Fairness
-----------------------------------------------------------------------------
Snapshots == [policies : past \cup {OnlyDefault}, stale : BOOLEAN]

\* "policy updates never expose a partial set of tenant/route overrides"
\* (src/internal/policy/policy.go:104): requests are decided by a content the
\* table had as a whole, however refreshes and marks overlap.
WholeSnapshots == snap \in Snapshots

\* While PostgreSQL stays reachable the gateway comes to decide by the stored
\* policies, although a late mark may put an old snapshot back.
Converges ==
  <>[]dbUp => <>[](snap = [policies |-> Listed, stale |-> FALSE]
                     /\ ready = (Count(Listed) >= 2))

\* What the gateway decides at any moment is the severest of the rule matches
\* and of the most specific policy's threshold ("without ever lowering the
\* policy decision", src/internal/policy/policy.go:81), by valid policies of
\* some content the table had, however overrides come, move and go.
SeverestDecides ==
  /\ Severest(snap.policies)
  /\ \A t \in Targets : snap.policies[t] # None => Validate(snap.policies[t])
=============================================================================
