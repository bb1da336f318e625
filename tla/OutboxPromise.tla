---------------------------- MODULE OutboxPromise ----------------------------
(***************************************************************************)
(* What the transactional outbox promises (events.go:271, "Dispatcher      *)
(* provides at-least-once Kafka delivery from PostgreSQL's outbox"): an    *)
(* event is first committed, then delivered, and only then acknowledged,   *)
(* and nothing is taken back until retention removes the audit record.     *)
(* Module Outbox implements this.                                          *)
(***************************************************************************)
CONSTANT Events

VARIABLES committed,     \* events with an outbox row, now or earlier
          delivered,     \* events that Kafka holds
          acknowledged,  \* events the gateway will never send again because
                         \* it considers them delivered
          expired        \* events whose audit record retention has removed

vars == <<committed, delivered, acknowledged, expired>>

Init == committed = {} /\ delivered = {} /\ acknowledged = {} /\ expired = {}

Commit(S) ==
  /\ committed' = committed \cup S
  /\ UNCHANGED <<delivered, acknowledged, expired>>

Deliver(e) ==
  /\ e \in committed
  /\ delivered' = delivered \cup {e}
  /\ UNCHANGED <<committed, acknowledged, expired>>

Acknowledge(S) ==
  /\ S \subseteq delivered
  /\ acknowledged' = acknowledged \cup S
  /\ UNCHANGED <<committed, delivered, expired>>

Expire(S) ==
  /\ S \subseteq committed
  /\ expired' = expired \cup S
  /\ acknowledged' = acknowledged \ S
  /\ UNCHANGED <<committed, delivered>>

Next ==
  \/ \E S \in SUBSET Events : Commit(S) \/ Acknowledge(S) \/ Expire(S)
  \/ \E e \in Events : Deliver(e)

Spec == Init /\ [][Next]_vars
=============================================================================
