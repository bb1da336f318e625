--------------------------- MODULE DeliveryProofs ---------------------------
(***************************************************************************)
(* Proofs about the delivery of audit events: Outbox, for any number of    *)
(* events and replicas, any attempt limit, claim size and number of        *)
(* faults, and the consumer of the topic, for any log and batch size.      *)
(***************************************************************************)
EXTENDS Outbox, Consumer, FiniteSetTheorems, TLAPS

USE OutboxAssumption
USE DEF rowVars, dispatcherVars

\* An idle replica has no claimed records, what is claimed was committed, and
\* the retry path has a record in hand.
ClaimsAccounted ==
  \A g \in Gateways :
    /\ pc[g] = "idle" => todo[g] = {}
    /\ \A e \in todo[g] : state[e] # "none"
    /\ pc[g] = "retry" => failed[g] \in Events

\* An outbox row refers to an audit record that exists.
ForeignKey == \A e \in Events : Present(e) => e \in recorded

\* The inductive invariant behind the attempt bound.
BoundInv == TypeOK /\ ForeignKey /\ ClaimsAccounted /\ SendsPaidByClaims

\* The initial state satisfies the invariant.
LEMMA InitBound == Init => BoundInv
<1>1. SUFFICES ASSUME Init PROVE BoundInv
  OBVIOUS
<1>2. TypeOK
  BY <1>1 DEF Init, TypeOK
<1>3. ClaimsAccounted /\ ForeignKey
  BY <1>1 DEF Init, ClaimsAccounted, ForeignKey, Present
<1>4. SendsPaidByClaims
  <2>1. \A e \in Events : Claimants(e) = {}
    BY <1>1 DEF Init, Claimants
  <2>2. QED
    BY <1>1, <2>1, FS_EmptySet, SMTT(30) DEF Init, SendsPaidByClaims
<1>5. QED
  BY <1>2, <1>3, <1>4 DEF BoundInv

\* Every step preserves the types.
LEMMA TypeStep == BoundInv /\ [Next]_vars => TypeOK'
<1>1. SUFFICES ASSUME TypeOK, ClaimsAccounted, [Next]_vars PROVE TypeOK'
  BY DEF BoundInv
<1>2. ASSUME NEW S \in SUBSET Claimable, Lease(S)
      PROVE  attempts' \in [Events -> 0..MaxAttempts] /\ leased' \subseteq Events
  BY <1>1, <1>2 DEF TypeOK, Lease, Claimable
<1>3. ASSUME NEW g \in Gateways, ClaimOutbox(g) PROVE TypeOK'
  <2>1. PICK S \in SUBSET Claimable : Lease(S) /\ todo' = [todo EXCEPT ![g] = S]
    BY <1>3, Zenon DEF ClaimOutbox
  <2>2. S \subseteq Events
    BY DEF Claimable
  <2>3. QED
    BY <1>1, <1>2, <1>3, <2>1, <2>2, Zenon DEF TypeOK, ClaimOutbox, Lease
<1>4. ASSUME NEW g \in Gateways, ClaimLost(g) PROVE TypeOK'
  <2>1. PICK S \in SUBSET Claimable : Lease(S)
    BY <1>4 DEF ClaimLost
  <2>2. faults' \in 0..MaxFaults
    BY <1>1, <1>4 DEF TypeOK, ClaimLost
  <2>3. QED
    BY <1>1, <1>2, <1>4, <2>1, <2>2, Zenon DEF TypeOK, ClaimLost, Lease
<1>5. ASSUME NEW g \in Gateways, NEW e \in Events, PublishOk(g, e) PROVE TypeOK'
  BY <1>1, <1>5 DEF TypeOK, PublishOk
<1>6. ASSUME NEW g \in Gateways, NEW e \in Events, PublishFails(g, e) PROVE TypeOK'
  BY <1>1, <1>6 DEF TypeOK, PublishFails
<1>7. ASSUME NEW g \in Gateways, NEW e \in Events, DecodeFails(g, e) PROVE TypeOK'
  BY <1>1, <1>7 DEF TypeOK, DecodeFails
<1>8. ASSUME NEW g \in Gateways, RetryOutbox(g) PROVE TypeOK'
  <2>1. failed[g] \in Events
    BY <1>1, <1>8 DEF ClaimsAccounted, RetryOutbox
  <2>2. QED
    BY <1>1, <1>8, <2>1 DEF TypeOK, RetryOutbox
<1>9. ASSUME NEW g \in Gateways, MarkOutboxPublished(g) PROVE TypeOK'
  BY <1>1, <1>9 DEF TypeOK, MarkOutboxPublished, Present
<1>10. ASSUME NEW g \in Gateways, Crash(g) PROVE TypeOK'
  BY <1>1, <1>10 DEF TypeOK, Crash
<1>11. ASSUME NEW g \in Gateways, NEW B \in SUBSET Events, StoreEvents(g, B)
       PROVE  TypeOK'
  BY <1>1, <1>11 DEF TypeOK, StoreEvents
<1>12. ASSUME NEW e \in Events, LeaseExpires(e) \/ BackoffElapses(e) PROVE TypeOK'
  BY <1>1, <1>12 DEF TypeOK, LeaseExpires, BackoffElapses
<1>13. CASE KafkaToggles
  BY <1>1, <1>13, Zenon DEF TypeOK, KafkaToggles
<1>14. ASSUME NEW S \in SUBSET Events, DeleteAuditRecords(S) \/ DeletePublished(S)
       PROVE  TypeOK'
  BY <1>1, <1>14 DEF TypeOK, DeleteAuditRecords, DeletePublished, Delete
<1>15. CASE UNCHANGED vars
  BY <1>1, <1>15 DEF TypeOK, vars
<1>16. QED
  BY <1>1, <1>3, <1>4, <1>5, <1>6, <1>7, <1>8, <1>9, <1>10, <1>11, <1>12,
     <1>13, <1>14, <1>15 DEF Next, Dispatch

\* Every step keeps the claims accounted for.
LEMMA ClaimsStep == BoundInv /\ [Next]_vars => ClaimsAccounted'
<1>1. SUFFICES ASSUME TypeOK, ClaimsAccounted, [Next]_vars PROVE ClaimsAccounted'
  BY DEF BoundInv
<1>2. ASSUME NEW g \in Gateways, ClaimOutbox(g) PROVE ClaimsAccounted'
  <2>1. PICK S \in SUBSET Claimable : Lease(S) /\ todo' = [todo EXCEPT ![g] = S]
    BY <1>2, Zenon DEF ClaimOutbox
  <2>2. \A e \in S : state[e] # "none"
    BY DEF Claimable
  <2>3. QED
    BY <1>1, <1>2, <2>1, <2>2, SMTT(30) DEF TypeOK, ClaimsAccounted, ClaimOutbox, Lease
<1>3. ASSUME NEW g \in Gateways, ClaimLost(g) PROVE ClaimsAccounted'
  BY <1>1, <1>3, SMTT(30) DEF ClaimsAccounted, ClaimLost, Lease
<1>4. ASSUME NEW g \in Gateways, NEW e \in Events,
             PublishOk(g, e) \/ PublishFails(g, e) \/ DecodeFails(g, e)
      PROVE  ClaimsAccounted'
  BY <1>1, <1>4, SMTT(30) DEF TypeOK, ClaimsAccounted, PublishOk, PublishFails, DecodeFails
<1>5. ASSUME NEW g \in Gateways, RetryOutbox(g) PROVE ClaimsAccounted'
  BY <1>1, <1>5, SMTT(30) DEF TypeOK, ClaimsAccounted, RetryOutbox
<1>6. ASSUME NEW g \in Gateways, MarkOutboxPublished(g) PROVE ClaimsAccounted'
  BY <1>1, <1>6 DEF TypeOK, ClaimsAccounted, MarkOutboxPublished
<1>7. ASSUME NEW g \in Gateways, Crash(g) PROVE ClaimsAccounted'
  BY <1>1, <1>7 DEF TypeOK, ClaimsAccounted, Crash
<1>8. ASSUME NEW g \in Gateways, NEW B \in SUBSET Events, StoreEvents(g, B)
      PROVE  ClaimsAccounted'
  BY <1>1, <1>8 DEF TypeOK, ClaimsAccounted, StoreEvents
<1>9. ASSUME NEW e \in Events, LeaseExpires(e) \/ BackoffElapses(e)
      PROVE  ClaimsAccounted'
  BY <1>1, <1>9 DEF ClaimsAccounted, LeaseExpires, BackoffElapses
<1>10. CASE KafkaToggles
  BY <1>1, <1>10, SMTT(30) DEF ClaimsAccounted, KafkaToggles
<1>11. ASSUME NEW S \in SUBSET Events, DeleteAuditRecords(S) \/ DeletePublished(S)
       PROVE  ClaimsAccounted'
  BY <1>1, <1>11 DEF TypeOK, ClaimsAccounted, DeleteAuditRecords, DeletePublished, Delete
<1>12. CASE UNCHANGED vars
  BY <1>1, <1>12 DEF ClaimsAccounted, vars
<1>13. QED
  BY <1>1, <1>2, <1>3, <1>4, <1>5, <1>6, <1>7, <1>8, <1>9, <1>10, <1>11,
     <1>12, SMTT(30) DEF Next, Dispatch

\* Every step keeps the reference from outbox rows to audit records.
LEMMA ForeignKeyStep == BoundInv /\ [Next]_vars => ForeignKey'
<1>1. SUFFICES ASSUME TypeOK, ForeignKey, [Next]_vars PROVE ForeignKey'
  BY DEF BoundInv
<1>2. ASSUME NEW g \in Gateways, NEW B \in SUBSET Events, StoreEvents(g, B)
      PROVE  ForeignKey'
  BY <1>1, <1>2, SMTT(30) DEF TypeOK, ForeignKey, Present, StoreEvents
<1>3. ASSUME NEW S \in SUBSET Events, DeleteAuditRecords(S) \/ DeletePublished(S)
      PROVE  ForeignKey'
  BY <1>1, <1>3
     DEF TypeOK, ForeignKey, Present, DeleteAuditRecords, DeletePublished, Delete
<1>4. ASSUME NEW g \in Gateways, MarkOutboxPublished(g)
      PROVE  ForeignKey'
  BY <1>1, <1>4 DEF TypeOK, ForeignKey, Present, MarkOutboxPublished
<1>5. CASE \/ \E g \in Gateways : ClaimOutbox(g) \/ ClaimLost(g) \/ RetryOutbox(g) \/ Crash(g)
           \/ \E g \in Gateways, e \in Events :
                PublishOk(g, e) \/ PublishFails(g, e) \/ DecodeFails(g, e)
           \/ \E e \in Events : LeaseExpires(e) \/ BackoffElapses(e)
           \/ KafkaToggles \/ UNCHANGED vars
  <2>1. UNCHANGED <<state, recorded>>
    BY <1>5, ZenonT(60)
       DEF ClaimOutbox, ClaimLost, Lease, RetryOutbox, Crash, PublishOk, PublishFails,
           DecodeFails, LeaseExpires, BackoffElapses, KafkaToggles, vars
  <2>2. QED
    BY <1>1, <2>1 DEF ForeignKey, Present
<1>6. QED
  BY <1>1, <1>2, <1>3, <1>4, <1>5 DEF Next, Dispatch

\* The claimants of an event form a finite set.
LEMMA ClaimantsFinite ==
  ASSUME NEW e \in Events
  PROVE  IsFiniteSet(Claimants(e)) /\ Cardinality(Claimants(e)) \in Nat
  BY FS_Subset, FS_CardinalityType DEF Claimants

\* Fewer claimants, no further send, no fewer attempts: the account stays.
LEMMA AccountKept ==
  ASSUME TypeOK, TypeOK', NEW e \in Events,
         sends[e] + Cardinality(Claimants(e)) <= attempts[e],
         Claimants(e)' \subseteq Claimants(e),
         sends'[e] = sends[e], attempts'[e] >= attempts[e]
  PROVE  sends'[e] + Cardinality(Claimants(e))' <= attempts'[e]
<1>1. /\ Cardinality(Claimants(e)') <= Cardinality(Claimants(e))
      /\ Cardinality(Claimants(e)') \in Nat /\ Cardinality(Claimants(e)) \in Nat
  BY ClaimantsFinite, FS_Subset, FS_CardinalityType, SMTT(30)
<1>2. sends[e] \in Nat /\ attempts[e] \in Nat /\ attempts'[e] \in Nat
  BY SMTT(30) DEF TypeOK
<1>3. QED
  BY <1>1, <1>2

\* Every step keeps sends paid for by claims.
LEMMA SendsStep == BoundInv /\ [Next]_vars => SendsPaidByClaims'
<1>1. SUFFICES ASSUME BoundInv, [Next]_vars, NEW e \in Events
               PROVE  sends'[e] + Cardinality(Claimants(e))' <= attempts'[e]
  BY DEF SendsPaidByClaims
<1>2. /\ TypeOK /\ TypeOK' /\ ClaimsAccounted
      /\ sends[e] + Cardinality(Claimants(e)) <= attempts[e]
  BY <1>1, TypeStep DEF BoundInv, SendsPaidByClaims
<1>3. /\ sends[e] \in Nat /\ attempts[e] \in Nat
      /\ IsFiniteSet(Claimants(e)) /\ Cardinality(Claimants(e)) \in Nat
  BY <1>2, ClaimantsFinite, SMTT(30) DEF TypeOK
<1>4. ASSUME todo' = todo, sends' = sends, attempts'[e] >= attempts[e]
      PROVE  sends'[e] + Cardinality(Claimants(e))' <= attempts'[e]
  <2>1. Claimants(e)' = Claimants(e)
    BY <1>4, SMTT(30) DEF Claimants
  <2>2. QED
    BY <1>2, <1>3, <1>4, <2>1 DEF TypeOK
<1>5. ASSUME NEW g \in Gateways, ClaimOutbox(g)
      PROVE  sends'[e] + Cardinality(Claimants(e))' <= attempts'[e]
  <2>1. PICK S \in SUBSET Claimable : Lease(S) /\ todo' = [todo EXCEPT ![g] = S]
    BY <1>5, Zenon DEF ClaimOutbox
  <2>2. todo[g] = {} /\ g \notin Claimants(e) /\ sends' = sends
    BY <1>2, <1>5, SMTT(30) DEF ClaimsAccounted, ClaimOutbox, Claimants
  <2>3. CASE e \in S
    <3>1. Claimants(e)' = Claimants(e) \cup {g}
      BY <1>2, <2>1, <2>3 DEF Claimants, TypeOK
    <3>2. Cardinality(Claimants(e)') = Cardinality(Claimants(e)) + 1
      BY <1>3, <2>2, <3>1, FS_AddElement, ZenonT(60)
    <3>3. attempts'[e] = attempts[e] + 1
      BY <2>1, <2>3, SMTT(30) DEF Lease
    <3>4. QED
      BY <1>2, <1>3, <2>2, <3>2, <3>3, SMTT(30)
  <2>4. CASE e \notin S
    <3>1. Claimants(e)' \subseteq Claimants(e)
      BY <1>2, <2>1, <2>4, SMTT(30) DEF Claimants, TypeOK
    <3>2. attempts'[e] = attempts[e]
      BY <1>3, <2>1, <2>4, SMTT(30) DEF Lease
    <3>3. QED
      BY <1>2, <1>3, <2>2, <3>1, <3>2, AccountKept, SMTT(30)
  <2>5. QED
    BY <2>3, <2>4
<1>6. ASSUME NEW g \in Gateways, ClaimLost(g)
      PROVE  sends'[e] + Cardinality(Claimants(e))' <= attempts'[e]
  <2>1. attempts'[e] >= attempts[e] /\ todo' = todo /\ sends' = sends
    BY <1>3, <1>6 DEF ClaimLost, Lease
  <2>2. QED
    BY <1>4, <2>1, SMTT(30)
<1>7. ASSUME NEW g \in Gateways, NEW f \in Events, PublishOk(g, f) \/ PublishFails(g, f)
      PROVE  sends'[e] + Cardinality(Claimants(e))' <= attempts'[e]
  <2>1. /\ f \in todo[g] /\ todo' = [todo EXCEPT ![g] = @ \ {f}]
        /\ sends' = [sends EXCEPT ![f] = @ + 1] /\ attempts' = attempts
    BY <1>7, SMTT(30) DEF PublishOk, PublishFails
  <2>2. CASE e = f
    <3>1. Claimants(e)' = Claimants(e) \ {g} /\ g \in Claimants(e)
      BY <1>2, <2>1, <2>2, SMTT(30) DEF Claimants, TypeOK
    <3>2. Cardinality(Claimants(e)') = Cardinality(Claimants(e)) - 1
      BY <1>3, <3>1, FS_RemoveElement, ZenonT(60)
    <3>3. sends'[e] = sends[e] + 1
      BY <1>2, <2>1, <2>2 DEF TypeOK
    <3>4. QED
      BY <1>2, <1>3, <2>1, <3>2, <3>3, SMTT(30)
  <2>3. CASE e # f
    <3>1. Claimants(e)' \subseteq Claimants(e) /\ sends'[e] = sends[e]
      BY <1>2, <2>1, <2>3, SMTT(30) DEF Claimants, TypeOK
    <3>2. QED
      BY <1>2, <1>3, <2>1, <3>1, AccountKept
  <2>4. QED
    BY <2>2, <2>3, SMTT(30)
<1>8. ASSUME NEW g \in Gateways,
             (\E f \in Events : DecodeFails(g, f)) \/ Crash(g)
      PROVE  sends'[e] + Cardinality(Claimants(e))' <= attempts'[e]
  <2>1. Claimants(e)' \subseteq Claimants(e)
    BY <1>2, <1>8, SMTT(30) DEF DecodeFails, Crash, Claimants, TypeOK
  <2>2. sends' = sends /\ attempts' = attempts
    BY <1>8, SMTT(30) DEF DecodeFails, Crash
  <2>3. QED
    BY <1>2, <1>3, <2>1, <2>2, AccountKept, SMTT(30)
<1>9. CASE \/ \E g \in Gateways : RetryOutbox(g) \/ MarkOutboxPublished(g)
           \/ \E g \in Gateways, B \in SUBSET Events : StoreEvents(g, B)
           \/ \E f \in Events : LeaseExpires(f) \/ BackoffElapses(f)
           \/ KafkaToggles
           \/ \E S \in SUBSET Events : DeleteAuditRecords(S) \/ DeletePublished(S)
           \/ UNCHANGED vars
  <2>1. todo' = todo /\ sends' = sends /\ attempts' = attempts
    BY <1>9, Zenon DEF RetryOutbox, MarkOutboxPublished, StoreEvents, LeaseExpires,
       BackoffElapses, KafkaToggles, DeleteAuditRecords, DeletePublished, Delete, vars
  <2>2. QED
    BY <1>3, <1>4, <2>1
<1>10. QED
  BY <1>1, <1>5, <1>6, <1>7, <1>8, <1>9, SMTT(30) DEF Next, Dispatch

\* The bound invariant holds in every reachable state.
THEOREM BoundInductive == Spec => []BoundInv
<1>1. BoundInv /\ [Next]_vars => BoundInv'
  BY TypeStep, ForeignKeyStep, ClaimsStep, SendsStep DEF BoundInv
<1>2. QED
  BY InitBound, <1>1, PTL DEF Spec

\* Type correctness; ClaimOutbox never takes a row past MaxOutboxAttempts.
THEOREM TypeCorrect == Spec => []TypeOK
<1>1. BoundInv => TypeOK
  BY DEF BoundInv
<1>2. QED
  BY <1>1, BoundInductive, PTL

\* No event is handed to Publish more often than its row was claimed, over all
\* replicas, lease expiries, lost replies and crashes.
THEOREM SendsBounded == Spec => []SendsPaidByClaims
<1>1. BoundInv => SendsPaidByClaims
  BY SMTT(30) DEF BoundInv
<1>2. QED
  BY <1>1, BoundInductive, PTL
-----------------------------------------------------------------------------
(***************************************************************************)
(* Delivery.  PublishedOnlyAfterDelivery is not inductive: one must know   *)
(* that what a running dispatch is about to mark has reached Kafka.        *)
(***************************************************************************)
DoneDelivered == \A g \in Gateways : done[g] \subseteq delivered

DeliveryInv == BoundInv /\ DoneDelivered /\ PublishedOnlyAfterDelivery

\* Every step keeps marks behind deliveries when all replicas have brokers.
LEMMA DeliveryStep ==
  ASSUME Brokered = Gateways
  PROVE  DeliveryInv /\ [Next]_vars => DoneDelivered' /\ PublishedOnlyAfterDelivery'
<1>1. SUFFICES ASSUME TypeOK, DoneDelivered, PublishedOnlyAfterDelivery, [Next]_vars
               PROVE  DoneDelivered' /\ PublishedOnlyAfterDelivery'
  BY DEF DeliveryInv, BoundInv
<1>2. ASSUME NEW g \in Gateways, NEW e \in Events,
             PublishOk(g, e) \/ PublishFails(g, e) \/ DecodeFails(g, e)
      PROVE  DoneDelivered' /\ PublishedOnlyAfterDelivery'
  <2>1. state' = state /\ delivered \subseteq delivered'
    BY <1>2, SMTT(30) DEF PublishOk, PublishFails, DecodeFails
  <2>2. DoneDelivered'
    BY <1>1, <1>2, SMTT(30) DEF TypeOK, DoneDelivered, PublishOk, PublishFails, DecodeFails
  <2>3. QED
    BY <1>1, <2>1, <2>2, SMTT(30) DEF PublishedOnlyAfterDelivery
<1>3. ASSUME NEW g \in Gateways, MarkOutboxPublished(g) \/ Crash(g)
      PROVE  DoneDelivered' /\ PublishedOnlyAfterDelivery'
  BY <1>1, <1>3, SMTT(30)
     DEF TypeOK, DoneDelivered, PublishedOnlyAfterDelivery, MarkOutboxPublished, Crash
<1>4. ASSUME NEW g \in Gateways, ClaimOutbox(g) \/ ClaimLost(g) \/ RetryOutbox(g)
      PROVE  DoneDelivered' /\ PublishedOnlyAfterDelivery'
  <2>1. UNCHANGED <<state, done, delivered>>
    BY <1>4, Zenon DEF ClaimOutbox, ClaimLost, RetryOutbox, Lease
  <2>2. QED
    BY <1>1, <2>1 DEF DoneDelivered, PublishedOnlyAfterDelivery
<1>5. ASSUME NEW g \in Gateways, NEW B \in SUBSET Events, StoreEvents(g, B)
      PROVE  DoneDelivered' /\ PublishedOnlyAfterDelivery'
  BY <1>1, <1>5, SMTT(30) DEF TypeOK, DoneDelivered, PublishedOnlyAfterDelivery, StoreEvents
<1>6. ASSUME NEW S \in SUBSET Events, DeleteAuditRecords(S) \/ DeletePublished(S)
      PROVE  DoneDelivered' /\ PublishedOnlyAfterDelivery'
  BY <1>1, <1>6, SMTT(30) DEF TypeOK, DoneDelivered, PublishedOnlyAfterDelivery,
     DeleteAuditRecords, DeletePublished, Delete
<1>7. CASE \/ \E e \in Events : LeaseExpires(e) \/ BackoffElapses(e)
           \/ KafkaToggles \/ UNCHANGED vars
  <2>1. UNCHANGED <<state, done, delivered>>
    BY <1>7, Zenon DEF LeaseExpires, BackoffElapses, KafkaToggles, vars
  <2>2. QED
    BY <1>1, <2>1 DEF DoneDelivered, PublishedOnlyAfterDelivery
<1>8. QED
  BY <1>1, <1>2, <1>3, <1>4, <1>5, <1>6, <1>7, SMTT(30) DEF Next, Dispatch

\* With brokers configured everywhere, a row is marked published only after
\* Kafka took the event, whichever replica marks it and whatever its lease.
THEOREM MarksFollowDelivery ==
  ASSUME Brokered = Gateways
  PROVE  Spec => []PublishedOnlyAfterDelivery
<1>1. Init => DeliveryInv
  BY InitBound DEF Init, DeliveryInv, DoneDelivered, PublishedOnlyAfterDelivery
<1>2. DeliveryInv /\ [Next]_vars => DeliveryInv'
  BY DeliveryStep, TypeStep, ForeignKeyStep, ClaimsStep, SendsStep, SMTT(30)
     DEF DeliveryInv, BoundInv
<1>3. DeliveryInv => PublishedOnlyAfterDelivery
  BY DEF DeliveryInv
<1>4. QED
  BY <1>1, <1>2, <1>3, PTL DEF Spec

\* A published row is never claimed, retried or reopened again.
THEOREM PublishedIsFinal == Spec => PublishedFinal
<1>1. ASSUME BoundInv, [Next]_vars
      PROVE  [\A e \in Events : state[e] = "published" =>
                state'[e] \in {"published", "deleted"} /\ attempts'[e] = attempts[e]]_vars
  <2>1. SUFFICES ASSUME NEW e \in Events, state[e] = "published", Next
                 PROVE  /\ state'[e] \in {"published", "deleted"}
                        /\ attempts'[e] = attempts[e]
    BY <1>1, SMTT(30)
  <2>2. TypeOK /\ attempts[e] \in Nat /\ e \in recorded
    BY <1>1, <2>1 DEF BoundInv, TypeOK, ForeignKey, Present
  <2>3. ASSUME NEW g \in Gateways, ClaimOutbox(g) \/ ClaimLost(g)
        PROVE  state' = state /\ attempts'[e] = attempts[e]
    <3>1. PICK S \in SUBSET Claimable : Lease(S)
      BY <2>3, ZenonT(60) DEF ClaimOutbox, ClaimLost
    <3>2. e \notin S
      BY <2>1 DEF Claimable
    <3>3. QED
      BY <2>2, <3>1, <3>2 DEF Lease
  <2>4. ASSUME NEW g \in Gateways, RetryOutbox(g) \/ Crash(g)
        PROVE  state' = state /\ attempts' = attempts
    BY <2>4, Zenon DEF RetryOutbox, Crash
  <2>5. ASSUME NEW g \in Gateways, NEW f \in Events,
               PublishOk(g, f) \/ PublishFails(g, f) \/ DecodeFails(g, f)
        PROVE  state' = state /\ attempts' = attempts
    BY <2>5, Zenon DEF PublishOk, PublishFails, DecodeFails
  <2>6. ASSUME NEW g \in Gateways, MarkOutboxPublished(g)
        PROVE  state'[e] = "published" /\ attempts' = attempts
    BY <2>1, <2>6, SMTT(30) DEF MarkOutboxPublished
  <2>7. ASSUME NEW g \in Gateways, NEW B \in SUBSET Events, StoreEvents(g, B)
        PROVE  attempts' = attempts /\ state'[e] = state[e]
    <3>1. CASE e \notin B
      BY <2>7, <3>1, SMTT(30) DEF StoreEvents
    <3>2. CASE e \in B
      BY <2>1, <2>2, <2>7, <3>2, SMTT(30) DEF StoreEvents
    <3>3. QED
      BY <3>1, <3>2
  <2>8. ASSUME NEW S \in SUBSET Events, DeleteAuditRecords(S) \/ DeletePublished(S)
        PROVE  state'[e] \in {"published", "deleted"} /\ attempts' = attempts
    BY <2>1, <2>8 DEF DeleteAuditRecords, DeletePublished, Delete
  <2>9. ASSUME \/ \E f \in Events : LeaseExpires(f) \/ BackoffElapses(f)
               \/ KafkaToggles
        PROVE  state' = state /\ attempts' = attempts
    BY <2>9, Zenon DEF LeaseExpires, BackoffElapses, KafkaToggles
  <2>10. QED
    BY <2>1, <2>3, <2>4, <2>5, <2>6, <2>7, <2>8, <2>9, SMTT(30) DEF Next, Dispatch
<1>2. QED
  BY <1>1, BoundInductive, PTL DEF Spec, PublishedFinal
-----------------------------------------------------------------------------
(* Nothing leaves the outbox undelivered before its audit record does. *)

LossInv == DeliveryInv /\ NoSilentLoss

\* Every step keeps undelivered rows pending.
LEMMA LossStep ==
  ASSUME Brokered = Gateways
  PROVE  LossInv /\ [Next]_vars => NoSilentLoss'
<1>1. SUFFICES ASSUME TypeOK, ForeignKey, DoneDelivered, PublishedOnlyAfterDelivery,
                      NoSilentLoss, [Next]_vars
               PROVE  NoSilentLoss'
  BY SMTT(30) DEF LossInv, DeliveryInv, BoundInv
<1>2. ASSUME NEW g \in Gateways, NEW B \in SUBSET Events, StoreEvents(g, B)
      PROVE  NoSilentLoss'
  BY <1>1, <1>2, SMTT(30) DEF TypeOK, NoSilentLoss, StoreEvents
<1>3. ASSUME NEW S \in SUBSET Events, DeleteAuditRecords(S) \/ DeletePublished(S)
      PROVE  NoSilentLoss'
  BY <1>1, <1>3, SMTT(30) DEF TypeOK, NoSilentLoss, PublishedOnlyAfterDelivery,
     DeleteAuditRecords, DeletePublished, Delete
<1>4. ASSUME NEW g \in Gateways, MarkOutboxPublished(g)
      PROVE  NoSilentLoss'
  BY <1>1, <1>4 DEF TypeOK, DoneDelivered, NoSilentLoss, MarkOutboxPublished
<1>5. CASE \/ \E g \in Gateways : ClaimOutbox(g) \/ ClaimLost(g) \/ RetryOutbox(g) \/ Crash(g)
           \/ \E g \in Gateways, e \in Events :
                PublishOk(g, e) \/ PublishFails(g, e) \/ DecodeFails(g, e)
           \/ \E e \in Events : LeaseExpires(e) \/ BackoffElapses(e)
           \/ KafkaToggles \/ UNCHANGED vars
  <2>1. state' = state /\ recorded' = recorded /\ delivered \subseteq delivered'
    BY <1>5, ZenonT(60)
       DEF ClaimOutbox, ClaimLost, Lease, RetryOutbox, Crash, PublishOk, PublishFails,
           DecodeFails, LeaseExpires, BackoffElapses, KafkaToggles, rowVars, vars
  <2>2. QED
    BY <1>1, <2>1 DEF NoSilentLoss
<1>6. QED
  BY <1>1, <1>2, <1>3, <1>4, <1>5, SMTT(30) DEF Next, Dispatch

\* LossInv is inductive when every replica has brokers.
LEMMA LossInductive ==
  ASSUME Brokered = Gateways
  PROVE  Spec => []LossInv
<1>1. Init => LossInv
  BY InitBound DEF Init, LossInv, DeliveryInv, DoneDelivered,
     PublishedOnlyAfterDelivery, NoSilentLoss
<1>2. LossInv /\ [Next]_vars => LossInv'
  BY LossStep, DeliveryStep, TypeStep, ForeignKeyStep, ClaimsStep, SendsStep
     DEF LossInv, DeliveryInv, BoundInv
<1>3. QED
  BY <1>1, <1>2, PTL DEF Spec

\* A recorded event that Kafka does not have is still pending in the outbox.
THEOREM NoLoss ==
  ASSUME Brokered = Gateways
  PROVE  Spec => []NoSilentLoss
<1>1. LossInv => NoSilentLoss
  BY DEF LossInv
<1>2. QED
  BY <1>1, LossInductive, PTL

\* The outbox implements OutboxPromise: every step commits, delivers or
\* acknowledges what was delivered, or changes nothing the promise speaks of.
THEOREM Refinement ==
  ASSUME Brokered = Gateways
  PROVE  Spec => ImplementsPromise
<1> DEFINE comm == {e \in Events : state[e] # "none"}
           ack  == {e \in recorded : state[e] \in {"published", "deleted"}}
           exp  == {e \in Events \ recorded : state[e] # "none"}
<1>1. Init => Promise!Init
  BY SMTT(30) DEF Init, Promise!Init
<1>2. ASSUME LossInv, [Next]_vars PROVE [Promise!Next]_Promise!vars
  <2>1. /\ TypeOK /\ ForeignKey /\ ClaimsAccounted /\ DoneDelivered
        /\ PublishedOnlyAfterDelivery
    BY <1>2 DEF LossInv, DeliveryInv, BoundInv
  <2>2. ASSUME state' = state, recorded' = recorded, delivered' = delivered
        PROVE  [Promise!Next]_Promise!vars
    BY <2>2 DEF Promise!vars
  <2>3. ASSUME NEW g \in Gateways, NEW B \in SUBSET Events, StoreEvents(g, B)
        PROVE  [Promise!Next]_Promise!vars
    <3>1. comm' = comm \cup B /\ ack' = ack /\ exp' = exp /\ delivered' = delivered
      <4>1. \A e \in B : state[e] = "none"
        BY <2>1, <2>3, SMTT(30) DEF TypeOK, ForeignKey, Present, StoreEvents
      <4>2. QED
        BY <2>1, <2>3, <4>1, SMTT(30) DEF TypeOK, StoreEvents
    <3>2. Promise!Commit(B)
      BY <3>1 DEF Promise!Commit
    <3>3. QED
      BY <3>2, SMTT(30) DEF Promise!Next
  <2>4. ASSUME NEW g \in Gateways, NEW e \in Events,
               PublishOk(g, e) \/ PublishFails(g, e) \/ DecodeFails(g, e)
        PROVE  [Promise!Next]_Promise!vars
    <3>1. /\ state' = state /\ recorded' = recorded /\ e \in todo[g]
          /\ delivered' \in {delivered, delivered \cup {e}}
      BY <2>4, SMTT(30) DEF PublishOk, PublishFails, DecodeFails, rowVars
    <3>2. e \in comm /\ comm' = comm /\ ack' = ack /\ exp' = exp
      BY <2>1, <3>1 DEF ClaimsAccounted
    <3>3. CASE delivered' = delivered \cup {e}
      <4>1. Promise!Deliver(e)
        BY <3>2, <3>3, SMTT(30) DEF Promise!Deliver
      <4>2. QED
        BY <4>1, SMTT(30) DEF Promise!Next
    <3>4. QED
      BY <2>2, <3>1, <3>3, SMTT(30)
  <2>5. ASSUME NEW g \in Gateways, MarkOutboxPublished(g)
        PROVE  [Promise!Next]_Promise!vars
    <3>1. CASE state' = state
      BY <2>2, <2>5, <3>1, SMTT(30) DEF MarkOutboxPublished
    <3>2. CASE state' = [e \in Events |-> IF e \in done[g] /\ Present(e)
                                          THEN "published" ELSE state[e]]
      <4>0. PICK S : S = {e \in done[g] : Present(e)}
        BY ZenonT(60)
      <4>1. /\ S \subseteq Events /\ S \subseteq delivered
            /\ delivered' = delivered /\ recorded' = recorded
        BY <2>1, <2>5, <4>0, SMTT(30) DEF TypeOK, DoneDelivered, MarkOutboxPublished
      <4>2. comm' = comm /\ ack' = ack \cup S /\ exp' = exp
        BY <2>1, <3>2, <4>0, <4>1, SMTT(30) DEF TypeOK, ForeignKey, Present
      <4>3. Promise!Acknowledge(S)
        BY <4>1, <4>2 DEF Promise!Acknowledge
      <4>4. S \in SUBSET Events
        BY <4>1, SMTT(30)
      <4>5. QED
        BY <4>3, <4>4, SMTT(30) DEF Promise!Next
    <3>3. QED
      BY <2>5, <3>1, <3>2, SMTT(30) DEF MarkOutboxPublished
  <2>6. ASSUME NEW S \in SUBSET Events, DeletePublished(S)
        PROVE  [Promise!Next]_Promise!vars
    <3>1. comm' = comm /\ ack' = ack /\ exp' = exp /\ delivered' = delivered
      BY <2>1, <2>6 DEF TypeOK, ForeignKey, DeletePublished, Delete, Present
    <3>2. QED
      BY <3>1, SMTT(30) DEF Promise!vars
  <2>7. ASSUME NEW S \in SUBSET Events, DeleteAuditRecords(S)
        PROVE  [Promise!Next]_Promise!vars
    <3>1. PICK T : T = {e \in S : state[e] # "none"}
      BY Zenon
    <3>2. /\ state' = [e \in Events |-> IF e \in S /\ Present(e) THEN "deleted" ELSE state[e]]
          /\ recorded' = recorded \ S /\ S \subseteq recorded /\ delivered' = delivered
      BY <2>7, SMTT(30) DEF DeleteAuditRecords, Delete
    <3>3. comm' = comm /\ ack' = ack \ T /\ exp' = exp \cup T
      BY <2>1, <3>1, <3>2 DEF TypeOK, Present
    <3>4. T \in SUBSET Events /\ T \subseteq comm
      BY <3>1
    <3>5. Promise!Expire(T)
      BY <3>2, <3>3, <3>4 DEF Promise!Expire
    <3>6. QED
      BY <3>4, <3>5 DEF Promise!Next
  <2>8. CASE \/ \E g \in Gateways : ClaimOutbox(g) \/ ClaimLost(g) \/ RetryOutbox(g) \/ Crash(g)
             \/ \E e \in Events : LeaseExpires(e) \/ BackoffElapses(e)
             \/ KafkaToggles \/ UNCHANGED vars
    <3>1. state' = state /\ recorded' = recorded /\ delivered' = delivered
      BY <2>8, Zenon
         DEF ClaimOutbox, ClaimLost, Lease, RetryOutbox, Crash, LeaseExpires,
             BackoffElapses, KafkaToggles, rowVars, vars
    <3>2. QED
      BY <2>2, <3>1
  <2>9. QED
    BY <1>2, <2>3, <2>4, <2>5, <2>6, <2>7, <2>8 DEF Next, Dispatch
<1>3. QED
  BY <1>1, <1>2, LossInductive, PTL DEF Spec, ImplementsPromise, Promise!Spec
-----------------------------------------------------------------------------
(***************************************************************************)
(* Consumer: the committed offset never runs ahead of the destinations.  A *)
(* commit covers every message before it, also those of batches whose own  *)
(* commit failed, so the inductive invariant is about everything the       *)
(* process has passed since it started, not about the current batch.       *)
(***************************************************************************)
USE ConsumerAssumption DEF ConsumerAssumption

\* What has to be in the dead-letter topic, and in ClickHouse, up to an offset.
Dead(n) == \A i \in 1..n : i \in Invalid => i \in dlq
Valid(n) == \A i \in 1..n : i \notin Invalid => i \in rows \cup skipped

\* TypeOK without the Boolean variable.
ConsumerNum ==
  /\ appended \in 0..LogLen /\ committed \in 0..appended
  /\ stage \in {"down", "fetch", "collect", "insert", "wait", "dlq", "commit"}
  /\ first \in 1..LogLen + 1 /\ pos \in 0..appended /\ first <= pos + 1
  /\ Size <= BatchCap
  /\ attempt \in 0..MaxInsertAttempts
  /\ rows \subseteq 1..LogLen /\ dlq \subseteq 1..LogLen /\ skipped \subseteq 1..LogLen
  /\ crashes \in 0..MaxCrashes

\* Only the last message of a batch can be invalid; what lies before the
\* batch, and at "fetch" the batch too, has reached its destination.
BatchShape ==
  /\ stage \in {"insert", "wait"} => attempt < MaxInsertAttempts
  /\ stage \in {"collect", "insert", "wait", "dlq", "commit"} => first <= pos
  /\ stage \in {"collect", "insert", "wait", "dlq", "commit"} =>
       \A i \in first..(pos - 1) : i \notin Invalid
  /\ stage = "collect" => pos \notin Invalid
  /\ stage = "dlq" => pos \in Invalid

DeadInv ==
  /\ Dead(committed)
  /\ stage # "down" => Dead(first - 1)
  /\ stage = "fetch" => Dead(pos)
  /\ stage = "commit" /\ pos \in Invalid => pos \in dlq

RowsInv ==
  /\ Valid(committed)
  /\ stage # "down" => Valid(first - 1)
  /\ stage = "fetch" => Valid(pos)
  /\ stage \in {"dlq", "commit"} => \A i \in first..pos : i \notin Invalid => i \in rows \cup skipped

\* The inductive invariant.
ConsumerInv == ConsumerTypeOK /\ BatchShape /\ DeadInv
RInv == ConsumerInv /\ RowsInv
-----------------------------------------------------------------------------
\* A process that has not started has nothing committed.
LEMMA InitConsumerInv == ConsumerInit => ConsumerInv
<1> SUFFICES ASSUME ConsumerInit PROVE ConsumerInv
  OBVIOUS
<1>1. cancelled \in BOOLEAN
  BY Zenon DEF ConsumerInit
<1>2. ConsumerNum /\ BatchShape /\ DeadInv
  BY SMT DEF ConsumerAssumption, ConsumerInit, ConsumerNum, Size,
     BatchShape, DeadInv, Dead
<1> QED
  BY <1>1, <1>2, Zenon DEF ConsumerInv, ConsumerTypeOK, ConsumerNum

\* Only Start and Stop write the Boolean variable.
LEMMA CancelledStep == cancelled \in BOOLEAN /\ [ConsumerNext]_consumerVars => cancelled' \in BOOLEAN
<1> SUFFICES ASSUME cancelled \in BOOLEAN, [ConsumerNext]_consumerVars
             PROVE  cancelled' \in BOOLEAN
  OBVIOUS
<1>1. CASE Start
  BY <1>1, Zenon DEF Start
<1>2. CASE Stop
  BY <1>2, Zenon DEF Stop
<1>3. CASE ~Start /\ ~Stop
  <2>1. cancelled' = cancelled
    BY <1>3, Zenon DEF ConsumerNext, Run, consumerVars, Append,
       Fetch, FetchStops, Collect, InsertOk,
       InsertFails, Wait, DeadLetterOk,
       DeadLetterFails, CommitOk, CommitFails, Kill
  <2> QED
    BY <2>1, Zenon
<1> QED
  BY <1>1, <1>2, <1>3

\* The ranges and the shape of a batch are kept by every step.
LEMMA ConsumerTypeStep == ConsumerNum /\ BatchShape /\ [ConsumerNext]_consumerVars =>
           ConsumerNum' /\ BatchShape'
<1> SUFFICES ASSUME ConsumerNum, BatchShape, [ConsumerNext]_consumerVars
             PROVE  ConsumerNum' /\ BatchShape'
  BY SMTT(30)
<1> USE DEF ConsumerAssumption
<1>1. CASE UNCHANGED consumerVars
  BY <1>1, SMTT(30) DEF ConsumerNum, Size, BatchShape, consumerVars
<1>2. CASE Append
  BY <1>2, SMTT(30) DEF ConsumerNum, Size, BatchShape, Append
<1>3. CASE Start
  BY <1>3, SMTT(30) DEF ConsumerNum, Size, BatchShape, Start
<1>4. CASE Fetch
  BY <1>4, SMTT(30) DEF ConsumerNum, Size, BatchShape, Fetch
<1>5. CASE FetchStops
  BY <1>5, SMTT(30) DEF ConsumerNum, Size, BatchShape, FetchStops
<1>6. CASE Collect
  BY <1>6, SMTT(30) DEF ConsumerNum, Size, BatchShape, Collect
<1>7. CASE InsertOk
  BY <1>7, SMTT(30) DEF ConsumerNum, Size, BatchShape, InsertOk,
     AfterInsert, Batch
<1>8. CASE InsertFails
  BY <1>8, SMTT(30) DEF ConsumerNum, Size, BatchShape, InsertFails,
     AfterInsert, Batch
<1>9. CASE Wait
  BY <1>9, SMTT(30) DEF ConsumerNum, Size, BatchShape, Wait
<1>10. CASE DeadLetterOk
  BY <1>10, SMTT(30) DEF ConsumerNum, Size, BatchShape, DeadLetterOk
<1>11. CASE DeadLetterFails
  BY <1>11, SMTT(30) DEF ConsumerNum, Size, BatchShape, DeadLetterFails
<1>12. CASE CommitOk
  BY <1>12, SMTT(30) DEF ConsumerNum, Size, BatchShape, CommitOk
<1>13. CASE CommitFails
  BY <1>13, SMTT(30) DEF ConsumerNum, Size, BatchShape, CommitFails
<1>14. CASE Stop
  BY <1>14, SMTT(30) DEF ConsumerNum, Size, BatchShape, Stop
<1>15. CASE Kill
  BY <1>15, SMTT(30) DEF ConsumerNum, Size, BatchShape, Kill
<1> QED
  BY <1>1, <1>2, <1>3, <1>4, <1>5, <1>6, <1>7, <1>8,
     <1>9, <1>10, <1>11, <1>12, <1>13, <1>14, <1>15, SMTT(30) DEF ConsumerNext, Run

\* A batch is passed only after its dead letter was written; a commit covers
\* what was passed.
LEMMA DeadStep == ConsumerNum /\ BatchShape /\ DeadInv /\ [ConsumerNext]_consumerVars => DeadInv'
<1> SUFFICES ASSUME ConsumerNum, BatchShape, DeadInv, [ConsumerNext]_consumerVars
             PROVE  DeadInv'
  BY SMTT(30)
<1> USE DEF ConsumerAssumption
<1>1. CASE UNCHANGED consumerVars
  BY <1>1, SMTT(30) DEF ConsumerNum, BatchShape, DeadInv, Dead, consumerVars
<1>2. CASE Append
  BY <1>2, SMTT(30) DEF ConsumerNum, BatchShape, DeadInv, Dead, Append
<1>3. CASE Start
  BY <1>3, SMTT(30) DEF ConsumerNum, BatchShape, DeadInv, Dead, Start
<1>4. CASE Fetch
  BY <1>4, SMTT(30) DEF ConsumerNum, BatchShape, DeadInv, Dead, Fetch
<1>5. CASE FetchStops
  BY <1>5, SMTT(30) DEF ConsumerNum, BatchShape, DeadInv, Dead, FetchStops
<1>6. CASE Collect
  BY <1>6, SMTT(30) DEF ConsumerNum, BatchShape, DeadInv, Dead, Collect
<1>7. CASE InsertOk
  BY <1>7, SMTT(30) DEF ConsumerNum, BatchShape, DeadInv, Dead, InsertOk,
     AfterInsert, Batch
<1>8. CASE InsertFails
  BY <1>8, SMTT(30) DEF ConsumerNum, BatchShape, DeadInv, Dead, InsertFails,
     AfterInsert, Batch
<1>9. CASE Wait
  BY <1>9, SMTT(30) DEF ConsumerNum, BatchShape, DeadInv, Dead, Wait
<1>10. CASE DeadLetterOk
  BY <1>10, SMTT(30) DEF ConsumerNum, BatchShape, DeadInv, Dead, DeadLetterOk
<1>11. CASE DeadLetterFails
  BY <1>11, SMTT(30) DEF ConsumerNum, BatchShape, DeadInv, Dead, DeadLetterFails
<1>12. CASE CommitOk
  BY <1>12, SMTT(30) DEF ConsumerNum, BatchShape, DeadInv, Dead, CommitOk
<1>13. CASE CommitFails
  BY <1>13, SMTT(30) DEF ConsumerNum, BatchShape, DeadInv, Dead, CommitFails
<1>14. CASE Stop
  BY <1>14, SMTT(30) DEF ConsumerNum, BatchShape, DeadInv, Dead, Stop
<1>15. CASE Kill
  BY <1>15, SMTT(30) DEF ConsumerNum, BatchShape, DeadInv, Dead, Kill
<1> QED
  BY <1>1, <1>2, <1>3, <1>4, <1>5, <1>6, <1>7, <1>8,
     <1>9, <1>10, <1>11, <1>12, <1>13, <1>14, <1>15, SMTT(30) DEF ConsumerNext, Run

\* A batch is passed only after ClickHouse took its events, or on SIGTERM.
LEMMA RowsStep == ConsumerNum /\ BatchShape /\ RowsInv /\ [ConsumerNext]_consumerVars => RowsInv'
<1> SUFFICES ASSUME ConsumerNum, BatchShape, RowsInv, [ConsumerNext]_consumerVars
             PROVE  RowsInv'
  OBVIOUS
<1> USE DEF ConsumerAssumption
<1>1. CASE UNCHANGED consumerVars
  BY <1>1, SMTT(30) DEF ConsumerNum, BatchShape, RowsInv, Valid, consumerVars
<1>2. CASE Append
  BY <1>2, SMTT(30) DEF ConsumerNum, BatchShape, RowsInv, Valid, Append
<1>3. CASE Start
  BY <1>3, SMTT(30) DEF ConsumerNum, BatchShape, RowsInv, Valid, Start
<1>4. CASE Fetch
  BY <1>4, SMTT(30) DEF ConsumerNum, BatchShape, RowsInv, Valid, Fetch
<1>5. CASE FetchStops
  BY <1>5, SMTT(30) DEF ConsumerNum, BatchShape, RowsInv, Valid, FetchStops
<1>6. CASE Collect
  BY <1>6, SMTT(30) DEF ConsumerNum, BatchShape, RowsInv, Valid, Collect
<1>7. CASE InsertOk
  BY <1>7, SMTT(30) DEF ConsumerNum, BatchShape, RowsInv, Valid, InsertOk,
     AfterInsert, Batch
<1>8. CASE InsertFails
  BY <1>8, SMTT(30) DEF ConsumerNum, BatchShape, RowsInv, Valid, InsertFails,
     AfterInsert, Batch
<1>9. CASE Wait
  BY <1>9, SMTT(30) DEF ConsumerNum, BatchShape, RowsInv, Valid, Wait
<1>10. CASE DeadLetterOk
  BY <1>10, SMTT(30) DEF ConsumerNum, BatchShape, RowsInv, Valid, DeadLetterOk
<1>11. CASE DeadLetterFails
  BY <1>11, SMTT(30) DEF ConsumerNum, BatchShape, RowsInv, Valid, DeadLetterFails
<1>12. CASE CommitOk
  BY <1>12, SMTT(30) DEF ConsumerNum, BatchShape, RowsInv, Valid, CommitOk
<1>13. CASE CommitFails
  BY <1>13, SMTT(30) DEF ConsumerNum, BatchShape, RowsInv, Valid, CommitFails
<1>14. CASE Stop
  BY <1>14, SMTT(30) DEF ConsumerNum, BatchShape, RowsInv, Valid, Stop
<1>15. CASE Kill
  BY <1>15, SMT DEF ConsumerNum, BatchShape, RowsInv, Valid, Kill
<1> QED
  BY <1>1, <1>2, <1>3, <1>4, <1>5, <1>6, <1>7, <1>8,
     <1>9, <1>10, <1>11, <1>12, <1>13, <1>14, <1>15 DEF ConsumerNext, Run

\* The three parts together.
LEMMA ConsumerStep == ConsumerInv /\ [ConsumerNext]_consumerVars => ConsumerInv'
<1> SUFFICES ASSUME ConsumerInv, [ConsumerNext]_consumerVars PROVE ConsumerInv'
  OBVIOUS
<1>1. ConsumerNum /\ BatchShape /\ DeadInv /\ cancelled \in BOOLEAN
  BY Zenon DEF ConsumerInv, ConsumerTypeOK, ConsumerNum
<1>2. ConsumerNum' /\ BatchShape'
  BY <1>1, ConsumerTypeStep
<1>3. DeadInv'
  BY <1>1, DeadStep, SMTT(30)
<1>4. cancelled' \in BOOLEAN
  BY <1>1, CancelledStep
<1> QED
  BY <1>2, <1>3, <1>4, Zenon DEF ConsumerInv, ConsumerTypeOK, ConsumerNum

\* IInv is an invariant of the consumer.
LEMMA ConsumerInvariance == ConsumerSpec => []ConsumerInv
  BY InitConsumerInv, ConsumerStep, PTL DEF ConsumerSpec
-----------------------------------------------------------------------------
\* The consumer keeps its types, for every log, batch size and number of
\* attempts: the batch never exceeds its cap, the reader never overtakes the
\* log, and the commit never overtakes the reader.
THEOREM ConsumerTypeCorrect == ConsumerSpec => []ConsumerTypeOK
<1>1. ConsumerInv => ConsumerTypeOK
  BY DEF ConsumerInv
<1> QED
  BY <1>1, ConsumerInvariance, PTL

\* Run never commits past an invalid message that is not in the dead-letter
\* topic, whatever fails and whenever the process is stopped or killed.
THEOREM DeadLettersFirst == ConsumerSpec => []DeadLettersBeforeCommit
<1>1. ConsumerInv => DeadLettersBeforeCommit
  BY Zenon DEF ConsumerInv, DeadInv, Dead, DeadLettersBeforeCommit
<1> QED
  BY <1>1, ConsumerInvariance, PTL

\* Run commits only what ClickHouse or the dead-letter topic has, or what it
\* gave up on SIGTERM, whatever inserts, commits and processes fail.
THEOREM OffsetsFollowDestinations == ConsumerSpec => []LostOnlyBySignal
<1>1. ConsumerInit => RInv
  <2>1. ConsumerInit => RowsInv
    BY SMT DEF ConsumerAssumption, ConsumerInit, RowsInv, Valid
  <2> QED
    BY <2>1, InitConsumerInv, SMTT(30) DEF RInv
<1>2. RInv /\ [ConsumerNext]_consumerVars => RInv'
  <2> SUFFICES ASSUME RInv, [ConsumerNext]_consumerVars PROVE RInv'
    OBVIOUS
  <2>1. ConsumerNum /\ BatchShape /\ RowsInv
    BY Zenon DEF RInv, ConsumerInv, ConsumerTypeOK, ConsumerNum
  <2>2. RowsInv'
    BY <2>1, RowsStep, SMTT(30)
  <2>3. ConsumerInv'
    BY ConsumerStep DEF RInv
  <2> QED
    BY <2>2, <2>3 DEF RInv
<1>3. RInv => LostOnlyBySignal
  BY Zenon DEF RInv, ConsumerInv, DeadInv, RowsInv, Dead, Valid,
     LostOnlyBySignal, Handled
<1> QED
  BY <1>1, <1>2, <1>3, PTL DEF ConsumerSpec
=============================================================================
