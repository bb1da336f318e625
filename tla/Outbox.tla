------------------------------- MODULE Outbox -------------------------------
(***************************************************************************)
(* The transactional outbox: Repository.StoreEvents writes audit_records   *)
(* and audit_outbox rows, one events.Dispatcher per gateway replica claims *)
(* rows under a lease, publishes them to Kafka and marks them, and the     *)
(* retention sweeper deletes.  Each SQL statement and each Publish is a    *)
(* step; replicas, crashes, lease expiry and Kafka outages interleave.     *)
(*                                                                         *)
(* Time is abstracted: a lease or a back-off is set by the code and ends   *)
(* at any later moment (LeaseExpires, BackoffElapses).  created_at is the  *)
(* number of the inserting transaction: rows of one batch share it.        *)
(***************************************************************************)
EXTENDS Integers, FiniteSets, FiniteSetsExt

CONSTANTS Events,
          Gateways,       \* gateway replicas, each with one dispatcher
          Brokered,       \* replicas started with KAFKA_BROKERS
          Corrupt,        \* events whose stored payload does not decode
          MaxAttempts,    \* storage.MaxOutboxAttempts, 12 in the code
          ClaimSize,      \* OUTBOX_CLAIM_SIZE
          AuditRetention, \* AUDIT_RECORDS_RETENTION_DAYS > 0
          MaxFaults,      \* bound: crashes and lost claim replies
          NoEvent

ASSUME OutboxAssumption ==
  /\ Brokered \subseteq Gateways
  /\ Corrupt \subseteq Events
  /\ MaxAttempts \in Nat
  /\ ClaimSize \in Nat \ {0}
  /\ AuditRetention \in BOOLEAN
  /\ MaxFaults \in Nat
  /\ NoEvent \notin Events
  /\ IsFiniteSet(Gateways)

VARIABLES recorded,   \* events with an audit_records row
          state,      \* outbox row: "none", "pending", "published", "deleted"
          created,    \* created_at of the row, as a transaction number
          attempts,   \* attempts of the row (kept when the row is deleted)
          leased,     \* rows with lease_until in the future
          delayed,    \* rows with available_at in the future
          clock,      \* StoreEvents transactions so far
          pc,         \* where each replica is inside dispatch
          todo,       \* claimed records the loop has not reached
          failed,     \* the record whose Publish has just failed
          done,       \* dispatch's local "published"
          sends,      \* history: number of Publish calls for an event
          delivered,  \* events that Kafka holds
          kafkaUp,    \* the brokers answer
          faults

rowVars == <<recorded, state, created, attempts, leased, delayed, clock>>
dispatcherVars == <<pc, todo, failed, done>>
vars == <<rowVars, dispatcherVars, sends, delivered, kafkaUp, faults>>

Init ==
  /\ recorded = {}
  /\ state = [e \in Events |-> "none"]
  /\ created = [e \in Events |-> 0]
  /\ attempts = [e \in Events |-> 0]
  /\ leased = {}
  /\ delayed = {}
  /\ clock = 0
  /\ pc = [g \in Gateways |-> "idle"]
  /\ todo = [g \in Gateways |-> {}]
  /\ failed = [g \in Gateways |-> NoEvent]
  /\ done = [g \in Gateways |-> {}]
  /\ sends = [e \in Events |-> 0]
  /\ delivered = {}
  /\ kafkaUp = TRUE
  /\ faults = 0

Present(e) == state[e] \in {"pending", "published"}
-----------------------------------------------------------------------------
\* StoreEvents, committed: all rows of the batch or none.  A replica without
\* brokers writes audit records only (outboxEnabled).  A repeated batch after
\* an unclear commit meets ON CONFLICT DO NOTHING and changes nothing.
StoreEvents(g, B) ==
  /\ B # {} /\ B \cap recorded = {} /\ \A e \in B : state[e] # "deleted"
  /\ recorded' = recorded \cup B
  /\ IF g \in Brokered
       THEN /\ state' = [e \in Events |-> IF e \in B THEN "pending" ELSE state[e]]
            /\ created' = [e \in Events |-> IF e \in B THEN clock ELSE created[e]]
       ELSE UNCHANGED <<state, created>>
  /\ clock' = clock + 1
  /\ UNCHANGED <<attempts, leased, delayed, dispatcherVars, sends, delivered,
                 kafkaUp, faults>>
-----------------------------------------------------------------------------
(* Dispatcher.dispatch. *)

Claimable ==
  {e \in Events : /\ state[e] = "pending"
                  /\ attempts[e] < MaxAttempts
                  /\ e \notin delayed
                  /\ e \notin leased}

\* ORDER BY created_at LIMIT ClaimSize.
Oldest(S) ==
  /\ S # {} /\ S \subseteq Claimable
  /\ Cardinality(S) = Min({ClaimSize, Cardinality(Claimable)})
  /\ \A e \in S, f \in Claimable \ S : created[e] <= created[f]

\* Mutant: the claim leases the rows without counting an attempt.
LeaseUncounted(S) ==
  /\ leased' = leased \cup S
  /\ UNCHANGED <<recorded, state, created, attempts, delayed, clock>>

\* The UPDATE of ClaimOutbox: SET lease_until, attempts = attempts + 1.
Lease(S) ==
  /\ attempts' = [e \in Events |-> attempts[e] + (IF e \in S THEN 1 ELSE 0)]
  /\ leased' = leased \cup S
  /\ UNCHANGED <<recorded, state, created, delayed, clock>>

ClaimOutbox(g) ==
  /\ pc[g] = "idle"
  /\ \E S \in SUBSET Claimable :
       /\ Oldest(S)
       /\ Lease(S)
       /\ todo' = [todo EXCEPT ![g] = S]
  /\ pc' = [pc EXCEPT ![g] = "loop"]
  /\ UNCHANGED <<failed, done, sends, delivered, kafkaUp, faults>>

\* The claim takes effect but its reply is lost to the 3 s timeout: dispatch
\* returns, the attempt is spent.
ClaimLost(g) ==
  /\ pc[g] = "idle" /\ faults < MaxFaults
  /\ \E S \in SUBSET Claimable : Oldest(S) /\ Lease(S)
  /\ faults' = faults + 1
  /\ UNCHANGED <<dispatcherVars, sends, delivered, kafkaUp>>

\* Publish returns nil: the brokers acknowledged - or the replica has none,
\* where Publish is called on a nil *KafkaPublisher.
PublishOk(g, e) ==
  /\ pc[g] = "loop" /\ e \in todo[g] /\ e \notin Corrupt
  /\ IF g \in Brokered
       THEN kafkaUp /\ delivered' = delivered \cup {e}
       ELSE delivered' = delivered
  /\ sends' = [sends EXCEPT ![e] = @ + 1]
  /\ todo' = [todo EXCEPT ![g] = @ \ {e}]
  /\ done' = [done EXCEPT ![g] = @ \cup {e}]
  /\ UNCHANGED <<rowVars, pc, failed, kafkaUp, faults>>

\* Mutant: the error of Publish is not looked at.
PublishFailsUnnoticed(g, e) ==
  /\ pc[g] = "loop" /\ e \in todo[g] /\ e \notin Corrupt
  /\ g \in Brokered /\ ~kafkaUp
  /\ delivered' = delivered
  /\ sends' = [sends EXCEPT ![e] = @ + 1]
  /\ todo' = [todo EXCEPT ![g] = @ \ {e}]
  /\ done' = [done EXCEPT ![g] = @ \cup {e}]
  /\ UNCHANGED <<rowVars, pc, failed, kafkaUp, faults>>

\* Publish returns an error; the message may have reached Kafka all the same.
PublishFails(g, e) ==
  /\ pc[g] = "loop" /\ e \in todo[g] /\ e \notin Corrupt
  /\ g \in Brokered /\ ~kafkaUp
  /\ delivered' \in {delivered, delivered \cup {e}}
  /\ sends' = [sends EXCEPT ![e] = @ + 1]
  /\ todo' = [todo EXCEPT ![g] = @ \ {e}]
  /\ failed' = [failed EXCEPT ![g] = e]
  /\ pc' = [pc EXCEPT ![g] = "retry"]
  /\ UNCHANGED <<rowVars, done, kafkaUp, faults>>

\* Mutant: a payload that does not decode ends the loop over the claim.
DecodeFailsStops(g, e) ==
  /\ pc[g] = "loop" /\ e \in todo[g] /\ e \in Corrupt
  /\ todo' = [todo EXCEPT ![g] = {}]
  /\ failed' = [failed EXCEPT ![g] = e]
  /\ pc' = [pc EXCEPT ![g] = "retry"]
  /\ UNCHANGED <<rowVars, done, sends, delivered, kafkaUp, faults>>

\* json.Unmarshal fails: the retry path without a Publish.
DecodeFails(g, e) ==
  /\ pc[g] = "loop" /\ e \in todo[g] /\ e \in Corrupt
  /\ todo' = [todo EXCEPT ![g] = @ \ {e}]
  /\ failed' = [failed EXCEPT ![g] = e]
  /\ pc' = [pc EXCEPT ![g] = "retry"]
  /\ UNCHANGED <<rowVars, done, sends, delivered, kafkaUp, faults>>

\* Mutant: RetryOutbox gives the attempt back with the lease.
RetryRefunds(g) ==
  /\ pc[g] = "retry"
  /\ IF Present(failed[g])
       THEN /\ leased' = leased \ {failed[g]}
            /\ delayed' = delayed \cup {failed[g]}
            /\ attempts' = [attempts EXCEPT ![failed[g]] = @ - 1]
       ELSE UNCHANGED <<leased, delayed, attempts>>
  /\ failed' = [failed EXCEPT ![g] = NoEvent]
  /\ pc' = [pc EXCEPT ![g] = "loop"]
  /\ UNCHANGED <<recorded, state, created, clock, todo, done, sends,
                 delivered, kafkaUp, faults>>

\* RetryOutbox: give the lease back and delay the row, whatever its state is by
\* now; the statement's own error is ignored and the lease then runs out.
RetryOutbox(g) ==
  /\ pc[g] = "retry"
  /\ \/ /\ Present(failed[g])
        /\ leased' = leased \ {failed[g]}
        /\ delayed' = delayed \cup {failed[g]}
     \/ UNCHANGED <<leased, delayed>>
  /\ failed' = [failed EXCEPT ![g] = NoEvent]
  /\ pc' = [pc EXCEPT ![g] = "loop"]
  /\ UNCHANGED <<recorded, state, created, attempts, clock, todo, done, sends,
                 delivered, kafkaUp, faults>>

\* MarkOutboxPublished at the end of the loop; its error is only logged.
MarkOutboxPublished(g) ==
  /\ pc[g] = "loop" /\ todo[g] = {}
  /\ \/ /\ state' = [e \in Events |-> IF e \in done[g] /\ Present(e)
                                        THEN "published" ELSE state[e]]
        /\ leased' = leased \ done[g]
     \/ UNCHANGED <<state, leased>>
  /\ done' = [done EXCEPT ![g] = {}]
  /\ pc' = [pc EXCEPT ![g] = "idle"]
  /\ UNCHANGED <<recorded, created, attempts, delayed, clock, todo, failed,
                 sends, delivered, kafkaUp, faults>>

\* The replica dies, or shuts down and finds its context cancelled in every
\* later call of the loop.
Crash(g) ==
  /\ pc[g] # "idle" /\ faults < MaxFaults
  /\ pc' = [pc EXCEPT ![g] = "idle"]
  /\ todo' = [todo EXCEPT ![g] = {}]
  /\ failed' = [failed EXCEPT ![g] = NoEvent]
  /\ done' = [done EXCEPT ![g] = {}]
  /\ faults' = faults + 1
  /\ UNCHANGED <<rowVars, sends, delivered, kafkaUp>>
-----------------------------------------------------------------------------
(* Time, Kafka and retention. *)

LeaseExpires(e) ==
  /\ e \in leased
  /\ leased' = leased \ {e}
  /\ UNCHANGED <<recorded, state, created, attempts, delayed, clock,
                 dispatcherVars, sends, delivered, kafkaUp, faults>>

BackoffElapses(e) ==
  /\ e \in delayed
  /\ delayed' = delayed \ {e}
  /\ UNCHANGED <<recorded, state, created, attempts, leased, clock,
                 dispatcherVars, sends, delivered, kafkaUp, faults>>

KafkaToggles ==
  /\ kafkaUp' = ~kafkaUp
  /\ UNCHANGED <<rowVars, dispatcherVars, sends, delivered, faults>>

\* Rows that leave the outbox, their audit record with them or not.
Delete(S) ==
  /\ state' = [e \in Events |-> IF e \in S /\ Present(e) THEN "deleted" ELSE state[e]]
  /\ leased' = leased \ S
  /\ delayed' = delayed \ S
  /\ UNCHANGED <<created, attempts, clock, dispatcherVars, sends, delivered,
                 kafkaUp, faults>>

\* CleanupExpired, first loop: the foreign key of audit_outbox says ON DELETE
\* CASCADE, so the outbox rows go whether they were published or not.
DeleteAuditRecords(S) ==
  /\ AuditRetention /\ S # {} /\ S \subseteq recorded
  /\ recorded' = recorded \ S
  /\ Delete(S)

\* CleanupExpired, second loop: published rows only.
DeletePublished(S) ==
  /\ S # {} /\ \A e \in S : state[e] = "published"
  /\ recorded' = recorded
  /\ Delete(S)
-----------------------------------------------------------------------------
Dispatch(g) ==
  \/ ClaimOutbox(g)
  \/ \E e \in Events : PublishOk(g, e) \/ PublishFails(g, e) \/ DecodeFails(g, e)
  \/ RetryOutbox(g)
  \/ MarkOutboxPublished(g)

Next ==
  \/ \E g \in Gateways : Dispatch(g) \/ ClaimLost(g) \/ Crash(g)
  \/ \E g \in Gateways, B \in SUBSET Events : StoreEvents(g, B)
  \/ \E e \in Events : LeaseExpires(e) \/ BackoffElapses(e)
  \/ KafkaToggles
  \/ \E S \in SUBSET Events : DeleteAuditRecords(S) \/ DeletePublished(S)

Spec == Init /\ [][Next]_vars

\* The dispatcher's ticker keeps calling dispatch, whose calls all return
\* (each has a timeout), and leases and back-offs are finite.
Fairness ==
  /\ \A g \in Gateways : WF_vars(Dispatch(g))
  /\ \A e \in Events : WF_vars(LeaseExpires(e)) /\ WF_vars(BackoffElapses(e))

FairSpec == Spec /\ Fairness
-----------------------------------------------------------------------------
\* Every variable of the outbox stays within its type; in particular no row is
\* claimed more than MaxAttempts times.
TypeOK ==
  /\ recorded \subseteq Events
  /\ state \in [Events -> {"none", "pending", "published", "deleted"}]
  /\ created \in [Events -> Nat]
  /\ attempts \in [Events -> 0..MaxAttempts]
  /\ leased \subseteq Events
  /\ delayed \subseteq Events
  /\ clock \in Nat
  /\ pc \in [Gateways -> {"idle", "loop", "retry"}]
  /\ todo \in [Gateways -> SUBSET Events]
  /\ failed \in [Gateways -> Events \cup {NoEvent}]
  /\ done \in [Gateways -> SUBSET Events]
  /\ sends \in [Events -> Nat]
  /\ delivered \subseteq Events
  /\ kafkaUp \in BOOLEAN
  /\ faults \in 0..MaxFaults

Claimants(e) == {g \in Gateways : e \in todo[g]}

\* Each Publish is paid for by a claim of its own: however leases expire under
\* a running dispatch, replies get lost and replicas crash, an event is sent at
\* most as often as its row was claimed, and so at most MaxAttempts times.
SendsPaidByClaims ==
  \A e \in Events : sends[e] + Cardinality(Claimants(e)) <= attempts[e]

\* A row is marked published only after Kafka took the event, also when the
\* dispatcher that marks it has lost its lease to another replica
\* (TestDispatcherMarksPublishedOnlyAfterDelivery).
PublishedOnlyAfterDelivery ==
  \A e \in Events : state[e] = "published" => e \in delivered

\* Until Kafka has the event or retention has removed its audit record, its row
\* is in the outbox, pending: a recorded event is not lost by retries, stale
\* dispatchers or the cleanup of "published outbox rows" (retention.go:8).
NoSilentLoss ==
  \A e \in recorded : state[e] # "none" /\ e \notin delivered => state[e] = "pending"

\* A published row is final: neither a late RetryOutbox of a replica that lost
\* its lease nor a new claim touches it again, it can only be deleted.
PublishedFinal ==
  [][\A e \in Events : state[e] = "published" =>
       state'[e] \in {"published", "deleted"} /\ attempts'[e] = attempts[e]]_vars

Poison(e) == state[e] = "pending" /\ attempts[e] = MaxAttempts

\* Delivery comes to an end for every row: it is published, deleted, or visible
\* as poison, and never retried for ever.
PublishedOrPoison ==
  \A e \in Events :
    state[e] = "pending" ~> (state[e] \in {"published", "deleted"} \/ Poison(e))

\* While Kafka works, every event that decodes is delivered although rows that
\* do not decode are ahead of it and up to MaxFaults claims are wasted: "they
\* stay visible through OutboxPoison for alerting instead of blocking the
\* dispatch queue forever" (postgres.go:526).
DeliveredWhileKafkaUp ==
  []kafkaUp =>
    \A e \in Events \ Corrupt :
      state[e] = "pending" ~> (e \in delivered \/ state[e] = "deleted")

\* The dispatcher and the sweeper keep the promise of OutboxPromise: commit,
\* then delivery, then acknowledgement, unless the audit record expires.  A row
\* that left the outbox before its audit record counts as acknowledged.
Promise == INSTANCE OutboxPromise
  WITH committed    <- {e \in Events : state[e] # "none"},
       acknowledged <- {e \in recorded : state[e] \in {"published", "deleted"}},
       expired      <- {e \in Events \ recorded : state[e] # "none"}

ImplementsPromise == Promise!Spec
=============================================================================
