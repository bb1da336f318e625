----------------------------- MODULE AuditQueue -----------------------------
(***************************************************************************)
(* events.Pipeline: the bounded in-memory queue between the request path   *)
(* and PostgreSQL, its single worker goroutine, and the "audit_queue"      *)
(* component of health.Manager that the queue reports to.                  *)
(*                                                                         *)
(* Request goroutines call Enqueue, the worker batches and stores, a       *)
(* ticker probes, main closes.  Every channel operation, mutex section and *)
(* database call is a step of its own, so the steps of all of them         *)
(* interleave.                                                             *)
(*                                                                         *)
(* Data is abstracted: an event is its identity; last_error is a flag; an  *)
(* event may reference a policy or gateway-key row (audit_records carries  *)
(* two foreign keys) and `dangling' holds the events whose row is gone.    *)
(***************************************************************************)
EXTENDS Integers, Sequences, FiniteSets, Functions

CONSTANTS Events,       \* identities of the audit events offered to the queue
          Producers,    \* request goroutines that call Enqueue
          Capacity,     \* size of p.ch and p.slots (EVENT_QUEUE_SIZE)
          BatchCap,     \* cap(batch), 100 in the code
          Referencing,  \* events that carry a policy_id or api_key_id
          NoEvent       \* a producer outside Enqueue

ASSUME QueueAssumption ==
  /\ Capacity \in Nat \ {0}
  /\ BatchCap \in Nat \ {0}
  /\ Referencing \subseteq Events
  /\ NoEvent \notin Events
  /\ IsFiniteSet(Producers)
  /\ IsFiniteSet(Events)

VARIABLES slots,       \* number of tokens in p.slots
          ch,          \* p.ch
          closing,     \* p.closing
          chClosed,    \* close(p.ch) has run
          saturated,   \* p.saturated
          lastErr,     \* p.lastErr # ""
          ppc,         \* where each producer is inside Enqueue
          pev,         \* the event each producer offers
          wpc,         \* where the worker is inside run and storeOnce
          batch,       \* the worker's batch; while tokens are returned, the
                       \* part of it whose token is still out
          final,       \* the worker returns after this storeOnce
          flushArmed,  \* flushTimer has been reset and has not fired
          panicked,    \* a send on the closed channel has killed the process
          stored,      \* events with a committed audit_records row
          dangling,    \* events whose referenced row has been deleted
          sampled,     \* what the running probe has read, "none" between probes
          queueState,  \* health.Manager.states["audit_queue"].Status
          acceptedSeq, \* history: events for which Enqueue sent, in order
          rejected,    \* history: events for which Enqueue returned false
          everFailed   \* history: some storeOnce returned an error

queueVars  == <<slots, ch, closing, chClosed, saturated, lastErr>>
workerVars == <<wpc, batch, final, flushArmed>>
healthVars == <<sampled, queueState>>
vars == <<queueVars, ppc, pev, workerVars, panicked, stored, dangling,
          healthVars, acceptedSeq, rejected, everFailed>>

accepted == Range(acceptedSeq)
offered  == accepted \cup rejected \cup Range(pev)

\* Pipeline.Ready: neither saturated (flag set, or no token left) nor failing.
Ready == ~saturated /\ slots # 0 /\ ~lastErr

WorkerPcs == {"recv", "drain", "store", "ok", "err", "notify", "wait",
              "release", "done"}
-----------------------------------------------------------------------------
Init ==
  /\ slots = Capacity
  /\ ch = <<>>
  /\ closing = FALSE
  /\ chClosed = FALSE
  /\ saturated = FALSE
  /\ lastErr = FALSE
  /\ ppc = [p \in Producers |-> "idle"]
  /\ pev = [p \in Producers |-> NoEvent]
  /\ wpc = "recv"
  /\ batch = <<>>
  /\ final = FALSE
  /\ flushArmed = TRUE
  /\ panicked = FALSE
  /\ stored = {}
  /\ dangling = {}
  /\ sampled = "none"
  /\ queueState = "unknown"
  /\ acceptedSeq = <<>>
  /\ rejected = {}
  /\ everFailed = FALSE
-----------------------------------------------------------------------------
\* A goroutine is at a point of its code, in a process that is still alive.
ProducerAt(p, l) == ~panicked /\ ppc[p] = l
WorkerAt(l)      == ~panicked /\ wpc = l

(* Enqueue, one step per channel operation or mutex section. *)

\* Line 135: take a token, or find none.
EnqueueToken(p, e) ==
  /\ ProducerAt(p, "idle")
  /\ e \notin offered
  /\ pev' = [pev EXCEPT ![p] = e]
  /\ IF slots > 0
       THEN slots' = slots - 1 /\ ppc' = [ppc EXCEPT ![p] = "token"]
       ELSE slots' = slots     /\ ppc' = [ppc EXCEPT ![p] = "full"]
  /\ UNCHANGED <<ch, closing, chClosed, saturated, lastErr, workerVars,
                 panicked, stored, dangling, healthVars, acceptedSeq,
                 rejected, everFailed>>

\* Lines 136-143: the non-blocking send.  A send on the closed channel panics
\* and the process dies; a full channel gives the token back.
EnqueueSend(p) ==
  /\ ProducerAt(p, "token")
  /\ IF chClosed
       THEN /\ panicked' = TRUE
            /\ UNCHANGED <<slots, ch, ppc, pev, acceptedSeq>>
       ELSE /\ panicked' = panicked
            /\ IF Len(ch) < Capacity
                 THEN /\ ch' = Append(ch, pev[p])
                      /\ acceptedSeq' = Append(acceptedSeq, pev[p])
                      /\ ppc' = [ppc EXCEPT ![p] = "idle"]
                      /\ pev' = [pev EXCEPT ![p] = NoEvent]
                      /\ slots' = slots
                 ELSE /\ slots' = slots + 1
                      /\ ppc' = [ppc EXCEPT ![p] = "full"]
                      /\ UNCHANGED <<ch, pev, acceptedSeq>>
  /\ UNCHANGED <<closing, chClosed, saturated, lastErr, workerVars, stored,
                 dangling, healthVars, rejected, everFailed>>

\* Lines 146-149: the mutex section of the failure path.
EnqueueSaturate(p) ==
  /\ ProducerAt(p, "full")
  /\ saturated' = TRUE
  /\ ppc' = [ppc EXCEPT ![p] = "notify"]
  /\ UNCHANGED <<slots, ch, closing, chClosed, lastErr, pev, workerVars,
                 panicked, stored, dangling, healthVars, acceptedSeq,
                 rejected, everFailed>>

\* Lines 153-156: the OnFailure callback is SetRequiredFailure("audit_queue"),
\* whatever Status says by then; Enqueue returns false.
EnqueueReject(p) ==
  /\ ProducerAt(p, "notify")
  /\ queueState' = "error"
  /\ rejected' = rejected \cup {pev[p]}
  /\ ppc' = [ppc EXCEPT ![p] = "idle"]
  /\ pev' = [pev EXCEPT ![p] = NoEvent]
  /\ UNCHANGED <<queueVars, workerVars, panicked, stored, dangling, sampled,
                 acceptedSeq, everFailed>>
-----------------------------------------------------------------------------
(* run and storeOnce. *)

\* Lines 183-189: block for the first event of a batch; a closed and empty
\* channel ends the worker.
Receive ==
  /\ WorkerAt("recv")
  /\ \/ /\ ch # <<>>
        /\ batch' = <<Head(ch)>>
        /\ ch' = Tail(ch)
        /\ wpc' = "drain"
     \/ /\ ch = <<>> /\ chClosed
        /\ wpc' = "done"
        /\ UNCHANGED <<batch, ch>>
  /\ UNCHANGED <<slots, closing, chClosed, saturated, lastErr, ppc, pev, final,
                 flushArmed, panicked, stored, dangling, healthVars,
                 acceptedSeq, rejected, everFailed>>

\* Lines 190-209: fill the batch without blocking.  Finding the channel closed
\* makes the next storeOnce the last; otherwise flushTimer is reset.
Drain ==
  /\ WorkerAt("drain")
  /\ IF Len(batch) < BatchCap /\ ch # <<>>
       THEN /\ batch' = Append(batch, Head(ch))
            /\ ch' = Tail(ch)
            /\ UNCHANGED <<wpc, final, flushArmed>>
       ELSE /\ wpc' = "store"
            /\ final' = (Len(batch) < BatchCap /\ chClosed)
            /\ flushArmed' = (flushArmed \/ ~final')
            /\ UNCHANGED <<batch, ch>>
  /\ UNCHANGED <<slots, closing, chClosed, saturated, lastErr, ppc, pev,
                 panicked, stored, dangling, healthVars, acceptedSeq, rejected,
                 everFailed>>

\* Repository.StoreEvents: one transaction for the whole batch.  An event that
\* already has its row conflicts and is skipped; a new row whose foreign key
\* is gone aborts the transaction.
Insertable(b) == (Range(b) \ stored) \cap dangling = {}

\* Mutant: without the transaction, rows that cannot be inserted are skipped.
StoreCommitsPartly ==
  /\ WorkerAt("store")
  /\ stored' = stored \cup (Range(batch) \ dangling)
  /\ wpc' = "ok"
  /\ UNCHANGED <<queueVars, ppc, pev, batch, final, flushArmed, panicked,
                 dangling, healthVars, acceptedSeq, rejected, everFailed>>

\* sink.StoreEvents commits and says so.
StoreCommits ==
  /\ WorkerAt("store")
  /\ Insertable(batch)
  /\ stored' = stored \cup Range(batch)
  /\ wpc' = "ok"
  /\ UNCHANGED <<queueVars, ppc, pev, batch, final, flushArmed, panicked,
                 dangling, healthVars, acceptedSeq, rejected, everFailed>>

\* sink.StoreEvents returns an error: PostgreSQL is away, a foreign key is
\* violated, or the 3 s context ended - before or after the commit took effect.
StoreFails ==
  /\ WorkerAt("store")
  /\ \/ stored' = stored
     \/ Insertable(batch) /\ stored' = stored \cup Range(batch)
  /\ wpc' = "err"
  /\ everFailed' = TRUE
  /\ UNCHANGED <<queueVars, ppc, pev, batch, final, flushArmed, panicked,
                 dangling, healthVars, acceptedSeq, rejected>>

\* Lines 250-252: the mutex section after a commit.
StoreSucceeded ==
  /\ WorkerAt("ok")
  /\ lastErr' = FALSE
  /\ saturated' = FALSE
  /\ wpc' = "release"
  /\ UNCHANGED <<slots, ch, closing, chClosed, ppc, pev, batch, final,
                 flushArmed, panicked, stored, dangling, healthVars,
                 acceptedSeq, rejected, everFailed>>

\* Mutant: one token is returned for the whole batch.
ReleaseOnePerBatch ==
  /\ WorkerAt("release")
  /\ slots' = slots + 1
  /\ batch' = <<>>
  /\ wpc' = IF final THEN "done" ELSE "recv"
  /\ UNCHANGED <<ch, closing, chClosed, saturated, lastErr, ppc, pev, final,
                 flushArmed, panicked, stored, dangling, healthVars,
                 acceptedSeq, rejected, everFailed>>

\* Lines 253-258, 212: return one token per event, outside the mutex.
Release ==
  /\ WorkerAt("release")
  /\ IF batch # <<>>
       THEN /\ slots' = slots + 1
            /\ batch' = Tail(batch)
            /\ wpc' = wpc
       ELSE /\ wpc' = IF final THEN "done" ELSE "recv"
            /\ UNCHANGED <<slots, batch>>
  /\ UNCHANGED <<ch, closing, chClosed, saturated, lastErr, ppc, pev, final,
                 flushArmed, panicked, stored, dangling, healthVars,
                 acceptedSeq, rejected, everFailed>>

\* Lines 238-241: the mutex section after an error.
StoreFailed ==
  /\ WorkerAt("err")
  /\ lastErr' = TRUE
  /\ wpc' = "notify"
  /\ UNCHANGED <<slots, ch, closing, chClosed, saturated, ppc, pev, batch,
                 final, flushArmed, panicked, stored, dangling, healthVars,
                 acceptedSeq, rejected, everFailed>>

\* Mutant: the worker returns at the first error.
NotifyFailureEnds ==
  /\ WorkerAt("notify")
  /\ queueState' = "error"
  /\ wpc' = "done"
  /\ UNCHANGED <<queueVars, ppc, pev, batch, final, flushArmed, panicked,
                 stored, dangling, sampled, acceptedSeq, rejected, everFailed>>

\* Lines 245-248: the callback withdraws readiness; storeOnce returns false.
NotifyFailure ==
  /\ WorkerAt("notify")
  /\ queueState' = "error"
  /\ wpc' = IF final THEN "done" ELSE "wait"
  /\ UNCHANGED <<queueVars, ppc, pev, batch, final, flushArmed, panicked,
                 stored, dangling, sampled, acceptedSeq, rejected, everFailed>>

\* Mutant: the worker goes on with the next batch instead of retrying.
WaitSkips ==
  /\ WorkerAt("wait")
  /\ wpc' = "recv"
  /\ UNCHANGED <<queueVars, ppc, pev, batch, final, flushArmed, panicked,
                 stored, dangling, healthVars, acceptedSeq, rejected,
                 everFailed>>

\* Mutant: the retry loop does not look at p.closing.
WaitIgnoresClosing ==
  /\ WorkerAt("wait")
  /\ wpc' = "store"
  /\ UNCHANGED <<queueVars, ppc, pev, batch, final, flushArmed, panicked,
                 stored, dangling, healthVars, acceptedSeq, rejected,
                 everFailed>>

\* Lines 215-222: wait for the retry delay, which notices closing, or for the
\* one firing of flushTimer, which does not.
Wait ==
  /\ WorkerAt("wait")
  /\ wpc' = "store"
  /\ \/ /\ final' = closing
        /\ flushArmed' = flushArmed
     \/ /\ flushArmed
        /\ flushArmed' = FALSE
        /\ final' = final
  /\ UNCHANGED <<queueVars, ppc, pev, batch, panicked, stored, dangling,
                 healthVars, acceptedSeq, rejected, everFailed>>
-----------------------------------------------------------------------------
(* Close, the health probe, and the rows that events refer to. *)

\* Line 172, then line 173.  Close then waits for the worker.
CloseFlag ==
  /\ ~panicked /\ ~closing
  /\ closing' = TRUE
  /\ UNCHANGED <<slots, ch, chClosed, saturated, lastErr, ppc, pev, workerVars,
                 panicked, stored, dangling, healthVars, acceptedSeq, rejected,
                 everFailed>>

CloseChannel ==
  /\ ~panicked /\ closing /\ ~chClosed
  /\ chClosed' = TRUE
  /\ UNCHANGED <<slots, ch, closing, saturated, lastErr, ppc, pev, workerVars,
                 panicked, stored, dangling, healthVars, acceptedSeq, rejected,
                 everFailed>>

\* Mutant: the probe looks at the last error only.
ProbeReadErrorOnly ==
  /\ ~panicked /\ sampled = "none"
  /\ sampled' = IF ~lastErr THEN "ok" ELSE "error"
  /\ UNCHANGED <<queueVars, ppc, pev, workerVars, panicked, stored, dangling,
                 queueState, acceptedSeq, rejected, everFailed>>

\* Manager.ProbeNow calls the probe, and later stores what it returned.
ProbeRead ==
  /\ ~panicked /\ sampled = "none"
  /\ sampled' = IF Ready THEN "ok" ELSE "error"
  /\ UNCHANGED <<queueVars, ppc, pev, workerVars, panicked, stored, dangling,
                 queueState, acceptedSeq, rejected, everFailed>>

ProbeWrite ==
  /\ ~panicked /\ sampled # "none"
  /\ queueState' = sampled
  /\ sampled' = "none"
  /\ UNCHANGED <<queueVars, ppc, pev, workerVars, panicked, stored, dangling,
                 acceptedSeq, rejected, everFailed>>

\* DeletePolicy, or the finalizer's DELETE of a revoked gateway key: rows that
\* exist have their column set to NULL, events still in memory keep the id.
DeleteReferenced(e) ==
  /\ e \notin dangling
  /\ dangling' = dangling \cup {e}
  /\ UNCHANGED <<queueVars, ppc, pev, workerVars, panicked, stored, healthVars,
                 acceptedSeq, rejected, everFailed>>
-----------------------------------------------------------------------------
Enqueue(p) ==
  \/ \E e \in Events : EnqueueToken(p, e)
  \/ EnqueueSend(p)
  \/ EnqueueSaturate(p)
  \/ EnqueueReject(p)

Worker ==
  \/ Receive
  \/ Drain
  \/ StoreCommits
  \/ StoreFails
  \/ StoreSucceeded
  \/ Release
  \/ StoreFailed
  \/ NotifyFailure
  \/ Wait

Probe == ProbeRead \/ ProbeWrite

Next ==
  \/ \E p \in Producers : Enqueue(p)
  \/ Worker
  \/ CloseFlag
  \/ CloseChannel
  \/ Probe
  \/ \E e \in Referencing : DeleteReferenced(e)

Spec == Init /\ [][Next]_vars

\* The goroutines are scheduled, the probe ticker ticks, and PostgreSQL does
\* not refuse for ever a batch that it could commit.  Nothing obliges a client
\* to call Enqueue, an operator to close or an administrator to delete.
Fairness ==
  /\ WF_vars(Worker)
  /\ SF_vars(StoreCommits)
  /\ \A p \in Producers :
       WF_vars(EnqueueSend(p) \/ EnqueueSaturate(p) \/ EnqueueReject(p))
  /\ WF_vars(CloseChannel)
  /\ WF_vars(Probe)

FairSpec == Spec /\ Fairness
-----------------------------------------------------------------------------
\* Every variable of the pipeline stays within its type.
TypeOK ==
  /\ slots \in 0..Capacity
  /\ ch \in Seq(Events)
  /\ closing \in BOOLEAN
  /\ chClosed \in BOOLEAN
  /\ saturated \in BOOLEAN
  /\ lastErr \in BOOLEAN
  /\ ppc \in [Producers -> {"idle", "token", "full", "notify"}]
  /\ pev \in [Producers -> Events \cup {NoEvent}]
  /\ wpc \in WorkerPcs
  /\ batch \in Seq(Events)
  /\ final \in BOOLEAN
  /\ flushArmed \in BOOLEAN
  /\ panicked \in BOOLEAN
  /\ stored \subseteq Events
  /\ dangling \subseteq Referencing
  /\ sampled \in {"none", "ok", "error"}
  /\ queueState \in {"unknown", "ok", "error"}
  /\ acceptedSeq \in Seq(Events)
  /\ rejected \subseteq Events
  /\ everFailed \in BOOLEAN

Holders == {p \in Producers : ppc[p] = "token"}

\* Tokens are conserved across Enqueue, the channel, the worker's batch and
\* storeOnce: none is lost or minted, so Pending in Status is exact.
TokenConservation ==
  slots + Cardinality(Holders) + Len(ch) + Len(batch) = Capacity

\* Whoever holds a token finds room in p.ch: the branch of Enqueue that gives
\* the token back (lines 141-143) is dead, and the worker's return of tokens
\* (line 254) never blocks on a full p.slots.
TokenMeansRoom ==
  /\ Holders # {} => Len(ch) < Capacity
  /\ wpc = "release" /\ batch # <<>> => slots < Capacity

\* "A capacity token is released only after PostgreSQL commits its audit
\* record" (lines 79-80): accepted events without a row never outnumber the
\* tokens that are out, through retries, ambiguous commits and Close.
UncommittedHoldTokens ==
  Cardinality(accepted \ stored) + slots <= Capacity

\* An accepted event without a row is still in the channel or in the batch:
\* no path of run or storeOnce drops one while the process lives.
AcceptedNotLost ==
  accepted \ stored \subseteq Range(ch) \cup Range(batch)

\* Events reach PostgreSQL in the order in which Enqueue accepted them, also
\* when batches fail and are retried, and Close flushes: unless some store
\* failed, nothing that was accepted is left behind when the worker ends.
\* (After a failure lines 217-219 store the current batch once and leave the
\* rest of p.ch.)
StoredInOrder ==
  /\ \A i, j \in DOMAIN acceptedSeq :
       i < j /\ acceptedSeq[j] \in stored => acceptedSeq[i] \in stored
  /\ wpc = "done" /\ ~everFailed => accepted \subseteq stored

\* With PostgreSQL back, every accepted event is stored, unless the queue is
\* closed first or some queued event names a deleted row: run retries the batch
\* of such an event for ever, and nothing behind it is stored.  Operations
\* guide: "repair PostgreSQL first, then ensure the audit queue drains".
AcceptedEventuallyStored ==
  \A e \in Events : e \in accepted
    ~> (e \in stored \/ closing \/ (dangling \cap accepted) \ stored # {})

\* Close returns: whatever PostgreSQL does, the worker ends after closing is
\* set (or a late Enqueue has panicked).
CloseReturns == closing ~> (wpc = "done" \/ panicked)

\* The probe repairs what racing callbacks and stale probe results did to the
\* component: a queue that stays unready is in the end reported as such.
PersistentFailureReported ==
  <>[](~Ready /\ ~panicked) => <>[](queueState = "error")
=============================================================================
