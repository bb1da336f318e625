--------------------------- MODULE CircuitBreaker ---------------------------
(***************************************************************************)
(* The circuit breaker around the model auditor.  A call checks the        *)
(* circuit under the mutex, then waits for one of Concurrency slots or for *)
(* the end of its request, calls the auditor and accounts for the outcome  *)
(* under the mutex again; its slot is freed after that.  Calls that passed *)
(* the check before the circuit opened still reach the auditor, and their  *)
(* outcomes still count.                                                   *)
(***************************************************************************)
EXTENDS Integers, FiniteSets

CONSTANTS Callers,
          MaxFailures,  \* consecutive failures that open the circuit
          Concurrency   \* slots

ASSUME BreakerAssumption ==
  MaxFailures \in Nat \ {0} /\ Concurrency \in Nat \ {0}

VARIABLES pc,        \* "idle", "waiting", "calling" or "returning"
          sem,       \* slots taken
          failures,  \* CircuitBreaker.failures
          open,      \* now < openedUntil
          streak     \* errors since the last success, cut at 2 * MaxFailures

vars == <<pc, sem, failures, open, streak>>

Init ==
  /\ pc = [c \in Callers |-> "idle"]
  /\ sem = 0 /\ failures = 0 /\ open = FALSE /\ streak = 0
-----------------------------------------------------------------------------
Step(c, from, to) == pc[c] = from /\ pc' = [pc EXCEPT ![c] = to]

\* The check under the mutex; ErrCircuitOpen leaves the caller idle.
Enter(c) ==
  /\ Step(c, "idle", "waiting")
  /\ ~open
  /\ UNCHANGED <<sem, failures, open, streak>>

Acquire(c) ==
  /\ sem < Concurrency
  /\ Step(c, "waiting", "calling")
  /\ sem' = sem + 1
  /\ UNCHANGED <<failures, open, streak>>

\* The request ended while it waited for a slot.
GiveUp(c) ==
  /\ Step(c, "waiting", "idle")
  /\ UNCHANGED <<sem, failures, open, streak>>

\* Mutant of Succeed: a success does not end a run of failures.
SucceedKeepsCount(c) ==
  /\ Step(c, "calling", "returning")
  /\ streak' = 0
  /\ UNCHANGED <<sem, failures, open>>

Succeed(c) ==
  /\ Step(c, "calling", "returning")
  /\ failures' = 0 /\ streak' = 0
  /\ UNCHANGED <<sem, open>>

\* Mutant of Cancelled: a cancelled request keeps its slot.
CancelledKeepsSlot(c) ==
  /\ Step(c, "calling", "idle")
  /\ UNCHANGED <<sem, failures, open, streak>>

\* context.Canceled says nothing about the auditor.
Cancelled(c) ==
  /\ Step(c, "calling", "returning")
  /\ UNCHANGED <<sem, failures, open, streak>>

Capped(n) == IF n > 2 * MaxFailures THEN 2 * MaxFailures ELSE n

\* Any other error; openedUntil is set again when the circuit is open.
Fail(c) ==
  /\ Step(c, "calling", "returning")
  /\ streak' = Capped(streak + 1)
  /\ IF failures + 1 >= MaxFailures
     THEN open' = TRUE /\ failures' = 0
     ELSE failures' = failures + 1 /\ UNCHANGED open
  /\ UNCHANGED sem

\* The deferred receive from the semaphore.
Return(c) ==
  /\ Step(c, "returning", "idle")
  /\ sem' = sem - 1
  /\ UNCHANGED <<failures, open, streak>>

Cooldown ==
  /\ open
  /\ open' = FALSE
  /\ UNCHANGED <<pc, sem, failures, streak>>

Call(c) == Succeed(c) \/ Cancelled(c) \/ Fail(c)

Next ==
  \/ \E c \in Callers : Enter(c) \/ Acquire(c) \/ GiveUp(c) \/ Call(c) \/ Return(c)
  \/ Cooldown

Spec == Init /\ [][Next]_vars

\* The auditor's HTTP client has a timeout; goroutines blocked on a channel
\* get its slots in turn; the clock runs.
Fairness ==
  /\ \A c \in Callers : SF_vars(Acquire(c)) /\ WF_vars(Call(c)) /\ WF_vars(Return(c))
  /\ WF_vars(Cooldown)

FairSpec == Spec /\ Fairness
-----------------------------------------------------------------------------
InCall == {c \in Callers : pc[c] \in {"calling", "returning"}}

\* Every variable stays within its type.
TypeOK ==
  /\ pc \in [Callers -> {"idle", "waiting", "calling", "returning"}]
  /\ sem \in 0..Concurrency
  /\ failures \in 0..(MaxFailures - 1)
  /\ open \in BOOLEAN
  /\ streak \in 0..(2 * MaxFailures)

\* At most Concurrency calls of the auditor are in flight, also when calls
\* are cancelled, give up or fail while the circuit opens.
BoundedConcurrency == sem = Cardinality(InCall) /\ sem <= Concurrency

\* The circuit opens only after MaxFailures errors without a success between
\* them; "disconnecting clients" (circuit.go:63) do not count.
OpensOnlyOnFailures == [][~open /\ open' => streak' >= MaxFailures]_vars

\* No audit waits for ever: a call that passed the check returns.
AuditReturns == \A c \in Callers : pc[c] = "waiting" ~> pc[c] = "idle"
=============================================================================
