------------------------------ MODULE Consumer ------------------------------
(***************************************************************************)
(* consumer.Consumer: the audit-consumer process that moves the messages   *)
(* of the Kafka audit topic (one partition, see createTopic) to ClickHouse *)
(* or to the dead-letter topic and commits the group offset.               *)
(*                                                                         *)
(* A message is its offset 1..LogLen; Invalid are those that do not decode *)
(* or fail ValidateEvent.  ClickHouse collapses redelivered events         *)
(* (ReplacingMergeTree), so its table is a set.  The supervisor restarts   *)
(* the process, which resumes at the committed offset.                     *)
(***************************************************************************)
EXTENDS Integers, FiniteSets

CONSTANTS LogLen,            \* bound: messages the gateway will publish
          Invalid,           \* offsets of messages that fail validation
          BatchCap,          \* 100 in the code
          MaxInsertAttempts, \* 10 in the code
          MaxCrashes         \* bound: crashes and SIGTERMs

ASSUME ConsumerAssumption ==
  /\ LogLen \in Nat
  /\ Invalid \subseteq 1..LogLen
  /\ BatchCap \in Nat \ {0}
  /\ MaxInsertAttempts \in Nat \ {0}
  /\ MaxCrashes \in Nat

VARIABLES appended,   \* length of the partition
          committed,  \* committed group offset: 1..committed are consumed
          stage,      \* where Run is; "down" between two processes
          first, pos, \* the batch is first..pos; the reader is at pos + 1
          attempt,    \* failed attempts of insertWithRetry
          cancelled,  \* ctx.Err() # nil
          rows,       \* offsets whose event is in ClickHouse
          dlq,        \* offsets whose message is in the dead-letter topic
          skipped,    \* history: offsets whose insert SIGTERM made Run give up
          crashes

consumerVars == <<appended, committed, stage, first, pos, attempt, cancelled, rows, dlq,
                  skipped, crashes>>

Batch == first..pos
Size  == pos - first + 1

ConsumerInit ==
  /\ appended = 0
  /\ committed = 0
  /\ stage = "down"
  /\ first = 1 /\ pos = 0
  /\ attempt = 0
  /\ cancelled = FALSE
  /\ rows = {}
  /\ dlq = {}
  /\ skipped = {}
  /\ crashes = 0
-----------------------------------------------------------------------------
Append ==
  /\ appended < LogLen
  /\ appended' = appended + 1
  /\ UNCHANGED <<committed, stage, first, pos, attempt, cancelled, rows, dlq, skipped, crashes>>

\* Mutant of Start: the reader resumes at the end of the log.
StartAtEnd ==
  /\ stage = "down"
  /\ stage' = "fetch"
  /\ first' = appended + 1 /\ pos' = appended
  /\ attempt' = 0
  /\ cancelled' = FALSE
  /\ UNCHANGED <<appended, committed, rows, dlq, skipped, crashes>>

\* A new process: ensureTopic and ensureSchema retry until they succeed, the
\* group reader starts at the committed offset.
Start ==
  /\ stage = "down"
  /\ stage' = "fetch"
  /\ first' = committed + 1 /\ pos' = committed
  /\ attempt' = 0
  /\ cancelled' = FALSE
  /\ UNCHANGED <<appended, committed, rows, dlq, skipped, crashes>>

\* The valid events of a batch are inserted first, then the invalid message
\* that ended the batch, if any, is dead-lettered.
AfterInsert == IF pos \in Invalid THEN "dlq" ELSE "commit"

\* FetchMessage returns the first message of a batch (it may, even when the
\* context is already cancelled).
Fetch ==
  /\ stage = "fetch" /\ pos < appended
  /\ first' = pos + 1 /\ pos' = pos + 1
  /\ stage' = IF pos + 1 \in Invalid THEN "dlq" ELSE "collect"
  /\ UNCHANGED <<appended, committed, attempt, cancelled, rows, dlq, skipped, crashes>>

FetchStops ==
  /\ stage = "fetch" /\ cancelled
  /\ stage' = "down"
  /\ UNCHANGED <<appended, committed, first, pos, attempt, cancelled, rows, dlq, skipped,
                 crashes>>

\* The 200 ms window: take another message, or stop waiting.
Collect ==
  /\ stage = "collect"
  /\ \/ /\ Size < BatchCap /\ pos < appended
        /\ pos' = pos + 1
        /\ stage' = IF pos + 1 \in Invalid THEN "insert" ELSE "collect"
     \/ /\ pos' = pos
        /\ stage' = "insert"
  /\ attempt' = 0
  /\ UNCHANGED <<appended, committed, first, cancelled, rows, dlq, skipped, crashes>>

\* Mutant of InsertOk: the batch is taken to end with its first valid event.
InsertFirstOnly ==
  /\ stage = "insert"
  /\ rows' = rows \cup ({first} \ Invalid)
  /\ stage' = AfterInsert
  /\ UNCHANGED <<appended, committed, first, pos, attempt, cancelled, dlq, skipped, crashes>>

InsertOk ==
  /\ stage = "insert"
  /\ rows' = rows \cup (Batch \ Invalid)
  /\ stage' = AfterInsert
  /\ UNCHANGED <<appended, committed, first, pos, attempt, cancelled, dlq, skipped, crashes>>

\* InsertEvents returns an error, before or after ClickHouse took the batch.
\* A cancelled context makes insertWithRetry return nil; the last attempt ends
\* the process.
InsertFails ==
  /\ stage = "insert"
  /\ rows' \in {rows, rows \cup (Batch \ Invalid)}
  /\ stage' = IF cancelled THEN AfterInsert
           ELSE IF attempt + 1 >= MaxInsertAttempts THEN "down" ELSE "wait"
  /\ attempt' = attempt + 1
  /\ skipped' = IF cancelled THEN skipped \cup (Batch \ Invalid) ELSE skipped
  /\ UNCHANGED <<appended, committed, first, pos, cancelled, dlq, crashes>>

\* The second between two attempts; noticing the end of the context there
\* ends Run with an error.
Wait ==
  /\ stage = "wait"
  /\ stage' = IF cancelled THEN "down" ELSE "insert"
  /\ UNCHANGED <<appended, committed, first, pos, attempt, cancelled, rows, dlq, skipped,
                 crashes>>

DeadLetterOk ==
  /\ stage = "dlq"
  /\ dlq' = dlq \cup {pos}
  /\ stage' = "commit"
  /\ UNCHANGED <<appended, committed, first, pos, attempt, cancelled, rows, skipped, crashes>>

\* A failed DLQ write is retried until the context ends, which ends Run.
DeadLetterFails ==
  /\ stage = "dlq"
  /\ dlq' \in {dlq, dlq \cup {pos}}
  /\ stage' = IF cancelled THEN "down" ELSE "dlq"
  /\ UNCHANGED <<appended, committed, first, pos, attempt, cancelled, rows, skipped, crashes>>

\* CommitMessages.  With a cancelled context kafka-go may still hand the
\* request to its commit loop.
CommitOk ==
  /\ stage = "commit"
  /\ committed' = pos
  /\ stage' = "fetch"
  /\ UNCHANGED <<appended, first, pos, attempt, cancelled, rows, dlq, skipped, crashes>>

\* An error is logged and Run goes on with the messages after the batch.
CommitFails ==
  /\ stage = "commit"
  /\ stage' = "fetch"
  /\ UNCHANGED <<appended, committed, first, pos, attempt, cancelled, rows, dlq, skipped,
                 crashes>>

\* SIGTERM cancels the context.
Stop ==
  /\ stage # "down" /\ ~cancelled /\ crashes < MaxCrashes
  /\ cancelled' = TRUE
  /\ crashes' = crashes + 1
  /\ UNCHANGED <<appended, committed, stage, first, pos, attempt, rows, dlq, skipped>>

Kill ==
  /\ stage # "down" /\ crashes < MaxCrashes
  /\ stage' = "down"
  /\ crashes' = crashes + 1
  /\ UNCHANGED <<appended, committed, first, pos, attempt, cancelled, rows, dlq,
                 skipped>>

Run ==
  \/ Start \/ Fetch \/ FetchStops \/ Collect
  \/ InsertOk \/ InsertFails \/ Wait
  \/ DeadLetterOk \/ DeadLetterFails
  \/ CommitOk \/ CommitFails

ConsumerNext == Append \/ Run \/ Stop \/ Kill

ConsumerSpec == ConsumerInit /\ [][ConsumerNext]_consumerVars

\* The process runs and is restarted; ClickHouse, the dead-letter topic and
\* the group coordinator do not refuse for ever.
ConsumerFairness ==
  /\ WF_consumerVars(Run)
  /\ SF_consumerVars(InsertOk) /\ SF_consumerVars(DeadLetterOk) /\ SF_consumerVars(CommitOk)

FairConsumerSpec == ConsumerSpec /\ ConsumerFairness
-----------------------------------------------------------------------------
Handled == (rows \ Invalid) \cup (dlq \cap Invalid)

\* Every variable of the consumer stays within its type.
ConsumerTypeOK ==
  /\ appended \in 0..LogLen
  /\ committed \in 0..appended
  /\ stage \in {"down", "fetch", "collect", "insert", "wait", "dlq", "commit"}
  /\ first \in 1..LogLen + 1 /\ pos \in 0..appended /\ first <= pos + 1
  /\ Size <= BatchCap
  /\ attempt \in 0..MaxInsertAttempts
  /\ cancelled \in BOOLEAN
  /\ rows \subseteq 1..LogLen /\ dlq \subseteq 1..LogLen /\ skipped \subseteq 1..LogLen
  /\ crashes \in 0..MaxCrashes

\* "Offsets are committed only after the destination operation has completed
\* successfully" (consumer.go:65): also when an earlier commit failed and a
\* later one covers its messages, and after restarts.
CommittedIsHandled == 1..committed \subseteq Handled

\* The exception: insertWithRetry returns nil when SIGTERM comes during a
\* failing insert (consumer.go:244).  No other failure, order of failures or
\* restart commits past an event that ClickHouse does not have.
LostOnlyBySignal == 1..committed \subseteq Handled \cup skipped

\* "A failed DLQ write is retried before the source offset can be committed"
\* (docs/operations.md:40), also when the process is told to stop.
DeadLettersBeforeCommit == (1..committed) \cap Invalid \subseteq dlq

\* Every message is in the end inserted or dead-lettered, or given up on a
\* SIGTERM: one that keeps failing, a lost commit or a restart does not stop
\* the ones behind it.
EverythingHandled == \A i \in 1..LogLen : appended >= i ~> i \in Handled \cup skipped
=============================================================================
