-------------------------- MODULE AuditQueueProofs --------------------------
(***************************************************************************)
(* Proofs about AuditQueue for every number of events and producers and    *)
(* every capacity and batch size.                                          *)
(***************************************************************************)
EXTENDS AuditQueue, SequenceTheorems, FiniteSetTheorems, TLAPS

-----------------------------------------------------------------------------
(* What the queue's sequence operations do to the set of queued events. *)

\* Appending adds exactly the appended event to the range.
LEMMA RangeAppend ==
  ASSUME NEW S, NEW s \in Seq(S), NEW e \in S
  PROVE  Range(Append(s, e)) = Range(s) \cup {e}
<1>1. /\ Append(s, e) \in Seq(S)
      /\ Len(Append(s, e)) = Len(s) + 1
      /\ \A i \in 1..Len(s) : Append(s, e)[i] = s[i]
      /\ Append(s, e)[Len(s) + 1] = e
  OBVIOUS
<1>2. DOMAIN Append(s, e) = 1..(Len(s) + 1) /\ DOMAIN s = 1..Len(s) /\ Len(s) \in Nat
  BY <1>1
<1>3. DOMAIN Append(s, e) = DOMAIN s \cup {Len(s) + 1}
  BY <1>2
<1>4. QED
  BY <1>1, <1>2, <1>3 DEF Range

\* Removing the head removes at most the head from the range.
LEMMA RangeTail ==
  ASSUME NEW S, NEW s \in Seq(S), s # <<>>
  PROVE  Range(s) = {Head(s)} \cup Range(Tail(s))
<1>1. /\ Tail(s) \in Seq(S)
      /\ Len(Tail(s)) = Len(s) - 1
      /\ \A i \in 1..Len(Tail(s)) : Tail(s)[i] = s[i + 1]
      /\ Head(s) = s[1]
      /\ Len(s) \in Nat /\ Len(s) >= 1
  OBVIOUS
<1>2. DOMAIN s = 1..Len(s) /\ DOMAIN Tail(s) = 1..(Len(s) - 1)
  BY <1>1
<1>3. ASSUME NEW i \in DOMAIN s, i # 1
      PROVE  i - 1 \in DOMAIN Tail(s) /\ Tail(s)[i - 1] = s[i]
  BY <1>1, <1>2, <1>3
<1>4. Range(s) \subseteq {Head(s)} \cup Range(Tail(s))
  <2>1. SUFFICES ASSUME NEW i \in DOMAIN s
                 PROVE  s[i] \in {Head(s)} \cup Range(Tail(s))
    BY DEF Range
  <2>2. CASE i = 1
    BY <2>2, <1>1
  <2>3. CASE i # 1
    BY <2>3, <1>3, Zenon DEF Range
  <2>4. QED
    BY <2>2, <2>3
<1>5. Range(Tail(s)) \subseteq Range(s)
  <2>1. SUFFICES ASSUME NEW i \in DOMAIN Tail(s)
                 PROVE  Tail(s)[i] \in Range(s)
    BY DEF Range
  <2>2. i + 1 \in DOMAIN s /\ Tail(s)[i] = s[i + 1]
    BY <1>1, <1>2
  <2>3. QED
    BY <2>2 DEF Range
<1>6. Head(s) \in Range(s)
  BY <1>1, <1>2 DEF Range
<1>7. QED
  BY <1>4, <1>5, <1>6

\* A one-element and an empty sequence.
LEMMA RangeSmall ==
  /\ Range(<<>>) = {}
  /\ \A e : Range(<<e>>) = {e}
  BY DEF Range

\* The entries of a sequence over S are members of S.
LEMMA RangeInSet ==
  ASSUME NEW S, NEW s \in Seq(S)
  PROVE  Range(s) \subseteq S
  BY DEF Range

\* A queue of n entries holds at most n events.
LEMMA RangeCardinality ==
  ASSUME NEW S, NEW s \in Seq(S)
  PROVE  IsFiniteSet(Range(s)) /\ Cardinality(Range(s)) <= Len(s)
<1>1. Len(s) \in Nat /\ DOMAIN s = 1..Len(s)
  OBVIOUS
<1>2. s \in Surjection(1..Len(s), Range(s))
  BY <1>1 DEF Surjection, Range
<1>3. IsFiniteSet(1..Len(s)) /\ Cardinality(1..Len(s)) = Len(s)
  BY <1>1, FS_Interval, SMTT(30)
<1>4. QED
  BY <1>2, <1>3, FS_Surjection
-----------------------------------------------------------------------------
(***************************************************************************)
(* The inductive invariant.  TokenConservation and AcceptedNotLost are not *)
(* inductive alone: Receive overwrites the batch and Release shortens it,  *)
(* so one must know that an idle worker has an empty batch and that a      *)
(* batch whose tokens are being returned has been committed.               *)
(***************************************************************************)
BatchAccounted ==
  /\ wpc = "recv" => batch = <<>>
  /\ wpc \in {"ok", "release"} => Range(batch) \subseteq stored

\* A producer inside Enqueue carries an event.
OfferInHand == \A p \in Producers : ppc[p] # "idle" => pev[p] \in Events

IInv ==
  TypeOK /\ OfferInHand /\ TokenConservation /\ AcceptedNotLost /\ BatchAccounted

USE QueueAssumption

\* What Head, Tail, Append and the one-element sequence do to a queue.
LEMMA SeqFacts ==
  ASSUME NEW S, NEW s \in Seq(S)
  PROVE  /\ Len(s) \in Nat
         /\ s # <<>> => /\ Head(s) \in S /\ Tail(s) \in Seq(S)
                       /\ Len(Tail(s)) = Len(s) - 1 /\ Len(s) >= 1
                       /\ <<Head(s)>> \in Seq(S) /\ Len(<<Head(s)>>) = 1
         /\ \A e \in S : Append(s, e) \in Seq(S) /\ Len(Append(s, e)) = Len(s) + 1
  OBVIOUS

\* The same, for the sequences of the queue.
LEMMA QueueFacts ==
  ASSUME TypeOK
  PROVE  /\ Len(ch) \in Nat /\ Len(batch) \in Nat
         /\ ch # <<>> => /\ Head(ch) \in Events /\ Tail(ch) \in Seq(Events)
                        /\ Len(Tail(ch)) = Len(ch) - 1 /\ Len(ch) >= 1
                        /\ <<Head(ch)>> \in Seq(Events)
                        /\ Append(batch, Head(ch)) \in Seq(Events)
                        /\ Len(Append(batch, Head(ch))) = Len(batch) + 1
         /\ batch # <<>> => /\ Head(batch) \in Events
                           /\ Tail(batch) \in Seq(Events)
                           /\ Len(Tail(batch)) = Len(batch) - 1
         /\ \A e \in Events : /\ Append(ch, e) \in Seq(Events)
                             /\ Append(acceptedSeq, e) \in Seq(Events)
                             /\ Len(Append(ch, e)) = Len(ch) + 1
<1>1. ch \in Seq(Events) /\ batch \in Seq(Events) /\ acceptedSeq \in Seq(Events)
  BY DEF TypeOK
<1>2. QED
  BY <1>1, SeqFacts

\* The set of token holders is finite, and its size a natural number.
LEMMA HoldersFinite ==
  IsFiniteSet(Holders) /\ Cardinality(Holders) \in Nat
  BY FS_Subset, FS_CardinalityType DEF Holders

\* A step that leaves every program counter alone leaves the holders alone.
LEMMA HoldersSame ==
  ASSUME ppc' = ppc
  PROVE  Cardinality(Holders)' = Cardinality(Holders)
  BY DEF Holders

\* A producer that moves to the token point adds itself to the holders.
LEMMA HoldersGain ==
  ASSUME TypeOK, NEW p \in Producers, ppc[p] # "token",
         ppc' = [ppc EXCEPT ![p] = "token"]
  PROVE  Cardinality(Holders)' = Cardinality(Holders) + 1
<1>1. Holders' = Holders \cup {p} /\ p \notin Holders
  BY DEF Holders, TypeOK
<1>2. QED
  BY <1>1, HoldersFinite, FS_AddElement, Zenon

\* A holder that leaves the token point removes itself from the holders.
LEMMA HoldersLose ==
  ASSUME TypeOK, NEW p \in Producers, ppc[p] = "token",
         NEW l, l # "token", ppc' = [ppc EXCEPT ![p] = l]
  PROVE  Cardinality(Holders)' = Cardinality(Holders) - 1
<1>1. Holders' = Holders \ {p} /\ p \in Holders
  BY DEF Holders, TypeOK
<1>2. QED
  BY <1>1, HoldersFinite, FS_RemoveElement, Zenon

\* Moving between two points that hold no token changes nothing.
LEMMA HoldersKeep ==
  ASSUME TypeOK, NEW p \in Producers, ppc[p] # "token",
         NEW l, l # "token", ppc' = [ppc EXCEPT ![p] = l]
  PROVE  Cardinality(Holders)' = Cardinality(Holders)
<1>1. Holders' = Holders
  BY DEF Holders, TypeOK
<1>2. QED
  BY <1>1

\* The initial state satisfies the inductive invariant.
LEMMA InitIInv == Init => IInv
<1>1. SUFFICES ASSUME Init PROVE IInv
  OBVIOUS
<1>2. TypeOK
  <2>1. /\ slots \in 0..Capacity
        /\ ch \in Seq(Events) /\ batch \in Seq(Events)
        /\ acceptedSeq \in Seq(Events)
    BY <1>1 DEF Init
  <2>2. QED
    BY <1>1, <2>1, Zenon DEF Init, TypeOK, WorkerPcs
<1>3. Holders = {}
  BY <1>1 DEF Init, Holders
<1>4. TokenConservation
  BY <1>1, <1>3, FS_EmptySet DEF Init, TokenConservation
<1>5. AcceptedNotLost /\ BatchAccounted /\ OfferInHand
  BY <1>1, RangeSmall
     DEF Init, AcceptedNotLost, BatchAccounted, OfferInHand, accepted
<1>6. QED
  BY <1>2, <1>4, <1>5 DEF IInv

USE DEF queueVars, workerVars, healthVars, ProducerAt, WorkerAt

\* Every step preserves the types.  Only EnqueueSend and Release add to slots,
\* and both rely on conservation for the upper bound.
LEMMA TypeStep ==
  IInv /\ [Next]_vars => TypeOK'
<1>1. SUFFICES ASSUME IInv, [Next]_vars PROVE TypeOK'
  OBVIOUS
<1>2. TypeOK /\ TokenConservation /\ OfferInHand
  BY <1>1 DEF IInv
<1>3. Cardinality(Holders) \in Nat
  BY HoldersFinite
<1>4. ASSUME NEW p \in Producers, NEW e \in Events, EnqueueToken(p, e)
      PROVE  TypeOK'
  BY <1>2, <1>4, SMTT(30) DEF TypeOK, EnqueueToken
<1>5. ASSUME NEW p \in Producers, EnqueueSend(p)
      PROVE  TypeOK'
  <2>1. pev[p] \in Events
    BY <1>2, <1>5 DEF OfferInHand, EnqueueSend
  <2>2. p \in Holders /\ Cardinality(Holders) >= 1
    <3>1. p \in Holders
      BY <1>5 DEF EnqueueSend, Holders
    <3>2. Cardinality(Holders) # 0
      BY <3>1, HoldersFinite, FS_EmptySet
    <3>3. QED
      BY <1>3, <3>1, <3>2
  <2>3. slots' \in 0..Capacity
    BY <1>2, <1>3, <1>5, <2>2, QueueFacts, SMTT(30)
      DEF TypeOK, EnqueueSend, TokenConservation
  <2>4. ch' \in Seq(Events) /\ acceptedSeq' \in Seq(Events)
    BY <1>2, <1>5, <2>1, QueueFacts, ZenonT(60) DEF TypeOK, EnqueueSend
  <2>5. /\ ppc' \in [Producers -> {"idle", "token", "full", "notify"}]
        /\ pev' \in [Producers -> Events \cup {NoEvent}]
    BY <1>2, <1>5, Zenon DEF TypeOK, EnqueueSend
  <2>6. QED
    BY <1>2, <1>5, <2>3, <2>4, <2>5, ZenonT(60) DEF TypeOK, EnqueueSend
<1>6. ASSUME NEW p \in Producers, EnqueueSaturate(p)
      PROVE  TypeOK'
  BY <1>2, <1>6, ZenonT(60) DEF TypeOK, EnqueueSaturate
<1>7. ASSUME NEW p \in Producers, EnqueueReject(p)
      PROVE  TypeOK'
  <2>1. pev[p] \in Events
    BY <1>2, <1>7, SMTT(30) DEF OfferInHand, EnqueueReject
  <2>2. /\ ppc' \in [Producers -> {"idle", "token", "full", "notify"}]
        /\ pev' \in [Producers -> Events \cup {NoEvent}]
    BY <1>2, <1>7 DEF TypeOK, EnqueueReject
  <2>3. QED
    BY <1>2, <1>7, <2>1, <2>2, ZenonT(60) DEF TypeOK, EnqueueReject
<1>8. CASE Receive
  <2>1. ch' \in Seq(Events) /\ batch' \in Seq(Events)
    BY <1>2, <1>8, QueueFacts, Zenon DEF TypeOK, Receive
  <2>2. QED
    BY <1>2, <1>8, <2>1, ZenonT(60) DEF TypeOK, Receive, WorkerPcs
<1>9. CASE Drain
  <2>1. ch' \in Seq(Events) /\ batch' \in Seq(Events)
    BY <1>2, <1>9, QueueFacts, Zenon DEF TypeOK, Drain
  <2>2. final' \in BOOLEAN /\ flushArmed' \in BOOLEAN /\ wpc' \in WorkerPcs
    BY <1>2, <1>9, Zenon DEF TypeOK, Drain, WorkerPcs
  <2>3. QED
    BY <1>2, <1>9, <2>1, <2>2, ZenonT(60) DEF TypeOK, Drain
<1>10. CASE StoreCommits
  <2>1. Range(batch) \subseteq Events
    BY <1>2, RangeInSet DEF TypeOK
  <2>2. QED
    BY <1>2, <1>10, <2>1, ZenonT(60) DEF TypeOK, StoreCommits, WorkerPcs
<1>11. CASE StoreFails
  <2>1. Range(batch) \subseteq Events
    BY <1>2, RangeInSet DEF TypeOK
  <2>2. QED
    BY <1>2, <1>11, <2>1, ZenonT(60) DEF TypeOK, StoreFails, WorkerPcs
<1>12. CASE StoreSucceeded
  BY <1>2, <1>12, ZenonT(60) DEF TypeOK, StoreSucceeded, WorkerPcs
<1>13. CASE StoreFailed
  BY <1>2, <1>13, ZenonT(60) DEF TypeOK, StoreFailed, WorkerPcs
<1>14. CASE NotifyFailure
  BY <1>2, <1>14, ZenonT(60) DEF TypeOK, NotifyFailure, WorkerPcs
<1>15. CASE Wait
  BY <1>2, <1>15, ZenonT(60) DEF TypeOK, Wait, WorkerPcs
<1>16. CASE Release
  <2>1. slots' \in 0..Capacity
    BY <1>2, <1>3, <1>16, QueueFacts, SMTT(30) DEF TypeOK, Release, TokenConservation
  <2>2. batch' \in Seq(Events)
    BY <1>2, <1>16, QueueFacts, Zenon DEF TypeOK, Release
  <2>3. QED
    BY <1>2, <1>16, <2>1, <2>2, ZenonT(60) DEF TypeOK, Release, WorkerPcs
<1>17. CASE CloseFlag
  BY <1>2, <1>17, ZenonT(60) DEF TypeOK, CloseFlag
<1>18. CASE CloseChannel
  BY <1>2, <1>18, ZenonT(60) DEF TypeOK, CloseChannel
<1>19. CASE ProbeRead
  BY <1>2, <1>19, ZenonT(60) DEF TypeOK, ProbeRead
<1>20. CASE ProbeWrite
  BY <1>2, <1>20, ZenonT(60) DEF TypeOK, ProbeWrite
<1>21. ASSUME NEW e \in Referencing, DeleteReferenced(e)
       PROVE  TypeOK'
  BY <1>2, <1>21, ZenonT(60) DEF TypeOK, DeleteReferenced
<1>22. CASE UNCHANGED vars
  BY <1>2, <1>22 DEF TypeOK, vars
<1>23. QED
  BY <1>1, <1>4, <1>5, <1>6, <1>7, <1>8, <1>9, <1>10, <1>11, <1>12, <1>13,
     <1>14, <1>15, <1>16, <1>17, <1>18, <1>19, <1>20, <1>21, <1>22, SMTT(30)
     DEF Next, Enqueue, Worker, Probe

\* The steps that touch neither tokens, producers nor sequences.
Quiet ==
  \/ StoreCommits \/ StoreFails \/ StoreSucceeded \/ StoreFailed
  \/ NotifyFailure \/ Wait \/ CloseFlag \/ CloseChannel \/ ProbeRead
  \/ ProbeWrite \/ (\E e \in Referencing : DeleteReferenced(e))
  \/ UNCHANGED vars

\* Quiet steps leave the token accounting and the queued events alone.
LEMMA QuietFrame ==
  Quiet => /\ UNCHANGED <<slots, ch, batch, ppc, pev, acceptedSeq>>
           /\ stored \subseteq stored'
  BY Zenon
     DEF Quiet, StoreCommits, StoreFails, StoreSucceeded, StoreFailed,
         NotifyFailure, Wait, CloseFlag, CloseChannel, ProbeRead, ProbeWrite,
         DeleteReferenced, vars

\* Every step is quiet or one of the seven that move tokens or events.
LEMMA StepCases ==
  [Next]_vars =>
    \/ \E p \in Producers :
         \/ \E e \in Events : EnqueueToken(p, e)
         \/ EnqueueSend(p) \/ EnqueueSaturate(p) \/ EnqueueReject(p)
    \/ Receive \/ Drain \/ Release
    \/ Quiet
  BY Zenon DEF Next, Enqueue, Worker, Probe, Quiet

\* A producer inside Enqueue keeps its event until it leaves.
LEMMA OfferStep == IInv /\ [Next]_vars => OfferInHand'
<1>1. SUFFICES ASSUME IInv, [Next]_vars PROVE OfferInHand'
  OBVIOUS
<1>2. TypeOK /\ OfferInHand
  BY <1>1 DEF IInv
<1>3. ASSUME NEW p \in Producers, NEW e \in Events, EnqueueToken(p, e)
      PROVE  OfferInHand'
  BY <1>2, <1>3 DEF TypeOK, OfferInHand, EnqueueToken
<1>4. ASSUME NEW p \in Producers,
             EnqueueSend(p) \/ EnqueueSaturate(p) \/ EnqueueReject(p)
      PROVE  OfferInHand'
  BY <1>2, <1>4, Zenon DEF TypeOK, OfferInHand, EnqueueSend, EnqueueSaturate, EnqueueReject
<1>5. CASE Receive \/ Drain \/ Release
  BY <1>2, <1>5, Zenon DEF OfferInHand, Receive, Drain, Release
<1>6. CASE Quiet
  BY <1>2, <1>6, QuietFrame, Zenon DEF OfferInHand
<1>7. QED
  BY <1>1, <1>3, <1>4, <1>5, <1>6, StepCases, Zenon

\* Every step conserves the tokens.
LEMMA ConservationStep == IInv /\ [Next]_vars => TokenConservation'
<1>1. SUFFICES ASSUME IInv, [Next]_vars PROVE TokenConservation'
  OBVIOUS
<1>2. TypeOK /\ OfferInHand /\ TokenConservation /\ BatchAccounted
  BY <1>1 DEF IInv
<1>3. /\ slots \in Nat /\ Cardinality(Holders) \in Nat
      /\ slots + Cardinality(Holders) + Len(ch) + Len(batch) = Capacity
  BY <1>2, HoldersFinite DEF TypeOK, TokenConservation
<1>4. SUFFICES slots' + Cardinality(Holders)' + Len(ch') + Len(batch') = Capacity
  BY DEF TokenConservation
<1>5. ASSUME NEW p \in Producers, NEW e \in Events, EnqueueToken(p, e)
      PROVE  slots' + Cardinality(Holders)' + Len(ch') + Len(batch') = Capacity
  <2>1. CASE slots > 0
    <3>1. Cardinality(Holders)' = Cardinality(Holders) + 1
      BY <1>2, <1>5, <2>1, HoldersGain, SMTT(30) DEF EnqueueToken
    <3>2. QED
      BY <1>2, <1>3, <1>5, <2>1, <3>1, QueueFacts, SMTT(30) DEF EnqueueToken
  <2>2. CASE ~(slots > 0)
    <3>1. Cardinality(Holders)' = Cardinality(Holders)
      BY <1>2, <1>5, <2>2, HoldersKeep, SMTT(30) DEF EnqueueToken
    <3>2. QED
      BY <1>2, <1>3, <1>5, <2>2, <3>1, QueueFacts, SMTT(30) DEF EnqueueToken
  <2>3. QED
    BY <2>1, <2>2, SMTT(30)
<1>6. ASSUME NEW p \in Producers, EnqueueSend(p)
      PROVE  slots' + Cardinality(Holders)' + Len(ch') + Len(batch') = Capacity
  <2>1. CASE chClosed
    <3>1. UNCHANGED <<slots, ch, batch, ppc>>
      BY <1>6, <2>1, Zenon DEF EnqueueSend
    <3>2. QED
      BY <1>3, <3>1, HoldersSame, SMTT(30)
  <2>2. CASE ~chClosed
    <3>1. pev[p] \in Events
      BY <1>2, <1>6 DEF OfferInHand, EnqueueSend
    <3>2. Cardinality(Holders)' = Cardinality(Holders) - 1
      BY <1>2, <1>6, <2>2, HoldersLose, Zenon DEF EnqueueSend
    <3>3. /\ batch' = batch
          /\ \/ slots' = slots /\ ch' = Append(ch, pev[p])
             \/ slots' = slots + 1 /\ ch' = ch
      BY <1>6, <2>2, Zenon DEF EnqueueSend
    <3>4. Len(ch) \in Nat /\ Len(batch) \in Nat
      BY <1>2, QueueFacts
    <3>5. slots' + Len(ch') = slots + Len(ch) + 1
      <4>1. Len(Append(ch, pev[p])) = Len(ch) + 1
        BY <1>2, <3>1, QueueFacts
      <4>2. QED
        BY <1>3, <3>3, <3>4, <4>1, SMTT(30)
    <3>6. QED
      BY <1>3, <3>2, <3>3, <3>4, <3>5, SMTT(30)
  <2>3. QED
    BY <2>1, <2>2, SMTT(30)
<1>7. ASSUME NEW p \in Producers, EnqueueSaturate(p) \/ EnqueueReject(p)
      PROVE  slots' + Cardinality(Holders)' + Len(ch') + Len(batch') = Capacity
  <2>1. Cardinality(Holders)' = Cardinality(Holders)
    BY <1>2, <1>7, HoldersKeep DEF EnqueueSaturate, EnqueueReject
  <2>2. UNCHANGED <<slots, ch, batch>>
    BY <1>7, Zenon DEF EnqueueSaturate, EnqueueReject
  <2>3. QED
    BY <1>3, <2>1, <2>2
<1>8. CASE Receive
  <2>1. ppc' = ppc /\ slots' = slots /\ batch = <<>>
    BY <1>2, <1>8, Zenon DEF Receive, BatchAccounted
  <2>2. \/ ch # <<>> /\ batch' = <<Head(ch)>> /\ ch' = Tail(ch)
        \/ UNCHANGED <<batch, ch>>
    BY <1>8, Zenon DEF Receive
  <2>3. /\ Len(ch) \in Nat /\ Len(batch) = 0
        /\ ch # <<>> => Len(<<Head(ch)>>) = 1 /\ Len(Tail(ch)) = Len(ch) - 1
    BY <1>2, <2>1, QueueFacts
  <2>4. /\ Len(ch') \in Int /\ Len(batch') \in Int
        /\ Len(ch') + Len(batch') = Len(ch) + Len(batch)
    <3>1. CASE UNCHANGED <<batch, ch>>
      BY <2>3, <3>1
    <3>2. CASE ch # <<>> /\ batch' = <<Head(ch)>> /\ ch' = Tail(ch)
      <4>1. Len(batch') = 1 /\ Len(ch') = Len(ch) - 1
        BY <2>3, <3>2, Zenon
      <4>2. QED
        BY <2>3, <4>1
    <3>3. QED
      BY <2>2, <3>1, <3>2, SMTT(30)
  <2>5. QED
    BY <1>3, <2>1, <2>3, <2>4, HoldersSame, SMTT(30)
<1>9. CASE Drain
  <2>1. ppc' = ppc /\ slots' = slots
    BY <1>9, Zenon DEF Drain
  <2>2. \/ ch # <<>> /\ batch' = Append(batch, Head(ch)) /\ ch' = Tail(ch)
        \/ UNCHANGED <<batch, ch>>
    BY <1>9, Zenon DEF Drain
  <2>3. /\ Len(ch) \in Nat /\ Len(batch) \in Nat
        /\ ch # <<>> => /\ Len(Append(batch, Head(ch))) = Len(batch) + 1
                       /\ Len(Tail(ch)) = Len(ch) - 1
    BY <1>2, QueueFacts, SMTT(30)
  <2>4. /\ Len(ch') \in Int /\ Len(batch') \in Int
        /\ Len(ch') + Len(batch') = Len(ch) + Len(batch)
    BY <2>2, <2>3, SMTT(30)
  <2>5. QED
    BY <1>3, <2>1, <2>3, <2>4, HoldersSame, SMTT(30)
<1>10. CASE Release
  <2>1. ppc' = ppc /\ ch' = ch
    BY <1>10, Zenon DEF Release
  <2>2. \/ batch # <<>> /\ batch' = Tail(batch) /\ slots' = slots + 1
        \/ UNCHANGED <<batch, slots>>
    BY <1>10, Zenon DEF Release
  <2>3. QED
    BY <1>2, <1>3, <2>1, <2>2, HoldersSame, QueueFacts, SMTT(30)
<1>11. CASE Quiet
  BY <1>3, <1>11, QuietFrame, HoldersSame, SMTT(30)
<1>12. QED
  BY <1>1, <1>5, <1>6, <1>7, <1>8, <1>9, <1>10, <1>11, StepCases, Zenon

\* Every step keeps the batch accounted for: an idle worker has no batch, and
\* tokens go back only for committed events.
LEMMA BatchStep == IInv /\ [Next]_vars => BatchAccounted'
<1>1. SUFFICES ASSUME IInv, [Next]_vars PROVE BatchAccounted'
  OBVIOUS
<1>2. TypeOK /\ BatchAccounted
  BY <1>1 DEF IInv
<1>3. ASSUME NEW p \in Producers,
             \/ \E e \in Events : EnqueueToken(p, e)
             \/ EnqueueSend(p) \/ EnqueueSaturate(p) \/ EnqueueReject(p)
      PROVE  BatchAccounted'
  <2>1. UNCHANGED <<wpc, batch, stored>>
    BY <1>3, Zenon DEF EnqueueToken, EnqueueSend, EnqueueSaturate, EnqueueReject
  <2>2. QED
    BY <1>2, <2>1 DEF BatchAccounted
<1>4. CASE Receive
  BY <1>2, <1>4, Zenon DEF BatchAccounted, Receive
<1>5. CASE Drain
  <2>1. wpc' \in {"drain", "store"}
    BY <1>5, Zenon DEF Drain
  <2>2. QED
    BY <2>1 DEF BatchAccounted
<1>6. CASE Release
  <2>1. CASE batch = <<>>
    <3>1. UNCHANGED <<batch, stored>> /\ wpc' \in {"recv", "done"}
      BY <1>6, <2>1, Zenon DEF Release
    <3>2. QED
      BY <2>1, <3>1 DEF BatchAccounted
  <2>2. CASE batch # <<>>
    <3>1. batch' = Tail(batch) /\ stored' = stored /\ wpc' = "release" /\ wpc = "release"
      BY <1>6, <2>2, Zenon DEF Release
    <3>2. Range(batch') \subseteq Range(batch)
      BY <1>2, <2>2, <3>1, RangeTail, SMTT(30) DEF TypeOK
    <3>3. QED
      BY <1>2, <3>1, <3>2 DEF BatchAccounted
  <2>3. QED
    BY <2>1, <2>2
<1>7. CASE Quiet
  <2>1. UNCHANGED batch /\ stored \subseteq stored'
    BY <1>7, QuietFrame
  <2>2. CASE StoreCommits
    <3>1. wpc' = "ok" /\ stored' = stored \cup Range(batch)
      BY <2>2, Zenon DEF StoreCommits
    <3>2. QED
      BY <2>1, <3>1 DEF BatchAccounted
  <2>3. CASE StoreSucceeded
    <3>1. wpc' = "release" /\ wpc = "ok"
      BY <2>3, Zenon DEF StoreSucceeded
    <3>2. QED
      BY <1>2, <2>1, <3>1 DEF BatchAccounted
  <2>4. CASE StoreFails \/ StoreFailed \/ NotifyFailure \/ Wait
    <3>1. wpc' \in {"err", "notify", "wait", "done", "store"}
      BY <2>4, Zenon DEF StoreFails, StoreFailed, NotifyFailure, Wait
    <3>2. QED
      BY <3>1 DEF BatchAccounted
  <2>5. CASE \/ CloseFlag \/ CloseChannel \/ ProbeRead \/ ProbeWrite
             \/ (\E e \in Referencing : DeleteReferenced(e)) \/ UNCHANGED vars
    <3>1. wpc' = wpc
      BY <2>5, Zenon
         DEF CloseFlag, CloseChannel, ProbeRead, ProbeWrite, DeleteReferenced, vars
    <3>2. QED
      BY <1>2, <2>1, <3>1 DEF BatchAccounted
  <2>6. QED
    BY <1>7, <2>2, <2>3, <2>4, <2>5, Zenon DEF Quiet
<1>8. QED
  BY <1>1, <1>3, <1>4, <1>5, <1>6, <1>7, StepCases, Zenon

\* No step loses an accepted event that has no row yet.
LEMMA NotLostStep == IInv /\ [Next]_vars => AcceptedNotLost'
<1>1. SUFFICES ASSUME IInv, [Next]_vars PROVE AcceptedNotLost'
  OBVIOUS
<1>2. TypeOK /\ OfferInHand /\ AcceptedNotLost /\ BatchAccounted
  BY <1>1 DEF IInv
<1>3. /\ ch \in Seq(Events) /\ batch \in Seq(Events) /\ acceptedSeq \in Seq(Events)
      /\ Range(acceptedSeq) \ stored \subseteq Range(ch) \cup Range(batch)
  BY <1>2 DEF TypeOK, AcceptedNotLost, accepted
<1>4. SUFFICES Range(acceptedSeq') \ stored' \subseteq Range(ch') \cup Range(batch')
  BY Zenon DEF AcceptedNotLost, accepted, Range
<1>5. ASSUME NEW p \in Producers,
             \/ \E e \in Events : EnqueueToken(p, e)
             \/ EnqueueSaturate(p) \/ EnqueueReject(p)
      PROVE  Range(acceptedSeq') \ stored' \subseteq Range(ch') \cup Range(batch')
  <2>1. UNCHANGED <<ch, batch, stored, acceptedSeq>>
    BY <1>5, Zenon DEF EnqueueToken, EnqueueSaturate, EnqueueReject
  <2>2. QED
    BY <1>3, <2>1
<1>6. ASSUME NEW p \in Producers, EnqueueSend(p)
      PROVE  Range(acceptedSeq') \ stored' \subseteq Range(ch') \cup Range(batch')
  <2>1. pev[p] \in Events
    BY <1>2, <1>6 DEF OfferInHand, EnqueueSend
  <2>2. /\ UNCHANGED <<batch, stored>>
        /\ \/ UNCHANGED <<ch, acceptedSeq>>
           \/ ch' = Append(ch, pev[p]) /\ acceptedSeq' = Append(acceptedSeq, pev[p])
    BY <1>6, Zenon DEF EnqueueSend
  <2>3. /\ Range(Append(ch, pev[p])) = Range(ch) \cup {pev[p]}
        /\ Range(Append(acceptedSeq, pev[p])) = Range(acceptedSeq) \cup {pev[p]}
    BY <1>3, <2>1, RangeAppend
  <2>4. QED
    BY <1>3, <2>2, <2>3, Zenon
<1>7. CASE Receive
  <2>1. /\ UNCHANGED <<stored, acceptedSeq>> /\ batch = <<>>
        /\ \/ UNCHANGED <<ch, batch>>
           \/ ch # <<>> /\ batch' = <<Head(ch)>> /\ ch' = Tail(ch)
    BY <1>2, <1>7, Zenon DEF Receive, BatchAccounted
  <2>2. CASE UNCHANGED <<ch, batch>>
    BY <1>3, <2>1, <2>2
  <2>3. CASE ch # <<>> /\ batch' = <<Head(ch)>> /\ ch' = Tail(ch)
    <3>1. Range(ch) = {Head(ch)} \cup Range(Tail(ch))
      BY <1>3, <2>3, RangeTail
    <3>2. Range(<<Head(ch)>>) = {Head(ch)} /\ Range(batch) = {}
      BY <2>1, RangeSmall, Zenon
    <3>3. QED
      BY <1>3, <2>1, <2>3, <3>1, <3>2, Zenon
  <2>4. QED
    BY <2>1, <2>2, <2>3
<1>8. CASE Drain
  <2>1. /\ UNCHANGED <<stored, acceptedSeq>>
        /\ \/ UNCHANGED <<ch, batch>>
           \/ ch # <<>> /\ batch' = Append(batch, Head(ch)) /\ ch' = Tail(ch)
    BY <1>8, Zenon DEF Drain
  <2>2. CASE UNCHANGED <<ch, batch>>
    BY <1>3, <2>1, <2>2
  <2>3. CASE ch # <<>> /\ batch' = Append(batch, Head(ch)) /\ ch' = Tail(ch)
    <3>1. Range(ch) = {Head(ch)} \cup Range(Tail(ch))
      BY <1>3, <2>3, RangeTail, SMTT(30)
    <3>2. Range(Append(batch, Head(ch))) = Range(batch) \cup {Head(ch)}
      BY <1>2, <1>3, <2>3, QueueFacts, RangeAppend, SMTT(30)
    <3>3. QED
      BY <1>3, <2>1, <2>3, <3>1, <3>2, Zenon
  <2>4. QED
    BY <2>1, <2>2, <2>3
<1>9. CASE Release
  <2>1. /\ UNCHANGED <<ch, stored, acceptedSeq>>
        /\ UNCHANGED batch \/ (batch # <<>> /\ Range(batch) \subseteq stored)
    BY <1>2, <1>9, Zenon DEF Release, BatchAccounted
  <2>2. QED
    BY <1>3, <2>1, Zenon
<1>10. CASE Quiet
  <2>1. UNCHANGED <<ch, batch, acceptedSeq>> /\ stored \subseteq stored'
    BY <1>10, QuietFrame, Zenon
  <2>2. QED
    BY <1>3, <2>1, Zenon
<1>11. QED
  BY <1>1, <1>5, <1>6, <1>7, <1>8, <1>9, <1>10, StepCases, Zenon
-----------------------------------------------------------------------------
(* The theorems. *)

\* IInv is an invariant of the pipeline.
THEOREM Inductive == Spec => []IInv
<1>1. IInv /\ [Next]_vars => IInv'
  BY TypeStep, OfferStep, ConservationStep, NotLostStep, BatchStep DEF IInv
<1>2. QED
  BY InitIInv, <1>1, PTL DEF Spec

\* Every variable of events.Pipeline keeps its type; in particular the number
\* of tokens never leaves 0..Capacity.
THEOREM TypeCorrect == Spec => []TypeOK
<1>1. IInv => TypeOK
  BY DEF IInv
<1>2. QED
  BY <1>1, Inductive, PTL

\* No token of p.slots is ever lost or minted, whatever Enqueue, the worker,
\* PostgreSQL and Close do.
THEOREM TokensConserved == Spec => []TokenConservation
<1>1. IInv => TokenConservation
  BY DEF IInv
<1>2. QED
  BY <1>1, Inductive, PTL

\* No path of run or storeOnce drops an accepted event that has no row yet.
THEOREM NothingLost == Spec => []AcceptedNotLost
<1>1. IInv => AcceptedNotLost
  BY DEF IInv
<1>2. QED
  BY <1>1, Inductive, PTL

\* Enqueue's give-back branch is dead and storeOnce never blocks on p.slots.
THEOREM RoomForTokens == Spec => []TokenMeansRoom
<1>1. IInv => TokenMeansRoom
  <2>1. SUFFICES ASSUME IInv PROVE TokenMeansRoom
    OBVIOUS
  <2>2. /\ TypeOK /\ slots \in Nat /\ Len(ch) \in Nat /\ Len(batch) \in Nat
        /\ Cardinality(Holders) \in Nat
        /\ slots + Cardinality(Holders) + Len(ch) + Len(batch) = Capacity
    BY <2>1, HoldersFinite, QueueFacts, SMTT(30) DEF IInv, TypeOK, TokenConservation
  <2>3. Holders # {} => Len(ch) < Capacity
    <3>1. Holders # {} => Cardinality(Holders) # 0
      BY HoldersFinite, FS_EmptySet
    <3>2. QED
      BY <2>2, <3>1
  <2>4. batch # <<>> => slots < Capacity
    <3>1. batch # <<>> => Len(batch) # 0
      BY <2>2, SMTT(30) DEF TypeOK
    <3>2. QED
      BY <2>2, <3>1
  <2>5. QED
    BY <2>3, <2>4, Zenon DEF TokenMeansRoom
<1>2. QED
  BY <1>1, Inductive, PTL

\* "A capacity token is released only after PostgreSQL commits its audit
\* record" (events.go:79): the queue never admits more uncommitted events than
\* its capacity, because each holds a token.
THEOREM TokensCoverUncommitted == Spec => []UncommittedHoldTokens
<1>1. IInv => UncommittedHoldTokens
  <2>1. SUFFICES ASSUME IInv PROVE UncommittedHoldTokens
    OBVIOUS
  <2>2. /\ TypeOK /\ slots \in Nat /\ Len(ch) \in Nat /\ Len(batch) \in Nat
        /\ Cardinality(Holders) \in Nat
        /\ slots + Cardinality(Holders) + Len(ch) + Len(batch) = Capacity
    BY <2>1, HoldersFinite, QueueFacts DEF IInv, TypeOK, TokenConservation
  <2>3. /\ IsFiniteSet(Range(ch)) /\ Cardinality(Range(ch)) <= Len(ch)
        /\ IsFiniteSet(Range(batch)) /\ Cardinality(Range(batch)) <= Len(batch)
    BY <2>2, RangeCardinality, SMTT(30) DEF TypeOK
  <2>4. /\ IsFiniteSet(Range(ch) \cup Range(batch))
        /\ Cardinality(Range(ch) \cup Range(batch)) <= Len(ch) + Len(batch)
    <3>1. /\ IsFiniteSet(Range(ch) \cup Range(batch))
          /\ IsFiniteSet(Range(ch) \cap Range(batch))
          /\ Cardinality(Range(ch) \cup Range(batch)) =
               Cardinality(Range(ch)) + Cardinality(Range(batch))
               - Cardinality(Range(ch) \cap Range(batch))
      BY <2>3, FS_Union, FS_Intersection, Zenon
    <3>2. /\ Cardinality(Range(ch)) \in Nat /\ Cardinality(Range(batch)) \in Nat
          /\ Cardinality(Range(ch) \cap Range(batch)) \in Nat
      BY <2>3, <3>1, FS_CardinalityType, SMTT(30)
    <3>3. QED
      BY <2>2, <2>3, <3>1, <3>2, SMTT(30)
  <2>5. /\ Cardinality(accepted \ stored) \in Nat
        /\ Cardinality(Range(ch) \cup Range(batch)) \in Nat
        /\ Cardinality(accepted \ stored) <= Cardinality(Range(ch) \cup Range(batch))
    BY <2>1, <2>4, FS_Subset, FS_CardinalityType, SMTT(30) DEF IInv, AcceptedNotLost
  <2>6. QED
    BY <2>2, <2>4, <2>5, SMTT(30) DEF UncommittedHoldTokens
<1>2. QED
  BY <1>1, Inductive, PTL
-----------------------------------------------------------------------------
(***************************************************************************)
(* The order of the rows.  StoredInOrder speaks of what is stored only; it *)
(* is kept because the batch and the channel are consecutive pieces of     *)
(* what Enqueue accepted, and a transaction stores the whole batch.        *)
(***************************************************************************)
First(n) == {acceptedSeq[i] : i \in 1..n}

\* How many of the accepted events have left the channel, and how many of these
\* have left the batch too.
Received == Len(acceptedSeq) - Len(ch)
Settled == Received - Len(batch)

\* No event is offered twice.
OnceOffered ==
  /\ \A i, j \in DOMAIN acceptedSeq : acceptedSeq[i] = acceptedSeq[j] => i = j
  /\ \A p \in Producers : ppc[p] # "idle" => pev[p] \notin accepted
  /\ \A p, q \in Producers :
       ppc[p] # "idle" /\ ppc[q] # "idle" /\ pev[p] = pev[q] => p = q

\* What is settled, the batch and the channel make up what was accepted.
InPlace ==
  /\ 0 <= Settled
  /\ \A i \in 1..Len(ch) : ch[i] = acceptedSeq[Received + i]
  /\ \A i \in 1..Len(batch) : batch[i] = acceptedSeq[Settled + i]

\* What is stored ends before the batch or behind it.
StoredPrefix ==
  /\ stored = First(Settled) \/ stored = First(Received)
  /\ wpc \in {"recv", "drain"} => stored = First(Settled)
  /\ wpc \in {"ok", "release"} => stored = First(Received)

\* Without a failure the worker only ends on a closed and empty channel.
CleanEnd ==
  /\ wpc \in {"err", "notify", "wait"} => everFailed
  /\ (final \/ wpc = "done") /\ ~everFailed => chClosed /\ ch = <<>>
  /\ wpc = "done" /\ ~everFailed => stored = First(Received)

OInv == OnceOffered /\ InPlace /\ StoredPrefix /\ CleanEnd

\* The pieces are counted in natural numbers.
LEMMA PieceFacts ==
  ASSUME TypeOK, InPlace
  PROVE  /\ Received \in Nat /\ Settled \in Nat /\ Len(acceptedSeq) \in Nat
         /\ Len(ch) \in Nat /\ Len(batch) \in Nat
         /\ Received + Len(ch) = Len(acceptedSeq)
         /\ Settled + Len(batch) = Received
<1>1. Len(ch) \in Nat /\ Len(batch) \in Nat /\ Len(acceptedSeq) \in Nat
  BY DEF TypeOK
<1> QED  BY <1>1 DEF InPlace, Settled, Received

\* EnqueueToken offers an event that nobody has offered before.
LEMMA OnceStep == IInv /\ OnceOffered /\ [Next]_vars => OnceOffered'
<1> SUFFICES ASSUME IInv, OnceOffered, [Next]_vars PROVE OnceOffered'
  OBVIOUS
<1>1. TypeOK /\ OfferInHand  BY DEF IInv
<1>2. /\ ppc \in [Producers -> {"idle", "token", "full", "notify"}]
      /\ pev \in [Producers -> Events \cup {NoEvent}]
      /\ acceptedSeq \in Seq(Events)
  BY <1>1 DEF TypeOK
<1>3. ASSUME UNCHANGED <<acceptedSeq, ppc, pev>> PROVE OnceOffered'
  BY <1>3 DEF OnceOffered, accepted
<1>4. ASSUME NEW p \in Producers, NEW e \in Events, EnqueueToken(p, e)
      PROVE  OnceOffered'
  <2>1. e \notin accepted /\ \A q \in Producers : pev[q] # e
    BY <1>2, <1>4, SMTT(30) DEF EnqueueToken, offered, Range
  <2>2. /\ acceptedSeq' = acceptedSeq
        /\ pev' = [pev EXCEPT ![p] = e]
        /\ \A q \in Producers : q # p => ppc'[q] = ppc[q]
    BY <1>2, <1>4, SMTT(30) DEF EnqueueToken
  <2>3. accepted' = accepted  BY <2>2 DEF accepted
  <2> QED  BY <1>2, <2>1, <2>2, <2>3, SMTT(30) DEF OnceOffered
<1>5. ASSUME NEW p \in Producers, EnqueueSend(p) PROVE OnceOffered'
  <2>1. CASE UNCHANGED <<acceptedSeq, pev>>
    <3>1. \A q \in Producers : ppc'[q] # "idle" => ppc[q] # "idle"
      BY <1>2, <1>5, <2>1, SMTT(30) DEF EnqueueSend
    <3>2. accepted' = accepted  BY <2>1, SMTT(30) DEF accepted
    <3> QED  BY <2>1, <3>1, <3>2, SMTT(30) DEF OnceOffered
  <2>2. CASE ~UNCHANGED <<acceptedSeq, pev>>
    <3>1. /\ acceptedSeq' = Append(acceptedSeq, pev[p])
          /\ ppc' = [ppc EXCEPT ![p] = "idle"]
          /\ pev' = [pev EXCEPT ![p] = NoEvent]
          /\ ppc[p] = "token"
      BY <1>5, <2>2, SMTT(30) DEF EnqueueSend
    <3>2. pev[p] \in Events  BY <1>1, <3>1, SMTT(30) DEF OfferInHand
    <3>3. accepted' = accepted \cup {pev[p]}
      BY <1>2, <3>1, <3>2, RangeAppend, SMTT(30) DEF accepted
    <3>4. pev[p] \notin accepted  BY <3>1 DEF OnceOffered
    <3>5. \A q \in Producers : ppc'[q] # "idle" =>
            q # p /\ ppc[q] # "idle" /\ pev'[q] = pev[q]
      BY <1>2, <3>1, SMTT(30)
    <3>6. \A q \in Producers : ppc'[q] # "idle" => pev'[q] # pev[p]
      BY <3>1, <3>5, SMTT(30) DEF OnceOffered
    <3>7. ASSUME NEW i \in DOMAIN acceptedSeq', NEW j \in DOMAIN acceptedSeq',
                 acceptedSeq'[i] = acceptedSeq'[j]
          PROVE  i = j
      <4>1. /\ DOMAIN acceptedSeq' = 1..(Len(acceptedSeq) + 1)
            /\ DOMAIN acceptedSeq = 1..Len(acceptedSeq) /\ Len(acceptedSeq) \in Nat
            /\ \A k \in 1..Len(acceptedSeq) : acceptedSeq'[k] = acceptedSeq[k]
            /\ acceptedSeq'[Len(acceptedSeq) + 1] = pev[p]
        BY <1>2, <3>1, <3>2, SMTT(30)
      <4>2. \A k \in DOMAIN acceptedSeq : acceptedSeq[k] # pev[p]
        BY <3>4, SMTT(30) DEF accepted, Range
      <4> QED  BY <3>7, <4>1, <4>2, SMTT(30) DEF OnceOffered
    <3> QED  BY <3>3, <3>5, <3>6, <3>7, SMTT(30) DEF OnceOffered
  <2> QED  BY <2>1, <2>2, SMTT(30)
<1>6. ASSUME NEW p \in Producers, EnqueueSaturate(p) \/ EnqueueReject(p)
      PROVE  OnceOffered'
  <2>1. /\ acceptedSeq' = acceptedSeq
        /\ \A q \in Producers : ppc'[q] # "idle" => ppc[q] # "idle" /\ pev'[q] = pev[q]
    BY <1>2, <1>6 DEF EnqueueSaturate, EnqueueReject
  <2>2. accepted' = accepted  BY <2>1 DEF accepted
  <2> QED  BY <2>1, <2>2, SMTT(30) DEF OnceOffered
<1>7. CASE Receive \/ Drain \/ Release
  BY <1>3, <1>7, Zenon DEF Receive, Drain, Release
<1>8. CASE Quiet
  BY <1>3, <1>8, QuietFrame, Zenon
<1> QED  BY <1>4, <1>5, <1>6, <1>7, <1>8, StepCases, Zenon

\* Enqueue's send adds the same event to both ends; the prefixes stay.
LEMMA SendMoves ==
  ASSUME TypeOK, InPlace, NEW e \in Events,
         ch' = Append(ch, e), acceptedSeq' = Append(acceptedSeq, e), batch' = batch
  PROVE  /\ InPlace'
         /\ Received' = Received /\ Settled' = Settled
         /\ First(Received)' = First(Received) /\ First(Settled)' = First(Settled)
<1>1. /\ ch \in Seq(Events) /\ acceptedSeq \in Seq(Events)
  BY DEF TypeOK
<1>2. /\ Len(ch') = Len(ch) + 1 /\ Len(acceptedSeq') = Len(acceptedSeq) + 1
      /\ \A i \in 1..Len(ch) : ch'[i] = ch[i]
      /\ \A i \in 1..Len(acceptedSeq) : acceptedSeq'[i] = acceptedSeq[i]
      /\ ch'[Len(ch) + 1] = e /\ acceptedSeq'[Len(acceptedSeq) + 1] = e
  BY <1>1
<1>3. /\ Received \in Nat /\ Settled \in Nat /\ Len(acceptedSeq) \in Nat
      /\ Len(ch) \in Nat /\ Len(batch) \in Nat
      /\ Received + Len(ch) = Len(acceptedSeq)
      /\ Settled + Len(batch) = Received
  BY PieceFacts
<1>4. Received' = Received /\ Settled' = Settled
  BY <1>2, <1>3 DEF Received, Settled
<1>5. \A i \in 1..Len(ch') : ch'[i] = acceptedSeq'[Received' + i]
  <2> SUFFICES ASSUME NEW i \in 1..Len(ch') PROVE ch'[i] = acceptedSeq'[Received + i]
    BY <1>4, Zenon
  <2>1. CASE i = Len(ch) + 1  BY <2>1, <1>2, <1>3, SMTT(30)
  <2>2. CASE i # Len(ch) + 1
    <3>1. i \in 1..Len(ch) /\ Received + i \in 1..Len(acceptedSeq)
      BY <2>2, <1>2, <1>3, SMTT(30)
    <3> QED  BY <3>1, <1>2, SMTT(30) DEF InPlace
  <2> QED  BY <2>1, <2>2, Zenon
<1>6. \A i \in 1..Len(batch') : batch'[i] = acceptedSeq'[Settled' + i]
  <2> SUFFICES ASSUME NEW i \in 1..Len(batch) PROVE batch[i] = acceptedSeq'[Settled + i]
    BY <1>4, ZenonT(60)
  <2>1. Settled + i \in 1..Len(acceptedSeq)  BY <1>3
  <2> QED  BY <2>1, <1>2, SMTT(30) DEF InPlace
<1>7. ASSUME NEW n \in 0..Len(acceptedSeq)
      PROVE  {acceptedSeq'[i] : i \in 1..n} = {acceptedSeq[i] : i \in 1..n}
  <2>1. \A i \in 1..n : acceptedSeq'[i] = acceptedSeq[i]  BY <1>2, <1>3, SMTT(30)
  <2> QED  BY <2>1
<1>8. First(Received)' = First(Received) /\ First(Settled)' = First(Settled)
  <2>1. Received \in 0..Len(acceptedSeq) /\ Settled \in 0..Len(acceptedSeq)  BY <1>3, SMTT(30)
  <2> QED  BY <1>4, <1>7, <2>1, SMTT(30) DEF First
<1> QED  BY <1>3, <1>4, <1>5, <1>6, <1>8, ZenonT(60) DEF InPlace

\* The worker takes the next event into the batch.
LEMMA TakeMoves ==
  ASSUME TypeOK, InPlace, ch # <<>>,
         ch' = Tail(ch), batch' = Append(batch, Head(ch)), acceptedSeq' = acceptedSeq
  PROVE  InPlace' /\ Received' = Received + 1 /\ Settled' = Settled
<1>1. ch \in Seq(Events) /\ batch \in Seq(Events)  BY SMTT(30) DEF TypeOK
<1>2. /\ Len(ch') = Len(ch) - 1 /\ Len(batch') = Len(batch) + 1 /\ Len(ch) >= 1
      /\ \A i \in 1..Len(ch') : ch'[i] = ch[i + 1]
      /\ \A i \in 1..Len(batch) : batch'[i] = batch[i]
      /\ batch'[Len(batch) + 1] = ch[1]
  BY <1>1, SMTT(30)
<1>3. /\ Received \in Nat /\ Settled \in Nat /\ Len(acceptedSeq) \in Nat
      /\ Len(ch) \in Nat /\ Len(batch) \in Nat
      /\ Received + Len(ch) = Len(acceptedSeq)
      /\ Settled + Len(batch) = Received
  BY PieceFacts, SMTT(30)
<1>4. Received' = Received + 1 /\ Settled' = Settled
  BY <1>2, <1>3, SMTT(30) DEF Received, Settled
<1>5. \A i \in 1..Len(ch') : ch'[i] = acceptedSeq[Received + 1 + i]
  <2> SUFFICES ASSUME NEW i \in 1..Len(ch') PROVE ch'[i] = acceptedSeq[Received + 1 + i]
    BY Zenon
  <2>1. i + 1 \in 1..Len(ch) /\ Received + (i + 1) = Received + 1 + i  BY <1>2, <1>3, SMTT(30)
  <2> QED  BY <2>1, <1>2 DEF InPlace
<1>6. \A i \in 1..Len(batch') : batch'[i] = acceptedSeq[Settled + i]
  <2> SUFFICES ASSUME NEW i \in 1..Len(batch') PROVE batch'[i] = acceptedSeq[Settled + i]
    BY Zenon
  <2>1. CASE i = Len(batch) + 1
    <3>1. 1 \in 1..Len(ch) /\ Settled + i = Received + 1  BY <2>1, <1>2, <1>3, SMTT(30)
    <3> QED  BY <2>1, <3>1, <1>2, SMTT(30) DEF InPlace
  <2>2. CASE i # Len(batch) + 1
    <3>1. i \in 1..Len(batch)  BY <2>2, <1>2, <1>3, SMTT(30)
    <3> QED  BY <3>1, <1>2 DEF InPlace
  <2> QED  BY <2>1, <2>2, SMTT(30)
<1> QED  BY <1>3, <1>4, <1>5, <1>6, SMTT(30) DEF InPlace

\* The worker returns the token of the first event of the batch.
LEMMA ReturnMoves ==
  ASSUME TypeOK, InPlace, batch # <<>>,
         ch' = ch, batch' = Tail(batch), acceptedSeq' = acceptedSeq
  PROVE  InPlace' /\ Received' = Received /\ Settled' = Settled + 1
<1>1. batch \in Seq(Events)  BY DEF TypeOK
<1>2. /\ Len(batch') = Len(batch) - 1 /\ Len(batch) >= 1
      /\ \A i \in 1..Len(batch') : batch'[i] = batch[i + 1]
  BY <1>1
<1>3. /\ Received \in Nat /\ Settled \in Nat /\ Len(acceptedSeq) \in Nat
      /\ Len(ch) \in Nat /\ Len(batch) \in Nat
      /\ Received + Len(ch) = Len(acceptedSeq)
      /\ Settled + Len(batch) = Received
  BY PieceFacts, SMTT(30)
<1>4. Received' = Received /\ Settled' = Settled + 1
  BY <1>2, <1>3, SMTT(30) DEF Received, Settled
<1>5. \A i \in 1..Len(batch') : batch'[i] = acceptedSeq[Settled + 1 + i]
  <2> SUFFICES ASSUME NEW i \in 1..Len(batch') PROVE batch'[i] = acceptedSeq[Settled + 1 + i]
    BY Zenon
  <2>1. i + 1 \in 1..Len(batch) /\ Settled + (i + 1) = Settled + 1 + i  BY <1>2, <1>3, SMTT(30)
  <2> QED  BY <2>1, <1>2, SMTT(30) DEF InPlace
<1> QED  BY <1>3, <1>4, <1>5, SMTT(30) DEF InPlace

\* Storing the whole batch extends the stored prefix to its end.
LEMMA BatchExtends ==
  ASSUME TypeOK, InPlace, stored = First(Settled) \/ stored = First(Received)
  PROVE  stored \cup Range(batch) = First(Received)
<1>1. /\ Received \in Nat /\ Settled \in Nat /\ Len(batch) \in Nat
      /\ Settled + Len(batch) = Received
  BY PieceFacts, SMTT(30)
<1>2. Range(batch) = {acceptedSeq[Settled + i] : i \in 1..Len(batch)}
  <2>1. DOMAIN batch = 1..Len(batch)  BY SMTT(30) DEF TypeOK
  <2> QED  BY <2>1, SMTT(30) DEF Range, InPlace
<1>3. First(Settled) \cup Range(batch) = First(Received)
  <2>1. First(Settled) \subseteq First(Received)  BY <1>1, SMTT(30) DEF First
  <2>2. Range(batch) \subseteq First(Received)
    <3>1. \A i \in 1..Len(batch) : Settled + i \in 1..Received  BY <1>1, SMTT(30)
    <3> QED  BY <1>2, <3>1, SMTT(30) DEF First
  <2>3. ASSUME NEW i \in 1..Received
        PROVE  acceptedSeq[i] \in First(Settled) \cup Range(batch)
    <3>1. CASE i <= Settled  BY <3>1, <1>1, SMTT(30) DEF First
    <3>2. CASE ~(i <= Settled)
      <4>1. i - Settled \in 1..Len(batch) /\ Settled + (i - Settled) = i
        BY <3>2, <1>1, SMTT(30)
      <4> QED  BY <4>1, <1>2, SMTT(30)
    <3> QED  BY <3>1, <3>2, SMTT(30)
  <2> QED  BY <2>1, <2>2, <2>3, SMTT(30) DEF First
<1>4. First(Settled) \subseteq First(Received)  BY <1>3, SMTT(30)
<1> QED  BY <1>3, <1>4, SMTT(30)

\* A step that moves no event keeps the pieces.
LEMMA PiecesSame ==
  ASSUME UNCHANGED <<ch, batch, acceptedSeq>>
  PROVE  /\ InPlace => InPlace'
         /\ Received' = Received /\ Settled' = Settled
         /\ First(Received)' = First(Received) /\ First(Settled)' = First(Settled)
  BY SMTT(30) DEF InPlace, Received, Settled, First

\* Enqueue leaves the order alone: it sends only into a channel that is open.
LEMMA EnqueueOrder ==
  ASSUME IInv, InPlace, StoredPrefix, CleanEnd, NEW p \in Producers,
         \/ \E e \in Events : EnqueueToken(p, e)
         \/ EnqueueSend(p) \/ EnqueueSaturate(p) \/ EnqueueReject(p)
  PROVE  InPlace' /\ StoredPrefix' /\ CleanEnd'
<1>1. TypeOK /\ OfferInHand  BY DEF IInv
<1>2. UNCHANGED <<wpc, stored, everFailed, final, chClosed, batch>>
  BY ZenonT(60) DEF EnqueueToken, EnqueueSend, EnqueueSaturate, EnqueueReject
<1>3. CASE UNCHANGED <<ch, acceptedSeq>>
  <2>1. UNCHANGED <<ch, batch, acceptedSeq>>  BY <1>2, <1>3, SMTT(30)
  <2> QED  BY <1>2, <1>3, <2>1, PiecesSame, SMTT(30) DEF StoredPrefix, CleanEnd
<1>4. CASE ~UNCHANGED <<ch, acceptedSeq>>
  <2>1. /\ ~chClosed /\ ppc[p] = "token"
        /\ ch' = Append(ch, pev[p]) /\ acceptedSeq' = Append(acceptedSeq, pev[p])
    BY <1>4, ZenonT(60) DEF EnqueueToken, EnqueueSend, EnqueueSaturate, EnqueueReject
  <2>2. pev[p] \in Events  BY <1>1, <2>1, SMTT(30) DEF OfferInHand
  <2>3. /\ InPlace'
        /\ Received' = Received /\ Settled' = Settled
        /\ First(Received)' = First(Received) /\ First(Settled)' = First(Settled)
    BY <1>1, <1>2, <2>1, <2>2, SendMoves, SMTT(30)
  <2>4. StoredPrefix'  BY <1>2, <2>3, SMTT(30) DEF StoredPrefix
  <2>5. CleanEnd'  BY <1>2, <2>1, <2>3, SMTT(30) DEF CleanEnd
  <2> QED  BY <2>3, <2>4, <2>5, SMTT(30)
<1> QED  BY <1>3, <1>4, SMTT(30)

\* run takes events in the order of the channel.
LEMMA TakeOrder ==
  ASSUME IInv, InPlace, StoredPrefix, CleanEnd, Receive \/ Drain
  PROVE  InPlace' /\ StoredPrefix' /\ CleanEnd'
<1>1. TypeOK /\ BatchAccounted  BY DEF IInv
<1>2. UNCHANGED <<stored, everFailed, chClosed, acceptedSeq>> /\ wpc \in {"recv", "drain"}
  BY Zenon DEF Receive, Drain
<1>3. stored = First(Settled)  BY <1>2, SMTT(30) DEF StoredPrefix
<1>4. CASE UNCHANGED <<ch, batch>>
  <2>1. /\ InPlace' /\ Received' = Received /\ Settled' = Settled
        /\ First(Received)' = First(Received) /\ First(Settled)' = First(Settled)
    BY <1>2, <1>4, PiecesSame, SMTT(30)
  <2>2. CASE Receive
    <3>1. /\ batch = <<>> /\ final' = final
          /\ \/ wpc' = "done" /\ ch = <<>> /\ chClosed
             \/ ch # <<>> /\ ch' = Tail(ch)
      BY <1>1, <2>2, ZenonT(60) DEF Receive, BatchAccounted
    <3>2. ~(ch # <<>> /\ ch' = Tail(ch))
      BY <1>1, <1>4, QueueFacts, SMTT(30)
    <3>3. Settled = Received
      BY <3>1, PieceFacts, <1>1, SMTT(30)
    <3> QED  BY <1>2, <1>3, <1>4, <2>1, <3>1, <3>2, <3>3, SMTT(30)
               DEF StoredPrefix, CleanEnd
  <2>3. CASE Drain
    <3>1. wpc' = "store" /\ (final' => chClosed /\ ch = <<>>)
      <4>1. ~(ch # <<>> /\ ch' = Tail(ch))  BY <1>1, <1>4, QueueFacts
      <4> QED  BY <2>3, <4>1, ZenonT(60) DEF Drain
    <3> QED  BY <1>2, <1>3, <1>4, <2>1, <3>1, SMTT(30) DEF StoredPrefix, CleanEnd
  <2> QED  BY <2>2, <2>3, SMTT(30)
<1>5. CASE ~UNCHANGED <<ch, batch>>
  <2>1. /\ ch # <<>> /\ ch' = Tail(ch) /\ batch' = Append(batch, Head(ch))
        /\ wpc' = "drain" /\ final' = final
    <3>1. CASE Drain  BY <1>5, <3>1, Zenon DEF Drain
    <3>2. CASE Receive
      <4>1. /\ batch = <<>> /\ ch # <<>> /\ ch' = Tail(ch) /\ batch' = <<Head(ch)>>
            /\ wpc' = "drain" /\ final' = final
        BY <1>1, <1>5, <3>2, Zenon DEF Receive, BatchAccounted
      <4>2. batch' = Append(batch, Head(ch))
        <5>1. Append(<<>>, Head(ch)) = <<Head(ch)>>  OBVIOUS
        <5> QED  BY <4>1, <5>1, Zenon
      <4> QED  BY <4>1, <4>2
    <3> QED  BY <3>1, <3>2
  <2>2. InPlace' /\ Received' = Received + 1 /\ Settled' = Settled
    BY <1>1, <1>2, <2>1, TakeMoves, SMTT(30)
  <2>3. First(Settled)' = First(Settled)  BY <1>2, <2>2, SMTT(30) DEF First
  <2>4. StoredPrefix'  BY <1>2, <1>3, <2>1, <2>2, <2>3, SMTT(30) DEF StoredPrefix
  <2>5. CleanEnd'  BY <1>2, <2>1, SMTT(30) DEF CleanEnd
  <2> QED  BY <2>2, <2>4, <2>5, SMTT(30)
<1> QED  BY <1>4, <1>5, SMTT(30)

\* storeOnce returns the tokens of a batch that is stored.
LEMMA ReleaseOrder ==
  ASSUME IInv, InPlace, StoredPrefix, CleanEnd, Release
  PROVE  InPlace' /\ StoredPrefix' /\ CleanEnd'
<1>1. TypeOK  BY DEF IInv
<1>2. /\ UNCHANGED <<ch, stored, everFailed, final, chClosed, acceptedSeq>>
      /\ wpc = "release"
  BY Zenon DEF Release
<1>3. stored = First(Received)  BY <1>2, SMTT(30) DEF StoredPrefix
<1>4. CASE batch = <<>>
  <2>1. batch' = batch /\ wpc' \in {"done", "recv"} /\ (wpc' = "done" => final)
    BY <1>4, Zenon DEF Release
  <2>2. /\ InPlace' /\ Received' = Received /\ Settled' = Settled
        /\ First(Received)' = First(Received) /\ First(Settled)' = First(Settled)
    BY <1>2, <2>1, PiecesSame, SMTT(30)
  <2>3. Settled = Received  BY <1>1, <1>4, PieceFacts, SMTT(30)
  <2> QED  BY <1>2, <1>3, <2>1, <2>2, <2>3, SMTT(30) DEF StoredPrefix, CleanEnd
<1>5. CASE batch # <<>>
  <2>1. batch' = Tail(batch) /\ wpc' = "release"  BY <1>2, <1>5, Zenon DEF Release
  <2>2. InPlace' /\ Received' = Received
    BY <1>1, <1>2, <1>5, <2>1, ReturnMoves, SMTT(30)
  <2>3. First(Received)' = First(Received)  BY <1>2, <2>2 DEF First
  <2> QED  BY <1>2, <1>3, <2>1, <2>2, <2>3, SMTT(30) DEF StoredPrefix, CleanEnd
<1> QED  BY <1>4, <1>5

\* A transaction stores the batch or nothing; what it says does not matter.
LEMMA QuietOrder ==
  ASSUME IInv, InPlace, StoredPrefix, CleanEnd, Quiet
  PROVE  InPlace' /\ StoredPrefix' /\ CleanEnd'
<1>1. TypeOK  BY DEF IInv
<1>2. /\ InPlace' /\ Received' = Received /\ Settled' = Settled /\ ch' = ch
      /\ First(Received)' = First(Received) /\ First(Settled)' = First(Settled)
  BY QuietFrame, PiecesSame, SMTT(30)
<1>3. stored \cup Range(batch) = First(Received)
  BY <1>1, BatchExtends, SMTT(30) DEF StoredPrefix
<1>4. CASE StoreCommits
  <2>1. /\ wpc = "store" /\ wpc' = "ok" /\ stored' = stored \cup Range(batch)
        /\ UNCHANGED <<everFailed, final, chClosed>>
    BY <1>4, Zenon DEF StoreCommits
  <2> QED  BY <1>2, <1>3, <2>1 DEF StoredPrefix, CleanEnd
<1>5. CASE StoreFails
  <2>1. /\ wpc' = "err" /\ everFailed'
        /\ stored' = stored \/ stored' = stored \cup Range(batch)
    BY <1>5, Zenon DEF StoreFails
  <2> QED  BY <1>2, <1>3, <2>1, Zenon DEF StoredPrefix, CleanEnd
<1>6. CASE StoreSucceeded
  <2>1. wpc = "ok" /\ wpc' = "release" /\ UNCHANGED <<stored, everFailed, final, chClosed>>
    BY <1>6, Zenon DEF StoreSucceeded
  <2> QED  BY <1>2, <2>1 DEF StoredPrefix, CleanEnd
<1>7. CASE StoreFailed \/ NotifyFailure \/ Wait
  <2>1. /\ wpc \in {"err", "notify", "wait"} /\ wpc' \in {"notify", "wait", "done", "store"}
        /\ UNCHANGED <<stored, everFailed>>
    BY <1>7, Zenon DEF StoreFailed, NotifyFailure, Wait
  <2> QED  BY <1>2, <2>1 DEF StoredPrefix, CleanEnd
<1>8. CASE \/ CloseFlag \/ CloseChannel \/ ProbeRead \/ ProbeWrite
           \/ (\E e \in Referencing : DeleteReferenced(e)) \/ UNCHANGED vars
  <2>1. /\ UNCHANGED <<wpc, stored, everFailed, final>>
        /\ chClosed' = chClosed \/ chClosed' = TRUE
    BY <1>8, Zenon
      DEF CloseFlag, CloseChannel, ProbeRead, ProbeWrite, DeleteReferenced, vars
  <2> QED  BY <1>2, <2>1 DEF StoredPrefix, CleanEnd
<1> QED  BY <1>4, <1>5, <1>6, <1>7, <1>8, Zenon DEF Quiet

\* The stored prefix, and the pieces behind it, in every reachable state.
LEMMA OrderInvariance == Spec => []OInv
<1>1. Init => OInv
  <2> SUFFICES ASSUME Init PROVE OInv  OBVIOUS
  <2>1. Len(ch) = 0 /\ Len(batch) = 0 /\ Len(acceptedSeq) = 0  BY DEF Init
  <2>2. Received = 0 /\ Settled = 0  BY <2>1 DEF Received, Settled
  <2>3. InPlace  BY <2>1, <2>2, SMTT(30) DEF InPlace
  <2>4. First(0) = {}  BY SMTT(30) DEF First
  <2>5. OnceOffered  BY RangeSmall DEF Init, OnceOffered, accepted
  <2> QED  BY <2>2, <2>3, <2>4, <2>5, SMTT(30) DEF Init, OInv, StoredPrefix, CleanEnd
<1>2. IInv /\ OInv /\ [Next]_vars => OInv'
  <2> SUFFICES ASSUME IInv, OInv, [Next]_vars PROVE OInv'  OBVIOUS
  <2>1. OnceOffered /\ InPlace /\ StoredPrefix /\ CleanEnd  BY DEF OInv
  <2>2. OnceOffered'  BY <2>1, OnceStep
  <2>3. InPlace' /\ StoredPrefix' /\ CleanEnd'
    BY <2>1, EnqueueOrder, TakeOrder, ReleaseOrder, QuietOrder, StepCases, ZenonT(60)
  <2> QED  BY <2>2, <2>3 DEF OInv
<1> QED  BY <1>1, <1>2, Inductive, PTL DEF Spec

\* PostgreSQL gets the events in the order of Enqueue, through every failure and
\* repetition of a batch; and a worker that never saw a failure ends, on Close,
\* with every accepted event stored.
THEOREM RowsInOrder == Spec => []StoredInOrder
<1>1. IInv /\ OInv => StoredInOrder
  <2> SUFFICES ASSUME IInv, OInv PROVE StoredInOrder  OBVIOUS
  <2>1. TypeOK /\ OnceOffered /\ InPlace /\ StoredPrefix /\ CleanEnd  BY DEF IInv, OInv
  <2>2. /\ Received \in Nat /\ Settled \in Nat /\ Len(acceptedSeq) \in Nat
        /\ Received <= Len(acceptedSeq) /\ Settled <= Received
        /\ Len(ch) \in Nat /\ Received + Len(ch) = Len(acceptedSeq)
    BY <2>1, PieceFacts, SMTT(30)
  <2>3. DOMAIN acceptedSeq = 1..Len(acceptedSeq)  BY <2>1, SMTT(30) DEF TypeOK
  <2>4. ASSUME NEW n \in 0..Len(acceptedSeq), stored = First(n),
               NEW i \in DOMAIN acceptedSeq, NEW j \in DOMAIN acceptedSeq,
               i < j, acceptedSeq[j] \in stored
        PROVE  acceptedSeq[i] \in stored
    <3>1. PICK k \in 1..n : acceptedSeq[j] = acceptedSeq[k]  BY <2>4, SMTT(30) DEF First
    <3>2. k \in DOMAIN acceptedSeq  BY <2>2, <2>3, SMTT(30)
    <3>3. k = j  BY <2>1, <3>1, <3>2, SMTT(30) DEF OnceOffered
    <3>4. i \in 1..n  BY <2>2, <2>3, <2>4, <3>3, SMTT(30)
    <3> QED  BY <2>4, <3>4, SMTT(30) DEF First
  <2>5. PICK n \in 0..Len(acceptedSeq) : stored = First(n)
    BY <2>1, <2>2, SMTT(30) DEF StoredPrefix
  <2>6. ASSUME wpc = "done", ~everFailed PROVE accepted \subseteq stored
    <3>1. ch = <<>> /\ stored = First(Received)  BY <2>1, <2>6, SMTT(30) DEF CleanEnd
    <3>2. Received = Len(acceptedSeq)  BY <2>2, <3>1
    <3> QED  BY <2>3, <3>1, <3>2, SMTT(30) DEF accepted, Range, First
  <2> QED  BY <2>4, <2>5, <2>6, SMTT(30) DEF StoredInOrder
<1> QED  BY <1>1, Inductive, OrderInvariance, PTL
=============================================================================
