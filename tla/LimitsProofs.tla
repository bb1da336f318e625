---------------------------- MODULE LimitsProofs ----------------------------
(***************************************************************************)
(* Proofs about the two limits on calls: RateLimit, for every rate, burst, *)
(* skew and number of gateways, and the circuit breaker of the auditor.    *)
(***************************************************************************)
EXTENDS RateLimit, CircuitBreaker, FiniteSetTheorems, TLAPS

\* Facts of arithmetic, so that elsewhere products of variables are atoms.
LEMMA Grows == \A r \in Nat : \A a, b \in Int : a <= b => r * a <= r * b
<1> SUFFICES ASSUME NEW r \in Nat, NEW a \in Int, NEW b \in Int, a <= b
             PROVE  r * a <= r * b
  OBVIOUS
<1>1. b - a \in Nat  BY SMT
<1>2. r * (b - a) >= 0  BY <1>1, SMT
<1>3. r * (b - a) = r * b - r * a  BY SMT
<1> QED  BY <1>2, <1>3, SMT

\* A quotient that is rounded up.
LEMMA CeilingReaches ==
  ASSUME NEW n \in Nat, NEW d \in Nat, d # 0
  PROVE  /\ Ceiling(n, d) \in Int
         /\ d * Ceiling(n, d) >= n
<1> DEFINE q == (n + d - 1) \div d
           m == (n + d - 1) % d
<1>1. q \in Int /\ m \in 0..(d - 1)  BY SMT
<1>2. n + d - 1 = d * q + m  BY SMT
<1> QED  BY <1>1, <1>2, SMT DEF Ceiling
-----------------------------------------------------------------------------
Contents == [tokens : Int, at : Int]

\* The types, that no bucket holds more than the burst, and that nothing is
\* counted before the observation begins.
Typed ==
  /\ time \in Nat /\ expires \in Int
  /\ bucket \in [Buckets -> Contents \cup {None}]
  /\ \A b \in Buckets : bucket[b] # None => bucket[b].tokens <= Full
  /\ since \in Nat \cup {None} /\ lost \in Nat
  /\ admitted \in [Buckets -> Nat]
  /\ since # None => since <= time
  /\ since = None => \A b \in Buckets : admitted[b] = 0

\* What was admitted from a shared bucket that Redis lost.
Lost(b) == IF b = Shared THEN lost * (Full + Rate * (Lag + Lead)) ELSE 0

\* What a bucket admitted, and what it holds, comes from a full bucket, from the
\* ones that were lost and from the time it was filled for since the first moment
\* that a caller in the period may name.
Accounted(b, lag) ==
  bucket[b] # None /\ since # None =>
    IF bucket[b].at < since - lag THEN admitted[b] = 0
    ELSE admitted[b] * Second + bucket[b].tokens
           <= Full + Lost(b) + Rate * (bucket[b].at - (since - lag))

\* The bucket of a gateway is never in debt, and is there once it was used.
LocalInv ==
  \A g \in Gateways :
    /\ bucket[g] # None => /\ 0 <= bucket[g].tokens
                           /\ bucket[g].at <= time
    /\ bucket[g] = None => admitted[g] = 0
    /\ Accounted(g, 0)

\* The time of the last call of the script.
Called == expires - Lifetime

\* The shared bucket is in debt at most for the time by which an earlier caller
\* was ahead; and when its key expires the rate has made up for what it admitted.
SharedInv ==
  /\ bucket[Shared] # None =>
       /\ Called <= time
       /\ bucket[Shared].at <= Called + Lead
       /\ 0 <= bucket[Shared].tokens + Rate * (Called + Lead - bucket[Shared].at)
  /\ bucket[Shared] = None /\ since # None =>
       admitted[Shared] * Second <= Lost(Shared) + Rate * (time - since)
  /\ Accounted(Shared, Lag)

IInv == Typed /\ LocalInv /\ SharedInv
-----------------------------------------------------------------------------
\* What follows from the assumptions; Lifetime is the script's PEXPIRE.
LEMMA Constants ==
  /\ Full \in Nat /\ Second \in Nat /\ Rate \in Nat /\ Lag \in Nat /\ Lead \in Nat
  /\ Second > 0 /\ Rate > 0
  /\ Lifetime \in Int /\ 2 * Full <= Rate * Lifetime
  /\ Rate * (Lag + Lead) <= Full
<1>1. Full \in Nat  BY RateLimitAssumption, SMT DEF Full
<1>2. 2 * Full \in Nat /\ Rate \in Nat /\ Rate # 0  BY <1>1, RateLimitAssumption, SMT
<1>3. Lifetime \in Int /\ 2 * Full <= Rate * Lifetime
  BY <1>2, CeilingReaches DEF Lifetime
<1> QED  BY <1>1, <1>3, RateLimitAssumption, SkewAssumption, SMT DEF Full

\* A loss of the data adds a full bucket and the skew.
LEMMA LostCounts ==
  ASSUME Typed, NEW b \in Buckets
  PROVE  /\ Lost(b) \in Nat
         /\ lost' = lost => Lost(b)' = Lost(b)
         /\ lost' = lost + 1 => Lost(Shared)' = Lost(Shared) + Full + Rate * (Lag + Lead)
<1> DEFINE each == Full + Rate * (Lag + Lead)
<1>1. each \in Nat  BY Constants, SMT
<1>2. lost \in Nat  BY DEF Typed
<1> HIDE DEF each
<1>3. lost * each \in Nat /\ (lost + 1) * each = lost * each + each
  BY <1>1, <1>2, SMT
<1>4. Lost(b) = IF b = Shared THEN lost * each ELSE 0  BY Zenon DEF Lost, each
<1>5. Lost(b)' = IF b = Shared THEN lost' * each ELSE 0
  BY SMT DEF Lost, each, Full
<1>6. Lost(Shared) = lost * each /\ Lost(Shared)' = lost' * each
  BY SMT DEF Lost, each, Full
<1>7. Lost(b) \in Nat /\ (lost' = lost => Lost(b)' = Lost(b))
  BY <1>3, <1>4, <1>5, SMT
<1>8. ASSUME lost' = lost + 1 PROVE Lost(Shared)' = Lost(Shared) + each
  BY <1>3, <1>6, <1>8, Zenon
<1>9. ASSUME lost' = lost + 1
      PROVE  Lost(Shared)' = Lost(Shared) + Full + Rate * (Lag + Lead)
  <2>1. Lost(Shared) \in Nat  BY <1>3, <1>6, Zenon
  <2>2. Rate * (Lag + Lead) \in Int  BY Constants, SMT
  <2> QED  BY <1>8, <1>9, <2>1, <2>2, Constants, SMT DEF each
<1> QED  BY <1>7, <1>9, Zenon

\* What a caller finds in a bucket, and leaves there.
LEMMA FillsAndTakes ==
  ASSUME Typed, NEW b \in Buckets, NEW now \in Int
  PROVE  /\ Filled(b, now) \in Int /\ Left(b, now) \in Int
         /\ Filled(b, now) <= Full
         /\ bucket[b] = None => Filled(b, now) = Full
         /\ bucket[b] # None =>
              /\ bucket[b].tokens \in Int /\ bucket[b].at \in Int
              /\ Filled(b, now) <= bucket[b].tokens + Rate * (now - bucket[b].at)
              /\ \/ Filled(b, now) = Full
                 \/ Filled(b, now) = bucket[b].tokens + Rate * (now - bucket[b].at)
         /\ IF Filled(b, now) >= Second THEN Left(b, now) = Filled(b, now) - Second
            ELSE Left(b, now) = Filled(b, now)
         /\ Left(b, now) <= Filled(b, now)
<1>1. CASE bucket[b] = None
  BY <1>1, Constants, SMTT(30) DEF Filled, Left
<1>2. CASE bucket[b] # None
  <2>1. bucket[b] \in Contents  BY <1>2 DEF Typed
  <2>2. bucket[b].tokens \in Int /\ bucket[b].at \in Int  BY <2>1 DEF Contents
  <2>3. (now - bucket[b].at) * Rate \in Int
        /\ (now - bucket[b].at) * Rate = Rate * (now - bucket[b].at)
    BY <2>2, Constants, SMT
  <2> QED  BY <1>2, <2>2, <2>3, Constants, SMT DEF Filled, Left, Least
<1> QED  BY <1>1, <1>2

\* A caller who names a time of the period keeps the account.
LEMMA TakeAccounted ==
  ASSUME Typed, NEW b \in Buckets, NEW now \in Int, NEW lag \in Nat,
         Accounted(b, lag),
         bucket'[b] = [tokens |-> Left(b, now), at |-> now],
         since' = since, lost' = lost,
         admitted'[b] \in Nat,
         admitted'[b] * Second + Left(b, now) <= admitted[b] * Second + Filled(b, now),
         since # None => since - lag <= now,
         bucket[b] = None /\ since # None =>
           admitted[b] * Second <= Lost(b) + Rate * (now - (since - lag))
  PROVE  Accounted(b, lag)'
<1> SUFFICES ASSUME since # None
             PROVE  admitted'[b] * Second + Left(b, now)
                      <= Full + Lost(b) + Rate * (now - (since - lag))
  BY LostCounts, SMT DEF Accounted, Typed
<1> DEFINE start == since - lag
<1>1. since \in Nat /\ start \in Int /\ start <= now /\ admitted[b] \in Nat
  BY SMT DEF Typed
<1>2. admitted[b] * Second \in Int /\ admitted'[b] * Second \in Int /\ Rate * (now - start) \in Int
  BY <1>1, Constants, SMT
<1>3. Filled(b, now) \in Int /\ Left(b, now) \in Int /\ Filled(b, now) <= Full
      /\ Lost(b) \in Nat
  BY FillsAndTakes, LostCounts
<1>4. CASE bucket[b] = None
  BY <1>2, <1>3, <1>4, Constants, SMT
<1>5. CASE bucket[b] # None
  <2>1. bucket[b].tokens \in Int /\ bucket[b].at \in Int
        /\ Filled(b, now) <= bucket[b].tokens + Rate * (now - bucket[b].at)
    BY <1>5, FillsAndTakes
  <2>2. CASE bucket[b].at < start
    <3>1. admitted[b] = 0  BY <1>5, <2>2 DEF Accounted
    <3>2. Rate * (now - start) >= 0  BY <1>1, Constants, SMT
    <3> QED  BY <3>1, <3>2, <1>2, <1>3, Constants, SMT
  <2>3. CASE ~(bucket[b].at < start)
    <3>1. admitted[b] * Second + bucket[b].tokens
            <= Full + Lost(b) + Rate * (bucket[b].at - start)
      BY <1>5, <2>3 DEF Accounted
    <3>2. Rate * (bucket[b].at - start) + Rate * (now - bucket[b].at) = Rate * (now - start)
      BY <1>1, <2>1, Constants, SMT
    <3>3. Rate * (bucket[b].at - start) \in Int /\ Rate * (now - bucket[b].at) \in Int
      BY <1>1, <2>1, Constants, SMT
    <3> QED  BY <3>1, <3>2, <3>3, <2>1, <1>2, <1>3, Constants, SMT
  <2> QED  BY <2>2, <2>3
<1> QED  BY <1>4, <1>5

\* Taking a token keeps what the types say of the buckets.
LEMMA TakeTyped ==
  ASSUME Typed, NEW b \in Buckets, NEW now \in Int, Takes(b, now)
  PROVE  /\ bucket' \in [Buckets -> Contents \cup {None}]
         /\ bucket'[b] = [tokens |-> Left(b, now), at |-> now]
         /\ bucket'[b] # None
         /\ bucket'[b].tokens = Left(b, now) /\ bucket'[b].at = now
         /\ \A c \in Buckets : c # b => bucket'[c] = bucket[c]
         /\ \A c \in Buckets : bucket'[c] # None => bucket'[c].tokens <= Full
<1> DEFINE new == [tokens |-> Left(b, now), at |-> now]
<1>1. Left(b, now) \in Int /\ Left(b, now) <= Full
  BY FillsAndTakes, Constants, SMT
<1>2. new \in Contents  BY <1>1 DEF Contents
<1>3. new # None  BY <1>2, RateLimitAssumption DEF Contents
<1>4. bucket' = [bucket EXCEPT ![b] = new]  BY DEF Takes
<1>5. /\ bucket' \in [Buckets -> Contents \cup {None}]
      /\ bucket'[b] = new
      /\ \A c \in Buckets : c # b => bucket'[c] = bucket[c]
  <2> HIDE DEF new
  <2> QED  BY <1>2, <1>4 DEF Typed
<1>6. bucket'[b].tokens = Left(b, now) /\ bucket'[b].at = now  BY <1>5
<1>7. \A c \in Buckets : bucket'[c] # None => bucket'[c].tokens <= Full
  BY <1>1, <1>5, <1>6 DEF Typed
<1> QED  BY <1>3, <1>5, <1>6, <1>7

\* What the answer of a bucket counts.
LEMMA AnswerCounted ==
  ASSUME Typed, NEW b \in Buckets, NEW now \in Int, Answers(b, now)
  PROVE  /\ admitted' \in [Buckets -> Nat]
         /\ admitted'[b] * Second + Left(b, now) <= admitted[b] * Second + Filled(b, now)
         /\ \A c \in Buckets : c # b => admitted'[c] = admitted[c]
         /\ since = None => admitted' = admitted
<1> DEFINE ok == Filled(b, now) >= Second
           n == IF ok /\ since # None THEN admitted[b] + 1 ELSE admitted[b]
<1>1. admitted[b] \in Nat /\ n \in Nat  BY SMT DEF Typed
<1>2. admitted' = [admitted EXCEPT ![b] = n]  BY DEF Answers
<1>3. n * Second + Left(b, now) <= admitted[b] * Second + Filled(b, now)
  <2>1. (admitted[b] + 1) * Second = admitted[b] * Second + Second
        /\ admitted[b] * Second \in Int
    BY <1>1, Constants, SMT
  <2>2. Filled(b, now) \in Int /\ Left(b, now) \in Int /\ Left(b, now) <= Filled(b, now)
        /\ (ok => Left(b, now) = Filled(b, now) - Second)
    BY FillsAndTakes
  <2> QED  BY <2>1, <2>2, <1>1, Constants, SMT
<1>4. /\ admitted' \in [Buckets -> Nat]
      /\ admitted'[b] = n
      /\ \A c \in Buckets : c # b => admitted'[c] = admitted[c]
  <2> HIDE DEF n
  <2> QED  BY <1>1, <1>2 DEF Typed
<1>5. since = None => admitted' = admitted
  <2> SUFFICES ASSUME since = None PROVE admitted' = admitted  OBVIOUS
  <2>1. n = admitted[b]  OBVIOUS
  <2> QED  BY <2>1, <1>2 DEF Typed
<1> QED  BY <1>3, <1>4, <1>5
-----------------------------------------------------------------------------
\* The limiters start with no bucket.
LEMMA InitIInv == LimitInit => IInv
<1> SUFFICES ASSUME LimitInit PROVE IInv  OBVIOUS
<1> USE DEF LimitInit
<1>1. Typed  BY SMT DEF Typed
<1>2. \A b \in Buckets : bucket[b] = None /\ admitted[b] = 0  OBVIOUS
<1>3. LocalInv  BY <1>2 DEF LocalInv, Accounted, Buckets
<1>4. SharedInv  BY <1>2 DEF SharedInv, Accounted, Buckets
<1> QED  BY <1>1, <1>3, <1>4 DEF IInv

\* A call of the script, whether or not its answer arrives: the debt it leaves
\* is that of the caller's own clock.
LEMMA ScriptIInv ==
  ASSUME IInv, NEW now \in (time - Lag)..(time + Lead),
         Takes(Shared, now), expires' = time + Lifetime,
         time' = time, since' = since, lost' = lost,
         \/ Answers(Shared, now)
         \/ admitted' = admitted
  PROVE  IInv'
<1> USE DEF IInv
<1>0. Shared \in Buckets /\ (\A g \in Gateways : g \in Buckets /\ g # Shared)
  BY RateLimitAssumption DEF Buckets
<1>1. time \in Nat /\ now \in Int /\ time - Lag <= now /\ now <= time + Lead
  BY Constants, SMT DEF Typed
<1>2. /\ bucket' \in [Buckets -> Contents \cup {None}]
      /\ bucket'[Shared] = [tokens |-> Left(Shared, now), at |-> now]
      /\ bucket'[Shared] # None
      /\ bucket'[Shared].tokens = Left(Shared, now) /\ bucket'[Shared].at = now
      /\ \A c \in Buckets : c # Shared => bucket'[c] = bucket[c]
      /\ \A c \in Buckets : bucket'[c] # None => bucket'[c].tokens <= Full
  BY <1>0, <1>1, TakeTyped
<1>3. /\ admitted' \in [Buckets -> Nat]
      /\ admitted'[Shared] * Second + Left(Shared, now)
           <= admitted[Shared] * Second + Filled(Shared, now)
      /\ \A c \in Buckets : c # Shared => admitted'[c] = admitted[c]
      /\ since = None => admitted' = admitted
  <2>1. CASE Answers(Shared, now)  BY <1>0, <1>1, <2>1, AnswerCounted
  <2>2. CASE admitted' = admitted
    <3>1. admitted[Shared] * Second \in Int  BY <1>0, Constants, SMTT(30) DEF Typed
    <3>2. Filled(Shared, now) \in Int /\ Left(Shared, now) \in Int
          /\ Left(Shared, now) <= Filled(Shared, now)
      BY <1>0, <1>1, FillsAndTakes
    <3>3. admitted[Shared] * Second + Left(Shared, now)
            <= admitted[Shared] * Second + Filled(Shared, now)
      BY <3>1, <3>2, SMTT(30)
    <3> QED  BY <2>2, <3>3 DEF Typed
  <2> QED  BY <2>1, <2>2
<1>4. Typed'
  BY <1>1, <1>2, <1>3, Constants, SMTT(30) DEF Typed
<1>5. LocalInv'
  BY <1>0, <1>2, <1>3, SMTT(30) DEF LocalInv, Accounted, Lost
<1>6. Accounted(Shared, Lag)'
  <2>1. since # None => since - Lag <= now  BY <1>1, Constants, SMT DEF Typed
  <2>2. ASSUME bucket[Shared] = None, since # None
        PROVE  admitted[Shared] * Second <= Lost(Shared) + Rate * (now - (since - Lag))
    <3>1. since \in Nat /\ admitted[Shared] \in Nat  BY <1>0, <2>2 DEF Typed
    <3>2. time - since <= now - (since - Lag)  BY <1>1, <3>1, Constants, SMT
    <3>3. Rate * (time - since) <= Rate * (now - (since - Lag))
      BY <1>1, <3>1, <3>2, Grows, Constants, SMTT(30)
    <3>4. admitted[Shared] * Second <= Lost(Shared) + Rate * (time - since)
          /\ Lost(Shared) \in Nat
      BY <1>0, <2>2, LostCounts DEF SharedInv
    <3>5. admitted[Shared] * Second \in Int /\ Rate * (time - since) \in Int
          /\ Rate * (now - (since - Lag)) \in Int
      BY <1>1, <3>1, Constants, SMTT(30)
    <3> QED  BY <3>3, <3>4, <3>5, SMT
  <2>3. Accounted(Shared, Lag) /\ Lag \in Nat /\ admitted'[Shared] \in Nat
    BY <1>0, <1>3, Constants DEF SharedInv
  <2> QED  BY <1>0, <1>1, <1>2, <1>3, <2>1, <2>2, <2>3, TakeAccounted, SMTT(30)
<1>7. 0 <= Left(Shared, now) + Rate * (time + Lead - now)
  <2>1. Rate * (time + Lead - now) \in Int /\ Rate * (time + Lead - now) >= 0
    BY <1>1, Constants, SMTT(30)
  <2>2. Filled(Shared, now) \in Int /\ Left(Shared, now) \in Int
        /\ (IF Filled(Shared, now) >= Second THEN Left(Shared, now) = Filled(Shared, now) - Second
            ELSE Left(Shared, now) = Filled(Shared, now))
    BY <1>0, <1>1, FillsAndTakes, SMTT(30)
  <2>3. CASE Filled(Shared, now) >= Second \/ Filled(Shared, now) = Full
    BY <2>1, <2>2, <2>3, Constants, SMTT(30)
  <2>4. CASE ~(Filled(Shared, now) >= Second \/ Filled(Shared, now) = Full)
    <3> DEFINE at == bucket[Shared].at
               tokens == bucket[Shared].tokens
    <3>1. bucket[Shared] # None /\ tokens \in Int /\ at \in Int
          /\ Filled(Shared, now) = tokens + Rate * (now - at)
      BY <2>4, <1>0, <1>1, FillsAndTakes, SMTT(30)
    <3>2. Called \in Int /\ Called <= time /\ 0 <= tokens + Rate * (Called + Lead - at)
      BY <3>1, Constants, SMTT(30) DEF SharedInv, Called, Typed
    <3>3. Rate * (Called + Lead - at) <= Rate * (time + Lead - at)
      BY <1>1, <3>1, <3>2, Grows, Constants, SMTT(30)
    <3>4. Rate * (now - at) + Rate * (time + Lead - now) = Rate * (time + Lead - at)
      BY <1>1, <3>1, Constants, SMTT(30)
    <3>5. Rate * (now - at) \in Int /\ Rate * (Called + Lead - at) \in Int
          /\ Rate * (time + Lead - at) \in Int
      BY <1>1, <3>1, <3>2, Constants, SMTT(30)
    <3> QED  BY <2>1, <2>2, <2>4, <3>1, <3>2, <3>3, <3>4, <3>5, SMTT(30)
  <2> QED  BY <2>3, <2>4
<1>8. SharedInv'
  <2>1. Called' = time
    BY <1>1, Constants, SMT DEF Called, Lifetime, Full, Ceiling
  <2> QED  BY <1>1, <1>2, <1>6, <1>7, <2>1, SMT DEF SharedInv
<1> QED  BY <1>4, <1>5, <1>8

\* A gateway's own bucket is filled by one clock that does not go back.
LEMMA LocalIInv == ASSUME IInv, NEW g \in Gateways, AllowLocal(g) PROVE IInv'
<1> USE DEF IInv
<1>0. g \in Buckets /\ g # Shared /\ Shared \in Buckets /\ Gateways \subseteq Buckets
  BY RateLimitAssumption DEF Buckets
<1>1. time \in Nat /\ time \in Int /\ time' = time /\ since' = since /\ expires' = expires
      /\ lost' = lost
  BY SMTT(30) DEF AllowLocal, Typed
<1>2. /\ bucket' \in [Buckets -> Contents \cup {None}]
      /\ bucket'[g] = [tokens |-> Left(g, time), at |-> time]
      /\ bucket'[g] # None
      /\ bucket'[g].tokens = Left(g, time) /\ bucket'[g].at = time
      /\ \A c \in Buckets : c # g => bucket'[c] = bucket[c]
      /\ \A c \in Buckets : bucket'[c] # None => bucket'[c].tokens <= Full
  BY <1>0, <1>1, TakeTyped DEF AllowLocal
<1>3. /\ admitted' \in [Buckets -> Nat]
      /\ admitted'[g] * Second + Left(g, time) <= admitted[g] * Second + Filled(g, time)
      /\ \A c \in Buckets : c # g => admitted'[c] = admitted[c]
      /\ since = None => admitted' = admitted
  BY <1>0, <1>1, AnswerCounted, SMTT(30) DEF AllowLocal
<1>4. Typed'  BY <1>1, <1>2, <1>3, SMTT(30) DEF Typed
<1>5. SharedInv'
  <2>1. Lost(Shared)' = Lost(Shared)  BY <1>0, <1>1, LostCounts
  <2> QED  BY <1>0, <1>1, <1>2, <1>3, <2>1, SMTT(30) DEF SharedInv, Accounted, Called
<1>6. Accounted(g, 0)'
  <2>1. since # None => since - 0 <= time  BY <1>1, SMT DEF Typed
  <2>2. ASSUME bucket[g] = None, since # None
        PROVE  admitted[g] * Second <= Lost(g) + Rate * (time - (since - 0))
    <3>1. admitted[g] = 0  BY <2>2 DEF LocalInv
    <3>2. since \in Nat /\ since <= time  BY <2>2 DEF Typed
    <3>3. Rate * (time - (since - 0)) >= 0  BY <1>1, <3>2, Constants, SMTT(30)
    <3>4. Rate * (time - (since - 0)) \in Int  BY <1>1, <3>2, Constants, SMTT(30)
    <3>5. Lost(g) \in Nat  BY <1>0, LostCounts
    <3> QED  BY <3>1, <3>3, <3>4, <3>5, Constants, SMTT(30)
  <2>3. Accounted(g, 0) /\ 0 \in Nat /\ admitted'[g] \in Nat  BY <1>0, <1>3, SMTT(30)
                                                                DEF LocalInv
  <2> QED  BY <1>0, <1>1, <1>2, <1>3, <2>1, <2>2, <2>3, TakeAccounted, SMTT(30)
<1>7. 0 <= Left(g, time)
  <2>1. 0 <= Filled(g, time)
    <3>1. CASE bucket[g] = None  BY <1>0, <1>1, <3>1, FillsAndTakes, Constants, SMTT(30)
    <3>2. CASE bucket[g] # None
      <4>1. /\ bucket[g].tokens \in Int /\ bucket[g].at \in Int
            /\ \/ Filled(g, time) = Full
               \/ Filled(g, time) = bucket[g].tokens + Rate * (time - bucket[g].at)
        BY <1>0, <1>1, <3>2, FillsAndTakes
      <4>2. 0 <= bucket[g].tokens /\ bucket[g].at <= time  BY <3>2 DEF LocalInv
      <4>3. Rate * (time - bucket[g].at) \in Int /\ Rate * (time - bucket[g].at) >= 0
        BY <1>1, <4>1, <4>2, Constants, SMTT(30)
      <4> QED  BY <4>1, <4>2, <4>3, Constants, SMTT(30)
    <3> QED  BY <3>1, <3>2, SMTT(30)
  <2> QED  BY <2>1, <1>0, <1>1, FillsAndTakes, Constants, SMT
<1>8. LocalInv'
  <2> SUFFICES ASSUME NEW h \in Gateways
               PROVE  /\ bucket'[h] # None => 0 <= bucket'[h].tokens /\ bucket'[h].at <= time
                      /\ bucket'[h] = None => admitted'[h] = 0
                      /\ Accounted(h, 0)'
    BY <1>1 DEF LocalInv
  <2>1. CASE h = g  BY <2>1, <1>1, <1>2, <1>6, <1>7, SMTT(30)
  <2>2. CASE h # g
    <3>1. Lost(h)' = Lost(h)  BY <1>0, <1>1, LostCounts
    <3> QED  BY <2>2, <3>1, <1>0, <1>1, <1>2, <1>3 DEF LocalInv, Accounted
  <2> QED  BY <2>1, <2>2, SMTT(30)
<1> QED  BY <1>4, <1>5, <1>8

\* Time passes; a key that expires has been idle for so long that the rate makes
\* up for its debt, its burst and the full bucket that follows.
LEMMA TickIInv == ASSUME IInv, Tick PROVE IInv'
<1> USE DEF IInv
<1>0. Shared \in Buckets /\ (\A g \in Gateways : g \in Buckets /\ g # Shared)
  BY RateLimitAssumption DEF Buckets
<1>1. /\ time \in Nat /\ time' = time + 1 /\ time' \in Nat
      /\ since' = since /\ admitted' = admitted /\ expires' = expires /\ expires \in Int
      /\ lost' = lost /\ lost \in Nat
  BY SMT DEF Tick, Typed
<1>2. /\ bucket' \in [Buckets -> Contents \cup {None}]
      /\ \A c \in Buckets : c # Shared => bucket'[c] = bucket[c]
      /\ bucket'[Shared] = IF time' >= expires THEN None ELSE bucket[Shared]
  BY <1>0 DEF Tick, Typed
<1>3. Typed'
  <2>1. \A c \in Buckets : bucket'[c] # None => bucket'[c].tokens <= Full
    BY <1>0, <1>2, SMTT(30) DEF Typed
  <2> QED  BY <1>1, <1>2, <2>1, SMTT(30) DEF Typed
<1>4. LocalInv'
  <2> SUFFICES ASSUME NEW g \in Gateways
               PROVE  /\ bucket'[g] # None => 0 <= bucket'[g].tokens /\ bucket'[g].at <= time'
                      /\ bucket'[g] = None => admitted'[g] = 0
                      /\ Accounted(g, 0)'
    BY DEF LocalInv
  <2>1. bucket'[g] = bucket[g]  BY <1>0, <1>2
  <2>2. bucket[g] # None => bucket[g].at \in Int
    BY <1>0, SMTT(30) DEF Typed, Contents
  <2>3. bucket'[g] # None => bucket'[g].at <= time'
    BY <1>1, <2>1, <2>2, SMT DEF LocalInv
  <2>4. Lost(g)' = Lost(g)  BY <1>0, <1>1, LostCounts
  <2> QED  BY <1>1, <2>1, <2>3, <2>4, SMTT(30) DEF LocalInv, Accounted
<1>5. ASSUME bucket'[Shared] = None, since # None
      PROVE  admitted[Shared] * Second <= Lost(Shared) + Rate * (time' - since)
  <2>1. since \in Nat /\ since <= time /\ admitted[Shared] \in Nat  BY <1>0, <1>5 DEF Typed
  <2>2. Rate * (time - since) <= Rate * (time' - since) /\ 0 <= Rate * (time' - since)
        /\ Rate * (time - since) \in Int /\ Rate * (time' - since) \in Int
        /\ admitted[Shared] * Second \in Int
    BY <1>1, <2>1, Grows, Constants, SMT
  <2>0. Lost(Shared) \in Nat  BY <1>0, LostCounts
  <2>3. CASE bucket[Shared] = None
    <3>1. admitted[Shared] * Second <= Lost(Shared) + Rate * (time - since)
      BY <1>5, <2>3, SMTT(30) DEF SharedInv
    <3> QED  BY <2>0, <2>2, <3>1, SMTT(30)
  <2>4. CASE bucket[Shared] # None
    <3> DEFINE at == bucket[Shared].at
               tokens == bucket[Shared].tokens
    <3>1. at \in Int /\ tokens \in Int  BY <1>0, <2>4 DEF Typed, Contents
    <3>2. CASE at < since - Lag
      <4>1. admitted[Shared] = 0  BY <1>5, <2>4, <3>2, SMTT(30) DEF SharedInv, Accounted
      <4> QED  BY <4>1, <2>0, <2>2, Constants, SMTT(30)
    <3>3. CASE ~(at < since - Lag)
      <4>1. admitted[Shared] * Second + tokens
              <= Full + Lost(Shared) + Rate * (at - (since - Lag))
        BY <1>5, <2>4, <3>3, SMTT(30) DEF SharedInv, Accounted
      <4>2. Called \in Int /\ 0 <= tokens + Rate * (Called + Lead - at)
        BY <1>1, <2>4, Constants, SMTT(30) DEF SharedInv, Called
      <4>3. Rate * (at - (since - Lag)) + Rate * (Called + Lead - at)
              = Rate * (Called - since) + Rate * (Lag + Lead)
        BY <2>1, <3>1, <4>2, Constants, SMT
      <4>4. Rate * (Called - since) + Rate * Lifetime = Rate * (expires - since)
        BY <1>1, <2>1, Constants, SMT DEF Called
      <4>5. expires <= time'  BY <1>1, <1>2, <1>5, <2>4, SMTT(30)
      <4>6. Rate * (expires - since) <= Rate * (time' - since)
        BY <1>1, <2>1, <4>5, Grows, Constants, SMTT(30)
      <4>7. /\ Rate * (at - (since - Lag)) \in Int /\ Rate * (Called + Lead - at) \in Int
            /\ Rate * (Called - since) \in Int /\ Rate * (Lag + Lead) \in Int
            /\ Rate * Lifetime \in Int /\ Rate * (expires - since) \in Int
        BY <1>1, <2>1, <3>1, <4>2, Constants, SMT
      <4> HIDE DEF at, tokens
      <4> QED  BY <2>0, <2>2, <3>1, <4>1, <4>2, <4>3, <4>4, <4>6, <4>7, Constants, SMTT(30)
    <3> QED  BY <3>2, <3>3
  <2> QED  BY <2>3, <2>4
<1>6. SharedInv'
  <2>0. Lost(Shared)' = Lost(Shared)  BY <1>0, <1>1, LostCounts
  <2>1. CASE bucket'[Shared] = None
    BY <1>1, <1>5, <2>0, <2>1, SMTT(30) DEF SharedInv, Accounted
  <2>2. CASE bucket'[Shared] # None
    <3>1. bucket'[Shared] = bucket[Shared]  BY <1>2, <2>2
    <3>2. Called' = Called /\ Called \in Int  BY <1>1, Constants, SMTT(30)
                                                DEF Called, Lifetime, Full, Ceiling
    <3>3. Called <= time'  BY <1>1, <2>2, <3>1, <3>2, SMT DEF SharedInv
    <3> QED  BY <1>1, <2>0, <2>2, <3>1, <3>2, <3>3 DEF SharedInv, Accounted
  <2> QED  BY <2>1, <2>2, SMTT(30)
<1> QED  BY <1>3, <1>4, <1>6

\* The period that is observed begins with nothing admitted.
LEMMA ObserveIInv == ASSUME IInv, Observe PROVE IInv'
<1> USE DEF IInv
<1>0. Shared \in Buckets /\ Gateways \subseteq Buckets  BY SMTT(30) DEF Buckets
<1>1. /\ since = None /\ since' = time /\ time' = time /\ expires' = expires
      /\ bucket' = bucket /\ admitted' = admitted /\ time \in Nat /\ expires \in Int
      /\ lost' = lost
  BY DEF Observe, Typed
<1>2. \A b \in Buckets : admitted[b] = 0  BY <1>1 DEF Typed
<1>3. since' # None  BY <1>1, RateLimitAssumption, SMTT(30)
<1>4. Typed'  BY <1>1, <1>3, SMTT(30) DEF Typed
<1>5. ASSUME NEW b \in Buckets, NEW lag \in Nat PROVE Accounted(b, lag)'
  <2>0. Lost(b) \in Nat /\ Lost(b)' = Lost(b)  BY <1>1, LostCounts
  <2> SUFFICES ASSUME bucket[b] # None, ~(bucket[b].at < time - lag)
               PROVE  admitted[b] * Second + bucket[b].tokens
                        <= Full + Lost(b) + Rate * (bucket[b].at - (time - lag))
    BY <1>1, <1>2, <2>0 DEF Accounted
  <2>1. bucket[b].at \in Int /\ bucket[b].tokens \in Int /\ bucket[b].tokens <= Full
    BY DEF Typed, Contents
  <2>2. Rate * (bucket[b].at - (time - lag)) \in Int
        /\ Rate * (bucket[b].at - (time - lag)) >= 0
    BY <1>1, <2>1, Constants, SMTT(30)
  <2> QED  BY <1>2, <2>0, <2>1, <2>2, Constants, SMTT(30)
<1>6. LocalInv'  BY <1>0, <1>1, <1>2, <1>5, SMTT(30) DEF LocalInv
<1>7. SharedInv'
  <2>1. Accounted(Shared, Lag)'  BY <1>0, <1>5, Constants
  <2>2. Lost(Shared) \in Nat /\ Lost(Shared)' = Lost(Shared)
    BY <1>0, <1>1, LostCounts
  <2>3. admitted[Shared] * Second <= Lost(Shared) + Rate * (time - time)
    BY <1>0, <1>1, <1>2, <2>2, Constants, SMT
  <2> QED  BY <1>1, <2>1, <2>2, <2>3 DEF SharedInv, Called
<1> QED  BY <1>4, <1>6, <1>7

\* Redis loses its data: what the bucket admitted since it was full is paid for
\* by the loss that is counted.
LEMMA LossIInv ==
  ASSUME IInv, bucket' = [bucket EXCEPT ![Shared] = None],
         lost' = IF since = None THEN lost ELSE lost + 1,
         UNCHANGED <<time, expires, since, admitted>>
  PROVE  IInv'
<1> USE DEF IInv
<1>0. Shared \in Buckets /\ (\A g \in Gateways : g \in Buckets /\ g # Shared)
  BY RateLimitAssumption DEF Buckets
<1>1. /\ bucket' \in [Buckets -> Contents \cup {None}]
      /\ bucket'[Shared] = None
      /\ \A c \in Buckets : c # Shared => bucket'[c] = bucket[c]
  BY <1>0 DEF Typed
<1>2. Typed'  BY <1>0, <1>1, SMTT(30) DEF Typed
<1>3. LocalInv'  BY <1>0, <1>1, SMTT(30) DEF LocalInv, Accounted, Lost
<1>4. ASSUME since # None
      PROVE  admitted[Shared] * Second <= Lost(Shared)' + Rate * (time - since)
  <2>1. time \in Nat /\ since \in Nat /\ since <= time /\ admitted[Shared] \in Nat
    BY <1>0, <1>4 DEF Typed
  <2>2. Lost(Shared) \in Nat /\ Lost(Shared)' = Lost(Shared) + Full + Rate * (Lag + Lead)
    BY <1>0, <1>4, LostCounts
  <2>3. /\ Rate * (time - since) \in Int /\ 0 <= Rate * (time - since)
        /\ Rate * (Lag + Lead) \in Int /\ 0 <= Rate * (Lag + Lead)
        /\ admitted[Shared] * Second \in Int
    BY <2>1, Constants, SMT
  <2>4. CASE bucket[Shared] = None
    <3>1. admitted[Shared] * Second <= Lost(Shared) + Rate * (time - since)
      BY <1>4, <2>4, SMTT(30) DEF SharedInv
    <3> QED  BY <2>2, <2>3, <3>1, Constants, SMTT(30)
  <2>5. CASE bucket[Shared] # None
    <3> DEFINE at == bucket[Shared].at
               tokens == bucket[Shared].tokens
    <3>1. at \in Int /\ tokens \in Int  BY <1>0, <2>5 DEF Typed, Contents
    <3>2. CASE at < since - Lag
      <4>1. admitted[Shared] = 0  BY <1>4, <2>5, <3>2, SMTT(30) DEF SharedInv, Accounted
      <4> QED  BY <4>1, <2>2, <2>3, Constants, SMTT(30)
    <3>3. CASE ~(at < since - Lag)
      <4>1. admitted[Shared] * Second + tokens
              <= Full + Lost(Shared) + Rate * (at - (since - Lag))
        BY <1>4, <2>5, <3>3, SMTT(30) DEF SharedInv, Accounted
      <4>2. Called \in Int /\ Called <= time /\ 0 <= tokens + Rate * (Called + Lead - at)
        BY <2>5, Constants, SMTT(30) DEF SharedInv, Called, Typed
      <4>3. Rate * (Called + Lead - at) <= Rate * (time + Lead - at)
        BY <2>1, <3>1, <4>2, Grows, Constants, SMTT(30)
      <4>4. Rate * (at - (since - Lag)) + Rate * (time + Lead - at)
              = Rate * (time - since) + Rate * (Lag + Lead)
        BY <2>1, <3>1, Constants, SMTT(30)
      <4>5. Rate * (at - (since - Lag)) \in Int /\ Rate * (Called + Lead - at) \in Int
            /\ Rate * (time + Lead - at) \in Int
        BY <2>1, <3>1, <4>2, Constants, SMTT(30)
      <4> HIDE DEF at, tokens
      <4> QED  BY <2>2, <2>3, <3>1, <4>1, <4>2, <4>3, <4>4, <4>5, Constants, SMTT(30)
    <3> QED  BY <3>2, <3>3
  <2> QED  BY <2>4, <2>5
<1>5. SharedInv'  BY <1>1, <1>4, SMTT(30) DEF SharedInv, Accounted
<1> QED  BY <1>2, <1>3, <1>5

\* Every step of the limiters, of Redis and of the clock.
LEMMA NextIInv == IInv /\ [LimitNext]_limitVars => IInv'
<1> SUFFICES ASSUME IInv, [LimitNext]_limitVars PROVE IInv'  OBVIOUS
<1>1. ASSUME NEW now \in (time - Lag)..(time + Lead), AllowShared(now) PROVE IInv'
  BY <1>1, ScriptIInv DEF AllowShared
<1>2. ASSUME NEW now \in (time - Lag)..(time + Lead), AnswerLost(now) PROVE IInv'
  BY <1>2, ScriptIInv DEF AnswerLost
<1>3. ASSUME NEW g \in Gateways, AllowLocal(g) PROVE IInv'
  BY <1>3, LocalIInv, SMTT(30)
<1>4. ASSUME UNCHANGED <<time, bucket, expires, since, admitted, lost>> PROVE IInv'
  BY <1>4 DEF IInv, Typed, LocalInv, SharedInv, Accounted, Called, Lost
<1>5. CASE Outage  BY <1>4, <1>5, LossIInv, Zenon DEF Outage
<1>6. CASE Back  BY <1>4, <1>6 DEF Back
<1>7. CASE Tick  BY <1>7, TickIInv
<1>8. CASE Observe  BY <1>8, ObserveIInv
<1>9. CASE UNCHANGED limitVars  BY <1>4, <1>9 DEF limitVars
<1> QED  BY <1>1, <1>2, <1>3, <1>5, <1>6, <1>7, <1>8, <1>9 DEF LimitNext

\* The accounts hold in every reachable state.
LEMMA Invariance == LimitSpec => []IInv
  BY InitIInv, NextIInv, PTL DEF LimitSpec
-----------------------------------------------------------------------------
\* What RedisLimiter.Allow admitted, from its account and its debt.
LEMMA SharedFollows == IInv => SharedBounded
<1> SUFFICES ASSUME IInv, since # None
             PROVE  admitted[Shared] * Second
                      <= (lost + 1) * (Full + Rate * (Lag + Lead)) + Rate * (time - since)
  BY DEF SharedBounded
<1> USE DEF IInv
<1> DEFINE at == bucket[Shared].at
           tokens == bucket[Shared].tokens
           bound == Rate * (time - since + Lag + Lead)
<1>0. Shared \in Buckets  BY DEF Buckets
<1>1. time \in Nat /\ since \in Nat /\ since <= time /\ admitted[Shared] \in Nat
  BY <1>0 DEF Typed
<1>2. admitted[Shared] * Second \in Int /\ bound \in Int /\ bound >= 0
  BY <1>1, Constants, SMT
<1>5. Lost(Shared) \in Nat  BY <1>0, LostCounts
<1>6. Full + Lost(Shared) + bound
        = (lost + 1) * (Full + Rate * (Lag + Lead)) + Rate * (time - since)
  <2> DEFINE each == Full + Rate * (Lag + Lead)
  <2>1. each \in Nat /\ lost \in Nat  BY Constants, SMT DEF Typed
  <2>2. Lost(Shared) = lost * each  BY DEF Lost
  <2>3. bound = Rate * (time - since) + Rate * (Lag + Lead)  BY <1>1, Constants, SMT
  <2>4. Rate * (time - since) \in Int /\ Rate * (Lag + Lead) \in Int
    BY <1>1, Constants, SMT
  <2>5. each = Full + Rate * (Lag + Lead)  OBVIOUS
  <2> HIDE DEF each, bound
  <2>6. (lost + 1) * each = lost * each + each /\ lost * each \in Int
    BY <2>1, SMT
  <2>7. Full + Lost(Shared) + bound = (lost + 1) * each + Rate * (time - since)
    BY <1>1, <1>5, <2>1, <2>2, <2>3, <2>4, <2>5, <2>6, Constants, SMT
  <2> QED  BY <2>7 DEF each
<1> HIDE DEF bound
<1>7. SUFFICES admitted[Shared] * Second <= Full + Lost(Shared) + bound
  BY <1>6
<1> USE DEF bound
<1>3. CASE bucket[Shared] = None
  <2>1. admitted[Shared] * Second <= Lost(Shared) + Rate * (time - since)
    BY <1>3 DEF SharedInv
  <2>2. Rate * (time - since) <= bound /\ Rate * (time - since) \in Int
    BY <1>1, Grows, Constants, SMTT(30)
  <2> QED  BY <1>2, <1>5, <2>1, <2>2, Constants, SMTT(30)
<1>4. CASE bucket[Shared] # None
  <2>1. at \in Int /\ tokens \in Int  BY <1>0, <1>4 DEF Typed, Contents
  <2>2. CASE at < since - Lag
    <3>1. admitted[Shared] = 0  BY <1>4, <2>2, SMTT(30) DEF SharedInv, Accounted
    <3> QED  BY <1>2, <1>5, <3>1, Constants, SMTT(30)
  <2>3. CASE ~(at < since - Lag)
    <3>1. admitted[Shared] * Second + tokens
            <= Full + Lost(Shared) + Rate * (at - (since - Lag))
      BY <1>4, <2>3, SMTT(30) DEF SharedInv, Accounted
    <3>2. Called \in Int /\ Called <= time /\ 0 <= tokens + Rate * (Called + Lead - at)
      BY <1>4, Constants, SMTT(30) DEF SharedInv, Called, Typed
    <3>3. Rate * (Called + Lead - at) <= Rate * (time + Lead - at)
      BY <1>1, <2>1, <3>2, Grows, Constants, SMTT(30)
    <3>4. Rate * (at - (since - Lag)) + Rate * (time + Lead - at) = bound
      BY <1>1, <2>1, Constants, SMTT(30)
    <3>5. Rate * (at - (since - Lag)) \in Int /\ Rate * (Called + Lead - at) \in Int
          /\ Rate * (time + Lead - at) \in Int
      BY <1>1, <2>1, <3>2, Constants, SMTT(30)
    <3> HIDE DEF at, tokens, bound
    <3> QED  BY <1>2, <1>5, <2>1, <3>1, <3>2, <3>3, <3>4, <3>5, Constants, SMTT(30) DEF bound
  <2> QED  BY <2>2, <2>3, SMTT(30)
<1> QED  BY <1>3, <1>4

\* What allowLocal admitted, from its account.
LEMMA FailoverFollows == IInv => FailoverBounded
<1> SUFFICES ASSUME IInv, since # None, NEW g \in Gateways
             PROVE  admitted[g] * Second <= Full + Rate * (time - since)
  BY Zenon DEF FailoverBounded
<1> USE DEF IInv
<1>0. g \in Buckets  BY DEF Buckets
<1>1. time \in Nat /\ since \in Nat /\ since <= time /\ admitted[g] \in Nat
  BY <1>0 DEF Typed
<1>2. /\ Rate * (time - since) \in Int /\ Rate * (time - since) >= 0
      /\ admitted[g] * Second \in Int
  BY <1>1, Constants, SMT
<1>3. CASE bucket[g] = None \/ admitted[g] = 0
  <2>1. admitted[g] = 0  BY <1>3, SMTT(30) DEF LocalInv
  <2> QED  BY <1>2, <2>1, Constants, SMT
<1>4. CASE bucket[g] # None /\ admitted[g] # 0
  <2>1. bucket[g].at \in Int /\ bucket[g].tokens \in Int  BY <1>0, <1>4, SMTT(30)
                                                            DEF Typed, Contents
  <2>2. 0 <= bucket[g].tokens /\ bucket[g].at <= time  BY <1>4, SMTT(30) DEF LocalInv
  <2>3. admitted[g] * Second + bucket[g].tokens <= Full + Rate * (bucket[g].at - (since - 0))
    <3>1. Lost(g) = 0  BY RateLimitAssumption DEF Lost
    <3>2. admitted[g] * Second + bucket[g].tokens
            <= Full + Lost(g) + Rate * (bucket[g].at - (since - 0))
      BY <1>4 DEF LocalInv, Accounted
    <3>3. Full + 0 = Full  BY Constants, SMT
    <3> QED  BY <3>1, <3>2, <3>3, Zenon
  <2>4. Rate * (bucket[g].at - (since - 0)) <= Rate * (time - since)
        /\ Rate * (bucket[g].at - (since - 0)) \in Int
    BY <1>1, <2>1, <2>2, Grows, Constants, SMT
  <2> QED  BY <1>2, <2>1, <2>2, <2>3, <2>4, Constants, SMTT(30)
<1> QED  BY <1>3, <1>4

\* RedisLimiter.Allow: whatever the rate, the burst and the number of gateways,
\* and for clocks and delays within the time that fills a bucket, the shared
\* bucket admits in any period the burst and what the rate fills meanwhile.
THEOREM SharedBound == LimitSpec => []SharedBounded
  BY Invariance, SharedFollows, PTL

\* AdaptiveLimiter.allowLocal: over any outages of Redis, a gateway by itself
\* admits in any period its burst and what the rate fills meanwhile.
THEOREM FailoverBound == LimitSpec => []FailoverBounded
  BY Invariance, FailoverFollows, PTL
-----------------------------------------------------------------------------
\* The time of the last call of a bucket: the real time.
LastCall(b) == IF b = Shared THEN Called ELSE bucket[b].at

\* A promise is of a bucket that is gone, or of one that no one has touched since:
\* it names a second at least from the refusal on.
Promises ==
  /\ hint \in [Buckets -> Int \cup {None}]
  /\ \A b \in Buckets :
       hint[b] # None /\ bucket[b] # None => LastCall(b) + Second <= hint[b]

RetryInv == Promises /\ broken = FALSE

\* Retry-After is never below a second.
LEMMA RetryIsASecond ==
  ASSUME NEW tokens \in Int
  PROVE  RetryAfter(tokens) \in Int /\ Second <= RetryAfter(tokens)
<1> DEFINE need == Most(0, Second - tokens)
           n == Most(1, Ceiling(need, Rate) \div Second)
<1>1. need \in Nat  BY Constants, SMT DEF Most
<1>2. Ceiling(need, Rate) \in Int  BY <1>1, Constants, CeilingReaches, SMTT(30)
<1>3. n \in Int /\ 1 <= n  BY <1>2, Constants, SMTT(30) DEF Most
<1>4. Second * 1 <= Second * n  BY <1>3, Grows, Constants, SMT
<1>5. RetryAfter(tokens) = n * Second  BY DEF RetryAfter
<1> HIDE DEF n
<1> QED  BY <1>3, <1>4, <1>5, Constants, SMT

\* A bucket that promised, asked again when the skew has passed too, has a token:
\* the rate has paid for the debt within the skew and filled one since.
LEMMA PromiseKept ==
  ASSUME IInv, Promises, NEW b \in Buckets, NEW now \in Int,
         IF b = Shared THEN time - Lag <= now ELSE now = time,
         hint[b] # None, time >= hint[b] + Slack(b)
  PROVE  Filled(b, now) >= Second
<1> USE DEF IInv
<1>0. Second <= Full
  <2>1. Second * 1 <= Second * Burst
    BY RateLimitAssumption, Grows, Constants, SMTT(30)
  <2> QED  BY <2>1, RateLimitAssumption, SMTT(30) DEF Full
<1>1. CASE bucket[b] = None
  BY <1>0, <1>1, FillsAndTakes, Constants, SMTT(30)
<1>2. CASE bucket[b] # None
  <2> DEFINE at == bucket[b].at
             tokens == bucket[b].tokens
             Paid(p) == p + Second <= now /\ 0 <= tokens + Rate * (p - at)
  <2>1. /\ tokens \in Int /\ at \in Int /\ Filled(b, now) \in Int
        /\ Filled(b, now) = Full \/ Filled(b, now) = tokens + Rate * (now - at)
    BY <1>2, FillsAndTakes, SMTT(30)
  <2>2. hint[b] \in Int /\ LastCall(b) + Second <= hint[b] /\ time \in Nat
    BY <1>2, SMTT(30) DEF Promises, Typed
  <2>3. \E p \in Int : Paid(p)
    <3>1. CASE b = Shared
      <4>1. Called \in Int /\ 0 <= tokens + Rate * (Called + Lead - at)
        BY <1>2, <3>1, Constants, SMTT(30) DEF SharedInv, Called, Typed
      <4>2. Called + Second <= hint[b] /\ hint[b] + (Lag + Lead) <= time /\ time - Lag <= now
        BY <2>2, <3>1 DEF LastCall, Slack
      <4>3. Called + Lead + Second <= now  BY <2>2, <4>1, <4>2, Constants, SMTT(30)
      <4>4. Called + Lead \in Int  BY <4>1, Constants, SMT
      <4>6. Called + Lead - at = (Called + Lead) - at  BY <2>1, <4>1, Constants, SMT
      <4>5. Paid(Called + Lead)  BY <4>1, <4>3, <4>6, Zenon
      <4> HIDE DEF Paid
      <4> QED  BY <4>4, <4>5, Zenon
    <3>2. CASE b # Shared
      <4>1. 0 <= tokens  BY <1>2, <3>2 DEF LocalInv, Buckets
      <4>2. at + Second <= hint[b] /\ hint[b] + 0 <= time /\ now = time
        BY <2>2, <3>2 DEF LastCall, Slack
      <4>3. at + Second <= now  BY <2>1, <2>2, <4>2, Constants, SMTT(30)
      <4>4. Rate * (at - at) = 0  BY <2>1, Constants, SMTT(30)
      <4>5. Paid(at)  BY <2>1, <4>1, <4>3, <4>4, SMTT(30)
      <4> HIDE DEF Paid
      <4> QED  BY <2>1, <4>5, Zenon
    <3> QED  BY <3>1, <3>2
  <2>8. PICK paid \in Int : paid + Second <= now /\ 0 <= tokens + Rate * (paid - at)
    BY <2>3, Zenon
  <2> HIDE DEF at, tokens, Paid
  <2>4. Rate * Second <= Rate * (now - paid)
    <3>1. Second <= now - paid  BY <2>8, Constants, SMTT(30)
    <3> QED  BY <2>8, <3>1, Grows, Constants, SMTT(30)
  <2>5. Rate * (now - at) = Rate * (now - paid) + Rate * (paid - at)
    BY <2>1, <2>8, Constants, SMTT(30)
  <2>6. Second * 1 <= Second * Rate  BY Grows, Constants, SMTT(30)
  <2>7. Rate * Second \in Int /\ Rate * (now - at) \in Int /\ Rate * (now - paid) \in Int
        /\ Rate * (paid - at) \in Int /\ Second * Rate = Rate * Second
    BY <2>1, <2>8, Constants, SMT
  <2> QED  BY <1>0, <2>1, <2>8, <2>4, <2>5, <2>6, <2>7, Constants, SMTT(30)
<1> QED  BY <1>1, <1>2

\* An answer keeps every promise, and makes only one that it can keep.
LEMMA AnswerPromises ==
  ASSUME IInv, RetryInv, NEW b \in Buckets, NEW now \in Int,
         IF b = Shared THEN time - Lag <= now ELSE now = time,
         Takes(b, now), Answers(b, now),
         expires' = IF b = Shared THEN time + Lifetime ELSE expires
  PROVE  RetryInv'
<1> USE DEF RetryInv
<1> DEFINE ok == Filled(b, now) >= Second
           h == IF ok THEN None ELSE time + RetryAfter(Left(b, now))
<1>0. Typed /\ time \in Nat /\ expires \in Int  BY DEF IInv, Typed
<1>1. Filled(b, now) \in Int /\ Left(b, now) \in Int  BY <1>0, FillsAndTakes
<1>2. RetryAfter(Left(b, now)) \in Int /\ Second <= RetryAfter(Left(b, now))
  BY <1>1, RetryIsASecond, SMTT(30)
<1>3. h \in Int \cup {None} /\ (h # None => time + Second <= h)
  BY <1>0, <1>1, <1>2, Constants, SMTT(30)
<1>4. /\ hint' \in [Buckets -> Int \cup {None}]
      /\ hint'[b] = h
      /\ \A c \in Buckets : c # b => hint'[c] = hint[c]
  <2>1. hint' = [hint EXCEPT ![b] = h]  BY SMTT(30) DEF Answers
  <2> HIDE DEF h
  <2> QED  BY <1>3, <2>1, SMTT(30) DEF Promises
<1>5. /\ bucket'[b].at = now
      /\ \A c \in Buckets : c # b => bucket'[c] = bucket[c]
  BY <1>0, TakeTyped, ZenonT(60)
<1>6. Promises'
  <2>1. LastCall(b)' = time
    <3>1. CASE b = Shared
      <4>1. Called' = time
        BY <1>0, <3>1, Constants, SMT DEF Called, Lifetime, Full, Ceiling
      <4> QED  BY <3>1, <4>1 DEF LastCall
    <3>2. CASE b # Shared  BY <1>5, <3>2 DEF LastCall
    <3> QED  BY <3>1, <3>2
  <2>2. ASSUME NEW c \in Buckets, c # b PROVE LastCall(c)' = LastCall(c)
    <3>1. c = Shared => Called' = Called
      BY <1>0, <2>2, Constants, SMT DEF Called, Lifetime, Full, Ceiling
    <3> QED  BY <1>5, <2>2, <3>1 DEF LastCall
  <2>3. ASSUME NEW c \in Buckets, hint'[c] # None, bucket'[c] # None
        PROVE  LastCall(c)' + Second <= hint'[c]
    <3> HIDE DEF h
    <3>1. CASE c = b  BY <1>3, <1>4, <2>1, <2>3, <3>1, Zenon
    <3>2. CASE c # b  BY <1>4, <1>5, <2>2, <2>3, <3>2, Zenon DEF Promises
    <3> QED  BY <3>1, <3>2
  <2> QED  BY <1>4, <2>3, Zenon DEF Promises
<1>7. broken' = FALSE
  <2>1. hint[b] # None /\ time >= hint[b] + Slack(b) => ok  BY PromiseKept, SMTT(30)
  <2>2. broken' = (broken \/ (~ok /\ hint[b] # None /\ time >= hint[b] + Slack(b)))
    BY DEF Answers
  <2> QED  BY <2>1, <2>2, Zenon
<1> QED  BY <1>6, <1>7, SMTT(30)

\* Every step of the limiters, of Redis and of the clock keeps the promises.
LEMMA NextRetryInv == IInv /\ RetryInv /\ [LimitNext]_limitVars => RetryInv'
<1> SUFFICES ASSUME IInv, RetryInv, [LimitNext]_limitVars PROVE RetryInv'  BY SMTT(30)
<1>0. Typed /\ time \in Nat /\ Shared \in Buckets
      /\ (\A g \in Gateways : g \in Buckets /\ g # Shared)
  BY RateLimitAssumption DEF IInv, Typed, Buckets
<1>1. ASSUME NEW now \in (time - Lag)..(time + Lead), AllowShared(now) PROVE RetryInv'
  <2>1. now \in Int /\ time - Lag <= now  BY <1>0, Constants, SMTT(30)
  <2> QED  BY <1>0, <1>1, <2>1, AnswerPromises, Zenon DEF AllowShared
<1>2. ASSUME NEW now \in (time - Lag)..(time + Lead), AnswerLost(now) PROVE RetryInv'
  <2>1. now \in Int  BY <1>0, Constants, SMTT(30)
  <2>2. \A c \in Buckets : c # Shared => bucket'[c] = bucket[c]
    BY <1>0, <1>2, <2>1, TakeTyped, Zenon DEF AnswerLost
  <2>3. \A c \in Buckets : c # Shared => LastCall(c)' = LastCall(c)
    BY <2>2 DEF LastCall
  <2> QED  BY <1>0, <1>2, <2>2, <2>3 DEF AnswerLost, RetryInv, Promises
<1>3. ASSUME NEW g \in Gateways, AllowLocal(g) PROVE RetryInv'
  <2>1. g \in Buckets /\ g # Shared /\ time \in Int  BY <1>0, SMT
  <2> QED  BY <1>3, <2>1, AnswerPromises, Zenon DEF AllowLocal
<1>4. ASSUME UNCHANGED <<expires, hint, broken>>,
             \A c \in Buckets : bucket'[c] = bucket[c] \/ bucket'[c] = None
      PROVE  RetryInv'
  <2>1. Called' = Called  BY <1>4, SMT DEF Called, Lifetime, Full, Ceiling
  <2>2. \A c \in Buckets : bucket'[c] # None => LastCall(c)' = LastCall(c)
    BY <1>4, <2>1 DEF LastCall
  <2> QED  BY <1>4, <2>2 DEF RetryInv, Promises
<1>5. CASE Outage
  <2>1. \A c \in Buckets : bucket'[c] = bucket[c] \/ bucket'[c] = None
    BY <1>0, <1>5 DEF Outage, Typed
  <2> QED  BY <1>4, <1>5, <2>1 DEF Outage
<1>6. CASE Back  BY <1>4, <1>6, SMTT(30) DEF Back
<1>7. CASE Tick
  <2>1. \A c \in Buckets : bucket'[c] = bucket[c] \/ bucket'[c] = None
    BY <1>0, <1>7 DEF Tick, Typed
  <2> QED  BY <1>4, <1>7, <2>1, SMTT(30) DEF Tick
<1>8. CASE Observe  BY <1>4, <1>8 DEF Observe
<1>9. CASE UNCHANGED limitVars  BY <1>4, <1>9 DEF limitVars
<1> QED  BY <1>1, <1>2, <1>3, <1>5, <1>6, <1>7, <1>8, <1>9, SMTT(30) DEF LimitNext

\* The Retry-After header: for every rate and burst, and clocks and delays within
\* the time that fills a bucket, a caller who was refused, by a bucket in debt or
\* not, and who comes back to it after the time named and the skew of the clocks,
\* with nobody asking in between, is admitted.
THEOREM RetryAfterSuffices == LimitSpec => []RetrySuffices
<1>1. LimitInit => RetryInv
  BY SMT DEF LimitInit, RetryInv, Promises
<1>2. RetryInv => RetrySuffices
  BY DEF RetryInv, RetrySuffices
<1> QED  BY <1>1, <1>2, Invariance, NextRetryInv, PTL DEF LimitSpec
-----------------------------------------------------------------------------
(***************************************************************************)
(* CircuitBreaker, for any set of callers, any number of slots and any     *)
(* threshold.  The slots taken are counted by the callers that hold one,   *)
(* and the failures counted never exceed the errors since the last success.*)
(***************************************************************************)
USE BreakerAssumption DEF BreakerAssumption

BreakerNum ==
  /\ pc \in [Callers -> {"idle", "waiting", "calling", "returning"}]
  /\ sem \in 0..Concurrency
  /\ failures \in 0..(MaxFailures - 1)
  /\ streak \in 0..(2 * MaxFailures)

BreakerCounted == failures <= streak

Slots == IsFiniteSet(InCall) /\ sem = Cardinality(InCall)

\* The inductive invariant.
BreakerInv == BreakerNum /\ open \in BOOLEAN /\ BreakerCounted /\ Slots

USE DEF BreakerAssumption
-----------------------------------------------------------------------------
\* The breaker starts closed and with every slot free.
LEMMA InitBreakerInv == Init => BreakerInv
<1> SUFFICES ASSUME Init PROVE BreakerInv
  OBVIOUS
<1>1. BreakerNum /\ BreakerCounted
  BY SMT DEF Init, BreakerNum, BreakerCounted
<1>2. open \in BOOLEAN
  BY Zenon DEF Init
<1>3. InCall = {}
  BY SMT DEF Init, InCall
<1>4. Slots
  BY <1>3, FS_EmptySet, SMTT(30) DEF Init, Slots
<1> QED
  BY <1>1, <1>2, <1>4 DEF BreakerInv

\* A caller in its call keeps a slot busy until the deferred receive, so a
\* slot is freed by a caller that holds one.
LEMMA ReturnHoldsSlot ==
  ASSUME BreakerNum, Slots, NEW c \in Callers, pc[c] = "returning"
  PROVE  /\ sem > 0 /\ sem = Cardinality(InCall \ {c}) + 1
         /\ IsFiniteSet(InCall \ {c})
<1>1. c \in InCall
  BY SMTT(30) DEF InCall
<1>2. /\ IsFiniteSet(InCall \ {c})
      /\ Cardinality(InCall \ {c}) = Cardinality(InCall) - 1
  BY <1>1, FS_RemoveElement, SMT DEF Slots
<1>3. Cardinality(InCall \ {c}) \in Nat
  BY <1>2, FS_CardinalityType
<1> QED
  BY <1>2, <1>3, SMT DEF Slots, BreakerNum

\* The set of callers that hold a slot changes in two steps only.
LEMMA SlotsStep == BreakerNum /\ Slots /\ [Next]_vars => Slots'
<1> SUFFICES ASSUME BreakerNum, Slots, [Next]_vars PROVE Slots'
  OBVIOUS
<1>1. ASSUME NEW c \in Callers, Acquire(c) PROVE Slots'
  <2>1. InCall' = InCall \cup {c} /\ c \notin InCall /\ sem' = sem + 1
    BY <1>1, SMTT(30) DEF Acquire, Step, InCall, BreakerNum
  <2> QED
    BY <2>1, FS_AddElement, SMTT(30) DEF Slots
<1>2. ASSUME NEW c \in Callers, Return(c) PROVE Slots'
  <2>1. InCall' = InCall \ {c} /\ sem' = sem - 1 /\ pc[c] = "returning"
    BY <1>2, SMT DEF Return, Step, InCall, BreakerNum
  <2>2. sem = Cardinality(InCall \ {c}) + 1 /\ IsFiniteSet(InCall \ {c})
    BY <2>1, ReturnHoldsSlot
  <2>3. Cardinality(InCall \ {c}) \in Nat
    BY <2>2, FS_CardinalityType
  <2> QED
    BY <2>1, <2>2, <2>3, SMTT(30) DEF Slots
<1>3. InCall' = InCall /\ sem' = sem => Slots'
  BY DEF Slots
<1>4. ASSUME NEW c \in Callers, Enter(c) \/ GiveUp(c)
      PROVE  InCall' = InCall /\ sem' = sem
  BY <1>4, SMTT(30) DEF Enter, GiveUp, Step, InCall, BreakerNum
<1>5. ASSUME NEW c \in Callers, Call(c)
      PROVE  InCall' = InCall /\ sem' = sem
  BY <1>5, SMT DEF Call, Succeed, Cancelled, Fail,
     Step, InCall, BreakerNum
<1>6. Cooldown \/ UNCHANGED vars => InCall' = InCall /\ sem' = sem
  BY DEF Cooldown, vars, InCall
<1> QED
  BY <1>1, <1>2, <1>3, <1>4, <1>5, <1>6, Zenon DEF Next

\* Every step keeps the types and counts a failure at most once; only a
\* success clears the errors, and it clears the failures as well.
LEMMA NumStep == BreakerNum /\ BreakerCounted /\ Slots /\ [Next]_vars =>
           BreakerNum' /\ BreakerCounted'
<1> SUFFICES ASSUME BreakerNum, BreakerCounted, Slots, [Next]_vars
             PROVE  BreakerNum' /\ BreakerCounted'
  OBVIOUS
<1>1. ASSUME NEW c \in Callers, Enter(c) \/ GiveUp(c) \/ Acquire(c)
      PROVE  BreakerNum' /\ BreakerCounted'
  BY <1>1, SMT DEF Enter, GiveUp, Acquire, Step,
     BreakerNum, BreakerCounted
<1>2. ASSUME NEW c \in Callers, Succeed(c) \/ Cancelled(c)
      PROVE  BreakerNum' /\ BreakerCounted'
  BY <1>2, SMTT(30) DEF Succeed, Cancelled, Step, BreakerNum,
     BreakerCounted
<1>3. ASSUME NEW c \in Callers, Fail(c) PROVE BreakerNum' /\ BreakerCounted'
  BY <1>3, SMT DEF Fail, Capped, Step, BreakerNum, BreakerCounted
<1>4. ASSUME NEW c \in Callers, Return(c) PROVE BreakerNum' /\ BreakerCounted'
  <2>1. sem > 0
    BY <1>4, ReturnHoldsSlot, Zenon DEF Return, Step
  <2> QED
    BY <1>4, <2>1, SMT DEF Return, Step, BreakerNum, BreakerCounted
<1>5. Cooldown \/ UNCHANGED vars => BreakerNum' /\ BreakerCounted'
  BY SMT DEF Cooldown, vars, BreakerNum, BreakerCounted
<1> QED
  BY <1>1, <1>2, <1>3, <1>4, <1>5, Zenon DEF Next, Call

\* The circuit is open or closed.
LEMMA OpenStep == open \in BOOLEAN /\ [Next]_vars => open' \in BOOLEAN
<1> SUFFICES ASSUME open \in BOOLEAN, [Next]_vars PROVE open' \in BOOLEAN
  OBVIOUS
<1>1. open' = open \/ open' = TRUE \/ open' = FALSE
  BY Zenon DEF Next, vars, Enter, Acquire,
     GiveUp, Call, Succeed, Cancelled, Fail,
     Return, Cooldown
<1> QED
  BY <1>1, Zenon

\* The invariant holds in every reachable state.
LEMMA BreakerInvariance == Spec => []BreakerInv
<1>1. BreakerInv /\ [Next]_vars => BreakerInv'
  BY SlotsStep, NumStep, OpenStep, Zenon DEF BreakerInv
<1> QED
  BY <1>1, InitBreakerInv, PTL DEF Spec
-----------------------------------------------------------------------------
\* The semaphore and the counter of failures stay within their bounds, for
\* any number of concurrent calls of Audit.
THEOREM BreakerTypeCorrect == Spec => []TypeOK
<1>1. BreakerInv => TypeOK
  BY Zenon DEF BreakerInv, BreakerNum, TypeOK
<1> QED
  BY <1>1, BreakerInvariance, PTL

\* At most Concurrency calls of the inner auditor are in flight, and the
\* semaphore counts exactly those: no path of Audit loses or frees a slot
\* twice.
THEOREM SlotsAreCalls == Spec => []BoundedConcurrency
<1>1. BreakerInv => BoundedConcurrency
  <2>1. sem \in 0..Concurrency => sem <= Concurrency
    BY SMT
  <2> QED
    BY <2>1, Zenon DEF BreakerInv, BreakerNum, Slots, BoundedConcurrency
<1> QED
  BY <1>1, BreakerInvariance, PTL

\* The circuit opens only after MaxFailures errors of the auditor with no
\* success between them, however the calls overlap.
THEOREM OpensOnFailures == Spec => OpensOnlyOnFailures
<1>1. BreakerInv /\ [Next]_vars => (~open /\ open' => streak' >= MaxFailures)
  <2> SUFFICES ASSUME BreakerInv, [Next]_vars, ~open, open'
               PROVE  streak' >= MaxFailures
    OBVIOUS
  <2>1. PICK c \in Callers : Fail(c)
    BY Zenon DEF Next, vars, Enter, Acquire,
       GiveUp, Call, Succeed, Cancelled,
       Return, Cooldown
  <2>2. failures + 1 >= MaxFailures
    BY <2>1, Zenon DEF Fail
  <2> QED
    BY <2>1, <2>2, SMT DEF Fail, Capped, BreakerInv, BreakerNum,
       BreakerCounted
<1> QED
  BY <1>1, BreakerInvariance, PTL DEF Spec, OpensOnlyOnFailures
=============================================================================
