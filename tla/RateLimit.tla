------------------------------ MODULE RateLimit ------------------------------
(***************************************************************************)
(* The limiter of one identity over several gateways: a token bucket in    *)
(* Redis, filled by the clocks of whichever gateway runs the script and    *)
(* forgotten when its key expires, and the bucket of its own that each     *)
(* gateway falls back to while Redis fails.                                *)
(*                                                                         *)
(* Time is in milliseconds and a token is Second units, so that a          *)
(* millisecond fills Rate units and every quantity is an integer.  The     *)
(* script gets the time of the caller: it differs from the real time by    *)
(* the skew of the clocks and by the delay of the call.                    *)
(***************************************************************************)
EXTENDS Integers

CONSTANTS Gateways, Shared, None,
          Second,      \* milliseconds in a second, units in a token
          Rate, Burst, \* RATE_LIMIT_RPS and RATE_LIMIT_BURST
          Lag, Lead,   \* how far the caller's time is behind or ahead
          MaxTime, MaxCalls, MaxFaults  \* bounds

ASSUME RateLimitAssumption ==
  /\ Second \in Nat \ {0} /\ Rate \in Nat \ {0} /\ Burst \in Nat \ {0}
  /\ Lag \in Nat /\ Lead \in Nat
  /\ MaxTime \in Nat /\ MaxCalls \in Nat /\ MaxFaults \in Nat
  /\ None \notin Int /\ None \notin [tokens : Int, at : Int]
  /\ Shared \notin Gateways

\* The clocks and the delay stay within the time that fills the bucket.
ASSUME SkewAssumption == Rate * (Lag + Lead) <= Burst * Second

VARIABLES time,
          bucket,   \* the tokens of a bucket and the time they are of, or None
          expires,  \* when the key in Redis goes
          up,       \* Redis answers
          since,    \* history: the start of the period that is observed
          admitted, \* history: what each bucket admitted in that period
          lost,     \* history: how often Redis lost its data in that period
          hint,     \* history: when a refused caller was told to come back
          broken,   \* history: a caller who waited so long was refused again
          calls, faults

limitVars == <<time, bucket, expires, up, since, admitted, lost, hint, broken,
              calls, faults>>

Buckets == Gateways \cup {Shared}
Full == Burst * Second

\* The quotient, rounded up.
Ceiling(n, d) == (n + d - 1) \div d
Least(a, b) == IF a <= b THEN a ELSE b
Most(a, b) == IF a >= b THEN a ELSE b

LimitInit ==
  /\ time = 0 /\ expires = 0
  /\ bucket = [b \in Buckets |-> None]
  /\ up = TRUE
  /\ admitted = [b \in Buckets |-> 0]
  /\ since = None /\ lost = 0
  /\ hint = [b \in Buckets |-> None]
  /\ broken = FALSE
  /\ calls = 0 /\ faults = 0
-----------------------------------------------------------------------------
\* The tokens at a time: both implementations start with a full bucket.  A time
\* before that of the bucket takes tokens away.
Filled(b, now) ==
  IF bucket[b] = None THEN Full
  ELSE Least(Full, bucket[b].tokens + (now - bucket[b].at) * Rate)

\* A caller who takes the token if there is one.
Left(b, now) ==
  IF Filled(b, now) >= Second THEN Filled(b, now) - Second ELSE Filled(b, now)

Takes(b, now) == bucket' = [bucket EXCEPT ![b] = [tokens |-> Left(b, now), at |-> now]]

\* Mutant of Lifetime: the time that fills the bucket.
LifetimeOnce == Ceiling(Full, Rate)

\* PEXPIRE, for the shared bucket: twice the time that fills it.
Lifetime == Ceiling(2 * Full, Rate)

\* Mutant of RetryAfter: the fraction of a second is cut off.
RetryTruncated(tokens) ==
  (Ceiling(Most(0, Second - tokens), Rate) \div Second) * Second

\* The Retry-After header, in milliseconds: at least one second.
RetryAfter(tokens) ==
  Most(1, Ceiling(Most(0, Second - tokens), Rate) \div Second) * Second

\* How much longer than Retry-After a caller may have to wait: the clock of the
\* gateway that refused may be ahead, that of the next one behind, and a bucket
\* that a clock has put into debt waits for longer than a second, of which the
\* header keeps whole seconds.
Slack(b) == IF b = Shared THEN Lag + Lead ELSE 0

\* The answer of a bucket; the caller waits by the real time.
Answers(b, now) ==
  LET ok == Filled(b, now) >= Second
  IN /\ admitted' = [admitted EXCEPT ![b] = IF ok /\ since # None THEN @ + 1 ELSE @]
     /\ hint' = [hint EXCEPT ![b] = IF ok THEN None ELSE time + RetryAfter(Left(b, now))]
     /\ broken' = (broken \/ (~ok /\ hint[b] # None /\ time >= hint[b] + Slack(b)))

\* RedisLimiter.Allow, the script and its answer.
AllowShared(now) ==
  /\ up /\ calls < MaxCalls
  /\ Takes(Shared, now) /\ Answers(Shared, now)
  /\ expires' = time + Lifetime
  /\ calls' = calls + 1
  /\ UNCHANGED <<time, up, since, lost, faults>>

\* The script runs and its answer is lost; the client runs it again, or the
\* call fails.
AnswerLost(now) ==
  /\ up /\ faults < MaxFaults
  /\ Takes(Shared, now)
  /\ expires' = time + Lifetime
  /\ hint' = [hint EXCEPT ![Shared] = None]
  /\ faults' = faults + 1
  /\ UNCHANGED <<time, up, since, admitted, lost, broken, calls>>

\* AdaptiveLimiter.Allow after an error: allowLocal, by the monotonic clock.
AllowLocal(g) ==
  /\ ~up /\ calls < MaxCalls
  /\ Takes(g, time) /\ Answers(g, time)
  /\ calls' = calls + 1
  /\ UNCHANGED <<time, expires, up, since, lost, faults>>

\* Mutant of Outage: every outage starts with full buckets.
OutageResets ==
  /\ up /\ faults < MaxFaults
  /\ up' = FALSE /\ faults' = faults + 1
  /\ bucket' = [b \in Buckets |-> IF b = Shared THEN bucket[b] ELSE None]
  /\ UNCHANGED <<time, expires, since, admitted, lost, hint, broken, calls>>

\* Redis fails, and keeps its data or loses them: it runs without a volume.
Outage ==
  /\ up /\ faults < MaxFaults
  /\ up' = FALSE /\ faults' = faults + 1
  /\ \/ UNCHANGED <<bucket, lost>>
     \/ /\ bucket' = [bucket EXCEPT ![Shared] = None]
        /\ lost' = IF since = None THEN lost ELSE lost + 1
  /\ UNCHANGED <<time, expires, since, admitted, hint, broken, calls>>

Back ==
  /\ ~up
  /\ up' = TRUE
  /\ UNCHANGED <<time, bucket, expires, since, admitted, lost, hint, broken, calls, faults>>

Tick ==
  /\ time < MaxTime
  /\ time' = time + 1
  /\ bucket' = [bucket EXCEPT ![Shared] = IF time' >= expires THEN None ELSE @]
  /\ UNCHANGED <<expires, up, since, admitted, lost, hint, broken, calls, faults>>

\* The observation begins: at any moment.
Observe ==
  /\ since = None
  /\ since' = time
  /\ UNCHANGED <<time, bucket, expires, up, admitted, lost, hint, broken, calls, faults>>

LimitNext ==
  \/ \E now \in (time - Lag)..(time + Lead) : AllowShared(now) \/ AnswerLost(now)
  \/ \E g \in Gateways : AllowLocal(g)
  \/ Outage \/ Back \/ Tick \/ Observe

LimitSpec == LimitInit /\ [][LimitNext]_limitVars
-----------------------------------------------------------------------------
\* In any period, however the clocks of the gateways differ, calls are delayed
\* and repeated and the key expires, the gateways together admit no more than
\* the burst and what the rate fills meanwhile, the skew included; and a burst,
\* with the skew, for each time that Redis lost its data.
SharedBounded ==
  since # None =>
    admitted[Shared] * Second
      <= (lost + 1) * (Full + Rate * (Lag + Lead)) + Rate * (time - since)

\* "fails over to a per-process token bucket on Redis errors"
\* (src/internal/ratelimit/redis.go:86): over any number of outages a gateway
\* admits by itself no more than its own burst and rate.
FailoverBounded ==
  since # None =>
    \A g \in Gateways : admitted[g] * Second <= Full + Rate * (time - since)

\* A caller who was refused by a bucket and comes back to it after the time of
\* Retry-After, with nobody asking in between, is admitted: by the bucket of a
\* gateway at once, and by the shared one when it waited for the skew of the
\* clocks as well.  The header alone does not suffice there: 1500 ms are answered
\* as "1" (handler.go:197), and the next gateway's clock may be behind.
RetrySuffices == ~broken
=============================================================================
