----------------------------- MODULE LoginGuard ------------------------------
(***************************************************************************)
(* The failed sign-ins that one gateway remembers: loginGuard, which locks *)
(* an account after MaxFailures in a window, and authThrottle, which turns *)
(* an address away after Limit in a window.  Times are kept as ages in     *)
(* ticks, capped where the code no longer tells them apart.                *)
(***************************************************************************)
EXTENDS Integers, FiniteSetsExt

CONSTANTS None,
          MaxFailures, Window,  \* of the account
          Limit, Period         \* of the address

ASSUME LoginGuardAssumption ==
  /\ MaxFailures \in Nat \ {0} /\ Window \in Nat \ {0}
  /\ Limit \in Nat \ {0} /\ Period \in Nat \ {0}
  /\ None \notin Int /\ None \notin [age : Int, left : Int, count : Int]

VARIABLES entry,   \* loginFailures of the account: age of the window, what is
                   \* left of the lockout, count; or None
          bucket,  \* authBucket of the address: age of the window, count; or None
          recent   \* history: failures by age since the last success

guardVars == <<entry, bucket, recent>>

Ages == 0..(Window - 1)
NoFailures == [i \in Ages |-> 0]

\* The failures of the last window, each as its age and a number.
Failures == UNION {{i} \X (1..recent[i]) : i \in Ages}

GuardInit == entry = None /\ bucket = None /\ recent = NoFailures
-----------------------------------------------------------------------------
\* loginGuard.blocked and authThrottle.blocked
Locked == entry # None /\ entry.left > 0
Throttled == bucket # None /\ bucket.age <= Period /\ bucket.count >= Limit

\* Mutant of Counted: a new window starts once the old one is full.
CountedOver(e) ==
  IF e.count + 1 > MaxFailures THEN [age |-> 0, left |-> Window, count |-> 0]
  ELSE [e EXCEPT !.count = @ + 1]

Counted(e) ==
  IF e.count + 1 >= MaxFailures THEN [age |-> 0, left |-> Window, count |-> 0]
  ELSE [e EXCEPT !.count = @ + 1]

\* authThrottle.fail
Charged(b) == IF b = None \/ b.age > Period THEN [age |-> 0, count |-> 1]
              ELSE [b EXCEPT !.count = @ + 1]

\* loginFailed: fail of both.
Failure ==
  /\ entry' = Counted(IF entry = None \/ entry.age > Window
                      THEN [age |-> 0, left |-> 0, count |-> 0] ELSE entry)
  /\ bucket' = Charged(bucket)
  /\ recent' = [recent EXCEPT ![0] = @ + 1]

\* loginGuard.success
Success == entry' = None /\ recent' = NoFailures /\ UNCHANGED bucket

\* What authThrottle.blocked deletes of an expired window is left to Tick.
Tick ==
  /\ entry' = IF entry = None \/ entry.age > Window THEN entry
              ELSE [entry EXCEPT !.age = @ + 1, !.left = Max({0, @ - 1})]
  /\ bucket' = IF bucket = None \/ bucket.age = Period THEN None
               ELSE [bucket EXCEPT !.age = @ + 1]
  /\ recent' = [i \in Ages |-> IF i = 0 THEN 0 ELSE recent[i - 1]]
=============================================================================
