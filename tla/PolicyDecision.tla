--------------------------- MODULE PolicyDecision ---------------------------
(***************************************************************************)
(* The settings of a policy, their validation, and the decision that they  *)
(* and a list of rule matches give for a score.                            *)
(***************************************************************************)
EXTENDS Texts

\* Default(), for the settings that decide.
Default == [monitorAt |-> 30, interventionAt |-> 80, action |-> "block"]

Normalized(p) ==
  [monitorAt |-> IF p.monitorAt <= 0 THEN 30 ELSE p.monitorAt,
   interventionAt |-> IF p.interventionAt <= 0 THEN 80 ELSE p.interventionAt,
   action |-> IF p.action = "" THEN "block" ELSE p.action]

Validate(p) ==
  LET q == Normalized(p)
  IN /\ 1 <= q.monitorAt /\ q.interventionAt <= 100
     /\ q.monitorAt < q.interventionAt
     /\ q.action \in {"block", "redact"}

Decide(score, p) ==
  LET q == Normalized(p)
  IN CASE score >= q.interventionAt -> q.action
       [] score < q.interventionAt /\ score >= q.monitorAt -> "monitor"
       [] OTHER -> "allow"

\* What the action of a match makes of a decision.
Elevated(d, a) ==
  CASE a = "block" -> "block"
    [] a = "redact" /\ d # "block" -> "redact"
    [] a = "monitor" /\ d = "allow" -> "monitor"
    [] OTHER -> d

\* The actions of the matches, in their order; block ends the loop.
Elevate(matches, decision) ==
  LET after[i \in 0..Len(matches)] ==
        IF i = 0 THEN decision ELSE Elevated(after[i - 1], matches[i])
  IN after[Len(matches)]
=============================================================================
