------------------------- MODULE MCPolicySnapshots --------------------------
(***************************************************************************)
(* Two stricter settings, with a defaulted threshold, and one that is not  *)
(* valid once it is defaulted (30 >= 20).                                  *)
(***************************************************************************)
EXTENDS PolicySnapshots, TLC

MCSettings ==
  {[monitorAt |-> 10, interventionAt |-> 0, action |-> "redact"],
   [monitorAt |-> 0, interventionAt |-> 50, action |-> ""],
   [monitorAt |-> 0, interventionAt |-> 20, action |-> "block"]}

\* The policies of one direction that a tenant's route may resolve to.
MCEdited == {t \in Targets : t[3] = "request" /\ (t[1] = Global \/ t[2] = AnyRoute)}

\* Both sides of the thresholds, and matches in either order.
MCScores == {9, 10, 49, 79, 80}
MCMatchLists == {<<>>, <<"monitor">>, <<"redact", "monitor">>, <<"monitor", "block">>,
                 <<"block", "redact">>}
=============================================================================
