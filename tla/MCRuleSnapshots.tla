--------------------------- MODULE MCRuleSnapshots ---------------------------
(* Instances of RuleSnapshots: overlapping publications, lost messages, an  *)
(* outage and every order of refreshes and lookups, for the global scope    *)
(* and for a tenant that has no rule set at first.                          *)
EXTENDS RuleSnapshots

MCMaxPublishes == [global |-> 3, tenant |-> 2]
=============================================================================
