------------------------------ MODULE Policies ------------------------------
(***************************************************************************)
(* The audit policies: the table that administrators change, and the       *)
(* policy of a tenant, route and direction that a gateway finds in it.     *)
(* The table maps a target <<scope, route, direction>> (UNIQUE in          *)
(* PostgreSQL) to its settings, or to None.                                *)
(***************************************************************************)
EXTENDS PolicyDecision, FiniteSets

CONSTANTS Tenants, Routes,
          Global, AnyRoute,  \* the scope "global" and the route "*"
          None,
          Settings,     \* what an administrator may ask for
          Edited,       \* bound: the targets that administrators touch
          Scores,       \* bound: the scores that are decided on
          MatchLists    \* bound: the actions of the rules that matched

VARIABLE db  \* the table policies

Directions == {"request", "response"}
Targets == (Tenants \cup {Global}) \X (Routes \cup {AnyRoute}) \X Directions

ASSUME PoliciesAssumption ==
  /\ Edited \subseteq Targets
  /\ Settings \subseteq [monitorAt : Int, interventionAt : Int, action : STRING]
  /\ None \notin [monitorAt : Int, interventionAt : Int, action : {"block", "redact"}]
  /\ Scores \subseteq Int
  /\ MatchLists \subseteq Seq({"allow", "monitor", "redact", "block"})

\* Mutant of specificity: the route counts more than the tenant.
specificityByRoute(t, tenant, route) ==
  IF t[1] \notin {tenant, Global} \/ t[2] \notin {route, AnyRoute} THEN -1
  ELSE (IF t[1] = tenant THEN 1 ELSE 0) + (IF t[2] = route THEN 2 ELSE 0)

specificity(t, tenant, route) ==
  IF t[1] \notin {tenant, Global} \/ t[2] \notin {route, AnyRoute} THEN -1
  ELSE (IF t[1] = tenant THEN 4 ELSE 0) + (IF t[2] = route THEN 1 ELSE 0)

\* The policy of the highest specificity; the defaults when none applies.
Resolve(table, tenant, route, direction) ==
  LET candidates == {t \in Targets : table[t] # None /\ t[3] = direction
                                       /\ specificity(t, tenant, route) >= 0}
      best == CHOOSE t \in candidates : \A o \in candidates :
                specificity(o, tenant, route) <= specificity(t, tenant, route)
  IN Normalized(IF candidates = {} THEN Default ELSE table[best])

\* Status().Count.
Count(table) == Cardinality({t \in Targets : table[t] # None})
-----------------------------------------------------------------------------
\* EnsurePolicies, or the seed: the global policies of both directions.
Seeded == [t \in Targets |-> IF t[1] = Global /\ t[2] = AnyRoute THEN Default ELSE None]

\* CreatePolicy, UpdatePolicy (which may move a policy to a free target) and
\* DeletePolicy, each one statement.
Valid == {Normalized(s) : s \in {s \in Settings : Validate(s)}}
Free == {t \in Edited : db[t] = None}
Stored == {t \in Edited : db[t] # None}

Created == {[db EXCEPT ![t] = s] : t \in Free, s \in Valid}
Updated == {[db EXCEPT ![t] = None, ![u] = s] : t \in Stored, u \in Free, s \in Valid}
           \cup {[db EXCEPT ![t] = s] : t \in Stored, s \in Valid}
Deleted == {[db EXCEPT ![t] = None] : t \in Stored}

Changed == Created \cup Updated \cup Deleted

TableInit == db = Seeded
TableNext == db' \in Changed
-----------------------------------------------------------------------------
Severity == [allow |-> 0, monitor |-> 1, redact |-> 2, block |-> 3]

\* The policy that decides, by the order of precedence: the tenant's for the
\* route, the tenant's, the global one for the route, the global one.
Expected(table, tenant, route, direction) ==
  LET has(s, r) == table[<<s, r, direction>>] # None
      get(s, r) == table[<<s, r, direction>>]
  IN CASE has(tenant, route) -> get(tenant, route)
       [] ~has(tenant, route) /\ has(tenant, AnyRoute) -> get(tenant, AnyRoute)
       [] OTHER -> IF has(Global, route) THEN get(Global, route)
                   ELSE IF has(Global, AnyRoute) THEN get(Global, AnyRoute) ELSE Default

\* A table decides by the severest of the rule matches and of the threshold
\* that the score reaches in the most specific policy, whatever the order of
\* the matches.
Severest(table) ==
  \A tenant \in Tenants, route \in Routes, direction \in Directions :
    LET used == Resolve(table, tenant, route, direction)
        p == Expected(table, tenant, route, direction)
    IN \A score \in Scores, matches \in MatchLists :
         LET byScore == IF score >= p.interventionAt THEN Severity[p.action]
                        ELSE IF score >= p.monitorAt THEN 1 ELSE 0
             all == {byScore} \cup {Severity[matches[i]] : i \in DOMAIN matches}
         IN Severity[Elevate(matches, Decide(score, used))] = Max(all)
=============================================================================
