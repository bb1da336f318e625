--------------------------- MODULE SnapshotsProofs ---------------------------
(***************************************************************************)
(* The snapshots that a gateway decides with, for any number of            *)
(* administrators, tenants, routes, changes and losses of PostgreSQL: the  *)
(* policies, and the publication of the rule sets.                         *)
(***************************************************************************)
EXTENDS PolicySnapshots, RulePublication, WellFoundedInduction, TLAPS

\* A policy with its defaults filled in that Validate accepts.
Proper(p) ==
  /\ p \in [monitorAt : 1..100, interventionAt : 1..100, action : {"block", "redact"}]
  /\ p.monitorAt < p.interventionAt

\* A content of the table that the gateway may read.
Sound(table) ==
  /\ table = [t \in Targets |-> table[t]]
  /\ \A t \in Targets : table[t] = None \/ Proper(table[t])

\* The inductive invariant: what is stored, and what is about to be, is a
\* content of the table.
PolicyInv ==
  /\ db \in past
  /\ \A table \in past : Sound(table)
  /\ snap \in Snapshots
  /\ pend = [w \in Writers |-> pend[w]]
  /\ \A w \in Writers : pend[w] # None => pend[w] \in Snapshots
-----------------------------------------------------------------------------
\* DefaultPolicy is valid and has nothing to fill in.
LEMMA DefaultIsProper == Proper(Default)
  BY SMT DEF Proper, Default

\* What Validate accepts is stored with its defaults filled in, as a proper policy.
LEMMA NormalizedIsProper ==
  ASSUME NEW s \in [monitorAt : Int, interventionAt : Int, action : STRING], Validate(s)
  PROVE  Proper(Normalized(s))
<1>1. PICK m, i, a : /\ m = IF s.monitorAt <= 0 THEN 30 ELSE s.monitorAt
                     /\ i = IF s.interventionAt <= 0 THEN 80 ELSE s.interventionAt
                     /\ a = IF s.action = "" THEN "block" ELSE s.action
  BY Zenon
<1>2. Normalized(s) = [monitorAt |-> m, interventionAt |-> i, action |-> a]
  BY <1>1, Zenon DEF Normalized
<1>3. 1 <= m /\ i <= 100 /\ m < i /\ a \in {"block", "redact"}
  <2>1. /\ Normalized(s).monitorAt = m /\ Normalized(s).interventionAt = i
        /\ Normalized(s).action = a
    BY <1>2
  <2> QED
    BY <2>1, Zenon DEF Validate
<1>4. m \in Int /\ i \in Int
  <2>1. s.monitorAt \in Int /\ s.interventionAt \in Int
    BY Zenon
  <2>2. 30 \in Int /\ 80 \in Int
    BY SMT
  <2> QED
    BY <1>1, <2>1, <2>2, Zenon
<1>5. m \in 1..100 /\ i \in 1..100
  BY <1>3, <1>4, SMTT(30)
<1> QED
  BY <1>2, <1>3, <1>5, SMTT(30) DEF Proper

\* The fields of a proper policy.
LEMMA ProperFields ==
  ASSUME NEW p, Proper(p)
  PROVE  /\ p.monitorAt \in 1..100 /\ p.interventionAt \in 1..100
         /\ p.monitorAt < p.interventionAt /\ p.action \in {"block", "redact"}
         /\ p = [monitorAt |-> p.monitorAt, interventionAt |-> p.interventionAt,
                 action |-> p.action]
<1>1. \A A, B, C : \A q \in [monitorAt : A, interventionAt : B, action : C] :
        q.monitorAt \in A /\ q.interventionAt \in B /\ q.action \in C
  BY Zenon
<1>2. \A A, B, C : \A q \in [monitorAt : A, interventionAt : B, action : C] :
        q = [monitorAt |-> q.monitorAt, interventionAt |-> q.interventionAt,
             action |-> q.action]
  BY SMT
<1> QED
  BY <1>1, <1>2, Zenon DEF Proper

\* Normalized leaves a proper policy alone, and Validate accepts it.
LEMMA ProperIs ==
  ASSUME NEW p, Proper(p)
  PROVE  /\ Normalized(p) = p /\ Validate(p)
         /\ p.monitorAt \in 1..100 /\ p.interventionAt \in 1..100
         /\ p.monitorAt < p.interventionAt /\ p.action \in {"block", "redact"}
<1>1. /\ p.monitorAt \in 1..100 /\ p.interventionAt \in 1..100
      /\ p.monitorAt < p.interventionAt /\ p.action \in {"block", "redact"}
      /\ p = [monitorAt |-> p.monitorAt, interventionAt |-> p.interventionAt, action |-> p.action]
  BY ProperFields
<1>2. ~(p.monitorAt <= 0) /\ ~(p.interventionAt <= 0) /\ p.action # ""
      /\ 1 <= p.monitorAt /\ p.interventionAt <= 100
  <2>1. \A n \in 1..100 : ~(n <= 0) /\ 1 <= n /\ n <= 100
    BY SMT
  <2>2. p.action = "block" \/ p.action = "redact"
    BY <1>1
  <2> QED
    BY <1>1, <2>1, <2>2, Zenon
<1>3. Normalized(p) = p
  BY <1>1, <1>2, Zenon DEF Normalized
<1>4. Validate(p)
  BY <1>1, <1>2, <1>3, Zenon DEF Validate
<1> QED
  BY <1>1, <1>3, <1>4, SMTT(30)

-----------------------------------------------------------------------------
\* Every content of the table is sound: what is seeded, and what a change makes.
LEMMA SeededIsSound == Sound(Seeded) /\ Sound(OnlyDefault)
  BY DefaultIsProper, Zenon DEF Sound, Seeded, OnlyDefault

\* createPolicy, updatePolicy and deletePolicy leave a sound table.
LEMMA ChangedIsSound ==
  ASSUME Sound(db), NEW table \in Changed
  PROVE  Sound(table)
<1>1. \A s \in Valid : Proper(s)
  <2> SUFFICES ASSUME NEW s \in Settings, Validate(s) PROVE Proper(Normalized(s))
    BY Zenon DEF Valid
  <2>1. s \in [monitorAt : Int, interventionAt : Int, action : STRING]
    BY PoliciesAssumption, Zenon DEF PoliciesAssumption
  <2> QED
    BY <2>1, NormalizedIsProper, SMTT(30)
<1>2. Free \subseteq Targets /\ Stored \subseteq Targets
  BY PoliciesAssumption, Zenon DEF PoliciesAssumption, Free, Stored
<1>3. ASSUME NEW c, Sound(c), NEW t \in Targets, NEW s, s = None \/ Proper(s)
      PROVE  Sound([c EXCEPT ![t] = s])
  BY <1>3, Zenon DEF Sound
<1>4. CASE table \in Created
  <2>1. PICK t \in Free, s \in Valid : table = [db EXCEPT ![t] = s]
    BY <1>4 DEF Created
  <2> QED
    BY <1>1, <1>2, <1>3, <2>1, ZenonT(60)
<1>5. CASE table \in Deleted
  <2>1. PICK t \in Stored : table = [db EXCEPT ![t] = None]
    BY <1>5, Zenon DEF Deleted
  <2> QED
    BY <1>2, <1>3, <2>1, Zenon
<1>6. CASE table \in Updated
  <2>1. CASE \E t \in Stored, s \in Valid : table = [db EXCEPT ![t] = s]
    <3>1. PICK t \in Stored, s \in Valid : table = [db EXCEPT ![t] = s]
      BY <2>1, Zenon
    <3>2. Sound([db EXCEPT ![t] = s])
      BY <1>1, <1>2, <1>3, Zenon
    <3> QED
      BY <3>1, <3>2, Zenon
  <2>2. CASE \E t \in Stored, u \in Free, s \in Valid : table = [db EXCEPT ![t] = None, ![u] = s]
    <3>1. PICK t \in Stored, u \in Free, s \in Valid : table = [db EXCEPT ![t] = None, ![u] = s]
      BY <2>2, Zenon
    <3>2. Sound([db EXCEPT ![t] = None])
      BY <1>2, <1>3, Zenon
    <3>3. Sound([[db EXCEPT ![t] = None] EXCEPT ![u] = s])
      BY <1>1, <1>2, <1>3, <3>2, ZenonT(60)
    <3> QED
      BY <3>1, <3>3, Zenon
  <2> QED
    BY <1>6, <2>1, <2>2, SMTT(30) DEF Updated
<1> QED
  BY <1>4, <1>5, <1>6, Zenon DEF Changed

\* A gateway starts with what was seeded.
LEMMA InitPolicyInv == Init => PolicyInv
<1> SUFFICES ASSUME Init PROVE PolicyInv
  OBVIOUS
<1>1. /\ db = Seeded /\ past = {Seeded} /\ snap = [policies |-> Seeded, stale |-> FALSE]
      /\ pend = [w \in Writers |-> None]
  BY Zenon DEF Init, TableInit
<1>2. db \in past /\ \A table \in past : Sound(table)
  BY <1>1, SeededIsSound, Zenon
<1>3. snap \in Snapshots
  BY <1>1, Zenon DEF Snapshots
<1>4. pend = [w \in Writers |-> pend[w]] /\ \A w \in Writers : pend[w] = None
  BY <1>1, Zenon
<1> QED
  BY <1>2, <1>3, <1>4, ZenonT(60) DEF PolicyInv

\* A goroutine comes to hold a snapshot that it may store.
LEMMA PendStep ==
  ASSUME PolicyInv, NEW w \in Writers, NEW s, s = None \/ s \in Snapshots,
         pend' = [pend EXCEPT ![w] = s], UNCHANGED <<db, past>>,
         snap' = snap \/ snap' \in Snapshots
  PROVE  PolicyInv'
<1>1. Snapshots' = Snapshots
  BY Zenon DEF Snapshots, OnlyDefault
<1>2. /\ pend' = [v \in Writers |-> pend'[v]]
      /\ \A v \in Writers : pend'[v] = pend[v] \/ pend'[v] = s
  BY Zenon DEF PolicyInv
<1>3. snap' \in Snapshots
  BY Zenon DEF PolicyInv
<1>4. \A v \in Writers : pend'[v] # None => pend'[v] \in Snapshots
  BY <1>2, Zenon DEF PolicyInv
<1> QED
  BY <1>1, <1>2, <1>3, <1>4, ZenonT(60) DEF PolicyInv

\* What Refresh compiles and what MarkStale copies are whole.
LEMMA WholeWrites ==
  ASSUME PolicyInv, NEW w \in Writers, Lists(w) \/ LoadsMark(w)
  PROVE  \E s \in Snapshots : pend' = [pend EXCEPT ![w] = s]
<1>1. CASE Lists(w)
  <2>1. Listed \in past \cup {OnlyDefault}
    BY Zenon DEF Listed, PolicyInv
  <2>2. [policies |-> Listed, stale |-> FALSE] \in Snapshots
    BY <2>1, Zenon DEF Snapshots
  <2> QED
    BY <1>1, <2>2, Zenon DEF Lists
<1>2. CASE LoadsMark(w)
  <2>1. snap.policies \in past \cup {OnlyDefault}
    BY Zenon DEF Snapshots, PolicyInv
  <2>2. [policies |-> snap.policies, stale |-> TRUE] \in Snapshots
    BY <2>1, Zenon DEF Snapshots
  <2> QED
    BY <1>2, <2>2, Zenon DEF LoadsMark
<1> QED
  BY <1>1, <1>2, SMTT(30)

\* A change of the table keeps the contents it had.
LEMMA ChangeStep ==
  ASSUME PolicyInv, NEW a \in Admins, Change(a)
  PROVE  PolicyInv'
<1>1. /\ db' \in Changed /\ past' = past \cup {db'} /\ snap' = snap /\ pend' = pend
  BY Zenon DEF Change, TableNext
<1>2. Sound(db)
  BY Zenon DEF PolicyInv
<1>3. Sound(db')
  BY <1>1, <1>2, ChangedIsSound, SMTT(30)
<1>4. Snapshots \subseteq Snapshots'
  <2>1. past \cup {OnlyDefault} \subseteq past' \cup {OnlyDefault'}
    BY <1>1, Zenon DEF OnlyDefault
  <2>2. \A A, B : A \subseteq B =>
          [policies : A, stale : BOOLEAN] \subseteq [policies : B, stale : BOOLEAN]
    BY SMT
  <2>3. [policies : past \cup {OnlyDefault}, stale : BOOLEAN] \subseteq
          [policies : past' \cup {OnlyDefault'}, stale : BOOLEAN]
    BY <2>1, <2>2, Zenon
  <2> QED
    BY <2>3, Zenon DEF Snapshots
<1>5. db' \in past' /\ \A table \in past' : Sound(table)
  BY <1>1, <1>3, Zenon DEF PolicyInv
<1> QED
  BY <1>1, <1>4, <1>5, Zenon DEF PolicyInv

\* Every step of the administrators, the refreshes and the probe keeps it.
LEMMA PolicyInvStep == PolicyInv /\ [Next]_vars => PolicyInv'
<1> SUFFICES ASSUME PolicyInv, [Next]_vars PROVE PolicyInv'
  OBVIOUS
<1>1. ASSUME NEW a \in Admins, Change(a) PROVE PolicyInv'
  BY <1>1, ChangeStep, SMTT(30)
<1>2. ASSUME UNCHANGED <<db, past, snap, pend>> PROVE PolicyInv'
  <2>1. Snapshots' = Snapshots
    BY <1>2, Zenon DEF Snapshots, OnlyDefault
  <2> QED
    BY <1>2, <2>1, Zenon DEF PolicyInv
<1>3. ASSUME NEW w \in Writers, UNCHANGED <<db, past, snap>>, Lists(w) \/ LoadsMark(w)
      PROVE  PolicyInv'
  BY <1>3, WholeWrites, PendStep, ZenonT(60)
<1>4. ASSUME NEW w \in Writers, Store(w) PROVE PolicyInv'
  <2>1. /\ pend[w] # None /\ snap' = pend[w] /\ pend' = [pend EXCEPT ![w] = None]
        /\ UNCHANGED <<db, past>>
    BY <1>4, Zenon DEF Store
  <2>2. snap' \in Snapshots
    BY <2>1, Zenon DEF PolicyInv
  <2> QED
    BY <2>1, <2>2, PendStep, ZenonT(60)
<1>5. \A a \in Admins : a \in Writers
  BY DEF Writers
<1>6. "poll" \in Writers /\ "event" \in Writers /\ "probe" \in Writers
  BY DEF Writers
<1>7. ASSUME NEW a \in Admins, HandlerLists(a) \/ Notify(a) PROVE PolicyInv'
  BY <1>2, <1>3, <1>5, <1>7, ZenonT(60) DEF HandlerLists, Notify
<1>8. CASE Poll \/ Event \/ Probe
  BY <1>2, <1>3, <1>6, <1>8, ZenonT(60) DEF Poll, Event, Probe
<1>9. CASE DbLost \/ DbBack \/ UNCHANGED vars
  BY <1>2, <1>9, Zenon DEF DbLost, DbBack, vars
<1> QED
  BY <1>1, <1>4, <1>7, <1>8, <1>9, ZenonT(60) DEF Next

\* The invariant holds in every reachable state.
LEMMA PolicyInvariance == Spec => []PolicyInv
  BY InitPolicyInv, PolicyInvStep, PTL DEF Spec

\* Requests are decided by a content that the table had as a whole, however
\* the refreshes and marks of any number of goroutines overlap (Refresh,
\* MarkStale).
THEOREM SnapshotsAreWhole == Spec => []WholeSnapshots
<1>1. PolicyInv => WholeSnapshots
  BY Zenon DEF PolicyInv, WholeSnapshots
<1> QED
  BY <1>1, PolicyInvariance, PTL
-----------------------------------------------------------------------------
\* A target, and the targets that apply to a request.
Key(s, r, direction) == <<s, r, direction>>

Candidates(table, tenant, route, direction) ==
  {t \in Targets : table[t] # None /\ t[3] = direction /\ specificity(t, tenant, route) >= 0}

\* A target that applies is one of four, and its specificity is 4 for the
\* tenant and 1 for the route.
LEMMA CandidateIs ==
  ASSUME NEW table, NEW tenant \in Tenants, NEW route \in Routes, NEW direction \in Directions,
         NEW t \in Candidates(table, tenant, route, direction)
  PROVE  /\ t[1] \in {tenant, Global} /\ t[2] \in {route, AnyRoute}
         /\ t = Key(t[1], t[2], direction) /\ table[t] # None
         /\ specificity(t, tenant, route) =
              (IF t[1] = tenant THEN 4 ELSE 0) + (IF t[2] = route THEN 1 ELSE 0)
<1>1. t \in Targets /\ table[t] # None /\ t[3] = direction /\ specificity(t, tenant, route) >= 0
  BY Zenon DEF Candidates
<1>2. t = <<t[1], t[2], t[3]>>
  BY <1>1, SMTT(30) DEF Targets
<1>3. t[1] \in {tenant, Global} /\ t[2] \in {route, AnyRoute}
  <2>1. ~(-1 >= 0)
    BY SMT
  <2> QED
    BY <1>1, <2>1, Zenon DEF specificity
<1>4. specificity(t, tenant, route) =
              (IF t[1] = tenant THEN 4 ELSE 0) + (IF t[2] = route THEN 1 ELSE 0)
  BY <1>3, Zenon DEF specificity
<1> QED
  BY <1>1, <1>2, <1>3, <1>4, ZenonT(60) DEF Key

\* The four targets of the precedence are candidates when they are stored, and
\* their specificity is the tenant's 4 and the route's 1 added up.
LEMMA KeyIsCandidate ==
  ASSUME NEW table, NEW tenant \in Tenants, NEW route \in Routes, NEW direction \in Directions,
         NEW s \in {tenant, Global}, NEW r \in {route, AnyRoute}
  PROVE  /\ Key(s, r, direction) \in Targets
         /\ table[Key(s, r, direction)] # None =>
              /\ Key(s, r, direction) \in Candidates(table, tenant, route, direction)
              /\ specificity(Key(s, r, direction), tenant, route) =
                   (IF s = tenant THEN 4 ELSE 0) + (IF r = route THEN 1 ELSE 0)
<1>1. PICK k : k = Key(s, r, direction)
  OBVIOUS
<1>2. k[1] = s /\ k[2] = r /\ k[3] = direction
  BY <1>1, SMTT(30) DEF Key
<1>3. k \in Targets
  BY <1>1, SMTT(30) DEF Key, Targets
<1>4. specificity(k, tenant, route) = (IF s = tenant THEN 4 ELSE 0) + (IF r = route THEN 1 ELSE 0)
  BY <1>2, Zenon DEF specificity
<1>5. specificity(k, tenant, route) >= 0
  BY <1>4, SMTT(30)
<1>6. table[k] # None => k \in Candidates(table, tenant, route, direction)
  BY <1>2, <1>3, <1>5, ZenonT(60) DEF Candidates
<1> QED
  BY <1>1, <1>3, <1>4, <1>6, ZenonT(60)

\* The policy of the highest specificity is the one above all others.
LEMMA BestIs ==
  ASSUME NEW table, NEW tenant \in Tenants, NEW route \in Routes, NEW direction \in Directions,
         NEW k \in Candidates(table, tenant, route, direction),
         \A o \in Candidates(table, tenant, route, direction) :
           specificity(o, tenant, route) \in Int,
         \A o \in Candidates(table, tenant, route, direction) :
           o # k => specificity(o, tenant, route) < specificity(k, tenant, route)
  PROVE  Resolve(table, tenant, route, direction) = Normalized(table[k])
<1> DEFINE C == Candidates(table, tenant, route, direction)
           Sp(t) == specificity(t, tenant, route)
           best == CHOOSE t \in C : \A o \in C : Sp(o) <= Sp(t)
<1>1. \A t \in C : Sp(t) \in Int
  OBVIOUS
<1>2. Resolve(table, tenant, route, direction) = Normalized(IF C = {} THEN Default ELSE table[best])
  BY Zenon DEF Resolve, Candidates
<1> HIDE DEF C, Sp
<1>3. k \in C /\ \A o \in C : o # k => Sp(o) < Sp(k)
  BY Zenon DEF C, Sp
<1>4. \A o \in C : Sp(o) <= Sp(k)
  BY <1>1, <1>3, SMTT(30)
<1>5. best \in C /\ \A o \in C : Sp(o) <= Sp(best)
  BY <1>3, <1>4, Zenon
<1> HIDE DEF best
<1>6. best = k
  BY <1>1, <1>3, <1>5, SMTT(30)
<1>7. C # {}
  BY <1>3
<1> QED
  BY <1>2, <1>6, <1>7, Zenon

\* specificity and the loop of Resolve give the documented precedence: the
\* tenant's policy for the route, the tenant's, the global one for the route,
\* the global one, the defaults.
LEMMA ResolveIsExpected ==
  ASSUME NEW table, Sound(table),
         NEW tenant \in Tenants, NEW route \in Routes, NEW direction \in Directions
  PROVE  /\ Resolve(table, tenant, route, direction) = Expected(table, tenant, route, direction)
         /\ Proper(Expected(table, tenant, route, direction))
<1> DEFINE C == Candidates(table, tenant, route, direction)
           Sp(t) == specificity(t, tenant, route)
           K(s, r) == Key(s, r, direction)
           E == Expected(table, tenant, route, direction)
           R == Resolve(table, tenant, route, direction)
<1>1. \A t \in C : /\ t[1] \in {tenant, Global} /\ t[2] \in {route, AnyRoute}
                   /\ t = K(t[1], t[2]) /\ table[t] # None
                   /\ Sp(t) = (IF t[1] = tenant THEN 4 ELSE 0) + (IF t[2] = route THEN 1 ELSE 0)
  BY CandidateIs, SMTT(30)
<1>2. \A s \in {tenant, Global}, r \in {route, AnyRoute} :
        /\ K(s, r) \in Targets
        /\ table[K(s, r)] # None =>
             /\ K(s, r) \in C
             /\ Sp(K(s, r)) = (IF s = tenant THEN 4 ELSE 0) + (IF r = route THEN 1 ELSE 0)
  BY KeyIsCandidate, SMTT(30)
<1>3. \A k \in C : (\A o \in C : o # k => Sp(o) < Sp(k)) => R = Normalized(table[k])
  <2>1. \A t \in C : Sp(t) \in Int
    <3> HIDE DEF C, Sp
    <3> QED
      BY <1>1, SMTT(30)
  <2> QED
    BY <2>1, BestIs, SMTT(30)
<1>4. E = CASE table[K(tenant, route)] # None -> table[K(tenant, route)]
            [] ~(table[K(tenant, route)] # None) /\ table[K(tenant, AnyRoute)] # None ->
                 table[K(tenant, AnyRoute)]
            [] OTHER -> IF table[K(Global, route)] # None THEN table[K(Global, route)]
                        ELSE IF table[K(Global, AnyRoute)] # None THEN table[K(Global, AnyRoute)]
                        ELSE Default
  BY Zenon DEF Expected, Key
<1>5. R = Normalized(IF C = {} THEN Default
                     ELSE table[CHOOSE t \in C : \A o \in C : Sp(o) <= Sp(t)])
  BY Zenon DEF Resolve, Candidates
<1>6. \A t \in Targets : table[t] # None => Proper(table[t]) /\ Normalized(table[t]) = table[t]
  BY ProperIs, Zenon DEF Sound
<1>7. Normalized(Default) = Default /\ Proper(Default)
  BY DefaultIsProper, ProperIs, SMTT(30)
<1> SUFFICES R = E /\ Proper(E)
  OBVIOUS
<1> HIDE DEF C, Sp, K, E, R
<1>8. CASE table[K(tenant, route)] # None
  <2>1. K(tenant, route) \in C /\ Sp(K(tenant, route)) = 5
    BY <1>2, <1>8, SMTT(30)
  <2>2. \A o \in C : o # K(tenant, route) => Sp(o) < Sp(K(tenant, route))
    BY <1>1, <2>1, SMTT(30)
  <2>3. R = Normalized(table[K(tenant, route)])
    BY <1>3, <2>1, <2>2, SMTT(30)
  <2>4. E = table[K(tenant, route)]
    BY <1>4, <1>8, SMTT(30)
  <2> QED
    BY <1>2, <1>6, <1>8, <2>3, <2>4, ZenonT(60)
<1>9. CASE table[K(tenant, route)] = None /\ table[K(tenant, AnyRoute)] # None
  <2>1. K(tenant, AnyRoute) \in C /\ Sp(K(tenant, AnyRoute)) >= 4 /\ Sp(K(tenant, AnyRoute)) \in Int
    BY <1>2, <1>9, SMTT(30)
  <2>2. \A o \in C : o # K(tenant, AnyRoute) => Sp(o) < Sp(K(tenant, AnyRoute))
    <3> SUFFICES ASSUME NEW o \in C, o # K(tenant, AnyRoute)
                 PROVE  Sp(o) < Sp(K(tenant, AnyRoute))
      OBVIOUS
    <3>1. o[1] # tenant
      BY <1>1, <1>9, ZenonT(60)
    <3> QED
      BY <1>1, <2>1, <3>1, SMTT(30)
  <2>3. R = Normalized(table[K(tenant, AnyRoute)])
    BY <1>3, <2>1, <2>2, SMTT(30)
  <2>4. E = table[K(tenant, AnyRoute)]
    BY <1>4, <1>9, SMTT(30)
  <2> QED
    BY <1>2, <1>6, <1>9, <2>3, <2>4, ZenonT(60)
<1>10. CASE /\ table[K(tenant, route)] = None /\ table[K(tenant, AnyRoute)] = None
            /\ table[K(Global, route)] # None
  <2>1. K(Global, route) \in C /\ Sp(K(Global, route)) >= 1 /\ Sp(K(Global, route)) \in Int
    BY <1>2, <1>10, SMTT(30)
  <2>2. \A o \in C : o # K(Global, route) => Sp(o) < Sp(K(Global, route))
    <3> SUFFICES ASSUME NEW o \in C, o # K(Global, route)
                 PROVE  Sp(o) < Sp(K(Global, route))
      OBVIOUS
    <3>1. o[1] # tenant /\ o[2] # route
      BY <1>1, <1>10, ZenonT(60)
    <3> QED
      BY <1>1, <2>1, <3>1, SMTT(30)
  <2>3. R = Normalized(table[K(Global, route)])
    BY <1>3, <2>1, <2>2, SMTT(30)
  <2>4. E = table[K(Global, route)]
    BY <1>4, <1>10, SMTT(30)
  <2> QED
    BY <1>2, <1>6, <1>10, <2>3, <2>4, ZenonT(60)
<1>11. CASE /\ table[K(tenant, route)] = None /\ table[K(tenant, AnyRoute)] = None
            /\ table[K(Global, route)] = None /\ table[K(Global, AnyRoute)] # None
  <2>1. K(Global, AnyRoute) \in C
    BY <1>2, <1>11, SMTT(30)
  <2>2. \A o \in C : o = K(Global, AnyRoute)
    BY <1>1, <1>11, ZenonT(60)
  <2>3. R = Normalized(table[K(Global, AnyRoute)])
    BY <1>3, <2>1, <2>2, SMTT(30)
  <2>4. E = table[K(Global, AnyRoute)]
    BY <1>4, <1>11, SMTT(30)
  <2> QED
    BY <1>2, <1>6, <1>11, <2>3, <2>4, ZenonT(60)
<1>12. CASE /\ table[K(tenant, route)] = None /\ table[K(tenant, AnyRoute)] = None
            /\ table[K(Global, route)] = None /\ table[K(Global, AnyRoute)] = None
  <2>1. C = {}
    BY <1>1, <1>12, ZenonT(60)
  <2>2. E = Default
    BY <1>4, <1>12, SMTT(30)
  <2> QED
    BY <1>5, <1>7, <2>1, <2>2, ZenonT(60)
<1> QED
  BY <1>8, <1>9, <1>10, <1>11, <1>12, ZenonT(60)
-----------------------------------------------------------------------------
Actions == {"allow", "monitor", "redact", "block"}

\* The least of some numbers.
LEMMA Least ==
  ASSUME NEW S, S \subseteq Nat, S # {}
  PROVE  \E n \in S : \A m \in S : n <= m
<1>1. PICK n \in S : \A m \in S : ~(<<m, n>> \in OpToRel(<, Nat))
  BY WFMin, NatLessThanWellFounded, ZenonT(60)
<1>2. \A m \in S : ~(m < n)
  BY <1>1, Zenon DEF OpToRel
<1> QED
  BY <1>2, SMTT(30)

\* The decisions of the loop of Elevate after each match.
Loop(f, matches, d, n) ==
  f = [i \in 0..n |-> IF i = 0 THEN d ELSE Elevated(f[i - 1], matches[i])]

\* They exist: the recursion defines a function.
LEMMA LoopExists ==
  ASSUME NEW matches, NEW d, NEW n \in Nat
  PROVE  \E f : Loop(f, matches, d, n)
<1> DEFINE Bad == {m \in Nat : ~\E f : Loop(f, matches, d, m)}
<1> SUFFICES ASSUME Bad # {} PROVE FALSE
  OBVIOUS
<1>0. Bad \subseteq Nat
  OBVIOUS
<1>1. PICK m \in Bad : \A k \in Bad : m <= k
  BY <1>0, Least, ZenonT(60)
<1>2. m # 0
  <2>1. Loop([i \in 0..0 |-> d], matches, d, 0)
    BY SMT DEF Loop
  <2> QED
    BY <2>1, SMTT(30)
<1>3. m - 1 \in Nat /\ m - 1 \notin Bad
  BY <1>1, <1>2, SMTT(30)
<1>4. PICK g : Loop(g, matches, d, m - 1)
  BY <1>3
<1> DEFINE h == [i \in 0..m |-> IF i < m THEN g[i] ELSE Elevated(g[m - 1], matches[m])]
<1>5. m \in Nat /\ m > 0
  BY <1>1, <1>2, SMTT(30)
<1>6. \A i \in 0..m : h[i] = IF i = 0 THEN d ELSE Elevated(h[i - 1], matches[i])
  <2> SUFFICES ASSUME NEW i \in 0..m
               PROVE  h[i] = IF i = 0 THEN d ELSE Elevated(h[i - 1], matches[i])
    OBVIOUS
  <2>1. CASE i < m
    <3>1. i \in 0..(m - 1) /\ (i # 0 => i - 1 \in 0..m /\ i - 1 < m)
      BY <1>5, <2>1, SMTT(30)
    <3>2. g[i] = IF i = 0 THEN d ELSE Elevated(g[i - 1], matches[i])
      BY <1>4, <3>1, ZenonT(60) DEF Loop
    <3>3. h[i] = g[i] /\ (i # 0 => h[i - 1] = g[i - 1])
      BY <2>1, <3>1, SMTT(30)
    <3> QED
      BY <3>2, <3>3, Zenon
  <2>2. CASE i = m
    <3>1. m - 1 \in 0..m /\ m - 1 < m /\ ~(m < m) /\ m # 0
      BY <1>5, SMTT(30)
    <3>2. h[i] = Elevated(g[m - 1], matches[m]) /\ h[i - 1] = g[m - 1]
      BY <2>2, <3>1, SMTT(30)
    <3> QED
      BY <2>2, <3>1, <3>2, ZenonT(60)
  <2> QED
    BY <1>5, <2>1, <2>2, SMTT(30)
<1>7. Loop(h, matches, d, m)
  <2> HIDE DEF h
  <2>1. h = [i \in 0..m |-> h[i]]
    BY DEF h
  <2> QED
    BY <1>6, <2>1, Zenon DEF Loop
<1> QED
  BY <1>1, <1>7, Zenon

\* Elevate is the last of them.
LEMMA ElevateIs ==
  ASSUME NEW matches, Len(matches) \in Nat, NEW d
  PROVE  \E f : Loop(f, matches, d, Len(matches)) /\ Elevate(matches, d) = f[Len(matches)]
<1> DEFINE F == CHOOSE f : f = [i \in 0..Len(matches) |->
                                  IF i = 0 THEN d ELSE Elevated(f[i - 1], matches[i])]
<1>1. \E f : Loop(f, matches, d, Len(matches))
  BY LoopExists, Zenon
<1>2. \E f : f = [i \in 0..Len(matches) |-> IF i = 0 THEN d ELSE Elevated(f[i - 1], matches[i])]
  BY <1>1, Zenon DEF Loop
<1>3. F = [i \in 0..Len(matches) |-> IF i = 0 THEN d ELSE Elevated(F[i - 1], matches[i])]
  BY <1>2, Zenon
<1>4. Elevate(matches, d) = F[Len(matches)]
  BY Zenon DEF Elevate
<1> HIDE DEF F
<1> QED
  BY <1>3, <1>4, Zenon DEF Loop

\* A match never lowers a decision, and raises it to its own action.
LEMMA ElevatedIs ==
  ASSUME NEW d \in Actions, NEW a \in Actions
  PROVE  /\ Elevated(d, a) \in {d, a} /\ Severity[Elevated(d, a)] \in Nat
         /\ Severity[d] <= Severity[Elevated(d, a)]
         /\ Severity[a] <= Severity[Elevated(d, a)]
  BY SMT DEF Actions, Elevated, Severity

\* "without ever lowering the policy decision": Elevate gives the severest of
\* the decision and of the actions, whatever their number and order.
LEMMA ElevateIsSeverest ==
  ASSUME NEW matches \in Seq(Actions), NEW d \in Actions
  PROVE  /\ \/ Elevate(matches, d) = d
            \/ \E k \in DOMAIN matches : Elevate(matches, d) = matches[k]
         /\ Elevate(matches, d) \in Actions
         /\ Severity[d] <= Severity[Elevate(matches, d)]
         /\ \A k \in DOMAIN matches : Severity[matches[k]] <= Severity[Elevate(matches, d)]
<1>1. Len(matches) \in Nat /\ DOMAIN matches = 1..Len(matches)
      /\ \A k \in 1..Len(matches) : matches[k] \in Actions
  BY SMT
<1>2. PICK f : Loop(f, matches, d, Len(matches)) /\ Elevate(matches, d) = f[Len(matches)]
  BY <1>1, ElevateIs, SMTT(30)
<1>3. \A i \in 0..Len(matches) : f[i] = IF i = 0 THEN d ELSE Elevated(f[i - 1], matches[i])
  BY <1>2, Zenon DEF Loop
<1> DEFINE Good(i) == /\ f[i] = d \/ \E k \in 1..i : f[i] = matches[k]
                      /\ f[i] \in Actions
                      /\ Severity[d] <= Severity[f[i]]
                      /\ \A k \in 1..i : Severity[matches[k]] <= Severity[f[i]]
           Bad == {i \in 0..Len(matches) : ~Good(i)}
<1>4. Good(0)
  <2>1. f[0] = d /\ 1..0 = {}
    BY <1>1, <1>3, SMTT(30)
  <2>2. Severity[d] <= Severity[d]
    BY SMT DEF Actions, Severity
  <2> QED
    BY <2>1, <2>2, Zenon
<1>5. ASSUME NEW i \in 1..Len(matches), Good(i - 1) PROVE Good(i)
  <2>1. /\ i \in 0..Len(matches) /\ i # 0 /\ i \in 1..i
        /\ \A k \in 1..(i - 1) : k \in 1..i /\ k \in 1..Len(matches)
        /\ \A k \in 1..i : k = i \/ k \in 1..(i - 1)
    BY <1>1, SMTT(30)
  <2>2. f[i] = Elevated(f[i - 1], matches[i]) /\ f[i - 1] \in Actions /\ matches[i] \in Actions
    BY <1>1, <1>3, <1>5, <2>1, ZenonT(60)
  <2>3. /\ f[i] \in {f[i - 1], matches[i]}
        /\ Severity[f[i - 1]] <= Severity[f[i]] /\ Severity[matches[i]] <= Severity[f[i]]
    BY <2>2, ElevatedIs, ZenonT(60)
  <2>4. f[i] \in Actions
    BY <2>2, <2>3, SMTT(30)
  <2>5. \A a, b, c \in Actions : Severity[a] <= Severity[b] /\ Severity[b] <= Severity[c] =>
          Severity[a] <= Severity[c]
    BY SMTT(30) DEF Actions, Severity
  <2>6. Severity[d] <= Severity[f[i]]
    BY <1>5, <2>2, <2>3, <2>4, <2>5, ZenonT(60)
  <2>7. \A k \in 1..i : Severity[matches[k]] <= Severity[f[i]]
    BY <1>1, <1>5, <2>1, <2>2, <2>3, <2>4, <2>5, ZenonT(60)
  <2>8. f[i] = d \/ \E k \in 1..i : f[i] = matches[k]
    BY <1>5, <2>1, <2>3, ZenonT(60)
  <2> QED
    BY <2>4, <2>6, <2>7, <2>8, ZenonT(60)
<1>6. Bad = {}
  <2> HIDE DEF Good
  <2> SUFFICES ASSUME Bad # {} PROVE FALSE
    OBVIOUS
  <2>1. Bad \subseteq Nat
    BY SMT
  <2>2. PICK i \in Bad : \A k \in Bad : i <= k
    BY <2>1, Least, Zenon
  <2>3. i \in 0..Len(matches) /\ ~Good(i) /\ i # 0
    BY <1>4, <2>2, ZenonT(60)
  <2>4. i \in 1..Len(matches) /\ i - 1 \in 0..Len(matches) /\ ~(i <= i - 1)
    BY <1>1, <2>3, SMTT(30)
  <2>5. i - 1 \notin Bad
    BY <2>2, <2>4, ZenonT(60)
  <2> QED
    BY <1>5, <2>3, <2>4, <2>5, ZenonT(60)
<1>7. Good(Len(matches))
  <2> HIDE DEF Good
  <2>1. Len(matches) \in 0..Len(matches)
    BY <1>1, SMTT(30)
  <2> QED
    BY <1>6, <2>1, ZenonT(60)
<1> QED
  BY <1>1, <1>2, <1>7, ZenonT(60)

\* The greatest of some numbers is the one that no other exceeds.
LEMMA MaxIs ==
  ASSUME NEW S, S \subseteq Int, NEW m \in S, \A n \in S : n <= m
  PROVE  Max(S) = m
<1>1. \E x \in S : \A y \in S : x >= y
  BY SMTT(30)
<1>2. PICK x \in S : x = Max(S) /\ \A y \in S : x >= y
  BY <1>1, Zenon DEF Max
<1>3. x >= m /\ x <= m /\ x \in Int /\ m \in Int
  BY <1>2, Zenon
<1>4. x = m
  BY <1>3, SMTT(30)
<1> QED
  BY <1>2, <1>4, SMTT(30)

\* The thresholds of a proper policy.
LEMMA DecideIs ==
  ASSUME NEW p, Proper(p), NEW score \in Int
  PROVE  /\ Decide(score, p) \in Actions
         /\ Severity[Decide(score, p)] =
              IF score >= p.interventionAt THEN Severity[p.action]
              ELSE IF score >= p.monitorAt THEN 1 ELSE 0
<1>1. /\ Normalized(p) = p /\ p.monitorAt \in 1..100 /\ p.interventionAt \in 1..100
      /\ p.action \in {"block", "redact"}
  BY ProperIs, SMTT(30)
<1>2. PICK m, i, a : m = p.monitorAt /\ i = p.interventionAt /\ a = p.action
  BY SMTT(30)
<1>3. m \in Int /\ i \in Int /\ a \in {"block", "redact"}
  BY <1>1, <1>2, SMTT(30)
<1>4. Decide(score, p) = CASE score >= i -> a
                           [] score < i /\ score >= m -> "monitor"
                           [] OTHER -> "allow"
  BY <1>1, <1>2, ZenonT(60) DEF Decide
<1>5. Decide(score, p) = IF score >= i THEN a ELSE IF score >= m THEN "monitor" ELSE "allow"
  BY <1>3, <1>4, SMTT(30)
<1>6. Severity["monitor"] = 1 /\ Severity["allow"] = 0
  BY DEF Severity
<1> QED
  BY <1>2, <1>3, <1>5, <1>6, ZenonT(60) DEF Actions

\* A sound content of the table decides by the severest.
LEMMA SoundIsSeverest == ASSUME NEW table, Sound(table) PROVE Severest(table)
<1> SUFFICES ASSUME NEW tenant \in Tenants, NEW route \in Routes, NEW direction \in Directions,
                    NEW score \in Scores, NEW matches \in MatchLists
             PROVE  LET used == Resolve(table, tenant, route, direction)
                        p == Expected(table, tenant, route, direction)
                        byScore == IF score >= p.interventionAt THEN Severity[p.action]
                                   ELSE IF score >= p.monitorAt THEN 1 ELSE 0
                        all == {byScore} \cup {Severity[matches[i]] : i \in DOMAIN matches}
                    IN Severity[Elevate(matches, Decide(score, used))] = Max(all)
  BY Zenon DEF Severest
<1>1. PICK p : p = Expected(table, tenant, route, direction)
  OBVIOUS
<1>2. Resolve(table, tenant, route, direction) = p /\ Proper(p)
  BY <1>1, ResolveIsExpected, SMTT(30)
<1>3. score \in Int /\ matches \in Seq(Actions)
  BY PoliciesAssumption, Zenon DEF PoliciesAssumption, Actions
<1>4. PICK d : d = Decide(score, p)
  BY SMTT(30)
<1>5. /\ d \in Actions
      /\ Severity[d] = IF score >= p.interventionAt THEN Severity[p.action]
                       ELSE IF score >= p.monitorAt THEN 1 ELSE 0
  BY <1>2, <1>3, <1>4, DecideIs, SMTT(30)
<1>6. PICK e : e = Elevate(matches, d)
  BY SMTT(30)
<1>7. /\ e = d \/ \E k \in DOMAIN matches : e = matches[k]
      /\ e \in Actions /\ Severity[d] <= Severity[e]
      /\ \A k \in DOMAIN matches : Severity[matches[k]] <= Severity[e]
  BY <1>3, <1>5, <1>6, ElevateIsSeverest, SMTT(30)
<1>8. \A k \in DOMAIN matches : matches[k] \in Actions
  BY <1>3, SMTT(30)
<1>9. \A a \in Actions : Severity[a] \in Int
  BY SMTT(30) DEF Actions, Severity
<1> DEFINE all == {Severity[d]} \cup {Severity[matches[i]] : i \in DOMAIN matches}
<1>10. all \subseteq Int /\ Severity[e] \in all /\ \A n \in all : n <= Severity[e]
  BY <1>5, <1>7, <1>8, <1>9, ZenonT(60)
<1> HIDE DEF all
<1>11. Max(all) = Severity[e]
  BY <1>10, MaxIs, ZenonT(60)
<1> QED
  BY <1>1, <1>2, <1>4, <1>5, <1>6, <1>11, ZenonT(60) DEF all

\* Whatever administrators do with the policies, and whenever the gateway reads
\* them, it decides by valid policies, by the one of the documented precedence,
\* and by the severest of the rule matches and of the threshold that the score
\* reaches, for every score and every list of matches (Resolve, Decide,
\* Elevate, Validate).
THEOREM SeverestAlwaysDecides == Spec => []SeverestDecides
<1>1. PolicyInv => SeverestDecides
  <2> SUFFICES ASSUME PolicyInv PROVE SeverestDecides
    OBVIOUS
  <2>1. snap.policies \in past \cup {OnlyDefault}
    BY Zenon DEF PolicyInv, Snapshots
  <2>2. Sound(snap.policies)
    BY <2>1, SeededIsSound, ZenonT(60) DEF PolicyInv
  <2>3. \A t \in Targets : snap.policies[t] # None => Validate(snap.policies[t])
    BY <2>2, ProperIs, ZenonT(60) DEF Sound
  <2> QED
    BY <2>2, <2>3, SoundIsSeverest, ZenonT(60) DEF SeverestDecides
<1> QED
  BY <1>1, PolicyInvariance, PTL

-----------------------------------------------------------------------------
(***************************************************************************)
(* The rule sets, whatever the gateways that load them do meanwhile.       *)
(* A publication is told from every other one by its start, published_at:  *)
(* no row, no other running transaction and no transaction that began      *)
(* earlier has seen it.  What was published at BEGIN, and still is, is     *)
(* among the rows that the archiving UPDATE sees, and then holds.          *)
(***************************************************************************)
\* The transaction of Repository.Publish.
Tx == [pc : {"idle", "began", "update", "archived"}, v : Versions, start : Nat,
       snap : SUBSET Versions, held : SUBSET Versions, seen : SUBSET Nat]

\* The types, and that no start is later than the last one.
Rows ==
  /\ status \in [Versions -> {"draft", "published", "archived"}]
  /\ at \in [Versions -> Nat] /\ tx \in [Publishers -> Tx] /\ now \in Nat
  /\ \A w \in Versions : at[w] <= now
  /\ \A a \in Publishers : tx[a].start <= now /\ \A n \in tx[a].seen : n <= now

\* BEGIN was executed, and neither COMMIT nor ROLLBACK.
Running(a) == tx[a].pc # "idle"

\* The start of a transaction tells its publication from every other one.
Starts ==
  /\ \A a \in Publishers : ~Running(a) => tx[a].seen = {}
  /\ \A a \in Publishers : Running(a) => \A w \in Versions : at[w] # tx[a].start
  /\ \A a, b \in Publishers : Running(a) /\ Running(b) =>
       /\ tx[b].start \notin tx[a].seen
       /\ a # b => tx[a].start # tx[b].start

\* What was published at BEGIN and still is has been seen, and is held.
Seen ==
  \A a \in Publishers : \A w \in Versions :
    status[w] = "published" /\ at[w] \in tx[a].seen =>
      /\ tx[a].pc = "update" => w \in tx[a].snap
      /\ tx[a].pc = "archived" => w \in tx[a].held

\* The inductive invariant.
PInv == Rows /\ Starts /\ Seen

\* What ReplacesWhatItSaw says of one step.
Replaces ==
  \A a \in Publishers : at' # at /\ at'[tx[a].v] = tx[a].start =>
       \A w \in Versions \ {tx[a].v} :
         status'[w] = "published" => at'[w] \notin tx[a].seen
-----------------------------------------------------------------------------
\* At first no transaction runs.
LEMMA InitPInv == PubInit => PInv
<1> SUFFICES ASSUME PubInit PROVE PInv
  OBVIOUS
<1>1. /\ status = [v \in Versions |-> IF v = Initial /\ scope = "global" THEN "published" ELSE "draft"]
      /\ at = [v \in Versions |-> 0] /\ tx = [a \in Publishers |-> Idle] /\ now = 0
  BY ZenonT(60) DEF PubInit
<1>2. Idle \in Tx /\ Idle.pc = "idle" /\ Idle.seen = {} /\ Idle.start = 0
  BY PublicationAssumption, SMTT(30) DEF PublicationAssumption, Idle, Tx
<1>3. /\ status \in [Versions -> {"draft", "published", "archived"}]
      /\ at \in [Versions -> Nat] /\ now \in Nat /\ \A w \in Versions : at[w] <= now
  BY <1>1, SMTT(30)
<1>4. tx \in [Publishers -> Tx] /\ \A a \in Publishers : tx[a] = Idle
  BY <1>1, <1>2, ZenonT(60)
<1>5. Rows
  <2>1. \A a \in Publishers : tx[a].start <= now /\ tx[a].seen = {}
    BY <1>1, <1>2, <1>4, SMTT(30)
  <2> QED
    BY <1>3, <1>4, <2>1, ZenonT(60) DEF Rows
<1>6. Starts /\ Seen
  BY <1>2, <1>4, ZenonT(60) DEF Starts, Seen, Running
<1> QED
  BY <1>5, <1>6, SMTT(30) DEF PInv

\* A step of one transaction that changes no row.
LEMMA TxStep ==
  ASSUME PInv, NEW a \in Publishers, NEW t \in Tx, UNCHANGED <<status, at>>,
         tx' = [tx EXCEPT ![a] = t], now' \in Nat, now <= now',
         t.start <= now', \A n \in t.seen : n <= now',
         t.pc = "idle" => t.seen = {},
         t.pc # "idle" =>
            /\ \A w \in Versions : at[w] # t.start
            /\ t.start \notin t.seen
            /\ \A b \in Publishers \ {a} : Running(b) =>
                 /\ tx[b].start # t.start
                 /\ tx[b].start \notin t.seen
                 /\ t.start \notin tx[b].seen,
         \A w \in Versions : status[w] = "published" /\ at[w] \in t.seen =>
            /\ t.pc = "update" => w \in t.snap
            /\ t.pc = "archived" => w \in t.held
  PROVE  PInv'
<1>0. /\ tx \in [Publishers -> Tx] /\ now \in Nat /\ at \in [Versions -> Nat]
  BY DEF PInv, Rows
<1>1. /\ tx' \in [Publishers -> Tx] /\ tx'[a] = t /\ \A b \in Publishers : b # a => tx'[b] = tx[b]
  BY <1>0, ZenonT(60)
<1>2. \A b \in Publishers : tx[b] \in Tx
  BY <1>0, SMTT(30)
<1>3. \A b \in Publishers : tx[b].start \in Nat /\ tx[b].seen \subseteq Nat
  BY <1>2, ZenonT(60) DEF Tx
<1>4. \A w \in Versions : at'[w] <= now'
  BY <1>0, SMTT(30) DEF PInv, Rows
<1>5. \A b \in Publishers : tx[b].start <= now' /\ \A n \in tx[b].seen : n <= now'
  BY <1>0, <1>3, SMTT(30) DEF PInv, Rows
<1>6. Rows'
  BY <1>1, <1>4, <1>5, ZenonT(60) DEF PInv, Rows
<1>7. \A b \in Publishers : b # a => (Running(b)' <=> Running(b))
  BY <1>1, Zenon DEF Running
<1>8. Running(a)' <=> t.pc # "idle"
  BY <1>1, Zenon DEF Running
<1>9. \A b \in Publishers : ~Running(b)' => tx'[b].seen = {}
  BY <1>1, <1>7, <1>8, ZenonT(60) DEF PInv, Starts
<1>10. \A b \in Publishers : Running(b)' => \A w \in Versions : at'[w] # tx'[b].start
  BY <1>1, <1>7, <1>8, ZenonT(60) DEF PInv, Starts
<1>11. ASSUME NEW b \in Publishers, NEW c \in Publishers, Running(b)', Running(c)'
       PROVE  tx'[c].start \notin tx'[b].seen /\ (b # c => tx'[b].start # tx'[c].start)
  <2>1. CASE b = a /\ c = a
    BY <1>1, <1>8, <1>11, <2>1, ZenonT(60)
  <2>2. CASE b = a /\ c # a
    BY <1>1, <1>7, <1>8, <1>11, <2>2, ZenonT(60)
  <2>3. CASE b # a /\ c = a
    BY <1>1, <1>7, <1>8, <1>11, <2>3, ZenonT(60)
  <2>4. CASE b # a /\ c # a
    BY <1>1, <1>7, <1>11, <2>4, ZenonT(60) DEF PInv, Starts
  <2> QED
    BY <2>1, <2>2, <2>3, <2>4, SMTT(30)
<1>12. Starts'
  BY <1>9, <1>10, <1>11, ZenonT(60) DEF Starts
<1>13. Seen'
  BY <1>1, Zenon DEF PInv, Seen
<1> QED
  BY <1>6, <1>12, <1>13, SMTT(30) DEF PInv

\* PublishBegin writes a record of a transaction.
LEMMA BeganIsTx ==
  ASSUME NEW r \in Tx, NEW v \in Versions, NEW n \in Nat, NEW S \in SUBSET Nat
  PROVE  [r EXCEPT !.pc = "began", !.v = v, !.start = n, !.seen = S] \in Tx
  BY Zenon DEF Tx

\* PublishSnapshot writes a record of a transaction.
LEMMA UpdateIsTx ==
  ASSUME NEW r \in Tx, NEW S \in SUBSET Versions
  PROVE  /\ [r EXCEPT !.pc = "update", !.snap = S] \in Tx
         /\ [r EXCEPT !.pc = "update", !.snap = S].start = r.start
         /\ [r EXCEPT !.pc = "update", !.snap = S].seen = r.seen
         /\ [r EXCEPT !.pc = "update", !.snap = S].pc = "update"
         /\ [r EXCEPT !.pc = "update", !.snap = S].snap = S
  BY Zenon DEF Tx

\* PublishArchive writes a record of a transaction.
LEMMA ArchivedIsTx ==
  ASSUME NEW r \in Tx, NEW S \in SUBSET Versions
  PROVE  /\ [r EXCEPT !.pc = "archived", !.held = S] \in Tx
         /\ [r EXCEPT !.pc = "archived", !.held = S].start = r.start
         /\ [r EXCEPT !.pc = "archived", !.held = S].seen = r.seen
         /\ [r EXCEPT !.pc = "archived", !.held = S].pc = "archived"
         /\ [r EXCEPT !.pc = "archived", !.held = S].held = S
  BY Zenon DEF Tx

\* BEGIN takes a start that nothing has, and sees only what is committed.
LEMMA BeginStep ==
  ASSUME PInv,
         NEW a \in Publishers, NEW v \in Versions, PublishBegin(a, v)
  PROVE  PInv'
<1> DEFINE t == [Idle EXCEPT !.pc = "began", !.v = v, !.start = now + 1,
                            !.seen = {at[w] : w \in Published}]
<1>0. at \in [Versions -> Nat] /\ now \in Nat /\ (\A w \in Versions : at[w] <= now)
      /\ \A b \in Publishers : tx[b].start <= now /\ tx[b] \in Tx /\ \A n \in tx[b].seen : n <= now
  BY Zenon DEF PInv, Rows
<1>1. tx' = [tx EXCEPT ![a] = t] /\ now' = now + 1 /\ UNCHANGED <<status, at>>
  BY Zenon DEF PublishBegin, Step
<1>2. t.pc = "began" /\ t.v = v /\ t.start = now + 1 /\ t.seen = {at[w] : w \in Published}
  BY DEF Idle
<1>3. Published \subseteq Versions
  BY DEF Published
<1>4. t \in Tx
  <2>1. {at[w] : w \in Published} \in SUBSET Nat
    BY <1>0, <1>3, SMTT(30)
  <2>2. now + 1 \in Nat
    BY <1>0, SMTT(30)
  <2>3. Idle \in Tx
    BY PublicationAssumption, SMTT(30) DEF PublicationAssumption, Idle, Tx
  <2> QED
    BY <2>1, <2>2, <2>3, BeganIsTx, ZenonT(60)
<1> HIDE DEF t
<1>5. t.seen \subseteq Nat /\ \A n \in t.seen : n <= now
  BY <1>0, <1>2, <1>3, SMTT(30)
<1>6. /\ now' \in Nat /\ now <= now' /\ t.start <= now' /\ \A n \in t.seen : n <= now'
      /\ \A w \in Versions : at[w] # t.start
      /\ t.start \notin t.seen
  <2>1. \A n : n \in Nat /\ n <= now => n <= now + 1 /\ n # now + 1
    BY <1>0, SMTT(30)
  <2>2. now + 1 \in Nat /\ now <= now + 1 /\ now + 1 <= now + 1
    BY <1>0, SMTT(30)
  <2>3. \A w \in Versions : at[w] \in Nat
    BY <1>0, SMTT(30)
  <2> QED
    BY <1>0, <1>1, <1>2, <1>5, <2>1, <2>2, <2>3, ZenonT(60)
<1>7. \A b \in Publishers : tx[b].start # t.start /\ t.start \notin tx[b].seen
  <2>1. \A b \in Publishers : tx[b].start \in Nat /\ tx[b].seen \subseteq Nat
    BY <1>0, ZenonT(60) DEF Tx
  <2> QED
    BY <1>0, <1>2, <2>1, SMTT(30)
<1>8. \A b \in Publishers : Running(b) => tx[b].start \notin t.seen
  BY <1>2, <1>3, ZenonT(60) DEF PInv, Starts
<1>9. t.pc # "idle" /\ t.pc # "update" /\ t.pc # "archived"
  BY <1>2, SMTT(30)
<1> QED
  BY <1>1, <1>4, <1>6, <1>7, <1>8, <1>9, TxStep, ZenonT(60)

\* The archiving UPDATE sees, and then holds, every row that still is published.
LEMMA SnapshotStep ==
  ASSUME PInv, NEW a \in Publishers, PublishSnapshot(a) \/ PublishArchive(a)
  PROVE  PInv'
<1>0. /\ tx \in [Publishers -> Tx] /\ tx[a] \in Tx /\ now \in Nat
      /\ tx[a].start <= now /\ \A n \in tx[a].seen : n <= now
  BY Zenon DEF PInv, Rows
<1>1. /\ tx[a].pc \in {"began", "update"} /\ now' = now /\ UNCHANGED <<status, at>>
      /\ \/ tx' = [tx EXCEPT ![a] = [tx[a] EXCEPT !.pc = "update", !.snap = Published]]
         \/ /\ tx[a].pc = "update"
            /\ tx' = [tx EXCEPT ![a] = [tx[a] EXCEPT !.pc = "archived",
                                          !.held = tx[a].snap \cap Published]]
  BY Zenon DEF PublishSnapshot, PublishArchive, Step
<1>2. /\ Published \subseteq Versions
      /\ \A w \in Versions : status[w] = "published" => w \in Published
  BY Zenon DEF Published
<1>3. PICK t : /\ tx' = [tx EXCEPT ![a] = t]
               /\ \/ t = [tx[a] EXCEPT !.pc = "update", !.snap = Published]
                  \/ /\ tx[a].pc = "update"
                     /\ t = [tx[a] EXCEPT !.pc = "archived", !.held = tx[a].snap \cap Published]
  BY <1>1, ZenonT(60)
<1>4. /\ t \in Tx /\ t.start = tx[a].start /\ t.seen = tx[a].seen
      /\ \/ t.pc = "update" /\ t.snap = Published
         \/ tx[a].pc = "update" /\ t.pc = "archived" /\ t.held = tx[a].snap \cap Published
  <2>1. tx[a].snap \cap Published \in SUBSET Versions /\ Published \in SUBSET Versions
    BY <1>2, SMTT(30)
  <2>2. CASE t = [tx[a] EXCEPT !.pc = "update", !.snap = Published]
    BY <1>0, <2>1, <2>2, UpdateIsTx, ZenonT(60)
  <2>3. CASE /\ tx[a].pc = "update"
             /\ t = [tx[a] EXCEPT !.pc = "archived", !.held = tx[a].snap \cap Published]
    <3>1. PICK S \in SUBSET Versions : S = tx[a].snap \cap Published
      BY <2>1, Zenon
    <3>2. t \in Tx /\ t.start = tx[a].start /\ t.seen = tx[a].seen /\ t.pc = "archived" /\ t.held = S
      BY <1>0, <2>3, <3>1, ArchivedIsTx, ZenonT(60)
    <3> QED
      BY <2>3, <3>1, <3>2, SMTT(30)
  <2> QED
    BY <1>3, <2>2, <2>3, SMTT(30)
<1>5. t.pc # "idle" /\ Running(a)
  BY <1>1, <1>4, SMT DEF Running
<1>6. /\ \A w \in Versions : at[w] # t.start
      /\ t.start \notin t.seen
      /\ \A b \in Publishers \ {a} : Running(b) =>
           /\ tx[b].start # t.start
           /\ tx[b].start \notin t.seen
           /\ t.start \notin tx[b].seen
  BY <1>4, <1>5, Zenon DEF PInv, Starts
<1>7. \A w \in Versions : status[w] = "published" /\ at[w] \in t.seen =>
        /\ t.pc = "update" => w \in t.snap
        /\ t.pc = "archived" => w \in t.held
  <2>1. "update" # "archived"
    OBVIOUS
  <2> QED
    BY <1>2, <1>4, <2>1, ZenonT(60) DEF PInv, Seen
<1>8. now <= now
  BY <1>0, SMTT(30)
<1> QED
  BY <1>0, <1>1, <1>3, <1>4, <1>5, <1>6, <1>7, <1>8, TxStep, ZenonT(60)

\* ROLLBACK changes no row.
LEMMA AbortStep ==
  ASSUME PInv, NEW a \in Publishers, PublishAbort(a) PROVE PInv'
<1>1. /\ Idle \in Tx /\ Idle.pc = "idle" /\ Idle.seen = {} /\ Idle.start = 0
      /\ tx' = [tx EXCEPT ![a] = Idle] /\ UNCHANGED <<status, at, now>>
  BY PublicationAssumption, SMTT(30) DEF PublicationAssumption, Idle, Tx, PublishAbort
<1>2. now \in Nat /\ now <= now /\ 0 <= now
  BY SMTT(30) DEF PInv, Rows
<1> QED
  BY <1>1, <1>2, TxStep, ZenonT(60)

\* COMMIT publishes a set at a start no row has had, and replaces what it holds.
LEMMA CommitStep ==
  ASSUME PInv, NEW a \in Publishers, PublishCommit(a)
  PROVE  PInv' /\ Replaces
<1> DEFINE t == tx[a]
<1>0. /\ tx \in [Publishers -> Tx] /\ now \in Nat /\ at \in [Versions -> Nat]
      /\ status \in [Versions -> {"draft", "published", "archived"}]
      /\ (\A w \in Versions : at[w] <= now)
      /\ \A b \in Publishers : /\ tx[b] \in Tx
                           /\ tx[b].start <= now /\ \A n \in tx[b].seen : n <= now
  BY Zenon DEF PInv, Rows
<1>1. /\ t.pc = "archived" /\ tx' = [tx EXCEPT ![a] = Idle] /\ now' = now
      /\ status' = [w \in Versions |-> IF w = t.v THEN "published"
                                       ELSE IF w \in t.held THEN "archived" ELSE status[w]]
      /\ at' = [at EXCEPT ![t.v] = t.start]
  BY Zenon DEF PublishCommit, Step
<1>2. \A b \in Publishers : tx[b].v \in Versions /\ tx[b].start \in Nat
  BY <1>0, Zenon DEF Tx
<1> HIDE DEF t
<1>3. t.v \in Versions /\ t.start \in Nat /\ t.start <= now
  BY <1>0, <1>2, ZenonT(60) DEF t
<1>4. Idle \in Tx /\ Idle.pc = "idle" /\ Idle.seen = {} /\ Idle.start = 0
  BY PublicationAssumption, SMTT(30) DEF PublicationAssumption, Idle, Tx
<1>5. /\ tx' \in [Publishers -> Tx] /\ tx'[a] = Idle /\ \A b \in Publishers : b # a => tx'[b] = tx[b]
  BY <1>0, <1>1, <1>4, ZenonT(60)
<1>6. /\ at' \in [Versions -> Nat] /\ at'[t.v] = t.start
      /\ \A w \in Versions : w # t.v => at'[w] = at[w]
  BY <1>0, <1>1, <1>3, ZenonT(60)
<1>7. /\ status' \in [Versions -> {"draft", "published", "archived"}]
      /\ \A w \in Versions : w # t.v /\ status'[w] = "published" =>
           status[w] = "published" /\ w \notin t.held
  BY <1>0, <1>1, SMTT(30)
<1>8. \A w \in Versions : at'[w] <= now'
  BY <1>0, <1>1, <1>3, <1>6, ZenonT(60)
<1>9. \A b \in Publishers : tx'[b].start <= now' /\ \A n \in tx'[b].seen : n <= now'
  <2>1. 0 <= now
    BY <1>0, SMTT(30)
  <2> QED
    BY <1>0, <1>1, <1>4, <1>5, <2>1, ZenonT(60)
<1>10. Rows'
  BY <1>0, <1>1, <1>5, <1>6, <1>7, <1>8, <1>9, ZenonT(60) DEF Rows
<1>11. Running(a) /\ ~Running(a)'
  BY <1>1, <1>4, <1>5, SMTT(30) DEF Running, t
<1>12. \A b \in Publishers : Running(b)' => b # a /\ Running(b) /\ tx'[b] = tx[b]
  BY <1>5, <1>11, ZenonT(60) DEF Running
<1>13. \A b \in Publishers : b # a /\ Running(b) =>
         tx[b].start # t.start /\ t.start \notin tx[b].seen
  BY <1>11, ZenonT(60) DEF PInv, Starts, t
<1>14. Starts'
  <2>1. \A b \in Publishers : ~Running(b)' => tx'[b].seen = {}
    <3>1. \A b \in Publishers : b # a => (Running(b)' <=> Running(b))
      BY <1>5, ZenonT(60) DEF Running
    <3> QED
      BY <1>4, <1>5, <1>11, <3>1, ZenonT(60) DEF PInv, Starts
  <2>2. ASSUME NEW b \in Publishers, Running(b)', NEW w \in Versions
        PROVE  at'[w] # tx'[b].start
    <3>1. b # a /\ Running(b) /\ tx'[b] = tx[b]
      BY <1>12, <2>2, SMTT(30)
    <3>2. at[w] # tx[b].start /\ t.start # tx[b].start
      BY <1>13, <3>1, ZenonT(60) DEF PInv, Starts
    <3>3. at'[w] = at[w] \/ at'[w] = t.start
      BY <1>6, ZenonT(60)
    <3> QED
      BY <3>1, <3>2, <3>3, ZenonT(60)
  <2>3. \A b, c \in Publishers : Running(b)' /\ Running(c)' =>
          tx'[c].start \notin tx'[b].seen /\ (b # c => tx'[b].start # tx'[c].start)
    BY <1>12, ZenonT(60) DEF PInv, Starts
  <2> QED
    BY <2>1, <2>2, <2>3, ZenonT(60) DEF Starts
<1>15. Seen'
  <2> SUFFICES ASSUME NEW b \in Publishers, NEW w \in Versions,
                      status'[w] = "published", at'[w] \in tx'[b].seen
               PROVE  /\ tx'[b].pc = "update" => w \in tx'[b].snap
                      /\ tx'[b].pc = "archived" => w \in tx'[b].held
    BY Zenon DEF Seen
  <2>1. b # a /\ tx'[b] = tx[b]
    BY <1>4, <1>5, ZenonT(60)
  <2>2. Running(b)
    BY <2>1, ZenonT(60) DEF PInv, Starts
  <2>3. w # t.v
    BY <1>6, <1>13, <2>1, <2>2, ZenonT(60)
  <2> QED
    BY <1>6, <1>7, <2>1, <2>3, ZenonT(60) DEF PInv, Seen
<1>16. Replaces
  <2> SUFFICES ASSUME NEW b \in Publishers, at'[tx[b].v] = tx[b].start,
                      NEW w \in Versions \ {tx[b].v}, status'[w] = "published",
                      at'[w] \in tx[b].seen
               PROVE  FALSE
    BY Zenon DEF Replaces
  <2>1. Running(b)
    BY Zenon DEF PInv, Starts
  <2>2. b = a
    <3>1. tx[b].v \in Versions
      BY <1>2, SMTT(30)
    <3> QED
      BY <1>6, <1>13, <2>1, <3>1, ZenonT(60) DEF PInv, Starts
  <2>3. w # t.v /\ at[w] \in t.seen /\ status[w] = "published" /\ w \notin t.held
    BY <1>6, <1>7, <2>2, ZenonT(60) DEF t
  <2> QED
    BY <1>1, <2>3, ZenonT(60) DEF PInv, Seen, t
<1> QED
  BY <1>10, <1>14, <1>15, <1>16, SMTT(30) DEF PInv

\* Every step of a publication keeps the invariant and replaces what it saw.
LEMMA PublicationStep ==
  PInv /\ [PubNext]_pubVars =>
           PInv' /\ (pubVars' # pubVars => Replaces)
<1> SUFFICES ASSUME PInv, [PubNext]_pubVars
             PROVE  PInv' /\ (pubVars' # pubVars => Replaces)
  OBVIOUS
<1>1. ASSUME NEW a \in Publishers, NEW v \in Versions, PublishBegin(a, v)
      PROVE  PInv' /\ Replaces
  BY <1>1, BeginStep, ZenonT(60) DEF PublishBegin, Replaces
<1>2. ASSUME NEW a \in Publishers, PublishSnapshot(a) \/ PublishArchive(a)
      PROVE  PInv' /\ Replaces
  BY <1>2, SnapshotStep, ZenonT(60) DEF PublishSnapshot, PublishArchive, Replaces
<1>3. ASSUME NEW a \in Publishers, PublishAbort(a) PROVE PInv' /\ Replaces
  BY <1>3, AbortStep, ZenonT(60) DEF PublishAbort, Replaces
<1>4. ASSUME NEW a \in Publishers, PublishCommit(a)
  PROVE  PInv' /\ Replaces
  BY <1>4, CommitStep, SMTT(30)
<1>5. ASSUME UNCHANGED pubVars PROVE PInv' /\ pubVars' = pubVars
  BY <1>5, Zenon DEF pubVars, PInv, Rows, Starts, Seen, Running
<1> QED
  BY <1>1, <1>2, <1>3, <1>4, <1>5, ZenonT(60) DEF PubNext

CONSTANT Gateways
VARIABLES reg, stale, load, ruleHandler, ruleDbUp, ruleOutages, ruleReady, ruleInbox

Rules == INSTANCE RuleSnapshots
           WITH handler <- ruleHandler, dbUp <- ruleDbUp, outages <- ruleOutages,
                ready <- ruleReady, inbox <- ruleInbox

\* The instance says of the publications what RulePublication says.
LEMMA SamePublications ==
  /\ Rules!PubInit <=> PubInit
  /\ Rules!pubVars = pubVars
  /\ \A a \in Publishers, v \in Versions : Rules!PublishBegin(a, v) <=> PublishBegin(a, v)
  /\ \A a \in Publishers :
       /\ Rules!PublishSnapshot(a) <=> PublishSnapshot(a)
       /\ Rules!PublishArchive(a) <=> PublishArchive(a)
       /\ Rules!PublishCommit(a) <=> PublishCommit(a)
       /\ Rules!PublishAbort(a) <=> PublishAbort(a)
<1>1. Rules!Idle = Idle /\ Rules!Published = Published
  BY DEF Rules!Idle, Idle, Rules!Published, Published
<1>2. (Rules!PubInit <=> PubInit) /\ Rules!pubVars = pubVars
  BY <1>1, ZenonT(60) DEF Rules!PubInit, PubInit, Rules!pubVars, pubVars
<1>3. ASSUME NEW a \in Publishers PROVE Rules!Locked(a) = Locked(a)
  BY Zenon DEF Rules!Locked, Locked
<1>4. ASSUME NEW a \in Publishers, NEW v \in Versions
      PROVE  Rules!PublishBegin(a, v) <=> PublishBegin(a, v)
  BY <1>1, ZenonT(60) DEF Rules!PublishBegin, PublishBegin, Rules!Step, Step
<1>5. ASSUME NEW a \in Publishers
      PROVE  /\ Rules!PublishSnapshot(a) <=> PublishSnapshot(a)
             /\ Rules!PublishArchive(a) <=> PublishArchive(a)
  BY <1>1, <1>3, ZenonT(60)
    DEF Rules!PublishSnapshot, PublishSnapshot, Rules!PublishArchive,
     PublishArchive, Rules!Step, Step
<1>6. ASSUME NEW a \in Publishers
      PROVE  /\ Rules!PublishCommit(a) <=> PublishCommit(a)
             /\ Rules!PublishAbort(a) <=> PublishAbort(a)
  BY <1>1, <1>3, ZenonT(60) DEF Rules!PublishCommit, PublishCommit, Rules!PublishAbort,
     PublishAbort, Rules!Step, Step
<1> QED
  BY <1>2, <1>4, <1>5, <1>6, ZenonT(60)

\* Every step of the gateways leaves the publications alone.
LEMMA StepPublishes == [Rules!Next]_(Rules!vars) => [PubNext]_pubVars
<1> SUFFICES ASSUME [Rules!Next]_(Rules!vars) PROVE [PubNext]_pubVars
  OBVIOUS
<1>1. ASSUME NEW a \in Publishers,
             Rules!Publish(a) \/ \E v \in Versions, g \in Gateways : Rules!Begin(a, v, g)
      PROVE  PubNext
  BY <1>1, SamePublications, ZenonT(60) DEF Rules!Publish, Rules!Transact, Rules!Commit,
     Rules!Abort, Rules!Begin, PubNext
<1>2. ASSUME NEW a \in Publishers, Rules!Reply(a) PROVE UNCHANGED Rules!pubVars
  BY <1>2, ZenonT(60) DEF Rules!Reply, Rules!Notify, Rules!HandlerReads,
     Rules!HandlerInstalls, Rules!HandlerFails
<1>3. ASSUME NEW g \in Gateways,
             \/ Rules!Poll(g) \/ Rules!EventReads(g) \/ Rules!Probe(g)
             \/ Rules!RequestReads(g) \/ Rules!RequestInstalls(g)
             \/ \E l \in Rules!Loaders : Rules!Install(g, l)
      PROVE  UNCHANGED Rules!pubVars
  BY <1>3, ZenonT(60) DEF Rules!Poll, Rules!PollReads, Rules!PollFails, Rules!EventReads,
     Rules!Probe, Rules!RequestReads, Rules!RequestInstalls, Rules!Install
<1>4. ASSUME Rules!DbLost \/ Rules!DbBack \/ UNCHANGED Rules!vars
      PROVE  UNCHANGED Rules!pubVars
  BY <1>4, ZenonT(60) DEF Rules!DbLost, Rules!DbBack, Rules!vars
<1>5. UNCHANGED Rules!pubVars => UNCHANGED pubVars
  BY Zenon DEF Rules!pubVars, pubVars
<1> QED
  BY <1>1, <1>2, <1>3, <1>4, <1>5, ZenonT(60) DEF Rules!Next

\* Whatever administrators publish and roll back concurrently, and whatever the
\* gateways do meanwhile, a publication replaces every set that was published
\* when it began (Repository.Publish), for any administrators and rule sets.
THEOREM PublicationReplaces == Rules!Spec => ReplacesWhatItSaw
<1>1. Rules!Init => PInv
  BY InitPInv, SamePublications, ZenonT(60) DEF Rules!Init
<1>2. PInv /\ [Rules!Next]_(Rules!vars) => PInv' /\ [Replaces]_pubVars
  BY StepPublishes, PublicationStep, ZenonT(60)
<1>3. [Replaces]_pubVars => [\A a \in Publishers : at' # at /\ at'[tx[a].v] = tx[a].start =>
       \A w \in Versions \ {tx[a].v} :
         status'[w] = "published" => at'[w] \notin tx[a].seen]_pubVars
  BY DEF Replaces
<1> QED
  BY <1>1, <1>2, <1>3, PTL DEF Rules!Spec, ReplacesWhatItSaw
=============================================================================
