---------------------------- MODULE StartupProofs ----------------------------
(***************************************************************************)
(* Proofs about Startup, for any number of gateways, seed commands,        *)
(* releases, migrations and faults.                                        *)
(***************************************************************************)
EXTENDS Startup, WellFoundedInduction, TLAPS

\* The labels at which a process holds the advisory lock.
Section == {"read", "baseline", "validate", "apply"}

Labels ==
  Section \cup {"start", "failed", "configure", "bootstrap", "policies", "responses", "key",
               "absent", "writing", "created", "rejected", "snapshots", "serving",
               "seeding", "seeded", "refused", "unused", "exists"}

Checksums ==
  {None} \cup (UNION {{Binary[g][v] : v \in DOMAIN Binary[g]} : g \in Processes})
         \cup (UNION {{h[v] : v \in DOMAIN h} : h \in Foreign})

SchemaTyped ==
  /\ runs \in [Versions -> {0, 1}]
  /\ recorded \in [Versions -> Checksums]
  /\ applied \in [Processes -> [Versions -> Checksums]]
  /\ pc \in [Processes -> Labels]

\* What a process that holds the lock knows of the database is still so.
Current(g) ==
  /\ pc[g] \in Section => lock = g
  /\ pc[g] = "baseline" => recorded = NoRecords
  /\ pc[g] \in {"validate", "apply"} =>
       applied[g] = recorded /\ (recorded = NoRecords => Objects = {})
  /\ pc[g] = "apply" => Valid(g)

SchemaInv ==
  /\ SchemaTyped
  /\ \A g \in Processes : Current(g)
  /\ recorded = NoRecords /\ CurrentSchema => Objects \subseteq {1, 2, 3}
  /\ HistoryMatchesSchema

\* A step of a process that is not, or no longer, in Migrate.
Outside(p) ==
  /\ \E l \in Labels \ (Section \cup {"configure"}) : pc' = [pc EXCEPT ![p] = l]
  /\ \/ UNCHANGED <<lock, applied>>
     \/ Unlock(p) /\ applied' = [applied EXCEPT ![p] = NoRecords]
  /\ UNCHANGED <<runs, recorded>>
-----------------------------------------------------------------------------
\* A set of versions that is not empty has a least one.
LEMMA LeastVersion ==
  ASSUME NEW S, S \subseteq Nat, S # {}
  PROVE  \E v \in S : \A w \in S : v <= w
<1>1. PICK v \in S : \A w \in S : ~(<<w, v>> \in OpToRel(<, Nat))
  BY WFMin, NatLessThanWellFounded, Zenon
<1>2. \A w \in S : ~(w < v)  BY <1>1, Zenon DEF OpToRel
<1> QED  BY <1>2, SMT

\* What is assumed of the migrations of a binary.
LEMMA Releases ==
  ASSUME NEW g \in Processes
  PROVE  /\ DOMAIN Binary[g] \subseteq Versions
         /\ \A v \in DOMAIN Binary[g] : Binary[g][v] # None
         /\ \A v \in DOMAIN Binary[g] : 1..v \subseteq DOMAIN Binary[g]
  BY MigrationsAssumption, Zenon

\* A database that recorded nothing has a table of the right type.
LEMMA NoneChecksum == NoRecords \in [Versions -> Checksums]
  BY DEF NoRecords, Checksums

\* The next migration of a binary: all before it were applied.
LEMMA NextIsLeast ==
  ASSUME NEW g \in Processes, Missing(g) # {}
  PROVE  /\ Next1(g) \in DOMAIN Binary[g] /\ Next1(g) \in Versions /\ Next1(g) \in Nat
         /\ applied[g][Next1(g)] = None
         /\ Binary[g][Next1(g)] # None /\ Binary[g][Next1(g)] \in Checksums
         /\ \A w \in Versions : w < Next1(g) => applied[g][w] # None
<1>1. Missing(g) \subseteq Nat /\ DOMAIN Binary[g] \subseteq Versions /\ Versions \subseteq Nat \ {0}
  BY Releases, MigrationsAssumption, Zenon DEF Missing
<1>2. Next1(g) \in Missing(g) /\ (\A w \in Missing(g) : Next1(g) <= w)
  BY <1>1, LeastVersion DEF Next1
<1>3. Next1(g) \in DOMAIN Binary[g] /\ applied[g][Next1(g)] = None  BY <1>2 DEF Missing
<1>4. Binary[g][Next1(g)] # None  BY <1>3, Releases
<1>5. Binary[g][Next1(g)] \in Checksums  BY <1>3 DEF Checksums
<1>6. ASSUME NEW w \in Versions, w < Next1(g) PROVE applied[g][w] # None
  <2>0. w \in Nat \ {0} /\ Next1(g) \in Nat  BY <1>1, <1>3, Zenon
  <2>1. w \in 1..Next1(g)  BY <1>6, <2>0, SMT
  <2>2. w \in DOMAIN Binary[g]  BY <1>3, <2>1, Releases
  <2>3. w \notin Missing(g)  BY <1>1, <1>2, <1>3, <1>6, SMT
  <2> QED  BY <2>2, <2>3 DEF Missing
<1> QED  BY <1>1, <1>3, <1>4, <1>5, <1>6, Zenon
-----------------------------------------------------------------------------
\* The database of a first start, unrecorded or with the history of a release.
LEMMA InitSchema == Init => SchemaInv
<1> SUFFICES ASSUME Init PROVE SchemaInv  OBVIOUS
<1>0. MigrationInit  BY DEF Init
<1>1. pc \in [Processes -> {"start", "unused"}] /\ applied = [g \in Processes |-> NoRecords]
  BY <1>0, Zenon DEF MigrationInit
<1>2. \A g \in Processes : Current(g)  BY <1>1 DEF Current, Section
<1>3. applied \in [Processes -> [Versions -> Checksums]] /\ pc \in [Processes -> Labels]
  <2>1. applied \in [Processes -> [Versions -> Checksums]]  BY <1>1, NoneChecksum
  <2>2. pc \in [Processes -> Labels]  BY <1>1 DEF Labels
  <2> QED  BY <2>1, <2>2
<1>4. CASE \E present \in Existing :
             /\ runs = [v \in Versions |-> IF v \in present THEN 1 ELSE 0]
             /\ recorded = NoRecords
  <2>1. PICK present \in Existing :
             /\ runs = [v \in Versions |-> IF v \in present THEN 1 ELSE 0]
             /\ recorded = NoRecords
    BY <1>4
  <2>2. Objects \subseteq present  BY <2>1, SMT DEF Objects
  <2>3. CurrentSchema => Objects \subseteq {1, 2, 3}
    BY <2>2, UnrecordedAssumption DEF CurrentSchema
  <2>4. runs \in [Versions -> {0, 1}]  BY <2>1
  <2> QED  BY <1>2, <1>3, <2>1, <2>3, <2>4, NoneChecksum
           DEF SchemaInv, SchemaTyped, HistoryMatchesSchema
<1>5. CASE \E h \in Foreign :
             /\ runs = [v \in Versions |-> IF v \in DOMAIN h THEN 1 ELSE 0]
             /\ recorded = [v \in Versions |-> IF v \in DOMAIN h THEN h[v] ELSE None]
  <2>1. PICK h \in Foreign :
             /\ runs = [v \in Versions |-> IF v \in DOMAIN h THEN 1 ELSE 0]
             /\ recorded = [v \in Versions |-> IF v \in DOMAIN h THEN h[v] ELSE None]
    BY <1>5
  <2>2. /\ \A v \in DOMAIN h : h[v] # None
        /\ \A v \in DOMAIN h : 1..v \subseteq DOMAIN h
    BY MigrationsAssumption, Zenon
  <2>3. \A v \in Versions : recorded[v] # None <=> v \in DOMAIN h  BY <2>1, <2>2
  <2>4. \A v \in Versions : runs[v] = 1 <=> v \in DOMAIN h  BY <2>1, SMT
  <2>5. recorded \in [Versions -> Checksums] /\ runs \in [Versions -> {0, 1}]
    BY <2>1 DEF Checksums
  <2>6. ASSUME NEW v \in Versions, NEW w \in Versions, v < w, recorded[w] # None
        PROVE  recorded[v] # None
    <3>1. v \in Nat \ {0} /\ w \in Nat  BY MigrationsAssumption, Zenon
    <3>2. v \in 1..w  BY <2>6, <3>1, SMT
    <3> QED  BY <2>2, <2>3, <2>6, <3>2
  <2>7. recorded = NoRecords => Objects = {}
    BY <2>1, <2>3, SMT DEF NoRecords, Objects
  <2> QED  BY <1>2, <1>3, <2>3, <2>4, <2>5, <2>6, <2>7
           DEF SchemaInv, SchemaTyped, HistoryMatchesSchema
<1> QED  BY <1>0, <1>4, <1>5 DEF MigrationInit

\* A process outside Migrate disturbs none that is inside.
LEMMA OutsideSchema ==
  ASSUME SchemaInv, NEW p \in Processes, Outside(p)
  PROVE  SchemaInv'
<1> USE DEF SchemaInv
<1>1. PICK l \in Labels \ (Section \cup {"configure"}) : pc' = [pc EXCEPT ![p] = l]
  BY Zenon DEF Outside
<1>2. /\ pc' \in [Processes -> Labels] /\ pc'[p] = l
      /\ \A g \in Processes : g # p => pc'[g] = pc[g]
  BY <1>1 DEF SchemaTyped
<1>3. UNCHANGED <<runs, recorded>>  BY DEF Outside
<1>4. /\ applied' \in [Processes -> [Versions -> Checksums]]
      /\ \A g \in Processes : g # p => applied'[g] = applied[g]
      /\ lock' = lock \/ lock = p
  BY NoneChecksum DEF Outside, Unlock, SchemaTyped
<1>5. SchemaTyped'  BY <1>2, <1>3, <1>4 DEF SchemaTyped
<1>6. /\ HistoryMatchesSchema' /\ Objects' = Objects /\ (CurrentSchema' <=> CurrentSchema)
  BY <1>3 DEF HistoryMatchesSchema, Objects, CurrentSchema
<1>7. ASSUME NEW g \in Processes PROVE Current(g)'
  <2>1. CASE g = p
    BY <1>1, <1>2, <2>1 DEF Current, Section
  <2>2. CASE g # p
    <3>1. pc'[g] = pc[g] /\ applied'[g] = applied[g]  BY <1>2, <1>4, <2>2
    <3>2. pc[g] \in Section => lock' = g  BY <1>4, <2>2 DEF Current
    <3>3. Valid(g) => Valid(g)'  BY <3>1 DEF Valid
    <3> QED  BY <1>3, <1>6, <3>1, <3>2, <3>3 DEF Current
  <2> QED  BY <2>1, <2>2
<1> QED  BY <1>3, <1>5, <1>6, <1>7

\* Under the lock, or while it is taken, no other process is inside Migrate.
LEMMA Alone ==
  ASSUME SchemaInv, NEW g \in Processes, pc[g] \in Section \/ lock = None,
         NEW l \in Labels, pc' = [pc EXCEPT ![g] = l]
  PROVE  /\ pc' \in [Processes -> Labels] /\ pc'[g] = l
         /\ \A q \in Processes : q # g => Current(q)'
<1>1. /\ pc' \in [Processes -> Labels] /\ pc'[g] = l
      /\ \A q \in Processes : q # g => pc'[q] = pc[q]
  BY DEF SchemaInv, SchemaTyped
<1>2. ASSUME NEW q \in Processes, q # g PROVE pc[q] \notin Section
  <2>1. Current(g) /\ Current(q)  BY DEF SchemaInv
  <2>2. None \notin Processes  BY MigrationsAssumption, Zenon
  <2> QED  BY <1>2, <2>1, <2>2 DEF Current
<1>3. ASSUME NEW q \in Processes, q # g PROVE Current(q)'
  <2>1. pc'[q] \notin Section  BY <1>1, <1>2, <1>3
  <2> QED  BY <2>1 DEF Current, Section
<1> QED  BY <1>1, <1>3

\* Migrate up to the validation: the lock, the read and the validation.
LEMMA EnterSchema ==
  ASSUME SchemaInv, NEW g \in Processes, Lock(g) \/ Read(g) \/ Validate(g)
  PROVE  SchemaInv'
<1> USE DEF SchemaInv
<1>1. UNCHANGED <<runs, recorded>>  BY DEF Lock, Read, Validate
<1>2. /\ HistoryMatchesSchema' /\ Objects' = Objects /\ (CurrentSchema' <=> CurrentSchema)
  BY <1>1 DEF HistoryMatchesSchema, Objects, CurrentSchema
<1>3. CASE Lock(g)
  <2>1. lock = None /\ lock' = g /\ applied' = applied /\ pc' = [pc EXCEPT ![g] = "read"]
    BY <1>3, SMTT(30) DEF Lock, Goto
  <2>2. /\ pc' \in [Processes -> Labels] /\ pc'[g] = "read"
        /\ \A q \in Processes : q # g => Current(q)'
    BY <2>1, Alone, Zenon DEF Labels, Section
  <2>3. Current(g)'  BY <2>1, <2>2 DEF Current, Section
  <2> QED  BY <1>1, <1>2, <2>1, <2>2, <2>3 DEF SchemaTyped
<1>4. CASE Read(g)
  <2> DEFINE l == IF recorded = NoRecords /\ Objects # {} THEN "baseline" ELSE "validate"
  <2>1. /\ lock' = lock /\ applied' = [applied EXCEPT ![g] = recorded]
        /\ pc[g] = "read" /\ pc' = [pc EXCEPT ![g] = l]
    BY <1>4, SMTT(30) DEF Read, Goto
  <2>2. /\ pc' \in [Processes -> Labels] /\ pc'[g] = l
        /\ \A q \in Processes : q # g => Current(q)'
    BY <2>1, Alone, Zenon DEF Labels, Section
  <2>3. applied' \in [Processes -> [Versions -> Checksums]] /\ applied'[g] = recorded
    BY <2>1 DEF SchemaTyped
  <2>4. lock = g  BY <2>1 DEF Current, Section
  <2>5. Current(g)'  BY <1>1, <1>2, <2>1, <2>2, <2>3, <2>4, SMTT(30) DEF Current, Section
  <2> QED  BY <1>1, <1>2, <2>2, <2>3, <2>5 DEF SchemaTyped
<1>5. CASE Validate(g)
  <2>1. /\ lock' = lock /\ applied' = applied /\ pc[g] = "validate" /\ Valid(g)
        /\ pc' = [pc EXCEPT ![g] = "apply"]
    BY <1>5, SMTT(30) DEF Validate, Goto
  <2>2. /\ pc' \in [Processes -> Labels] /\ pc'[g] = "apply"
        /\ \A q \in Processes : q # g => Current(q)'
    BY <2>1, Alone, Zenon DEF Labels, Section
  <2>3. Valid(g)'  BY <2>1 DEF Valid
  <2>4. lock = g /\ applied[g] = recorded /\ (recorded = NoRecords => Objects = {})
    BY <2>1 DEF Current, Section
  <2>5. Current(g)'  BY <1>1, <1>2, <2>1, <2>2, <2>3, <2>4 DEF Current
  <2> QED  BY <1>1, <1>2, <2>1, <2>2, <2>5 DEF SchemaTyped
<1> QED  BY <1>3, <1>4, <1>5

\* An unrecorded schema is adopted as it is.
LEMMA BaselineSchema ==
  ASSUME SchemaInv, NEW g \in Processes, Baseline(g)
  PROVE  SchemaInv'
<1> USE DEF SchemaInv
<1>1. /\ runs' = runs /\ lock' = lock /\ pc[g] = "baseline" /\ CanBaseline(g)
      /\ pc' = [pc EXCEPT ![g] = "validate"]
      /\ recorded' = [v \in Versions |->
            IF v \in BaselineVersions THEN Binary[g][v] ELSE recorded[v]]
      /\ applied' = [applied EXCEPT ![g] = recorded']
  BY DEF Baseline, Goto
<1>2. recorded = NoRecords /\ lock = g  BY <1>1 DEF Current, Section
<1>3. /\ BaselineVersions = Objects /\ {1, 2} \subseteq Objects
      /\ BaselineVersions \subseteq DOMAIN Binary[g]
  BY <1>1, <1>2 DEF BaselineVersions, CanBaseline, CurrentSchema
<1>4. \A v \in Versions : recorded'[v] # None <=> v \in Objects
  BY <1>1, <1>2, <1>3, Releases DEF NoRecords
<1>5. recorded' \in [Versions -> Checksums]
  <2>1. \A v \in DOMAIN Binary[g] : Binary[g][v] \in Checksums  BY DEF Checksums
  <2> QED  BY <1>1, <1>3, <2>1 DEF SchemaTyped
<1>6. applied' \in [Processes -> [Versions -> Checksums]] /\ applied'[g] = recorded'
  BY <1>1, <1>5 DEF SchemaTyped
<1>7. 1 \in Versions /\ recorded'[1] # None  BY <1>3, <1>4 DEF Objects
<1>8. recorded' # NoRecords  BY <1>7, SMTT(30) DEF NoRecords
<1>9. /\ pc' \in [Processes -> Labels] /\ pc'[g] = "validate"
      /\ \A q \in Processes : q # g => Current(q)'
  BY <1>1, Alone, Zenon DEF Labels, Section
<1>10. Current(g)'
  <2>1. NoRecords' = NoRecords  BY SMTT(30) DEF NoRecords
  <2> QED  BY <1>1, <1>2, <1>6, <1>8, <1>9, <2>1 DEF Current, Section
<1>11. HistoryMatchesSchema'
  <2>1. \A v \in Versions : runs[v] = 1 <=> v \in Objects
    <3>1. \A v \in Versions : runs[v] \in {0, 1}  BY DEF SchemaTyped
    <3> QED  BY <3>1, SMT DEF Objects
  <2>2. ASSUME NEW v \in Versions, NEW w \in Versions, v < w, recorded'[w] # None
        PROVE  recorded'[v] # None
    <3>1. v \in Nat \ {0}  BY MigrationsAssumption, Zenon
    <3>2. w \in {1, 2, 3}  BY <1>3, <1>4, <2>2 DEF BaselineVersions
    <3>3. v \in {1, 2}  BY <2>2, <3>1, <3>2, SMTT(30)
    <3> QED  BY <1>3, <1>4, <3>3
  <2> QED  BY <1>1, <1>4, <2>1, <2>2 DEF HistoryMatchesSchema
<1>12. SchemaTyped'  BY <1>1, <1>5, <1>6, <1>9 DEF SchemaTyped
<1>13. (recorded = NoRecords)' = FALSE  BY <1>8 DEF NoRecords
<1> QED  BY <1>9, <1>10, <1>11, <1>12, <1>13, SMTT(30)

\* A migration and its record, in one transaction: the least that is missing.
LEMMA ApplySchema ==
  ASSUME SchemaInv, NEW g \in Processes, Apply(g)
  PROVE  SchemaInv'
<1> USE DEF SchemaInv
<1> DEFINE v == Next1(g)
           sum == Binary[g][v]
<1>1. /\ pc[g] = "apply" /\ Missing(g) # {} /\ lock' = lock /\ pc' = pc
      /\ recorded[v] = None
      /\ runs' = [runs EXCEPT ![v] = @ + 1]
      /\ recorded' = [recorded EXCEPT ![v] = sum]
      /\ applied' = [applied EXCEPT ![g][v] = sum]
  BY DEF Apply
<1>2. lock = g /\ applied[g] = recorded /\ (recorded = NoRecords => Objects = {}) /\ Valid(g)
  BY <1>1 DEF Current, Section
<1>3. /\ v \in DOMAIN Binary[g] /\ v \in Versions /\ v \in Nat
      /\ sum # None /\ sum \in Checksums
      /\ \A w \in Versions : w < v => recorded[w] # None
  BY <1>1, <1>2, NextIsLeast
<1> HIDE DEF v, sum
<1>4. runs[v] = 0
  <2>1. runs[v] \in {0, 1}  BY <1>3 DEF SchemaTyped
  <2>2. CASE recorded = NoRecords  BY <1>2, <1>3, <2>1, <2>2, SMT DEF Objects
  <2>3. CASE recorded # NoRecords  BY <1>1, <1>3, <2>1, <2>3, SMTT(30)
                                     DEF HistoryMatchesSchema
  <2> QED  BY <2>2, <2>3
<1>5. /\ runs' \in [Versions -> {0, 1}] /\ runs'[v] = 1
      /\ \A w \in Versions : w # v => runs'[w] = runs[w]
  BY <1>1, <1>3, <1>4, SMTT(30) DEF SchemaTyped
<1>6. /\ recorded' \in [Versions -> Checksums] /\ recorded'[v] = sum
      /\ \A w \in Versions : w # v => recorded'[w] = recorded[w]
  BY <1>1, <1>3 DEF SchemaTyped
<1>7. /\ applied' \in [Processes -> [Versions -> Checksums]] /\ applied'[g] = recorded'
  <2>1. applied'[g] = [applied[g] EXCEPT ![v] = sum]  BY <1>1 DEF SchemaTyped
  <2>2. applied'[g] = recorded'  BY <1>1, <1>2, <2>1
  <2>3. applied' = [applied EXCEPT ![g] = applied'[g]]  BY <1>1, <2>1, SMTT(30)
                                                          DEF SchemaTyped
  <2> QED  BY <1>6, <2>2, <2>3 DEF SchemaTyped
<1>8. SchemaTyped'  BY <1>1, <1>5, <1>6, <1>7, SMTT(30) DEF SchemaTyped
<1>9. recorded' # NoRecords  BY <1>3, <1>6 DEF NoRecords
<1>10. \A w \in Versions : recorded[w] # None <=> runs[w] = 1
  <2>1. CASE recorded = NoRecords
    <3>1. \A w \in Versions : runs[w] \in {0, 1}  BY DEF SchemaTyped
    <3> QED  BY <1>2, <2>1, <3>1, SMT DEF Objects, NoRecords
  <2>2. CASE recorded # NoRecords  BY <2>2 DEF HistoryMatchesSchema
  <2> QED  BY <2>1, <2>2
<1>11. \A w \in Versions : recorded'[w] # None <=> runs'[w] = 1
  BY <1>3, <1>5, <1>6, <1>10
<1>12. ASSUME NEW u \in Versions, NEW w \in Versions, u < w, recorded'[w] # None
       PROVE  recorded'[u] # None
  <2>1. \A x, y \in Versions : x < y /\ recorded[y] # None => recorded[x] # None
    BY <1>2 DEF Valid
  <2>2. CASE w = v  BY <1>3, <1>6, <1>12, <2>2
  <2>3. CASE w # v
    <3>1. recorded[w] # None  BY <1>6, <1>12, <2>3
    <3>2. recorded[u] # None  BY <1>12, <2>1, <3>1
    <3> QED  BY <1>3, <1>6, <3>2
  <2> QED  BY <2>2, <2>3
<1>13. HistoryMatchesSchema'  BY <1>11, <1>12, SMTT(30) DEF HistoryMatchesSchema
<1>14. Valid(g)'
  <2>1. \A w \in Versions : recorded[w] # None =>
          w \in DOMAIN Binary[g] /\ recorded[w] = Binary[g][w]
    BY <1>2, SMTT(30) DEF Valid
  <2>2. \A w \in Versions : recorded'[w] # None =>
          w \in DOMAIN Binary[g] /\ recorded'[w] = Binary[g][w]
    BY <1>3, <1>6, <2>1 DEF sum
  <2> QED  BY <1>7, <1>12, <2>2, SMTT(30) DEF Valid
<1>15. NoRecords' = NoRecords  BY DEF NoRecords
<1>16. Current(g)'
  BY <1>1, <1>2, <1>7, <1>9, <1>14, <1>15, SMTT(30) DEF Current, Section
<1>17. ASSUME NEW q \in Processes, q # g PROVE Current(q)'
  <2>1. pc[q] \notin Section  BY <1>2, <1>17, SMTT(30) DEF Current
  <2> QED  BY <1>1, <2>1, SMTT(30) DEF Current, Section
<1> QED  BY <1>8, <1>9, <1>13, <1>15, <1>16, <1>17, SMTT(30)

\* Migrate returns, and the lock is free.
LEMMA FinishSchema ==
  ASSUME SchemaInv, NEW g \in Processes, Finish(g)
  PROVE  /\ SchemaInv'
         /\ \A v \in Versions :
              recorded'[v] = IF v \in DOMAIN Binary[g] THEN Binary[g][v] ELSE None
<1> USE DEF SchemaInv
<1>1. /\ pc[g] = "apply" /\ pc' = [pc EXCEPT ![g] = "configure"] /\ Missing(g) = {}
      /\ applied' = [applied EXCEPT ![g] = NoRecords] /\ UNCHANGED <<runs, recorded>>
  BY SMTT(30) DEF Finish, Goto
<1>2. /\ pc' \in [Processes -> Labels] /\ pc'[g] = "configure"
      /\ \A q \in Processes : q # g => Current(q)'
  BY <1>1, Alone, Zenon DEF Labels, Section
<1>3. Current(g)'  BY <1>2 DEF Current, Section
<1>4. applied' \in [Processes -> [Versions -> Checksums]]
  BY <1>1, NoneChecksum DEF SchemaTyped
<1>5. /\ HistoryMatchesSchema' /\ Objects' = Objects /\ (CurrentSchema' <=> CurrentSchema)
  BY <1>1, SMTT(30) DEF HistoryMatchesSchema, Objects, CurrentSchema
<1>6. SchemaInv'  BY <1>1, <1>2, <1>3, <1>4, <1>5 DEF SchemaTyped
<1>7. applied[g] = recorded /\ Valid(g)  BY <1>1, SMTT(30) DEF Current
<1>8. \A v \in Versions :
        recorded[v] = IF v \in DOMAIN Binary[g] THEN Binary[g][v] ELSE None
  BY <1>1, <1>7 DEF Valid, Missing
<1> QED  BY <1>1, <1>6, <1>8

\* The end of a process.
LEMMA EndsOutside == ASSUME NEW p, Ends(p) PROVE Outside(p)
  BY Zenon DEF Ends, Outside, Labels, Section

\* A step of main between two labels after Migrate.
LEMMA MovesOutside ==
  ASSUME NEW p, NEW l \in Labels \ (Section \cup {"configure"}),
         pc' = [pc EXCEPT ![p] = l], UNCHANGED <<runs, recorded, lock, applied>>
  PROVE  Outside(p)
  BY Zenon DEF Outside

\* What a step of the deployment is to the schema.
LEMMA Steps ==
  ASSUME Next
  PROVE  \/ UNCHANGED migrationVars
         \/ \E p \in Processes :
              \/ Outside(p) \/ Lock(p) \/ Read(p) \/ Validate(p)
              \/ Baseline(p) \/ Apply(p) \/ Finish(p)
<1> DEFINE Is(p) == \/ Outside(p) \/ Lock(p) \/ Read(p) \/ Validate(p)
                    \/ Baseline(p) \/ Apply(p) \/ Finish(p)
           Later == Labels \ (Section \cup {"configure"})
<1>0. Gateways \subseteq Processes /\ Seeds \subseteq Processes
  BY KeyBootAssumption, Zenon DEF Seeds
<1>1. ASSUME NEW p \in Processes, Locking(p) PROVE Is(p)
  BY <1>1 DEF Locking
<1>2. ASSUME NEW p \in Processes, Migrating(p) PROVE Is(p)
  BY <1>2, EndsOutside DEF Migrating, Migrate, BaselineRefused, ValidateRefused, Refuse
<1>3. ASSUME NEW g \in Gateways, \/ Configure(g) \/ Bootstrap(g) \/ EnsurePolicies(g)
                                 \/ LoadSnapshots(g) \/ ReadFails(g)
      PROVE  Outside(g)
  <2>1. CASE Down(g)  BY <2>1, EndsOutside DEF Down, Refuse
  <2>2. CASE ~Down(g)
    <3>1. /\ UNCHANGED <<runs, recorded, lock, applied>>
          /\ \E l \in {"policies", "bootstrap", "key", "responses", "serving"} :
               pc' = [pc EXCEPT ![g] = l]
      BY <1>3, <2>2 DEF Configure, Bootstrap, EnsurePolicies, LoadSnapshots, ReadFails,
                        Goto, schemaVars
    <3> QED  BY <3>1, MovesOutside, Zenon DEF Labels, Section
  <2> QED  BY <2>1, <2>2
<1>4. ASSUME NEW g \in Gateways, Boot(g) PROVE Outside(g)
  <2>1. CASE Down(g)  BY <2>1, EndsOutside DEF Down, Refuse
  <2>2. CASE ~Down(g)
    <3>1. /\ UNCHANGED <<runs, recorded, lock, applied>>
          /\ \E l \in {"snapshots", "absent", "exists", "writing", "created", "rejected"} :
               pc' = [pc EXCEPT ![g] = l]
      BY <1>4, <2>2 DEF Boot, ReadFile, Create, ReadCreated, Write, Accept, Reject, Load, Takes,
                        Goto, schemaVars
    <3> QED  BY <3>1, MovesOutside, Zenon DEF Labels, Section
  <2> QED  BY <2>1, <2>2
<1>5. ASSUME NEW g \in Gateways, Restarting(g) PROVE Outside(g)
  <2>1. UNCHANGED <<runs, recorded, lock, applied>> /\ pc' = [pc EXCEPT ![g] = "start"]
    BY <1>5 DEF Restarting, Restart, Goto
  <2> QED  BY <2>1, MovesOutside, Zenon DEF Labels, Section
<1>6. ASSUME NEW s \in Seeds, SeedChecks(s) \/ SeedCommits(s) PROVE Outside(s)
  <2>1. /\ UNCHANGED <<runs, recorded, lock, applied>>
        /\ \E l \in {"refused", "seeding", "seeded"} : pc' = [pc EXCEPT ![s] = l]
    BY <1>6 DEF SeedChecks, SeedCommits, Goto, schemaVars
  <2> QED  BY <2>1, MovesOutside, ZenonT(60) DEF Labels, Section
<1>7. ASSUME NEW s \in Seeds, SeedFails(s) PROVE Outside(s)
  BY <1>7, EndsOutside, SMTT(30) DEF SeedFails, Fail
<1>8. ASSUME Operating PROVE UNCHANGED migrationVars \/ \E g \in Gateways : Outside(g)
  <2>1. ASSUME NEW g \in Gateways, Crash(g) \/ WriteFails(g) \/ Stop(g) PROVE Outside(g)
    BY <2>1, EndsOutside DEF Crash, WriteFails, Stop, Down, Refuse, Fail
  <2> QED  BY <1>8, <2>1, SMTT(30) DEF Operating, StoreSecret, EraseSecret, Restore, Rotate
<1> QED
  BY <1>0, <1>1, <1>2, <1>3, <1>4, <1>5, <1>6, <1>7, <1>8, SMTT(30)
    DEF Next, Starting, Seeding

\* Every step of the deployment keeps the invariant.
LEMMA NextSchema == SchemaInv /\ [Next]_vars => SchemaInv'
<1> SUFFICES ASSUME SchemaInv, [Next]_vars PROVE SchemaInv'  BY SMTT(30)
<1>1. ASSUME UNCHANGED migrationVars PROVE SchemaInv'
  BY <1>1 DEF migrationVars, SchemaInv, SchemaTyped, Current, Valid, HistoryMatchesSchema,
              Objects, CurrentSchema, NoRecords
<1>2. CASE UNCHANGED vars  BY <1>1, <1>2, SMTT(30) DEF vars
<1>3. CASE Next
  BY <1>1, <1>3, Steps, OutsideSchema, EnterSchema, BaselineSchema, ApplySchema, FinishSchema, ZenonT(60)
<1> QED  BY <1>2, <1>3

\* Only Finish lets a process go on to its configuration.
LEMMA OwnSchema ==
  ASSUME SchemaInv, [Next]_vars, NEW g \in Processes, pc[g] = "apply", pc'[g] = "configure"
  PROVE  \A v \in Versions :
           recorded'[v] = IF v \in DOMAIN Binary[g] THEN Binary[g][v] ELSE None
<1>1. pc \in [Processes -> Labels]  BY DEF SchemaInv, SchemaTyped
<1>2. Next  BY DEF vars, migrationVars
<1>3. PICK p \in Processes : \/ Outside(p) \/ Lock(p) \/ Read(p) \/ Validate(p)
                             \/ Baseline(p) \/ Apply(p) \/ Finish(p)
  BY <1>2, Steps, SMTT(30) DEF migrationVars
<1>4. CASE Finish(p)
  <2>1. p = g  BY <1>1, <1>4, SMTT(30) DEF Finish, Goto
  <2> QED  BY <1>4, <2>1, FinishSchema, SMTT(30)
<1>5. CASE ~Finish(p)
  <2>1. \E l \in Labels \ {"configure"} : pc' = pc \/ pc' = [pc EXCEPT ![p] = l]
    BY <1>3, <1>5 DEF Outside, Lock, Read, Validate, Baseline, Apply, Goto, Labels, Section
  <2> QED  BY <1>1, <2>1, SMTT(30)
<1> QED  BY <1>4, <1>5

\* The schema invariant in every reachable state.
LEMMA SchemaInvariance == Spec => []SchemaInv
  BY InitSchema, NextSchema, PTL DEF Spec

\* Migrate, by processes of any releases that start, fail and crash in any order:
\* schema_migrations and the schema never disagree.
THEOREM HistoryMatches == Spec => []HistoryMatchesSchema
<1>1. SchemaInv => HistoryMatchesSchema  BY DEF SchemaInv
<1> QED  BY <1>1, SchemaInvariance, PTL

\* Migrate returns nil only on the schema of the caller's own binary.
THEOREM OwnSchemaOnly == Spec => StartsOnOwnSchema
<1> DEFINE Own == \A g \in Processes : pc[g] = "apply" /\ pc'[g] = "configure" =>
                    \A v \in Versions :
                      recorded'[v] = IF v \in DOMAIN Binary[g] THEN Binary[g][v] ELSE None
<1>1. SchemaInv /\ [Next]_vars => [Own]_migrationVars  BY OwnSchema, SMTT(30)
<1> QED  BY <1>1, SchemaInvariance, PTL DEF Spec, StartsOnOwnSchema
-----------------------------------------------------------------------------
\* The labels at which a gateway runs with a key.
Running == {"snapshots", "serving"}

KeyTyped ==
  /\ pc \in [Processes -> Labels]
  /\ file \in Nat \cup {None, Empty} /\ mem \in [Gateways -> Nat \cup {None}]
  /\ made \in Nat /\ secrets \subseteq Nat /\ passed \subseteq 0..made
  /\ bypassed \in BOOLEAN

\* While every key in use passed the guard, secrets are under keys that passed,
\* the gateways run with the key of the file, and that is the key of the secrets.
Guarded ==
  /\ secrets \subseteq passed /\ secrets \subseteq {file, Original}
  /\ file \in passed => secrets \subseteq {file}
  /\ \A g \in Gateways : pc[g] \in Running => mem[g] = file /\ file \in passed

\* A gateway runs with a key.
Carries == \A g \in Gateways : pc[g] \in Running => mem[g] \in Nat

\* One gateway at most owns the file, and its key has not passed yet.
KeyInv ==
  /\ KeyTyped
  /\ \A g, h \in Gateways : pc[g] \in Owning /\ pc[h] \in Owning => g = h
  /\ RemovesNoOthersKey
  /\ \A g \in Gateways : pc[g] \in {"created", "rejected"} => mem[g] \in (0..made) \ passed
  /\ Carries
  /\ ~bypassed => Guarded

\* A step that takes a process to a label without a key, or nowhere.
Quiet(p) ==
  /\ \/ pc' = pc
     \/ \E l \in Labels \ (Owning \cup Running) : pc' = [pc EXCEPT ![p] = l]
  /\ \/ mem' = mem
     \/ pc'[p] \notin Owning \cup Running /\ mem' = [mem EXCEPT ![p] = None]
  /\ UNCHANGED <<file, secrets, made, hist>>

\* No gateway has a key at first, and secrets are those of the original key.
LEMMA InitKey == Init => KeyInv
<1> SUFFICES ASSUME Init PROVE KeyInv  OBVIOUS
<1>1. pc \in [Processes -> {"start", "unused"}]  BY Zenon DEF Init, MigrationInit
<1>2. Gateways \subseteq Processes  BY KeyBootAssumption, Zenon
<1>3. /\ file \in {None, Original} /\ secrets \subseteq {Original} /\ passed = {Original}
      /\ mem = [g \in Gateways |-> None] /\ made = 0 /\ bypassed = FALSE
  BY DEF Init, KeyInit
<1>4. \A g \in Gateways : pc[g] \in {"start", "unused"}  BY <1>1, <1>2
<1>5. KeyTyped
  <2>1. pc \in [Processes -> Labels]  BY <1>1 DEF Labels
  <2>2. made \in Nat /\ passed \subseteq 0..made /\ secrets \subseteq Nat
        /\ file \in Nat \cup {None, Empty}
    BY <1>3, SMTT(30) DEF Original
  <2>3. mem \in [Gateways -> Nat \cup {None}] /\ bypassed \in BOOLEAN  BY <1>3, Zenon
  <2> QED  BY <2>1, <2>2, <2>3 DEF KeyTyped
<1> QED  BY <1>3, <1>4, <1>5, SMTT(30)
           DEF KeyInv, RemovesNoOthersKey, Guarded, Carries, Owning, Running

\* A step that leaves the key file, the keys in memory and the secrets alone.
LEMMA QuietKey == ASSUME KeyInv, NEW p \in Processes, Quiet(p) PROVE KeyInv'
<1> USE DEF KeyInv
<1>0. Gateways \subseteq Processes  BY KeyBootAssumption, Zenon
<1>1. /\ pc' \in [Processes -> Labels]
      /\ \A g \in Gateways : pc'[g] \in Owning \cup Running => pc'[g] = pc[g] /\ mem'[g] = mem[g]
  BY <1>0 DEF Quiet, KeyTyped
<1>2. mem' \in [Gateways -> Nat \cup {None}]  BY DEF Quiet, KeyTyped
<1>3. UNCHANGED <<file, secrets, made, passed, bypassed>>  BY SMTT(30) DEF Quiet, hist
<1>4. KeyTyped'  BY <1>1, <1>2, <1>3, SMTT(30) DEF KeyTyped
<1>5. RemovesNoOthersKey'  BY <1>1, <1>3, SMTT(30) DEF RemovesNoOthersKey, Owning
<1>6. ~bypassed' => Guarded'  BY <1>1, <1>3, SMTT(30) DEF Guarded, Original
<1>7. \A g \in Gateways : pc'[g] \in {"created", "rejected"} => mem'[g] \in (0..made') \ passed'
  BY <1>1, <1>3, SMTT(30) DEF Owning
<1>8. \A g, h \in Gateways : pc'[g] \in Owning /\ pc'[h] \in Owning => g = h
  BY <1>1, SMTT(30)
<1>9. Carries'  BY <1>1, SMTT(30) DEF Carries
<1> QED  BY <1>4, <1>5, <1>6, <1>7, <1>8, <1>9

\* A gateway takes the key it found in the file.
LEMMA LoadKey == ASSUME KeyInv, NEW g \in Gateways, Load(g) PROVE KeyInv'
<1> USE DEF KeyInv
<1>0. g \in Processes /\ Gateways \subseteq Processes /\ Keys \subseteq Nat
  BY KeyBootAssumption, SMTT(30) DEF Keys
<1>1. /\ file \in Nat /\ mem' = [mem EXCEPT ![g] = file] /\ pc' = [pc EXCEPT ![g] = "snapshots"]
      /\ bypassed' = (bypassed \/ file \notin passed)
      /\ UNCHANGED <<file, secrets, made, passed>>
  BY <1>0, SMTT(30) DEF Load, Takes
<1>2. /\ pc' \in [Processes -> Labels] /\ pc'[g] = "snapshots"
      /\ \A h \in Gateways : h # g => pc'[h] = pc[h]
  BY <1>0, <1>1, SMTT(30) DEF KeyTyped, Labels
<1>3. /\ mem' \in [Gateways -> Nat \cup {None}] /\ mem'[g] = file
      /\ \A h \in Gateways : h # g => mem'[h] = mem[h]
  BY <1>1, SMTT(30) DEF KeyTyped
<1>4. KeyTyped'  BY <1>1, <1>2, <1>3, SMTT(30) DEF KeyTyped
<1>5. \A h \in Gateways : pc'[h] \in Owning => h # g /\ pc'[h] = pc[h] /\ mem'[h] = mem[h]
  BY <1>2, <1>3, SMTT(30) DEF Owning
<1>6. RemovesNoOthersKey'  BY <1>1, <1>5, SMTT(30) DEF RemovesNoOthersKey, Owning
<1>7. ASSUME ~bypassed' PROVE Guarded'
  <2>1. Guarded /\ file \in passed  BY <1>1, <1>7, Zenon
  <2> QED  BY <1>1, <1>2, <1>3, <2>1, SMTT(30) DEF Guarded, Original
<1>8. \A h \in Gateways : pc'[h] \in {"created", "rejected"} => mem'[h] \in (0..made') \ passed'
  BY <1>1, <1>5, SMTT(30) DEF Owning
<1>9. Carries'  BY <1>1, <1>2, <1>3 DEF Carries
<1> QED  BY <1>4, <1>5, <1>6, <1>7, <1>8, <1>9, SMTT(30)

\* While the key in the file has not passed nobody runs with one that has.
LEMMA Unpassed ==
  ASSUME Guarded, file \notin passed
  PROVE  secrets \subseteq {Original} /\ \A g \in Gateways : pc[g] \notin Running
  BY SMTT(30) DEF Guarded

\* While there is no key in the file nobody owns a key, and nobody runs with one
\* that passed.
LEMMA NoKey ==
  ASSUME KeyInv, file \in {None, Empty}
  PROVE  /\ \A g \in Gateways : pc[g] \notin {"created", "rejected"}
         /\ file = None => \A g \in Gateways : pc[g] \notin Owning
         /\ ~bypassed => /\ secrets \subseteq {Original}
                         /\ \A g \in Gateways : pc[g] \notin Running
<1>1. None \notin Nat /\ Empty \notin Nat /\ None # Empty  BY KeyBootAssumption, SMT
<1>2. secrets \subseteq Nat /\ passed \subseteq Nat  BY SMT DEF KeyInv, KeyTyped
<1>3. \A g \in Gateways : pc[g] \in {"created", "rejected"} => mem[g] \in Nat
  BY SMTT(30) DEF KeyInv, KeyTyped
<1>4. file \notin Nat /\ file \notin passed /\ Original \in Nat
  BY <1>1, <1>2, Zenon DEF Original
<1>5. ~bypassed => /\ secrets \subseteq {Original}
                   /\ \A g \in Gateways : pc[g] \notin Running
  BY <1>4, Unpassed, Zenon DEF KeyInv
<1>6. \A g \in Gateways : pc[g] \notin {"created", "rejected"}
  BY <1>3, <1>4, Zenon DEF KeyInv, RemovesNoOthersKey
<1>7. ASSUME file = None PROVE \A g \in Gateways : pc[g] \notin Owning
  BY <1>1, <1>4, <1>6, <1>7, Zenon DEF KeyInv, RemovesNoOthersKey, Owning
<1> QED  BY <1>5, <1>6, <1>7, Zenon

\* The file is created, exclusively.
LEMMA CreateKey ==
  ASSUME KeyInv, NEW g \in Gateways, file = None, Goto(g, "absent", "writing"),
         file' = Empty, UNCHANGED <<mem, secrets, made, hist>>
  PROVE  KeyInv'
<1> USE DEF KeyInv
<1>0. g \in Processes /\ Gateways \subseteq Processes /\ Empty \notin Nat
  BY KeyBootAssumption, SMTT(30)
<1>1. /\ pc' \in [Processes -> Labels] /\ pc'[g] = "writing"
      /\ \A h \in Gateways : h # g => pc'[h] = pc[h]
  BY <1>0, SMTT(30) DEF Goto, KeyTyped, Labels
<1>2. UNCHANGED <<mem, secrets, made, passed, bypassed>>  BY SMTT(30) DEF hist
<1>3. KeyTyped'  BY <1>1, <1>2, SMTT(30) DEF KeyTyped
<1>4. \A h \in Gateways : pc'[h] \in Owning => h = g  BY <1>1, NoKey, SMTT(30)
<1>5. RemovesNoOthersKey'  BY <1>1, <1>4, SMTT(30) DEF RemovesNoOthersKey, Owning
<1>6. ASSUME ~bypassed' PROVE Guarded'
  <2>1. Guarded /\ secrets \subseteq {Original} /\ (\A h \in Gateways : pc[h] \notin Running)
    BY <1>2, <1>6, NoKey, SMTT(30)
  <2>2. Empty \notin passed
    <3>1. passed \subseteq Nat  BY SMTT(30) DEF KeyTyped
    <3> QED  BY <1>0, <3>1, ZenonT(60)
  <2> QED  BY <1>1, <1>2, <2>1, <2>2, SMTT(30) DEF Guarded, Running, Original
<1>7. \A h \in Gateways : pc'[h] \notin {"created", "rejected"}  BY <1>1, <1>4, SMTT(30)
                                                                   DEF Owning
<1>8. Carries'  BY <1>1, <1>2, SMTT(30) DEF Carries, Running
<1> QED  BY <1>3, <1>4, <1>5, <1>6, <1>7, <1>8, SMTT(30)

\* The key is written: one that nothing has seen.
LEMMA WriteKey == ASSUME KeyInv, NEW g \in Gateways, Write(g) PROVE KeyInv'
<1> USE DEF KeyInv
<1>0. g \in Processes /\ Gateways \subseteq Processes  BY KeyBootAssumption, ZenonT(60)
<1>1. /\ made' = made + 1 /\ mem' = [mem EXCEPT ![g] = made']
      /\ file' = made' \/ (file # Empty /\ file' = file)
      /\ pc[g] = "writing" /\ pc' = [pc EXCEPT ![g] = "created"]
      /\ bypassed' = (bypassed \/ (file \in passed /\ file' # file))
      /\ UNCHANGED <<secrets, passed>>
  BY Zenon DEF Write, Goto
<1>2. /\ pc' \in [Processes -> Labels] /\ pc'[g] = "created"
      /\ \A h \in Gateways : h # g => pc'[h] = pc[h]
  BY <1>0, <1>1, SMTT(30) DEF KeyTyped, Labels
<1>3. made' \in Nat /\ made' \notin passed /\ passed \subseteq 0..made'
  BY <1>1, SMTT(30) DEF KeyTyped
<1>4. /\ mem' \in [Gateways -> Nat \cup {None}] /\ mem'[g] = made'
      /\ \A h \in Gateways : h # g => mem'[h] = mem[h]
  BY <1>1, <1>3, SMTT(30) DEF KeyTyped
<1>5. KeyTyped'
  <2>1. bypassed' \in BOOLEAN /\ file' \in Nat \cup {None, Empty}  BY <1>1, <1>3, Zenon DEF KeyTyped
  <2> QED  BY <1>1, <1>2, <1>3, <1>4, <2>1, Zenon DEF KeyTyped
<1>6. \A h \in Gateways : pc'[h] \in Owning => h = g  BY <1>1, <1>2, SMTT(30) DEF Owning
<1>7. RemovesNoOthersKey'
  <2>1. file \in {Empty, Original}  BY <1>1, Zenon DEF RemovesNoOthersKey
  <2>2. file' \in {mem'[g], Original}  BY <1>1, <1>4, <2>1, Zenon
  <2> QED  BY <1>2, <1>6, <2>2, Zenon DEF RemovesNoOthersKey, Owning, Original
<1>9. ASSUME ~bypassed' PROVE Guarded'
  <2>0. Guarded  BY <1>1, <1>9, Zenon
  <2>1. CASE file' = file
    BY <1>1, <1>2, <1>4, <2>0, <2>1, SMTT(30) DEF Guarded, Running, Original
  <2>2. CASE file' # file
    <3>1. file \notin passed /\ file' = made'  BY <1>1, <1>9, <2>2, Zenon
    <3>2. secrets \subseteq {Original} /\ (\A h \in Gateways : pc[h] \notin Running)
      BY <2>0, <3>1, Unpassed, Zenon
    <3> QED  BY <1>1, <1>2, <1>3, <2>0, <3>1, <3>2, SMTT(30) DEF Guarded, Running, Original
  <2> QED  BY <2>1, <2>2, Zenon
<1>10. \A h \in Gateways : pc'[h] \in {"created", "rejected"} => mem'[h] \in (0..made') \ passed'
  BY <1>1, <1>3, <1>4, <1>6, SMTT(30) DEF Owning
<1>11. Carries'  BY <1>1, <1>2, <1>3, <1>4, SMTT(30) DEF Carries, KeyTyped, Running
<1> QED  BY <1>5, <1>6, <1>7, <1>9, <1>10, <1>11, SMTT(30)

\* The guard of main decides on the key that was created.
LEMMA AcceptKey == ASSUME KeyInv, NEW g \in Gateways, Accept(g) PROVE KeyInv'
<1> USE DEF KeyInv
<1> DEFINE bad == refuse \/ secrets # {}
           l == IF bad THEN "rejected" ELSE "snapshots"
<1>0. g \in Processes /\ Gateways \subseteq Processes  BY KeyBootAssumption, Zenon
<1>1. /\ pc[g] = "created" /\ pc' = [pc EXCEPT ![g] = l]
      /\ passed' = (IF bad THEN passed ELSE passed \cup {mem[g]})
      /\ bypassed' = (bypassed \/ (~bad /\ file # mem[g]))
      /\ UNCHANGED <<file, mem, secrets, made>>
  BY Zenon DEF Accept, Goto, HasUpstreamSecrets
<1>2. /\ pc' \in [Processes -> Labels] /\ pc'[g] = l
      /\ \A h \in Gateways : h # g => pc'[h] = pc[h]
  BY <1>0, <1>1, SMTT(30) DEF KeyTyped, Labels
<1>3. mem[g] \in (0..made) \ passed  BY <1>1, SMTT(30)
<1>4. \A h \in Gateways : pc'[h] \in Owning => h = g /\ bad
  BY <1>1, <1>2, SMTT(30) DEF Owning
<1>5. RemovesNoOthersKey'
  BY <1>1, <1>2, <1>4, SMTT(30) DEF RemovesNoOthersKey, Owning, Original
<1>9. bypassed' \in BOOLEAN /\ (bad => bypassed' = bypassed)  BY <1>1, Zenon DEF KeyTyped
<1>8. Carries'
  <2>1. mem[g] \in Nat  BY <1>3, SMTT(30) DEF KeyTyped
  <2> QED  BY <1>1, <1>2, <2>1, SMTT(30) DEF Carries
<1>6. CASE bad
  <2>1. KeyTyped'  BY <1>1, <1>2, <1>6, <1>9, ZenonT(60) DEF KeyTyped
  <2>2. ~bypassed' => Guarded'
    BY <1>1, <1>2, <1>6, <1>9, SMTT(30) DEF Guarded, Running, Original
  <2>3. \A h \in Gateways : pc'[h] \in {"created", "rejected"} => mem'[h] \in (0..made') \ passed'
    BY <1>1, <1>3, <1>4, <1>6, SMTT(30) DEF Owning
  <2> QED  BY <1>4, <1>5, <1>8, <2>1, <2>2, <2>3, SMTT(30)
<1>7. CASE ~bad
  <2>1. passed' = passed \cup {mem[g]} /\ pc'[g] = "snapshots" /\ secrets = {}
    BY <1>1, <1>2, <1>7, SMTT(30)
  <2>2. passed' \subseteq 0..made  BY <1>3, <2>1, ZenonT(60) DEF KeyTyped
  <2>3. KeyTyped'  BY <1>1, <1>2, <1>9, <2>2, Zenon DEF KeyTyped
  <2>4. ASSUME ~bypassed' PROVE Guarded'
    <3>1. ~bypassed /\ file = mem[g]  BY <1>1, <1>7, <2>4, Zenon
    <3>2. Guarded  BY <3>1, Zenon
    <3> QED  BY <1>1, <1>2, <1>3, <2>1, <3>1, <3>2, SMTT(30) DEF Guarded, Running, Original
  <2> QED  BY <1>4, <1>5, <1>7, <1>8, <2>3, <2>4, SMTT(30) DEF Owning
<1> QED  BY <1>6, <1>7, ZenonT(60)

\* The owner removes the file, its key refused or not written.
LEMMA RemoveKey ==
  ASSUME KeyInv, NEW g \in Gateways, pc[g] \in {"writing", "rejected"}, file' = None,
         pc' = [pc EXCEPT ![g] = "failed"],
         mem' = mem \/ mem' = [mem EXCEPT ![g] = None],
         bypassed' = (bypassed \/ file \in passed),
         UNCHANGED <<secrets, made, passed>>
  PROVE  KeyInv'
<1> USE DEF KeyInv
<1>0. g \in Processes /\ Gateways \subseteq Processes /\ None \notin Nat
  BY KeyBootAssumption, SMTT(30)
<1>1. /\ pc' \in [Processes -> Labels] /\ pc'[g] = "failed"
      /\ \A h \in Gateways : h # g => pc'[h] = pc[h]
  BY <1>0, SMTT(30) DEF KeyTyped, Labels
<1>2. UNCHANGED <<secrets, made, passed>> /\ bypassed' \in BOOLEAN
  BY Zenon DEF KeyTyped
<1>3. mem' \in [Gateways -> Nat \cup {None}]  BY SMTT(30) DEF KeyTyped
<1>4. KeyTyped'  BY <1>1, <1>2, <1>3, SMTT(30) DEF KeyTyped
<1>5. \A h \in Gateways : pc'[h] \notin Owning
  BY <1>1, SMTT(30) DEF Owning
<1>6. RemovesNoOthersKey'  BY <1>5, SMTT(30) DEF RemovesNoOthersKey, Owning
<1>7. ASSUME ~bypassed' PROVE Guarded'
  <2>0. passed \subseteq Nat  BY SMTT(30) DEF KeyTyped
  <2>1. file \notin passed /\ Guarded  BY <1>7, Zenon
  <2>3. secrets \subseteq {Original} /\ (\A h \in Gateways : pc[h] \notin Running)
    BY <2>1, Unpassed, Zenon
  <2>4. None \notin passed  BY <1>0, <2>0, Zenon
  <2> QED  BY <1>1, <1>2, <2>1, <2>3, <2>4, SMTT(30) DEF Guarded, Running, Original
<1>8. Carries'  BY <1>1, SMTT(30) DEF Carries, KeyTyped, Running
<1> QED  BY <1>4, <1>5, <1>6, <1>7, <1>8, SMTT(30) DEF Owning

\* A gateway that loaded its snapshots serves; secrets are stored and erased.
LEMMA ServeKey ==
  ASSUME KeyInv, NEW g \in Gateways, pc[g] \in Running,
         pc' = pc \/ pc' = [pc EXCEPT ![g] = "serving"],
         secrets' \subseteq secrets \cup {mem[g]},
         UNCHANGED <<file, mem, made, hist>>
  PROVE  KeyInv'
<1> USE DEF KeyInv
<1>0. g \in Processes /\ Gateways \subseteq Processes  BY KeyBootAssumption, ZenonT(60)
<1>1. /\ pc' \in [Processes -> Labels]
      /\ \A h \in Gateways : pc'[h] = pc[h] \/ (pc[h] \in Running /\ pc'[h] = "serving")
  BY <1>0, SMTT(30) DEF KeyTyped, Labels
<1>2. UNCHANGED <<made, passed, bypassed>>  BY SMTT(30) DEF hist
<1>3. ASSUME ~bypassed' PROVE Guarded'
  <2>1. Guarded /\ mem[g] = file /\ file \in passed /\ passed \subseteq Nat
    BY <1>2, <1>3, SMTT(30) DEF Guarded, KeyTyped
  <2> QED  BY <1>1, <1>2, <2>1, SMTT(30) DEF Guarded, Original, Running, KeyTyped
<1>4. KeyTyped'  BY <1>1, <1>2, SMTT(30) DEF KeyTyped, Carries
<1>5. \A h \in Gateways : pc'[h] \in Owning => pc'[h] = pc[h]  BY <1>1, SMTT(30) DEF Owning
<1>6. RemovesNoOthersKey'  BY <1>5, SMTT(30) DEF RemovesNoOthersKey, Owning
<1>7. \A h \in Gateways : pc'[h] \in {"created", "rejected"} => mem'[h] \in (0..made') \ passed'
  BY <1>2, <1>5, SMTT(30) DEF Owning
<1>8. Carries'  BY <1>1, SMTT(30) DEF Carries, Running
<1> QED  BY <1>3, <1>4, <1>5, <1>6, <1>7, <1>8

\* The operator puts the key in place again.
LEMMA RestoreKey == ASSUME KeyInv, Restore PROVE KeyInv'
<1> USE DEF KeyInv
<1>1. /\ file \notin passed /\ file' = 0 /\ pc' = pc
      /\ UNCHANGED <<mem, secrets, made, passed, bypassed>>
  BY SMTT(30) DEF Restore, migrationVars, hist, Original
<1>3. KeyTyped'  BY <1>1, SMTT(30) DEF KeyTyped
<1>4. RemovesNoOthersKey'  BY <1>1, SMTT(30) DEF RemovesNoOthersKey, Original
<1>5. ASSUME ~bypassed' PROVE Guarded'
  <2>1. Guarded /\ secrets \subseteq {Original} /\ (\A g \in Gateways : pc[g] \notin Running)
    BY <1>1, <1>5, Unpassed, Zenon
  <2> QED  BY <1>1, <2>1, SMTT(30) DEF Guarded, Original
<1>6. Carries'  BY <1>1, SMTT(30) DEF Carries
<1> QED  BY <1>1, <1>3, <1>4, <1>5, <1>6, SMTT(30)

\* The operator rotates the key while no gateway runs.
LEMMA RotateKey == ASSUME KeyInv, Rotate PROVE KeyInv'
<1> USE DEF KeyInv
<1>1. /\ \A g \in Gateways : pc'[g] \in {"unused", "start", "failed"}
      /\ made' = made + 1 /\ file' = made' /\ passed' = passed \cup {made'} /\ pc' = pc
      /\ bypassed' = (bypassed \/ secrets # {}) /\ UNCHANGED <<mem, secrets>>
  BY SMTT(30) DEF Rotate, migrationVars, HasUpstreamSecrets
<1>2. made' \in Nat /\ passed' \subseteq 0..made'  BY <1>1, SMTT(30) DEF KeyTyped
<1>3. KeyTyped'  BY <1>1, <1>2, SMTT(30) DEF KeyTyped
<1>4. \A g \in Gateways : pc'[g] \notin Owning \cup Running
  BY <1>1, SMTT(30) DEF Owning, Running
<1>5. RemovesNoOthersKey' /\ Carries'  BY <1>4, SMTT(30) DEF RemovesNoOthersKey, Carries, Owning
<1>6. ~bypassed' => Guarded'  BY <1>1, <1>4, Zenon DEF Guarded
<1> QED  BY <1>3, <1>4, <1>5, <1>6, SMTT(30) DEF Owning

\* The end of a process.
LEMMA EndsQuiet ==
  ASSUME KeyTyped, NEW p \in Processes, Ends(p), UNCHANGED <<file, secrets, made, hist>>,
         mem' = mem \/ mem' = [mem EXCEPT ![p] = None]
  PROVE  Quiet(p)
<1>1. "failed" \in Labels \ (Owning \cup Running)  BY DEF Labels, Section, Owning, Running
<1>2. pc' = [pc EXCEPT ![p] = "failed"] /\ pc'[p] = "failed"  BY SMTT(30) DEF Ends, KeyTyped
<1> QED  BY <1>1, <1>2, ZenonT(60) DEF Quiet

\* Every step of the deployment keeps the invariant of the keys.
LEMMA NextKey == KeyInv /\ [Next]_vars => KeyInv'
<1> SUFFICES ASSUME KeyInv, [Next]_vars PROVE KeyInv'  OBVIOUS
<1>0. Gateways \subseteq Processes /\ Seeds \subseteq Processes /\ KeyTyped
  BY KeyBootAssumption, ZenonT(60) DEF Seeds, KeyInv
<1> DEFINE Plain == Labels \ (Owning \cup Running)
<1>p. ASSUME NEW p \in Processes, NEW l \in Plain, pc' = [pc EXCEPT ![p] = l],
             UNCHANGED <<file, mem, secrets, made, hist>>
      PROVE  KeyInv'
  BY <1>p, QuietKey, Zenon DEF Quiet
<1>d. ASSUME NEW g \in Gateways, Down(g), UNCHANGED <<file, secrets, made, hist>> PROVE KeyInv'
  BY <1>0, <1>d, EndsQuiet, QuietKey, Zenon DEF Down, Refuse
<1>1. ASSUME NEW p \in Processes, Locking(p) PROVE KeyInv'
  <2>1. pc' = [pc EXCEPT ![p] = "read"] /\ UNCHANGED <<file, mem, secrets, made, hist>>
    BY <1>1, SMTT(30) DEF Locking, Lock, Goto, keyVars
  <2> QED  BY <2>1, <1>p, ZenonT(60) DEF Labels, Section, Owning, Running
<1>2. ASSUME NEW p \in Processes, Migrating(p) PROVE KeyInv'
  <2>0. UNCHANGED <<file, mem, secrets, made, hist>>  BY <1>2, SMTT(30)
                                                        DEF Migrating, keyVars
  <2>1. CASE Ends(p)  BY <1>0, <2>0, <2>1, EndsQuiet, QuietKey, SMTT(30)
  <2>2. CASE Apply(p)  BY <2>0, <2>2, QuietKey, SMTT(30) DEF Apply, Quiet
  <2>3. CASE Read(p) \/ Baseline(p) \/ Validate(p) \/ Finish(p)
    <3>1. \E l \in {"baseline", "validate", "apply", "configure"} : pc' = [pc EXCEPT ![p] = l]
      BY <2>3 DEF Read, Baseline, Validate, Finish, Goto
    <3> QED  BY <2>0, <3>1, <1>p, Zenon DEF Labels, Section, Owning, Running
  <2> QED  BY <1>2, <2>1, <2>2, <2>3
           DEF Migrating, Migrate, BaselineRefused, ValidateRefused, Refuse
<1>3. ASSUME NEW g \in Gateways, \/ Configure(g) \/ Bootstrap(g) \/ EnsurePolicies(g)
                                 \/ ReadFails(g)
      PROVE  KeyInv'
  <2>1. CASE Down(g)
    <3>1. UNCHANGED <<file, secrets, made, hist>>
      BY <1>3, ZenonT(60) DEF Configure, Bootstrap, EnsurePolicies, ReadFails, keyVars
    <3> QED  BY <2>1, <3>1, <1>d, SMTT(30)
  <2>2. CASE ~Down(g)
    <3>1. /\ UNCHANGED <<file, mem, secrets, made, hist>>
          /\ \E l \in {"policies", "bootstrap", "key", "responses"} : pc' = [pc EXCEPT ![g] = l]
      BY <1>3, <2>2, Zenon
        DEF Configure, Bootstrap, EnsurePolicies, ReadFails, Goto, keyVars
    <3> QED  BY <1>0, <3>1, <1>p, ZenonT(60) DEF Labels, Owning, Running
  <2> QED  BY <2>1, <2>2, SMTT(30)
<1>4. ASSUME NEW g \in Gateways, LoadSnapshots(g) PROVE KeyInv'
  <2>1. CASE Down(g)
    <3>1. UNCHANGED <<file, secrets, made, hist>>  BY <1>4, SMTT(30)
                                                     DEF LoadSnapshots, keyVars
    <3> QED  BY <2>1, <3>1, <1>d
  <2>2. CASE ~Down(g)
    <3>1. /\ UNCHANGED <<file, mem, secrets, made, hist>>
          /\ pc[g] = "snapshots" /\ pc' = [pc EXCEPT ![g] = "serving"]
      BY <1>4, <2>2, SMTT(30) DEF LoadSnapshots, Goto, keyVars
    <3> QED  BY <3>1, ServeKey, ZenonT(60) DEF Running
  <2> QED  BY <2>1, <2>2
<1>5. ASSUME NEW g \in Gateways, ReadFile(g) PROVE KeyInv'
  <2>1. CASE Load(g)  BY <2>1, LoadKey, SMTT(30)
  <2>2. CASE Goto(g, "key", "absent") /\ UNCHANGED <<schemaVars, keyVars>>
    <3>1. pc' = [pc EXCEPT ![g] = "absent"] /\ UNCHANGED <<file, mem, secrets, made, hist>>
      BY <2>2 DEF Goto, keyVars
    <3> QED  BY <1>0, <3>1, <1>p, ZenonT(60) DEF Labels, Owning, Running
  <2>3. CASE Down(g) /\ UNCHANGED <<file, secrets, refuse, made, hist>>  BY <2>3, <1>d, SMTT(30)
  <2> QED  BY <1>5, <2>1, <2>2, <2>3, SMTT(30) DEF ReadFile
<1>6. ASSUME NEW g \in Gateways, Create(g) PROVE KeyInv'
  <2>1. CASE Goto(g, "absent", "exists") /\ UNCHANGED <<schemaVars, keyVars>>
    <3>1. pc' = [pc EXCEPT ![g] = "exists"] /\ UNCHANGED <<file, mem, secrets, made, hist>>
      BY <2>1 DEF Goto, keyVars
    <3> QED  BY <1>0, <3>1, <1>p, ZenonT(60) DEF Labels, Owning, Running
  <2> QED  BY <1>6, <2>1, CreateKey, ZenonT(60) DEF Create
<1>15. ASSUME NEW g \in Gateways, ReadCreated(g) PROVE KeyInv'
  <2>1. CASE Load(g)  BY <2>1, LoadKey
  <2>2. CASE Down(g) /\ UNCHANGED <<file, secrets, refuse, made, hist>>  BY <2>2, <1>d
  <2> QED  BY <1>15, <2>1, <2>2, Zenon DEF ReadCreated
<1>7. ASSUME NEW g \in Gateways, Write(g) PROVE KeyInv'  BY <1>7, WriteKey
<1>8. ASSUME NEW g \in Gateways, Accept(g) PROVE KeyInv'  BY <1>8, AcceptKey
<1>9. ASSUME NEW g \in Gateways, Reject(g) PROVE KeyInv'
  BY <1>9, RemoveKey, Zenon DEF Reject, Removes, Down, Refuse, Ends
<1>10. ASSUME NEW g \in Gateways, Restarting(g) PROVE KeyInv'
  <2>1. pc' = [pc EXCEPT ![g] = "start"] /\ UNCHANGED <<file, mem, secrets, made, hist>>
    BY <1>10 DEF Restarting, Restart, Goto, keyVars
  <2> QED  BY <1>0, <2>1, <1>p, ZenonT(60) DEF Labels, Owning, Running
<1>11. ASSUME NEW s \in Seeds, SeedChecks(s) \/ SeedCommits(s) PROVE KeyInv'
  <2>1. /\ UNCHANGED <<file, mem, secrets, made, hist>>
        /\ \E l \in {"refused", "seeding", "seeded"} : pc' = [pc EXCEPT ![s] = l]
    BY <1>11, Zenon DEF SeedChecks, SeedCommits, Goto, keyVars
  <2> QED  BY <1>0, <2>1, <1>p, ZenonT(60) DEF Labels, Owning, Running
<1>12. ASSUME NEW s \in Seeds, SeedFails(s) PROVE KeyInv'
  BY <1>0, <1>12, EndsQuiet, QuietKey, SMTT(30) DEF SeedFails, Fail, keyVars
<1>13. ASSUME Operating PROVE KeyInv'
  <2>1. ASSUME NEW g \in Gateways, Crash(g) PROVE KeyInv'
    BY <1>0, <2>1, EndsQuiet, QuietKey, Zenon DEF Crash, Fail
  <2>2. ASSUME NEW g \in Gateways, WriteFails(g) PROVE KeyInv'
    BY <2>2, RemoveKey, ZenonT(60) DEF WriteFails, Removes, Fail, Ends
  <2>3. ASSUME NEW g \in Gateways, Stop(g) PROVE KeyInv'
    BY <2>3, <1>d, SMTT(30) DEF Stop
  <2>4. ASSUME NEW g \in Gateways, StoreSecret(g) \/ EraseSecret(g) PROVE KeyInv'
    <3>1. /\ pc[g] = "serving" /\ pc' = pc /\ secrets' \subseteq secrets \cup {mem[g]}
          /\ UNCHANGED <<file, mem, made, hist>>
      BY <2>4, ZenonT(60) DEF StoreSecret, EraseSecret, migrationVars
    <3> QED  BY <3>1, ServeKey, SMTT(30) DEF Running
  <2> QED  BY <1>13, <2>1, <2>2, <2>3, <2>4, RestoreKey, RotateKey, SMTT(30) DEF Operating
<1>14. CASE UNCHANGED vars
  BY <1>14, ZenonT(60)
    DEF vars, keyVars, hist, migrationVars, KeyInv, KeyTyped, RemovesNoOthersKey, Carries, Guarded
<1> QED
  BY <1>1, <1>2, <1>3, <1>4, <1>5, <1>6, <1>7, <1>8, <1>9, <1>10, <1>11, <1>12, <1>13, <1>14,
     <1>15, <1>0, SMTT(30)
  DEF Next, Starting, Seeding, Boot

\* The invariant of the keys in every reachable state.
LEMMA KeyInvariance == Spec => []KeyInv
  BY InitKey, NextKey, PTL DEF Spec

\* LoadOrCreateWithStatus and removeGeneratedEncryptionKey, by gateways that share
\* the key file and an operator who may replace it at any moment: a start that is
\* refused removes the file it created or the operator's, of which there is a copy,
\* and never a key that another gateway generated.
THEOREM NoOthersKeyRemoved == Spec => []RemovesNoOthersKey
<1>1. KeyInv => RemovesNoOthersKey  BY SMTT(30) DEF KeyInv
<1> QED  BY <1>1, KeyInvariance, PTL

\* The guard of main on a generated key: as long as no start passed it by or took
\* the operator's key away, every gateway that serves reads every stored secret.
THEOREM SecretsStayReadable == Spec => []SecretsReadable
<1>1. KeyInv => SecretsReadable
  BY DEF KeyInv, SecretsReadable, Guarded, Running
<1> QED  BY <1>1, KeyInvariance, PTL
-----------------------------------------------------------------------------
\* SeedManagedConfiguration and EnsureBootstrap: at most one managed set, never
\* without its policies.
THEOREM OneSeed == Spec => []SeededOnce
<1> DEFINE Inv == managed \in Nat /\ SeededOnce
<1>1. Init => Inv  BY SMTT(30) DEF Init, SeededOnce
<1>2. Inv /\ [Next]_vars => Inv'
  <2> SUFFICES ASSUME Inv, [Next]_vars PROVE Inv'  BY SMTT(30)
  <2>1. CASE UNCHANGED configVars  BY <2>1, SMTT(30) DEF configVars, SeededOnce, Directions
  <2>2. ASSUME NEW g \in Gateways, Bootstrap(g) PROVE Inv'
    BY <2>2, SMTT(30) DEF Bootstrap, SeededOnce
  <2>3. ASSUME NEW g \in Gateways, EnsurePolicies(g) PROVE Inv'
    BY <2>3, SMTT(30) DEF EnsurePolicies, SeededOnce, Directions
  <2>4. ASSUME NEW s \in Seeds, SeedCommits(s) PROVE Inv'
    <3>1. CASE pols = {}
      <4>1. managed = 0  BY <3>1, SMTT(30) DEF SeededOnce, Directions
      <4> QED  BY <2>4, <3>1, <4>1, SMTT(30) DEF SeedCommits, SeededOnce, Directions
    <3>2. CASE pols # {}  BY <2>4, <3>2 DEF SeedCommits, SeededOnce, Directions
    <3> QED  BY <3>1, <3>2, SMTT(30)
  <2> QED
    BY <2>1, <2>2, <2>3, <2>4, ZenonT(60)
    DEF Next, vars, Locking, Starting, Migrating, Configure, LoadSnapshots, ReadFails,
        Restarting, Seeding, SeedChecks, SeedFails, Operating
<1> QED  BY <1>1, <1>2, PTL DEF Spec
=============================================================================
