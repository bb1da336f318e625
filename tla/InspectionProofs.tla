-------------------------- MODULE InspectionProofs --------------------------
(***************************************************************************)
(* What the inspection of a text finds, for any rules, texts and window:   *)
(* the automaton finds the patterns that are in a normalized text, which   *)
(* are those that occur in the text; the decision blocks what is forbidden *)
(* and nothing else; and the window over a stream loses no short span.     *)
(***************************************************************************)
EXTENDS Inspection, FiniteSetTheorems, WellFoundedInduction, TLAPS

\* A sequence, of whatever elements.
IsSeq(s) == Len(s) \in Nat /\ s = [i \in 1..Len(s) |-> s[i]]

\* What Append, Tail and SubSeq need to be known of a sequence.
LEMMA SeqIsSeq == ASSUME NEW S, NEW s \in Seq(S) PROVE IsSeq(s)
  BY SMT DEF IsSeq

\* An audit event, or a piece, comes after those that are there.
LEMMA AppendIs ==
  ASSUME NEW s, IsSeq(s), NEW e
  PROVE  /\ IsSeq(Append(s, e))
         /\ Len(Append(s, e)) = Len(s) + 1
         /\ DOMAIN Append(s, e) = DOMAIN s \cup {Len(s) + 1}
         /\ Len(s) + 1 \notin DOMAIN s
         /\ DOMAIN s = 1..Len(s)
         /\ \A i \in DOMAIN s : Append(s, e)[i] = s[i]
         /\ Append(s, e)[Len(s) + 1] = e
<1> DEFINE S == {s[i] : i \in 1..Len(s)} \cup {e}
<1>1. s \in Seq(S)
  BY SMT DEF IsSeq
<1>2. Append(s, e) \in Seq(S)
  BY <1>1, SMT
<1>3. IsSeq(Append(s, e))
  BY <1>2, SeqIsSeq, Zenon
<1> QED
  BY <1>1, <1>2, <1>3, SMT

\* The fragments that remain after one was inspected.
LEMMA TailIs ==
  ASSUME NEW s, IsSeq(s), s # <<>>
  PROVE  IsSeq(Tail(s)) /\ Len(Tail(s)) = Len(s) - 1 /\ Len(s) > 0
<1> DEFINE S == {s[i] : i \in 1..Len(s)}
<1>1. s \in Seq(S)
  BY SMT DEF IsSeq
<1>2. Tail(s) \in Seq(S) /\ Len(Tail(s)) = Len(s) - 1 /\ Len(s) > 0
  BY <1>1, SMT
<1> QED
  BY <1>2, SeqIsSeq, Zenon

\* The events of a sequence that have a property are finitely many.
LEMMA EventsFinite ==
  ASSUME NEW s, IsSeq(s), NEW T, T \subseteq DOMAIN s
  PROVE  IsFiniteSet(T) /\ Cardinality(T) \in Nat
<1>1. DOMAIN s = 1..Len(s) /\ Len(s) \in Int /\ 1 \in Int
  BY SMT DEF IsSeq
<1>2. IsFiniteSet(DOMAIN s)
  BY <1>1, FS_Interval
<1> QED
  BY <1>2, FS_Subset, FS_CardinalityType

\* The least of some numbers.
LEMMA Least ==
  ASSUME NEW S, S \subseteq Nat, S # {}
  PROVE  \E n \in S : \A m \in S : n <= m
<1>1. PICK n \in S : \A m \in S : ~(<<m, n>> \in OpToRel(<, Nat))
  BY WFMin, NatLessThanWellFounded, Zenon
<1>2. \A m \in S : ~(m < n)
  BY <1>1, Zenon DEF OpToRel
<1> QED
  BY <1>2, SMT

\* Texts with the same characters are the same.
LEMMA SameText ==
  ASSUME NEW C, NEW s \in Seq(C), NEW t \in Seq(C), Len(s) = Len(t),
         \A k \in 1..Len(s) : s[k] = t[k]
  PROVE  s = t
  BY SMT

\* The characters of a part and of a concatenation.
LEMMA PartIs ==
  ASSUME NEW C, NEW s \in Seq(C), NEW a \in Int, NEW b \in Int, 1 <= a, b <= Len(s), a <= b + 1
  PROVE  /\ SubSeq(s, a, b) \in Seq(C) /\ Len(SubSeq(s, a, b)) = b - a + 1
         /\ \A k \in 1..(b - a + 1) : SubSeq(s, a, b)[k] = s[a + k - 1]
  BY SMT

\* The elements of a concatenation.
LEMMA ConcatIs ==
  ASSUME NEW C, NEW s \in Seq(C), NEW t \in Seq(C)
  PROVE  /\ s \o t \in Seq(C) /\ Len(s \o t) = Len(s) + Len(t)
         /\ Len(s) \in Nat /\ Len(t) \in Nat
         /\ \A k \in 1..Len(s) : (s \o t)[k] = s[k]
         /\ \A k \in (Len(s) + 1)..(Len(s) + Len(t)) : (s \o t)[k] = t[k - Len(s)]
  BY SMT

\* Nothing changes a text that it is appended to, and appending is associative.
LEMMA ConcatNothing == ASSUME NEW C, NEW s \in Seq(C) PROVE s \o <<>> = s /\ <<>> \o s = s
  BY SMT

\* Texts are concatenated in any grouping.
LEMMA ConcatThree ==
  ASSUME NEW C, NEW s \in Seq(C), NEW t \in Seq(C), NEW u \in Seq(C)
  PROVE  (s \o t) \o u = s \o (t \o u)
  BY SMTT(30)
-----------------------------------------------------------------------------
\* The concatenations of the first, of the first two, ... texts.
Runs(f, ss, n) == f = [i \in 1..n |-> IF i = 1 THEN ss[i] ELSE f[i - 1] \o ss[i]]

\* They exist: the recursion of FlattenSeq defines a function.
LEMMA RunsExist ==
  ASSUME NEW ss, Len(ss) \in Nat, NEW n \in 1..Len(ss)
  PROVE  \E f : Runs(f, ss, n)
<1> DEFINE Bad == {m \in 1..Len(ss) : ~\E f : Runs(f, ss, m)}
<1> SUFFICES ASSUME Bad # {} PROVE FALSE
  OBVIOUS
<1>0. Bad \subseteq Nat
  BY SMT
<1>1. PICK m \in Bad : \A k \in Bad : m <= k
  BY <1>0, Least, Zenon
<1>2. m # 1
  <2>1. Runs([i \in 1..1 |-> ss[1]], ss, 1)
    BY SMT DEF Runs
  <2> QED
    BY <2>1
<1>3. m - 1 \in 1..Len(ss) /\ m - 1 \notin Bad
  BY <1>1, <1>2, SMT
<1>4. PICK g : Runs(g, ss, m - 1)
  BY <1>3
<1> DEFINE h == [i \in 1..m |-> IF i < m THEN g[i] ELSE g[m - 1] \o ss[m]]
<1>5. m \in Nat /\ m > 1
  BY <1>1, <1>2, SMT
<1>6. \A i \in 1..m : h[i] = IF i = 1 THEN ss[i] ELSE h[i - 1] \o ss[i]
  <2> SUFFICES ASSUME NEW i \in 1..m PROVE h[i] = IF i = 1 THEN ss[i] ELSE h[i - 1] \o ss[i]
    BY Zenon
  <2>1. CASE i < m
    <3>1. i \in 1..(m - 1) /\ (i # 1 => i - 1 \in 1..m /\ i - 1 < m)
      BY <1>5, <2>1, SMT
    <3>2. g[i] = IF i = 1 THEN ss[i] ELSE g[i - 1] \o ss[i]
      BY <1>4, <3>1, Zenon DEF Runs
    <3>3. h[i] = g[i] /\ (i # 1 => h[i - 1] = g[i - 1])
      BY <2>1, <3>1
    <3> QED
      BY <3>2, <3>3, Zenon
  <2>2. CASE i = m
    <3>1. m - 1 \in 1..m /\ m - 1 < m /\ ~(m < m)
      BY <1>5, SMT
    <3>2. h[i] = g[m - 1] \o ss[m] /\ h[i - 1] = g[m - 1]
      BY <2>2, <3>1, Zenon
    <3> QED
      BY <1>5, <2>2, <3>2, SMT
  <2> QED
    BY <1>5, <2>1, <2>2, SMT
<1>7. Runs(h, ss, m)
  <2> HIDE DEF h
  <2>1. h = [i \in 1..m |-> h[i]]
    BY DEF h
  <2> QED
    BY <1>6, <2>1, Zenon DEF Runs
<1> QED
  BY <1>1, <1>7, Zenon

\* FlattenSeq is the last of them.
LEMMA FlattenIs ==
  ASSUME NEW ss, Len(ss) \in Nat, Len(ss) > 0
  PROVE  \E f : Runs(f, ss, Len(ss)) /\ FlattenSeq(ss) = f[Len(ss)]
<1> DEFINE F == CHOOSE f : f = [i \in 1..Len(ss) |-> IF i = 1 THEN ss[i] ELSE f[i - 1] \o ss[i]]
<1>1. \E f : Runs(f, ss, Len(ss))
  BY RunsExist, SMT
<1>2. \E f : f = [i \in 1..Len(ss) |-> IF i = 1 THEN ss[i] ELSE f[i - 1] \o ss[i]]
  BY <1>1, Zenon DEF Runs
<1>3. F = [i \in 1..Len(ss) |-> IF i = 1 THEN ss[i] ELSE F[i - 1] \o ss[i]]
  BY <1>2, Zenon
<1>4. Len(ss) # 0
  BY SMT
<1>5. FlattenSeq(ss) = F[Len(ss)]
  BY <1>4, Zenon DEF FlattenSeq
<1> HIDE DEF F
<1> QED
  BY <1>3, <1>5, Zenon DEF Runs

\* The concatenations of texts are texts.
LEMMA RunsAreTexts ==
  ASSUME NEW C, NEW ss, Len(ss) \in Nat, \A i \in 1..Len(ss) : ss[i] \in Seq(C),
         NEW f, NEW n \in 1..Len(ss), Runs(f, ss, n)
  PROVE  \A i \in 1..n : f[i] \in Seq(C)
<1> DEFINE Bad == {m \in 1..n : f[m] \notin Seq(C)}
<1> SUFFICES ASSUME Bad # {} PROVE FALSE
  OBVIOUS
<1>1. Bad \subseteq Nat
  BY SMT
<1>2. PICK m \in Bad : \A k \in Bad : m <= k
  BY <1>1, Least, Zenon
<1>3. f[m] = IF m = 1 THEN ss[m] ELSE f[m - 1] \o ss[m]
  BY <1>2, Zenon DEF Runs
<1>4. m \in Nat /\ m \in 1..Len(ss) /\ ss[m] \in Seq(C)
  BY <1>2, SMT
<1>5. m # 1
  BY <1>2, <1>3, <1>4
<1>6. m - 1 \in 1..n /\ m - 1 \notin Bad
  BY <1>2, <1>4, <1>5, SMT
<1>7. f[m - 1] \in Seq(C)
  BY <1>6
<1>8. f[m] = f[m - 1] \o ss[m]
  BY <1>3, <1>5, Zenon
<1>9. f[m] \in Seq(C)
  BY <1>4, <1>7, <1>8, SMT
<1> QED
  BY <1>2, <1>9

\* What the concatenation of texts is, and what one more text adds to it.
LEMMA FlattenAppend ==
  ASSUME NEW C, NEW ss, IsSeq(ss), \A i \in 1..Len(ss) : ss[i] \in Seq(C), NEW t \in Seq(C)
  PROVE  /\ FlattenSeq(ss) \in Seq(C)
         /\ FlattenSeq(Append(ss, t)) = FlattenSeq(ss) \o t
<1> DEFINE n == Len(ss)
           tt == Append(ss, t)
<1>0. n \in Nat
  BY DEF IsSeq
<1>1. /\ Len(tt) = n + 1 /\ tt[n + 1] = t
      /\ \A i \in 1..n : tt[i] = ss[i]
  BY AppendIs
<1>2. Len(tt) \in Nat /\ Len(tt) > 0
  BY <1>0, <1>1, SMT
<1>3. PICK g : Runs(g, tt, Len(tt)) /\ FlattenSeq(tt) = g[Len(tt)]
  BY <1>2, FlattenIs, Zenon
<1>4. \A i \in 1..(n + 1) : g[i] = IF i = 1 THEN tt[i] ELSE g[i - 1] \o tt[i]
  BY <1>1, <1>3, Zenon DEF Runs
<1>5. FlattenSeq(tt) = g[n + 1]
  BY <1>1, <1>3, Zenon
<1> HIDE DEF n, tt
<1>6. CASE n = 0
  <2>1. ss = <<>>
    BY <1>6, SMT DEF IsSeq, n
  <2>2. FlattenSeq(ss) = <<>>
    BY <1>6, <2>1, Zenon DEF FlattenSeq, n
  <2>3. g[1] = tt[1] /\ tt[1] = t
    BY <1>1, <1>4, <1>6, SMT
  <2>4. FlattenSeq(tt) = t
    BY <1>5, <1>6, <2>3, SMT
  <2>5. <<>> \o t = t /\ <<>> \in Seq(C)
    BY SMT
  <2> QED
    BY <2>2, <2>4, <2>5, Zenon DEF tt
<1>7. CASE n > 0
  <2>1. PICK f : Runs(f, ss, n) /\ FlattenSeq(ss) = f[n]
    BY <1>0, <1>7, FlattenIs DEF n
  <2>2. \A i \in 1..n : f[i] = IF i = 1 THEN ss[i] ELSE f[i - 1] \o ss[i]
    BY <2>1, Zenon DEF Runs
  <2>3. n \in 1..n /\ n + 1 \in 1..(n + 1) /\ n + 1 # 1 /\ (n + 1) - 1 = n
    BY <1>0, <1>7, SMT
  <2>4. \A i \in 1..n : g[i] = f[i]
    <3> DEFINE Bad == {i \in 1..n : g[i] # f[i]}
    <3> SUFFICES ASSUME Bad # {} PROVE FALSE
      OBVIOUS
    <3>1. Bad \subseteq Nat
      BY SMT
    <3>2. PICK m \in Bad : \A k \in Bad : m <= k
      BY <3>1, Least, Zenon
    <3>3. m \in Nat /\ m \in 1..n /\ m \in 1..(n + 1)
      BY <1>0, <3>2, SMT
    <3>4. /\ f[m] = IF m = 1 THEN ss[m] ELSE f[m - 1] \o ss[m]
          /\ g[m] = IF m = 1 THEN ss[m] ELSE g[m - 1] \o ss[m]
      BY <1>1, <1>4, <2>2, <3>3, Zenon
    <3>5. m # 1
      BY <3>2, <3>4, Zenon
    <3>6. m - 1 \in 1..n /\ m - 1 \notin Bad
      <4>1. m - 1 \in 1..n /\ ~(m <= m - 1)
        BY <1>0, <3>3, <3>5, SMT
      <4> QED
        BY <3>2, <4>1, Zenon
    <3>7. g[m - 1] = f[m - 1]
      BY <3>6
    <3>8. g[m] = f[m]
      BY <3>4, <3>7, Zenon
    <3> QED
      BY <3>2, <3>8
  <2>5. f[n] \in Seq(C)
    BY <1>0, <2>1, <2>3, RunsAreTexts, Zenon DEF n
  <2>6. g[n + 1] = g[n] \o t
    BY <1>1, <1>4, <2>3, Zenon
  <2> QED
    BY <1>5, <2>1, <2>3, <2>4, <2>5, <2>6, Zenon DEF tt
<1> QED
  BY <1>0, <1>6, <1>7, SMT
-----------------------------------------------------------------------------
(***************************************************************************)
(* The automaton.  A word ends at a place of a text when it is what the    *)
(* text has up to that place; a node stands for the longest word of the    *)
(* trie that does.                                                         *)
(***************************************************************************)
\* The characters of patterns and of normalized texts.
Chars == {Small(char) : char \in STRING \cup {Blank}}

EndsAt(word, text, j) ==
  Len(word) <= j /\ \A i \in 1..Len(word) : word[i] = text[j - Len(word) + i]

\* The node of what a text has up to a place.
IsNode(node, text, j) ==
  /\ node \in Nodes /\ EndsAt(node, text, j)
  /\ \A n \in Nodes : EndsAt(n, text, j) => Len(n) <= Len(node)

\* The node that the link of a node leads to: its longest proper suffix.
IsLink(link, node) ==
  /\ link \in Nodes /\ EndsAt(link, node, Len(node)) /\ Len(link) < Len(node)
  /\ \A n \in Nodes : EndsAt(n, node, Len(node)) /\ Len(n) < Len(node) => Len(n) <= Len(link)

\* An element of a sequence.
LEMMA ElementIs == ASSUME NEW S, NEW s \in Seq(S), NEW i \in DOMAIN s PROVE s[i] \in S
  BY SMT

\* A pattern in small letters is a text of these characters.
LEMMA LowIs ==
  ASSUME NEW i \in Keywords
  PROVE  /\ ToLower(Rules[i].pattern) \in Seq(Chars) /\ ToLower(Rules[i].pattern) # <<>>
         /\ Rules[i].pattern \in Seq(STRING)
         /\ Len(ToLower(Rules[i].pattern)) = Len(Rules[i].pattern)
         /\ \A k \in 1..Len(Rules[i].pattern) :
              ToLower(Rules[i].pattern)[k] = Small(Rules[i].pattern[k])
<1> DEFINE p == Rules[i].pattern
<1>1. i \in DOMAIN Rules /\ p # <<>>
  BY DEF Keywords
<1>2. Rules[i] \in [pattern : Seq(STRING), action : STRING, weight : Int]
  BY <1>1, RulesAssumption, ElementIs, Zenon
<1>3. p \in Seq(STRING)
  BY <1>2
<1> HIDE DEF p
<1>4. ToLower(p) = [k \in 1..Len(p) |-> Small(p[k])] /\ Len(p) \in Nat /\ Len(p) > 0
  BY <1>1, <1>3, SMT DEF ToLower
<1>5. \A k \in 1..Len(p) : Small(p[k]) \in Chars
  <2>1. \A k \in 1..Len(p) : p[k] \in STRING
    BY <1>3, SMT
  <2> QED
    BY <2>1, Zenon DEF Chars
<1>6. ToLower(p) \in Seq(Chars) /\ Len(ToLower(p)) = Len(p)
  BY <1>4, <1>5, SMT
<1>7. ToLower(p) # <<>>
  BY <1>4, <1>6, SMT
<1> QED
  BY <1>3, <1>4, <1>6, <1>7 DEF p

\* The trie has the empty node, the patterns, and with a node those before it.
LEMMA NodesAre ==
  /\ Nodes \subseteq Seq(Chars) /\ <<>> \in Nodes
  /\ \A i \in Keywords : ToLower(Rules[i].pattern) \in Nodes
  /\ \A n \in Nodes : n # <<>> => Front(n) \in Nodes
<1> DEFINE low(i) == ToLower(Rules[i].pattern)
<1>1. \A i \in Keywords : low(i) \in Seq(Chars)
  BY LowIs
<1> HIDE DEF low
<1>2. Nodes = {<<>>} \cup UNION {{SubSeq(low(i), 1, l) : l \in 0..Len(low(i))} : i \in Keywords}
  BY Zenon DEF Nodes, Prefixes, low
<1>10. ASSUME NEW i \in Keywords, NEW l \in 0..Len(low(i)) PROVE SubSeq(low(i), 1, l) \in Nodes
  <2> DEFINE P(r) == {SubSeq(low(r), 1, m) : m \in 0..Len(low(r))}
  <2>1. SubSeq(low(i), 1, l) \in P(i)
    OBVIOUS
  <2>2. Nodes = {<<>>} \cup UNION {P(r) : r \in Keywords}
    BY <1>2
  <2> HIDE DEF P
  <2> QED
    BY <2>1, <2>2, Zenon
<1>3. <<>> \in Seq(Chars)
  BY SMT
<1>4. ASSUME NEW i \in Keywords, NEW l \in 0..Len(low(i))
      PROVE  /\ SubSeq(low(i), 1, l) \in Seq(Chars)
             /\ l = 0 => SubSeq(low(i), 1, l) = <<>>
             /\ l # 0 => l - 1 \in 0..Len(low(i)) /\ Front(SubSeq(low(i), 1, l)) = SubSeq(low(i), 1, l - 1)
  <2>1. low(i) \in Seq(Chars)
    BY <1>1
  <2>2. PICK w : w = low(i)
    OBVIOUS
  <2>3. w \in Seq(Chars) /\ l \in 0..Len(w)
    BY <2>1, <2>2
  <2>4. SubSeq(w, 1, l) \in Seq(Chars) /\ (l = 0 => SubSeq(w, 1, l) = <<>>)
    BY <2>3, SMT
  <2>5. l # 0 => l - 1 \in 0..Len(w) /\ Front(SubSeq(w, 1, l)) = SubSeq(w, 1, l - 1)
    BY <2>3, SMT DEF Front
  <2> QED
    BY <2>2, <2>4, <2>5
<1>5. \A n \in Nodes : n # <<>> => 
           \E i \in Keywords : \E l \in 0..Len(low(i)) : n = SubSeq(low(i), 1, l)
  BY <1>2, Zenon
<1>6. Nodes \subseteq Seq(Chars)
  <2> SUFFICES ASSUME NEW n \in Nodes, n # <<>> PROVE n \in Seq(Chars)
    BY <1>3, Zenon
  <2> QED
    BY <1>4, <1>5, Zenon
<1>7. \A i \in Keywords : low(i) \in Nodes
  <2> SUFFICES ASSUME NEW i \in Keywords PROVE low(i) \in Nodes
    OBVIOUS
  <2>1. Len(low(i)) \in 0..Len(low(i)) /\ SubSeq(low(i), 1, Len(low(i))) = low(i)
    BY <1>1, SMT
  <2>2. SubSeq(low(i), 1, Len(low(i))) \in Nodes
    BY <1>10, <2>1, Zenon
  <2> QED
    BY <2>1, <2>2, Zenon
<1>8. ASSUME NEW n \in Nodes, n # <<>> PROVE Front(n) \in Nodes
  <2>0. PICK i \in Keywords : \E l \in 0..Len(low(i)) : n = SubSeq(low(i), 1, l)
    BY <1>5, <1>8, Zenon
  <2>1. PICK l \in 0..Len(low(i)) : n = SubSeq(low(i), 1, l)
    BY <2>0
  <2>2. l # 0
    <3>1. l = 0 => SubSeq(low(i), 1, l) = <<>>
      BY <1>4, Zenon
    <3> QED
      BY <1>8, <2>1, <3>1, Zenon
  <2>3. l - 1 \in 0..Len(low(i)) /\ Front(n) = SubSeq(low(i), 1, l - 1)
    BY <1>4, <2>1, <2>2
  <2> QED
    BY <1>10, <2>3, Zenon
<1>9. <<>> \in Nodes
  BY <1>2
<1> QED
  BY <1>6, <1>7, <1>8, <1>9 DEF low

\* All but the last character of a word, and the last.
LEMMA FrontIs ==
  ASSUME NEW C, NEW w \in Seq(C), w # <<>>
  PROVE  /\ Front(w) \in Seq(C) /\ Len(w) \in Nat /\ Len(w) > 0 /\ Len(Front(w)) = Len(w) - 1
         /\ \A i \in 1..(Len(w) - 1) : Front(w)[i] = w[i]
         /\ Last(w) = w[Len(w)] /\ Last(w) \in C
<1>1. Len(w) \in Nat /\ Len(w) > 0
  BY SMT
<1>2. PICK b : b = Len(w) - 1
  BY Zenon
<1>3. 1 \in Int /\ b \in Int /\ 1 <= 1 /\ b <= Len(w) /\ 1 <= b + 1
  BY <1>1, <1>2, SMT
<1>4. /\ SubSeq(w, 1, b) \in Seq(C) /\ Len(SubSeq(w, 1, b)) = b - 1 + 1
      /\ \A k \in 1..(b - 1 + 1) : SubSeq(w, 1, b)[k] = w[1 + k - 1]
  BY <1>3, PartIs, Zenon
<1>5. b - 1 + 1 = b /\ \A k \in 1..b : 1 + k - 1 = k
  BY <1>3, SMT
<1>6. /\ SubSeq(w, 1, b) \in Seq(C) /\ Len(SubSeq(w, 1, b)) = b
      /\ \A k \in 1..b : SubSeq(w, 1, b)[k] = w[k]
  BY <1>4, <1>5, Zenon
<1>7. w[Len(w)] \in C
  BY <1>1, SMT
<1>8. Front(w) = SubSeq(w, 1, b) /\ Last(w) = w[Len(w)]
  BY <1>2, Zenon DEF Front, Last
<1> QED
  BY <1>1, <1>2, <1>6, <1>7, <1>8, Zenon

\* The empty word ends everywhere.
LEMMA EndsNothing == ASSUME NEW text, NEW j \in Nat PROVE EndsAt(<<>>, text, j)
<1>1. Len(<<>>) = 0 /\ 0 <= j /\ 1..0 = {}
  BY SMT
<1> QED
  BY <1>1, Zenon DEF EndsAt

\* A word is the end of itself.
LEMMA EndsItself == ASSUME NEW C, NEW w \in Seq(C) PROVE EndsAt(w, w, Len(w))
<1>1. Len(w) \in Nat /\ \A i \in 1..Len(w) : Len(w) - Len(w) + i = i
  BY SMT
<1>2. Len(w) <= Len(w)
  BY <1>1, SMTT(30)
<1> QED
  BY <1>1, <1>2, Zenon DEF EndsAt

\* One word of a length ends at a place.
LEMMA EndsSame ==
  ASSUME NEW C, NEW v \in Seq(C), NEW w \in Seq(C), NEW text, NEW j,
         EndsAt(v, text, j), EndsAt(w, text, j), Len(v) = Len(w)
  PROVE  v = w
<1>1. \A i \in 1..Len(v) : v[i] = w[i]
  BY Zenon DEF EndsAt
<1> QED
  BY <1>1, SameText

\* What ends at a place is in the text up to it.
LEMMA EndsBefore ==
  ASSUME NEW w, Len(w) \in Nat, NEW s, NEW t, NEW j \in Nat, \A i \in 1..j : s[i] = t[i]
  PROVE  EndsAt(w, s, j) <=> EndsAt(w, t, j)
<1>1. Len(w) <= j => \A i \in 1..Len(w) : j - Len(w) + i \in 1..j
  BY SMT
<1> QED
  BY <1>1, Zenon DEF EndsAt

\* The shorter of two words that end at a place is the end of the longer.
LEMMA EndsShorter ==
  ASSUME NEW v, Len(v) \in Nat, NEW w, Len(w) \in Nat, Len(v) <= Len(w), NEW text, NEW j \in Nat,
         EndsAt(w, text, j)
  PROVE  EndsAt(v, w, Len(w)) <=> EndsAt(v, text, j)
<1>1. Len(w) <= j /\ \A i \in 1..Len(w) : w[i] = text[j - Len(w) + i]
  BY DEF EndsAt
<1>2. Len(v) <= j
  BY <1>1, SMTT(30)
<1>3. ASSUME NEW i \in 1..Len(v) PROVE w[Len(w) - Len(v) + i] = text[j - Len(v) + i]
  <2>1. Len(w) - Len(v) + i \in 1..Len(w) /\ j - Len(w) + (Len(w) - Len(v) + i) = j - Len(v) + i
    BY SMT
  <2> QED
    BY <1>1, <2>1, Zenon
<1> QED
  BY <1>2, <1>3, Zenon DEF EndsAt

\* A word ends at the next place when all but its last character end at this
\* one and the next character is its last.
LEMMA EndsNext ==
  ASSUME NEW C, NEW w \in Seq(C), w # <<>>, NEW text, NEW j \in Nat
  PROVE  EndsAt(w, text, j + 1) <=> EndsAt(Front(w), text, j) /\ Last(w) = text[j + 1]
<1> DEFINE n == Len(w)
<1>1. /\ n \in Nat /\ n > 0 /\ Len(Front(w)) = n - 1
      /\ \A i \in 1..(n - 1) : Front(w)[i] = w[i]
      /\ Last(w) = w[n]
  BY FrontIs, Zenon
<1> HIDE DEF n
<1>2. (n - 1 <= j) <=> (n <= j + 1)
  BY <1>1, SMT
<1>3. /\ \A i \in 1..(n - 1) : i \in 1..n /\ j - (n - 1) + i = (j + 1) - n + i
      /\ n \in 1..n /\ (j + 1) - n + n = j + 1
      /\ \A i \in 1..n : i = n \/ i \in 1..(n - 1)
  BY <1>1, SMT
<1>4. ASSUME EndsAt(w, text, j + 1)
      PROVE  EndsAt(Front(w), text, j) /\ Last(w) = text[j + 1]
  <2>1. n <= j + 1 /\ \A i \in 1..n : w[i] = text[(j + 1) - n + i]
    BY <1>4 DEF EndsAt, n
  <2>2. n - 1 <= j /\ \A i \in 1..(n - 1) : Front(w)[i] = text[j - (n - 1) + i]
    BY <1>1, <1>2, <1>3, <2>1, Zenon
  <2>3. Last(w) = text[j + 1]
    BY <1>1, <1>3, <2>1, Zenon
  <2> QED
    BY <1>1, <2>2, <2>3, Zenon DEF EndsAt
<1>5. ASSUME EndsAt(Front(w), text, j), Last(w) = text[j + 1]
      PROVE  EndsAt(w, text, j + 1)
  <2>1. n - 1 <= j /\ \A i \in 1..(n - 1) : Front(w)[i] = text[j - (n - 1) + i]
    BY <1>1, <1>5, Zenon DEF EndsAt
  <2>2. \A i \in 1..n : w[i] = text[(j + 1) - n + i]
    BY <1>1, <1>3, <1>5, <2>1, Zenon
  <2> QED
    BY <1>2, <2>1, <2>2, Zenon DEF EndsAt, n
<1> QED
  BY <1>4, <1>5, SMTT(30)

\* A text with one more character.
LEMMA AppendText ==
  ASSUME NEW C, NEW w \in Seq(C), NEW char \in C
  PROVE  /\ Append(w, char) \in Seq(C) /\ Len(w) \in Nat /\ Len(Append(w, char)) = Len(w) + 1
         /\ Append(w, char)[Len(w) + 1] = char
         /\ \A i \in 1..Len(w) : Append(w, char)[i] = w[i]
         /\ Append(w, char) # <<>>
  BY SMT

\* The longest of some nodes of bounded length.
LEMMA Longest ==
  ASSUME NEW S, S \subseteq Nodes, S # {}, NEW b \in Nat, \A n \in S : Len(n) <= b
  PROVE  \E m \in S : \A n \in S : Len(n) <= Len(m)
<1> DEFINE T == {b - Len(n) : n \in S}
<1>1. \A n \in S : Len(n) \in Nat
  <2>1. \A n \in S : n \in Seq(Chars)
    BY NodesAre, Zenon
  <2> QED
    BY <2>1, SMTT(30)
<1>2. T \subseteq Nat /\ T # {}
  BY <1>1, SMTT(30)
<1>3. PICK x \in T : \A y \in T : x <= y
  BY <1>2, Least, Zenon
<1>4. PICK m \in S : x = b - Len(m)
  OBVIOUS
<1>5. \A n \in S : b - Len(m) <= b - Len(n)
  BY <1>3, <1>4, Zenon
<1>6. \A n \in S : Len(n) <= Len(m)
  BY <1>1, <1>5, SMTT(30)
<1> QED
  BY <1>6

\* A place has its node, and one.
LEMMA NodeExists == ASSUME NEW text, NEW j \in Nat PROVE \E n : IsNode(n, text, j)
<1> DEFINE S == {n \in Nodes : EndsAt(n, text, j)}
<1>1. <<>> \in S
  BY NodesAre, EndsNothing
<1>2. \A n \in S : Len(n) <= j
  BY DEF EndsAt
<1>3. PICK m \in S : \A n \in S : Len(n) <= Len(m)
  BY <1>1, <1>2, Longest, Zenon
<1> QED
  BY <1>3, Zenon DEF IsNode

\* Two nodes of a place are the same.
LEMMA NodeUnique ==
  ASSUME NEW text, NEW j \in Nat, NEW m, IsNode(m, text, j), NEW n, IsNode(n, text, j)
  PROVE  m = n
<1>1. m \in Seq(Chars) /\ n \in Seq(Chars)
  BY NodesAre, Zenon DEF IsNode
<1>2. Len(m) <= Len(n) /\ Len(n) <= Len(m)
  BY Zenon DEF IsNode
<1>3. Len(m) = Len(n)
  BY <1>1, <1>2, SMTT(30)
<1> QED
  BY <1>1, <1>3, EndsSame, Zenon DEF IsNode

\* A node other than the root has its link, and one.
LEMMA LinkExists == ASSUME NEW node \in Nodes, node # <<>> PROVE \E l : IsLink(l, node)
<1>1. node \in Seq(Chars)
  BY NodesAre
<1>2. Len(node) \in Nat /\ Len(<<>>) < Len(node)
  BY <1>1, SMT
<1> DEFINE S == {n \in Nodes : EndsAt(n, node, Len(node)) /\ Len(n) < Len(node)}
<1>3. <<>> \in S
  BY <1>2, NodesAre, EndsNothing, Zenon
<1>4. \A n \in S : Len(n) <= Len(node)
  BY DEF EndsAt
<1>5. PICK m \in S : \A n \in S : Len(n) <= Len(m)
  BY <1>2, <1>3, <1>4, Longest, Zenon
<1> QED
  BY <1>5, Zenon DEF IsLink

\* Two links of a node are the same.
LEMMA LinkUnique ==
  ASSUME NEW node, NEW l, IsLink(l, node), NEW m, IsLink(m, node)
  PROVE  l = m
<1>1. l \in Seq(Chars) /\ m \in Seq(Chars)
  BY NodesAre, Zenon DEF IsLink
<1>2. Len(l) <= Len(m) /\ Len(m) <= Len(l)
  BY Zenon DEF IsLink
<1>3. Len(l) = Len(m)
  BY <1>1, <1>2, SMTT(30)
<1> QED
  BY <1>1, <1>3, EndsSame, Zenon DEF IsLink

\* Why links work: the words of the trie that end at the next place are those
\* that end one character after the longest that ends at this one.
LEMMA NextPlace ==
  ASSUME NEW text, NEW j \in Nat, NEW l \in Nodes, EndsAt(l, text, j), NEW max \in Int,
         \A n \in Nodes : EndsAt(n, text, j) /\ Len(n) < max => Len(n) <= Len(l),
         text[j + 1] \in Chars, NEW k \in Nodes, Len(k) <= max
  PROVE  EndsAt(k, text, j + 1) <=> EndsAt(k, Append(l, text[j + 1]), Len(l) + 1)
<1> DEFINE a == Append(l, text[j + 1])
           f == Front(k)
<1>1. l \in Seq(Chars) /\ k \in Seq(Chars) /\ (k # <<>> => f \in Nodes /\ f \in Seq(Chars))
  BY NodesAre, Zenon
<1>2. Len(l) \in Nat /\ Len(k) \in Nat /\ Len(l) + 1 \in Nat /\ j + 1 \in Nat
  BY <1>1, SMT
<1>3. /\ a[Len(l) + 1] = text[j + 1]
      /\ \A i \in 1..Len(l) : a[i] = l[i]
  BY <1>1, AppendText
<1> HIDE DEF a, f
<1>4. CASE k = <<>>
  BY <1>2, <1>4, EndsNothing, Zenon DEF a
<1>5. CASE k # <<>>
  <2>1. Len(f) = Len(k) - 1 /\ Len(k) > 0
    BY <1>1, <1>5, FrontIs, Zenon DEF f
  <2>2. Len(f) \in Nat /\ Len(f) < max
    BY <1>2, <2>1, SMTT(30)
  <2>3. EndsAt(k, text, j + 1) <=> EndsAt(f, text, j) /\ Last(k) = text[j + 1]
    BY <1>1, <1>5, EndsNext, Zenon DEF f
  <2>4. EndsAt(k, a, Len(l) + 1) <=> EndsAt(f, a, Len(l)) /\ Last(k) = text[j + 1]
    <3>1. EndsAt(k, a, Len(l) + 1) <=> EndsAt(f, a, Len(l)) /\ Last(k) = a[Len(l) + 1]
      BY <1>1, <1>2, <1>5, EndsNext, Zenon DEF f
    <3> QED
      BY <1>3, <3>1, Zenon
  <2>5. EndsAt(f, a, Len(l)) <=> EndsAt(f, l, Len(l))
    BY <1>2, <1>3, <2>2, EndsBefore, Zenon
  <2>6. EndsAt(f, text, j) => Len(f) <= Len(l)
    BY <1>1, <1>5, <2>2, Zenon
  <2>7. EndsAt(f, l, Len(l)) => Len(f) <= Len(l)
    BY DEF EndsAt
  <2>8. Len(f) <= Len(l) => (EndsAt(f, l, Len(l)) <=> EndsAt(f, text, j))
    BY <1>2, <2>2, EndsShorter, Zenon
  <2> QED
    BY <2>3, <2>4, <2>5, <2>6, <2>7, <2>8, Zenon DEF a
<1> QED
  BY <1>4, <1>5

\* The walk of Move over all nodes.
Walk(w, fail, char) ==
  w = [n \in Nodes |-> IF Append(n, char) \in Nodes THEN Append(n, char)
                       ELSE IF n = <<>> THEN <<>> ELSE w[fail[n]]]

\* The links of the nodes of a set are set; those of the others lead to the root.
Linked(fail, S) ==
  /\ S \subseteq Nodes /\ <<>> \in S
  /\ \A n \in Nodes \ {<<>>} : \/ n \in S /\ IsLink(fail[n], n) /\ fail[n] \in S
                               \/ n \notin S /\ fail[n] = <<>>

\* The node of a node and a character.
After(node, char) == CHOOSE m : IsNode(m, Append(node, char), Len(node) + 1)

\* After is that node.
LEMMA AfterIs ==
  ASSUME NEW node \in Nodes, NEW char \in Chars
  PROVE  /\ IsNode(After(node, char), Append(node, char), Len(node) + 1)
         /\ \A m : IsNode(m, Append(node, char), Len(node) + 1) => m = After(node, char)
<1>1. node \in Seq(Chars)
  BY NodesAre
<1>2. Len(node) + 1 \in Nat
  BY <1>1, SMT
<1>3. IsNode(After(node, char), Append(node, char), Len(node) + 1)
  BY <1>2, NodeExists, Zenon DEF After
<1> QED
  BY <1>2, <1>3, NodeUnique, Zenon

\* The child, if there is one; otherwise the node after the link.
LEMMA AfterStep ==
  ASSUME NEW node \in Nodes, NEW char \in Chars
  PROVE  /\ Append(node, char) \in Nodes => After(node, char) = Append(node, char)
         /\ Append(node, char) \notin Nodes =>
              /\ node = <<>> => After(node, char) = <<>>
              /\ \A l : IsLink(l, node) => After(node, char) = After(l, char)
<1> DEFINE a == Append(node, char)
<1>1. node \in Seq(Chars)
  BY NodesAre
<1>2. /\ a \in Seq(Chars) /\ Len(node) \in Nat /\ Len(a) = Len(node) + 1
      /\ a[Len(node) + 1] = char
      /\ \A i \in 1..Len(node) : a[i] = node[i]
  BY <1>1, AppendText
<1>3. Len(node) + 1 \in Nat
  BY <1>2, SMT
<1> HIDE DEF a
<1>4. ASSUME a \in Nodes PROVE After(node, char) = a
  <2>1. EndsAt(a, a, Len(node) + 1)
    BY <1>2, EndsItself, Zenon
  <2>2. \A n \in Nodes : EndsAt(n, a, Len(node) + 1) => Len(n) <= Len(a)
    BY <1>2, Zenon DEF EndsAt
  <2> QED
    BY <1>4, <2>1, <2>2, AfterIs, Zenon DEF IsNode, a
<1>5. ASSUME a \notin Nodes, NEW n \in Nodes, EndsAt(n, a, Len(node) + 1)
      PROVE  Len(n) <= Len(node)
  <2>1. n \in Seq(Chars)
    BY NodesAre
  <2>2. Len(n) \in Nat /\ Len(n) <= Len(node) + 1
    BY <2>1, <1>5, SMT DEF EndsAt
  <2>3. Len(n) = Len(node) + 1 => n = a
    BY <1>2, <1>5, <2>1, EndsItself, EndsSame, Zenon
  <2>4. Len(n) # Len(node) + 1
    BY <1>5, <2>3, Zenon
  <2> QED
    BY <1>2, <2>2, <2>4, SMTT(30)
<1>6. ASSUME a \notin Nodes, node = <<>> PROVE After(node, char) = <<>>
  <2>1. PICK m : m = After(node, char) /\ IsNode(m, a, Len(node) + 1)
    BY AfterIs, Zenon DEF a
  <2>2. m \in Nodes /\ EndsAt(m, a, Len(node) + 1)
    BY <2>1 DEF IsNode
  <2>3. Len(m) <= Len(node) /\ m \in Seq(Chars)
    BY <1>5, <1>6, <2>2, NodesAre, Zenon
  <2>4. m = <<>>
    BY <1>6, <2>3, SMT
  <2> QED
    BY <2>1, <2>4
<1>7. ASSUME a \notin Nodes, NEW l, IsLink(l, node) PROVE After(node, char) = After(l, char)
  <2>1. PICK m : m = After(l, char)
    OBVIOUS
  <2>2. /\ l \in Nodes /\ EndsAt(l, node, Len(node)) /\ Len(l) < Len(node)
        /\ \A n \in Nodes : EndsAt(n, node, Len(node)) /\ Len(n) < Len(node) => Len(n) <= Len(l)
    BY <1>7 DEF IsLink
  <2>3. IsNode(m, Append(l, char), Len(l) + 1)
    BY <2>1, <2>2, AfterIs, Zenon
  <2>4. \A n \in Nodes : Len(n) \in Nat
    <3>1. \A n \in Nodes : n \in Seq(Chars)
      BY NodesAre, Zenon
    <3> QED
      BY <3>1, SMT
  <2>5. \A n \in Nodes : EndsAt(n, node, Len(node)) <=> EndsAt(n, a, Len(node))
    BY <1>2, <2>4, EndsBefore, Zenon
  <2>6. \A n \in Nodes : Len(n) <= Len(node) =>
           (EndsAt(n, a, Len(node) + 1) <=> EndsAt(n, Append(l, char), Len(l) + 1))
    <3>1. Len(node) \in Int
      BY <1>2, SMT
    <3> QED
      BY <1>2, <2>2, <2>5, <3>1, NextPlace, Zenon
  <2>7. \A n \in Nodes : EndsAt(n, Append(l, char), Len(l) + 1) => Len(n) <= Len(node)
    <3>1. \A n \in Nodes : Len(n) <= Len(l) + 1 => Len(n) <= Len(node)
      BY <1>2, <2>2, <2>4, SMTT(30)
    <3> QED
      BY <3>1, Zenon DEF EndsAt
  <2>8. \A n \in Nodes : EndsAt(n, a, Len(node) + 1) <=> EndsAt(n, Append(l, char), Len(l) + 1)
    BY <1>5, <1>7, <2>6, <2>7, Zenon
  <2>9. IsNode(m, a, Len(node) + 1)
    BY <2>3, <2>8, Zenon DEF IsNode
  <2> QED
    BY <2>1, <2>9, AfterIs, Zenon DEF a
<1> QED
  BY <1>4, <1>6, <1>7, Zenon DEF a

\* Move finds that node.
LEMMA MoveIs ==
  ASSUME NEW fail, NEW S, Linked(fail, S), NEW char \in Chars, NEW node \in S
  PROVE  Move(fail, node, char) = After(node, char)
<1> DEFINE W == [n \in Nodes |-> IF n \in S THEN After(n, char)
                                 ELSE IF Append(n, char) \in Nodes THEN Append(n, char)
                                 ELSE After(<<>>, char)]
<1>1. /\ S \subseteq Nodes /\ <<>> \in S
      /\ \A n \in Nodes : n # <<>> => \/ n \in S /\ IsLink(fail[n], n) /\ fail[n] \in S
                                      \/ n \notin S /\ fail[n] = <<>>
  BY Zenon DEF Linked
<1>2. \A n \in Nodes : W[n] = IF n \in S THEN After(n, char)
                              ELSE IF Append(n, char) \in Nodes THEN Append(n, char)
                              ELSE After(<<>>, char)
  BY Zenon
<1>3. W = [n \in Nodes |-> W[n]]
  BY Zenon
<1> HIDE DEF W
<1>4. ASSUME NEW n \in Nodes
      PROVE  W[n] = IF Append(n, char) \in Nodes THEN Append(n, char)
                    ELSE IF n = <<>> THEN <<>> ELSE W[fail[n]]
  <2>1. CASE Append(n, char) \in Nodes
    BY <1>2, <2>1, AfterStep, Zenon
  <2>2. CASE Append(n, char) \notin Nodes /\ n = <<>>
    BY <1>1, <1>2, <2>2, AfterStep, Zenon
  <2>3. CASE Append(n, char) \notin Nodes /\ n # <<>> /\ n \in S
    <3>1. IsLink(fail[n], n) /\ fail[n] \in S /\ fail[n] \in Nodes
      BY <1>1, <2>3, Zenon
    <3>2. W[fail[n]] = After(fail[n], char) /\ W[n] = After(n, char)
      BY <1>2, <2>3, <3>1, Zenon
    <3>3. After(n, char) = After(fail[n], char)
      BY <2>3, <3>1, AfterStep, Zenon
    <3> QED
      BY <2>3, <3>2, <3>3, Zenon
  <2>4. CASE Append(n, char) \notin Nodes /\ n # <<>> /\ n \notin S
    <3>1. fail[n] = <<>> /\ <<>> \in S /\ <<>> \in Nodes
      BY <1>1, <2>4, Zenon
    <3>2. W[<<>>] = After(<<>>, char) /\ W[n] = After(<<>>, char)
      BY <1>2, <2>4, <3>1, Zenon
    <3> QED
      BY <2>4, <3>1, <3>2, Zenon
  <2> QED
    BY <2>1, <2>2, <2>3, <2>4
<1>5. Walk(W, fail, char)
  BY <1>3, <1>4, Zenon DEF Walk
<1>6. \A n \in Nodes : Len(n) \in Nat
  <2>1. \A n \in Nodes : n \in Seq(Chars)
    BY NodesAre, Zenon
  <2> QED
    BY <2>1, SMT
<1>7. \A n \in Nodes : n # <<>> => fail[n] \in Nodes /\ Len(fail[n]) < Len(n)
  <2> SUFFICES ASSUME NEW n \in Nodes, n # <<>> PROVE fail[n] \in Nodes /\ Len(fail[n]) < Len(n)
    OBVIOUS
  <2>1. CASE n \in S
    BY <1>1, <2>1, Zenon DEF IsLink
  <2>2. CASE n \notin S
    <3>1. fail[n] = <<>>
      BY <1>1, <2>2, Zenon
    <3>2. n \in Seq(Chars)
      BY NodesAre
    <3>3. Len(<<>>) < Len(n)
      BY <3>2, SMT
    <3> QED
      BY <3>1, <3>3, NodesAre
  <2> QED
    BY <2>1, <2>2
<1>8. ASSUME NEW w, Walk(w, fail, char), NEW x \in Nodes PROVE w[x] = W[x]
  <2> DEFINE Bad == {n \in Nodes : w[n] # W[n]}
             Lens == {Len(n) : n \in Bad}
  <2> SUFFICES ASSUME Bad # {} PROVE FALSE
    OBVIOUS
  <2>1. Lens \subseteq Nat /\ Lens # {}
    BY <1>6, Zenon
  <2>2. PICK d \in Lens : \A e \in Lens : d <= e
    BY <2>1, Least, Zenon
  <2>3. PICK n \in Bad : d = Len(n)
    OBVIOUS
  <2>4. \A m \in Bad : Len(n) <= Len(m)
    BY <2>2, <2>3, Zenon
  <2>5. w[n] = IF Append(n, char) \in Nodes THEN Append(n, char)
               ELSE IF n = <<>> THEN <<>> ELSE w[fail[n]]
    BY <1>8, Zenon DEF Walk
  <2>6. Append(n, char) \notin Nodes /\ n # <<>> /\ w[fail[n]] # W[fail[n]]
    <3>1. n \in Nodes /\ w[n] # W[n]
      OBVIOUS
    <3>2. W[n] = IF Append(n, char) \in Nodes THEN Append(n, char)
                 ELSE IF n = <<>> THEN <<>> ELSE W[fail[n]]
      BY <1>4, <3>1, Zenon
    <3>3. Append(n, char) \notin Nodes
      BY <2>5, <3>1, <3>2, Zenon
    <3>4. n # <<>>
      BY <2>5, <3>1, <3>2, <3>3, SMTT(30)
    <3> QED
      BY <2>5, <3>1, <3>2, <3>3, <3>4, Zenon
  <2>7. fail[n] \in Bad /\ Len(fail[n]) < Len(n)
    BY <1>7, <2>6, Zenon
  <2>8. Len(n) <= Len(fail[n]) /\ Len(n) \in Nat /\ Len(fail[n]) \in Nat
    BY <1>6, <2>4, <2>7, Zenon
  <2> QED
    BY <2>7, <2>8, SMT
<1> DEFINE F == CHOOSE w : w = [n \in Nodes |-> IF Append(n, char) \in Nodes THEN Append(n, char)
                                  ELSE IF n = <<>> THEN <<>> ELSE w[fail[n]]]
<1>9. Move(fail, node, char) = F[node]
  BY Zenon DEF Move
<1>10. Walk(F, fail, char)
  BY <1>5, Zenon DEF Walk
<1> HIDE DEF F
<1> QED
  BY <1>1, <1>2, <1>8, <1>9, <1>10, Zenon

\* The link of a node, and the links up to a depth.
LinkOf(node) == CHOOSE l : IsLink(l, node)
LinksTo(depth) == [n \in Nodes |-> IF n # <<>> /\ Len(n) <= depth THEN LinkOf(n) ELSE <<>>]

\* The recursion of Links.
LinksStep(f) ==
  f = [depth \in Nat |->
         IF depth <= 1 THEN [n \in Nodes |-> <<>>]
         ELSE [n \in Nodes |->
                 IF Len(n) = depth THEN Move(f[depth - 1], f[depth - 1][Front(n)], Last(n))
                 ELSE f[depth - 1][n]]]

\* LinkOf is the link.
LEMMA LinkOfIs == ASSUME NEW node \in Nodes, node # <<>> PROVE IsLink(LinkOf(node), node)
  BY LinkExists, Zenon DEF LinkOf

\* The lengths of nodes are numbers, and the root has the length 0.
LEMMA NodeLengths ==
  /\ \A n \in Nodes : n \in Seq(Chars) /\ Len(n) \in Nat /\ (n # <<>> => Len(n) > 0)
  /\ Len(<<>>) = 0
<1>1. \A n \in Nodes : n \in Seq(Chars)
  BY NodesAre, Zenon
<1> QED
  BY <1>1, SMT

\* The links up to a depth are links of the nodes up to that depth.
LEMMA LinksToLinked ==
  ASSUME NEW d \in Nat
  PROVE  Linked(LinksTo(d), {n \in Nodes : Len(n) <= d})
<1> DEFINE S == {n \in Nodes : Len(n) <= d}
<1>1. S \subseteq Nodes /\ <<>> \in S
  BY NodesAre, NodeLengths, SMT
<1>2. ASSUME NEW n \in Nodes, n # <<>>, n \in S
      PROVE  IsLink(LinksTo(d)[n], n) /\ LinksTo(d)[n] \in S
  <2>1. LinksTo(d)[n] = LinkOf(n)
    BY <1>2, Zenon DEF LinksTo
  <2>2. IsLink(LinkOf(n), n)
    BY <1>2, LinkOfIs
  <2>3. LinkOf(n) \in Nodes /\ Len(LinkOf(n)) < Len(n)
    BY <2>2 DEF IsLink
  <2>4. Len(LinkOf(n)) \in Nat /\ Len(n) \in Nat /\ Len(n) <= d
    BY <1>2, <2>3, NodeLengths, Zenon
  <2>5. Len(LinkOf(n)) <= d
    BY <2>3, <2>4, SMT
  <2> QED
    BY <2>1, <2>2, <2>3, <2>5, SMTT(30)
<1>3. ASSUME NEW n \in Nodes, n \notin S PROVE LinksTo(d)[n] = <<>>
  BY <1>3, Zenon DEF LinksTo
<1> HIDE DEF S
<1>4. Linked(LinksTo(d), S)
  BY <1>1, <1>2, <1>3, Zenon DEF Linked
<1> QED
  BY <1>4 DEF S

\* The link of a node is found from that of the node before it.
LEMMA LinkFound ==
  ASSUME NEW d \in Nat, d > 1, NEW n \in Nodes, Len(n) = d
  PROVE  Move(LinksTo(d - 1), LinksTo(d - 1)[Front(n)], Last(n)) = LinkOf(n)
<1> DEFINE f == Front(n)
           c == Last(n)
           l == LinkOf(f)
           m == After(l, c)
           S == {k \in Nodes : Len(k) <= d - 1}
<1>0. d - 1 \in Nat /\ d - 1 > 0 /\ (d - 1) + 1 = d /\ d - 1 <= d - 1
  BY SMT
<1>1. n \in Seq(Chars) /\ n # <<>>
  BY NodeLengths, SMT
<1>2. /\ Len(f) = d - 1 /\ c \in Chars /\ c = n[d]
      /\ \A i \in 1..(d - 1) : f[i] = n[i]
  BY <1>1, FrontIs, Zenon
<1>3. f \in Nodes /\ f # <<>>
  <2>1. f \in Nodes
    BY <1>1, NodesAre, Zenon
  <2>2. f # <<>>
    BY <1>0, <1>2, NodeLengths, SMTT(30)
  <2> QED
    BY <2>1, <2>2
<1>4. IsLink(l, f)
  BY <1>3, LinkOfIs
<1>5. LinksTo(d - 1)[f] = l
  BY <1>0, <1>2, <1>3, Zenon DEF LinksTo
<1> HIDE DEF f, c, l, m
<1>6. /\ l \in Nodes /\ EndsAt(l, f, d - 1) /\ Len(l) < d - 1 /\ Len(l) \in Nat
      /\ \A k \in Nodes : EndsAt(k, f, d - 1) /\ Len(k) < d - 1 => Len(k) <= Len(l)
  BY <1>2, <1>4, NodeLengths, Zenon DEF IsLink
<1>7. l \in S
  <2>1. Len(l) <= d - 1
    BY <1>6, SMT
  <2> QED
    BY <1>6, <2>1
<1>8. Move(LinksTo(d - 1), l, c) = m
  <2>1. Linked(LinksTo(d - 1), S)
    BY <1>0, LinksToLinked
  <2> HIDE DEF S
  <2> QED
    BY <1>2, <1>7, <2>1, MoveIs, Zenon DEF m
<1>9. IsNode(m, Append(l, c), Len(l) + 1)
  BY <1>2, <1>6, AfterIs, Zenon DEF m
<1>10. \A k \in Nodes : EndsAt(k, f, d - 1) <=> EndsAt(k, n, d - 1)
  BY <1>0, <1>2, NodeLengths, EndsBefore, Zenon
<1>11. \A k \in Nodes : Len(k) <= d - 1 =>
         (EndsAt(k, n, d) <=> EndsAt(k, Append(l, c), Len(l) + 1))
  <2>1. d - 1 \in Int
    BY <1>0, SMT
  <2>2. n[(d - 1) + 1] = c /\ n[(d - 1) + 1] \in Chars
    BY <1>0, <1>2, Zenon
  <2>3. /\ EndsAt(l, n, d - 1)
        /\ \A k \in Nodes : EndsAt(k, n, d - 1) /\ Len(k) < d - 1 => Len(k) <= Len(l)
    BY <1>6, <1>10, Zenon
  <2>4. \A k \in Nodes : Len(k) <= d - 1 =>
          (EndsAt(k, n, (d - 1) + 1) <=> EndsAt(k, Append(l, n[(d - 1) + 1]), Len(l) + 1))
    <3> SUFFICES ASSUME NEW k \in Nodes, Len(k) <= d - 1
                 PROVE  EndsAt(k, n, (d - 1) + 1) <=>
                          EndsAt(k, Append(l, n[(d - 1) + 1]), Len(l) + 1)
      OBVIOUS
    <3>1. d - 1 \in Nat /\ l \in Nodes
      BY <1>0, <1>6
    <3> QED
      BY <2>1, <2>2, <2>3, <3>1, NextPlace, Zenon
  <2> QED
    BY <1>0, <2>2, <2>4, Zenon
<1>12. \A k \in Nodes : /\ EndsAt(k, Append(l, c), Len(l) + 1) => Len(k) <= d - 1
                        /\ Len(k) <= d - 1 <=> Len(k) < d
  <2>1. \A k \in Nodes : /\ Len(k) <= Len(l) + 1 => Len(k) <= d - 1
                         /\ Len(k) <= d - 1 <=> Len(k) < d
    <3>1. \A k \in Nodes : Len(k) \in Nat
      BY NodeLengths, Zenon
    <3> QED
      BY <1>6, <3>1, SMTT(30)
  <2> QED
    BY <2>1, Zenon DEF EndsAt
<1>13. IsLink(m, n)
  <2>1. \A k \in Nodes : EndsAt(k, n, d) /\ Len(k) < d <=> EndsAt(k, Append(l, c), Len(l) + 1)
    BY <1>11, <1>12, Zenon
  <2> QED
    BY <1>9, <2>1, Zenon DEF IsLink, IsNode
<1>14. IsLink(LinkOf(n), n)
  BY <1>1, LinkOfIs, SMTT(30)
<1>15. m = LinkOf(n)
  BY <1>13, <1>14, LinkUnique, SMTT(30)
<1> QED
  BY <1>5, <1>8, <1>15, Zenon DEF f, c

\* The links up to a depth follow the recursion of Links.
LEMMA LinksToStep ==
  ASSUME NEW d \in Nat
  PROVE  LinksTo(d) = IF d <= 1 THEN [n \in Nodes |-> <<>>]
                      ELSE [n \in Nodes |->
                              IF Len(n) = d
                              THEN Move(LinksTo(d - 1), LinksTo(d - 1)[Front(n)], Last(n))
                              ELSE LinksTo(d - 1)[n]]
<1>1. CASE d <= 1
  <2>1. ASSUME NEW n \in Nodes, n # <<>>, Len(n) <= d PROVE LinkOf(n) = <<>>
    <3>1. LinkOf(n) \in Nodes /\ Len(LinkOf(n)) < Len(n)
      BY <2>1, LinkOfIs, Zenon DEF IsLink
    <3>2. Len(LinkOf(n)) \in Nat /\ (LinkOf(n) # <<>> => Len(LinkOf(n)) > 0) /\ Len(n) \in Nat
      BY <3>1, NodeLengths, Zenon
    <3>3. ~(Len(LinkOf(n)) > 0)
      BY <1>1, <2>1, <3>1, <3>2, SMTT(30)
    <3> QED
      BY <3>2, <3>3
  <2>2. \A n \in Nodes : (IF n # <<>> /\ Len(n) <= d THEN LinkOf(n) ELSE <<>>) = <<>>
    BY <2>1, Zenon
  <2>3. LinksTo(d) = [n \in Nodes |-> <<>>]
    BY <2>2, Zenon DEF LinksTo
  <2> QED
    BY <1>1, <2>3, Zenon
<1>2. CASE ~(d <= 1)
  <2>1. d > 1 /\ d - 1 \in Nat
    BY <1>2, SMT
  <2>2. ASSUME NEW n \in Nodes
        PROVE  (IF n # <<>> /\ Len(n) <= d THEN LinkOf(n) ELSE <<>>)
                 = IF Len(n) = d THEN Move(LinksTo(d - 1), LinksTo(d - 1)[Front(n)], Last(n))
                   ELSE LinksTo(d - 1)[n]
    <3>1. Len(n) \in Nat /\ Len(<<>>) = 0
      BY NodeLengths, Zenon
    <3>2. CASE Len(n) = d
      <4>1. n # <<>> /\ Len(n) <= d
        BY <2>1, <3>1, <3>2, SMTT(30)
      <4> QED
        BY <2>1, <3>2, <4>1, LinkFound, Zenon
    <3>3. CASE Len(n) # d
      <4>1. Len(n) <= d <=> Len(n) <= d - 1
        BY <2>1, <3>1, <3>3, SMTT(30)
      <4> QED
        BY <3>3, <4>1, Zenon DEF LinksTo
    <3> QED
      BY <3>2, <3>3
  <2>3. LinksTo(d) = [n \in Nodes |->
                        IF Len(n) = d
                        THEN Move(LinksTo(d - 1), LinksTo(d - 1)[Front(n)], Last(n))
                        ELSE LinksTo(d - 1)[n]]
    BY <2>2, Zenon DEF LinksTo
  <2> QED
    BY <1>2, <2>3, Zenon
<1> QED
  BY <1>1, <1>2, SMTT(30)

\* Links has at each depth the links up to it.
LEMMA LinksAre == ASSUME NEW d \in Nat PROVE Links[d] = LinksTo(d)
<1> DEFINE G == [depth \in Nat |-> LinksTo(depth)]
           F == CHOOSE f : f = [depth \in Nat |->
                  IF depth <= 1 THEN [n \in Nodes |-> <<>>]
                  ELSE [n \in Nodes |->
                          IF Len(n) = depth
                          THEN Move(f[depth - 1], f[depth - 1][Front(n)], Last(n))
                          ELSE f[depth - 1][n]]]
<1>1. \A k \in Nat : G[k] = LinksTo(k)
  BY Zenon
<1>2. G = [depth \in Nat |-> G[depth]]
  BY Zenon
<1> HIDE DEF G
<1>3. \A k \in Nat : k <= 1 \/ k - 1 \in Nat
  BY SMT
<1>4. ASSUME NEW k \in Nat
      PROVE  G[k] = IF k <= 1 THEN [n \in Nodes |-> <<>>]
                    ELSE [n \in Nodes |->
                            IF Len(n) = k THEN Move(G[k - 1], G[k - 1][Front(n)], Last(n))
                            ELSE G[k - 1][n]]
  <2>1. CASE k <= 1
    BY <1>1, <2>1, LinksToStep, Zenon
  <2>2. CASE ~(k <= 1)
    <3>1. G[k - 1] = LinksTo(k - 1)
      BY <1>1, <1>3, <2>2, Zenon
    <3>2. G[k] = [n \in Nodes |->
                    IF Len(n) = k THEN Move(LinksTo(k - 1), LinksTo(k - 1)[Front(n)], Last(n))
                    ELSE LinksTo(k - 1)[n]]
      BY <1>1, <2>2, LinksToStep, Zenon
    <3> QED
      BY <2>2, <3>1, <3>2, Zenon
  <2> QED
    BY <2>1, <2>2
<1>5. LinksStep(G)
  BY <1>2, <1>4, Zenon DEF LinksStep
<1>6. Links = F
  BY Zenon DEF Links
<1>7. LinksStep(F)
  BY <1>5, Zenon DEF LinksStep
<1> HIDE DEF F
<1>8. \A k \in Nat : F[k] = LinksTo(k)
  <2> DEFINE Bad == {k \in Nat : F[k] # LinksTo(k)}
  <2> SUFFICES ASSUME Bad # {} PROVE FALSE
    OBVIOUS
  <2>1. PICK k \in Bad : \A j \in Bad : k <= j
    BY Least, Zenon
  <2>2. k \in Nat /\ F[k] # LinksTo(k)
    OBVIOUS
  <2>3. F[k] = IF k <= 1 THEN [n \in Nodes |-> <<>>]
               ELSE [n \in Nodes |->
                       IF Len(n) = k THEN Move(F[k - 1], F[k - 1][Front(n)], Last(n))
                       ELSE F[k - 1][n]]
    BY <1>7, <2>2, Zenon DEF LinksStep
  <2>4. CASE k <= 1
    <3>1. F[k] = [n \in Nodes |-> <<>>]
      BY <2>3, <2>4, Zenon
    <3>2. LinksTo(k) = [n \in Nodes |-> <<>>]
      BY <2>2, <2>4, LinksToStep, Zenon
    <3> QED
      BY <2>2, <3>1, <3>2
  <2>5. CASE ~(k <= 1)
    <3>1. k - 1 \in Nat /\ ~(k <= k - 1)
      BY <2>2, <2>5, SMT
    <3>2. F[k - 1] = LinksTo(k - 1)
      BY <2>1, <3>1, Zenon
    <3>3. F[k] = [n \in Nodes |->
                    IF Len(n) = k THEN Move(F[k - 1], F[k - 1][Front(n)], Last(n))
                    ELSE F[k - 1][n]]
      BY <2>3, <2>5, Zenon
    <3>4. LinksTo(k) = [n \in Nodes |->
                    IF Len(n) = k THEN Move(LinksTo(k - 1), LinksTo(k - 1)[Front(n)], Last(n))
                    ELSE LinksTo(k - 1)[n]]
      BY <2>2, <2>5, LinksToStep, Zenon
    <3> QED
      BY <2>2, <3>2, <3>3, <3>4, Zenon
  <2> QED
    BY <2>4, <2>5
<1> QED
  BY <1>6, <1>8

\* The links of the automaton.
LEMMA FailIs ==
  /\ \A n \in Nodes : n # <<>> => IsLink(Fail[n], n)
  /\ Linked(Fail, Nodes)
<1>1. ASSUME NEW n \in Nodes, n # <<>> PROVE IsLink(Fail[n], n)
  <2>1. Len(n) \in Nat
    BY NodeLengths
  <2>2. Fail[n] = LinksTo(Len(n))[n]
    BY <2>1, LinksAre, Zenon DEF Fail
  <2>3. Len(n) <= Len(n)
    BY <2>1, SMT
  <2>4. Fail[n] = LinkOf(n)
    BY <1>1, <2>2, <2>3, Zenon DEF LinksTo
  <2> QED
    BY <1>1, <2>4, LinkOfIs
<1>2. \A n \in Nodes : n # <<>> => Fail[n] \in Nodes
  BY <1>1, Zenon DEF IsLink
<1> QED
  BY <1>1, <1>2, NodesAre, Zenon DEF Linked

\* The rules whose pattern is the end of a node.
EndsOf(n) == {i \in Keywords : EndsAt(ToLower(Rules[i].pattern), n, Len(n))}

\* They are those that end in the node and those of its link.
LEMMA EndsOfStep ==
  ASSUME NEW n \in Nodes
  PROVE  EndsOf(n) = {i \in Keywords : ToLower(Rules[i].pattern) = n}
                     \cup IF n = <<>> THEN {} ELSE EndsOf(Fail[n])
<1> SUFFICES ASSUME NEW i \in Keywords
             PROVE  EndsAt(ToLower(Rules[i].pattern), n, Len(n)) <=>
                      \/ ToLower(Rules[i].pattern) = n
                      \/ n # <<>> /\ EndsAt(ToLower(Rules[i].pattern), Fail[n], Len(Fail[n]))
  BY Zenon DEF EndsOf
<1> DEFINE w == ToLower(Rules[i].pattern)
<1>1. w \in Nodes /\ w # <<>>
  BY LowIs, NodesAre
<1> HIDE DEF w
<1>2. w \in Seq(Chars) /\ n \in Seq(Chars) /\ Len(w) \in Nat /\ Len(w) > 0 /\ Len(n) \in Nat /\ Len(<<>>) = 0
  BY <1>1, NodeLengths, Zenon
<1>3. w = n => EndsAt(w, n, Len(n))
  BY <1>2, EndsItself
<1>4. EndsAt(w, n, Len(n)) => Len(w) <= Len(n)
  BY DEF EndsAt
<1>5. EndsAt(w, n, Len(n)) /\ Len(w) = Len(n) => w = n
  BY <1>2, EndsItself, EndsSame, Zenon
<1>6. CASE n = <<>>
  <2>1. ~(Len(w) <= Len(n))
    BY <1>2, <1>6, SMT
  <2> QED
    BY <1>3, <1>4, <1>6, <2>1, Zenon DEF w
<1>7. CASE n # <<>>
  <2>1. IsLink(Fail[n], n)
    BY <1>7, FailIs
  <2>2. PICK l : l = Fail[n]
    OBVIOUS
  <2>3. /\ l \in Nodes /\ EndsAt(l, n, Len(n)) /\ Len(l) < Len(n)
        /\ EndsAt(w, n, Len(n)) /\ Len(w) < Len(n) => Len(w) <= Len(l)
    BY <1>1, <2>1, <2>2, Zenon DEF IsLink
  <2>4. Len(l) \in Nat
    BY <2>3, NodeLengths
  <2>5. Len(w) <= Len(l) => (EndsAt(w, l, Len(l)) <=> EndsAt(w, n, Len(n)))
    BY <1>2, <2>3, <2>4, EndsShorter, SMTT(30)
  <2>6. EndsAt(w, l, Len(l)) => Len(w) <= Len(l)
    BY DEF EndsAt
  <2>7. Len(w) <= Len(n) => Len(w) = Len(n) \/ Len(w) < Len(n)
    BY <1>2, SMT
  <2>8. EndsAt(w, n, Len(n)) <=> w = n \/ EndsAt(w, l, Len(l))
    BY <1>3, <1>4, <1>5, <2>3, <2>5, <2>6, <2>7, Zenon
  <2> QED
    BY <1>7, <2>2, <2>8, Zenon DEF w
<1> QED
  BY <1>6, <1>7

\* What Ends gathers along the links.
LEMMA EndsAre == ASSUME NEW x \in Nodes PROVE Ends[x] = EndsOf(x)
<1> DEFINE Own(n) == {i \in Keywords : ToLower(Rules[i].pattern) = n}
           Step(f) == f = [n \in Nodes |-> Own(n) \cup IF n = <<>> THEN {} ELSE f[Fail[n]]]
           G == [n \in Nodes |-> EndsOf(n)]
           F == CHOOSE f : f = [n \in Nodes |-> {i \in Keywords : ToLower(Rules[i].pattern) = n}
                                   \cup IF n = <<>> THEN {} ELSE f[Fail[n]]]
<1>1. \A n \in Nodes : EndsOf(n) = Own(n) \cup IF n = <<>> THEN {} ELSE EndsOf(Fail[n])
  BY EndsOfStep
<1>2. Ends = F /\ \A f : Step(f) => Step(F)
  BY Zenon DEF Ends
<1> HIDE DEF Own, F
<1>3. \A n \in Nodes : n # <<>> => Fail[n] \in Nodes /\ Len(Fail[n]) < Len(n)
  BY FailIs, Zenon DEF IsLink
<1>4. Step(G)
  <2>1. \A n \in Nodes : EndsOf(n) = Own(n) \cup IF n = <<>> THEN {} ELSE G[Fail[n]]
    <3> SUFFICES ASSUME NEW n \in Nodes
                 PROVE  EndsOf(n) = Own(n) \cup IF n = <<>> THEN {} ELSE G[Fail[n]]
      OBVIOUS
    <3>1. n # <<>> => G[Fail[n]] = EndsOf(Fail[n])
      BY <1>3, Zenon
    <3> HIDE DEF G
    <3> QED
      BY <1>1, <3>1, Zenon
  <2> QED
    BY <2>1, Zenon
<1>5. Step(F)
  <2> HIDE DEF Step, G
  <2> QED
    BY <1>2, <1>4, Zenon
<1>6. \A n \in Nodes : F[n] = EndsOf(n)
  <2> DEFINE Bad == {n \in Nodes : F[n] # EndsOf(n)}
             Lens == {Len(n) : n \in Bad}
  <2> SUFFICES ASSUME Bad # {} PROVE FALSE
    OBVIOUS
  <2>1. Lens \subseteq Nat /\ Lens # {}
    BY NodeLengths, Zenon
  <2>2. PICK d \in Lens : \A e \in Lens : d <= e
    BY <2>1, Least, Zenon
  <2>3. PICK n \in Bad : d = Len(n)
    OBVIOUS
  <2>4. \A m \in Bad : Len(n) <= Len(m)
    BY <2>2, <2>3, Zenon
  <2>5. n \in Nodes /\ F[n] # EndsOf(n)
    OBVIOUS
  <2>6. F[n] = Own(n) \cup IF n = <<>> THEN {} ELSE F[Fail[n]]
    BY <1>5, <2>5, Zenon
  <2>7. n # <<>> /\ F[Fail[n]] # EndsOf(Fail[n])
    BY <1>1, <2>5, <2>6, Zenon
  <2>8. Fail[n] \in Bad /\ Len(Fail[n]) < Len(n)
    BY <1>3, <2>5, <2>7, Zenon
  <2>9. Len(n) <= Len(Fail[n]) /\ Len(n) \in Nat /\ Len(Fail[n]) \in Nat
    BY <2>4, <2>5, <2>8, NodeLengths, Zenon
  <2> QED
    BY <2>8, <2>9, SMT
<1> QED
  BY <1>2, <1>6, Zenon

\* The node of a place of a text.
NodeAt(text, i) == CHOOSE n : IsNode(n, text, i)

\* The automaton moves from the node of a place to that of the next.
LEMMA NodeAtStep ==
  ASSUME NEW text, NEW j \in Nat, text[j + 1] \in Chars
  PROVE  /\ IsNode(NodeAt(text, j), text, j)
         /\ NodeAt(text, j + 1) = Move(Fail, NodeAt(text, j), text[j + 1])
<1> DEFINE l == NodeAt(text, j)
           c == text[j + 1]
           m == After(l, c)
<1>1. IsNode(l, text, j)
  BY NodeExists, Zenon DEF NodeAt
<1>2. j + 1 \in Nat /\ j + 1 \in Int
  BY SMT
<1>3. IsNode(NodeAt(text, j + 1), text, j + 1)
  BY <1>2, NodeExists, Zenon DEF NodeAt
<1> HIDE DEF l, c, m
<1>4. l \in Nodes /\ EndsAt(l, text, j) /\ \A n \in Nodes : EndsAt(n, text, j) => Len(n) <= Len(l)
  BY <1>1 DEF IsNode
<1>5. Move(Fail, l, c) = m
  BY <1>4, FailIs, MoveIs, Zenon DEF c, m
<1>6. IsNode(m, Append(l, c), Len(l) + 1)
  BY <1>4, AfterIs, Zenon DEF m, c
<1>7. \A k \in Nodes : EndsAt(k, text, j + 1) <=> EndsAt(k, Append(l, c), Len(l) + 1)
  <2> SUFFICES ASSUME NEW k \in Nodes
               PROVE  EndsAt(k, text, j + 1) <=> EndsAt(k, Append(l, c), Len(l) + 1)
    OBVIOUS
  <2>1. PICK max \in Int : max = Len(k)
    BY NodeLengths, SMT
  <2>2. Len(k) <= max
    BY <2>1, SMT
  <2> QED
    BY <1>4, <2>2, NextPlace, Zenon DEF c
<1>8. IsNode(m, text, j + 1)
  BY <1>6, <1>7, Zenon DEF IsNode
<1>9. NodeAt(text, j + 1) = m
  BY <1>2, <1>3, <1>8, NodeUnique, Zenon
<1> QED
  BY <1>1, <1>5, <1>9, SMTT(30) DEF l, c

\* A word is part of a text.
Within(word, text) == \E j \in DOMAIN text : EndsAt(word, text, j)

\* The automaton finds the patterns that are part of the text, and no others.
LEMMA MatchesAre ==
  ASSUME NEW text \in Seq(Chars)
  PROVE  Matches(text) = {i \in Keywords : Within(ToLower(Rules[i].pattern), text)}
<1> DEFINE L == Len(text)
           Step(f) == f = [i \in 0..L |-> IF i = 0 THEN <<>> ELSE Move(Fail, f[i - 1], text[i])]
           G == [i \in 0..L |-> NodeAt(text, i)]
           F == CHOOSE f : f = [i \in 0..Len(text) |->
                                  IF i = 0 THEN <<>> ELSE Move(Fail, f[i - 1], text[i])]
<1>0. L \in Nat /\ DOMAIN text = 1..L /\ \A i \in 1..L : text[i] \in Chars
  BY SMT
<1>1. Matches(text) = UNION {Terms[F[i]] : i \in DOMAIN text} /\ \A f : Step(f) => Step(F)
  BY Zenon DEF Matches
<1> HIDE DEF L, F
<1>2. \A i \in 0..L : i \in Nat /\ (i # 0 => i - 1 \in 0..L /\ (i - 1) + 1 = i /\ i \in 1..L /\ i - 1 \in Nat)
  BY <1>0, SMT
<1>3. NodeAt(text, 0) = <<>>
  <2>1. IsNode(NodeAt(text, 0), text, 0)
    BY NodeExists, Zenon DEF NodeAt
  <2>2. /\ NodeAt(text, 0) \in Nodes /\ Len(NodeAt(text, 0)) <= 0
    BY <2>1 DEF IsNode, EndsAt
  <2>3. Len(NodeAt(text, 0)) \in Nat /\ (NodeAt(text, 0) # <<>> => Len(NodeAt(text, 0)) > 0)
    BY <2>2, NodeLengths, Zenon
  <2>4. ~(Len(NodeAt(text, 0)) > 0)
    BY <2>2, <2>3, SMTT(30)
  <2> QED
    BY <2>3, <2>4
<1>4. \A i \in 0..L : i # 0 => NodeAt(text, i) = Move(Fail, NodeAt(text, i - 1), text[i])
  <2> SUFFICES ASSUME NEW i \in 0..L, i # 0
               PROVE  NodeAt(text, i) = Move(Fail, NodeAt(text, i - 1), text[i])
    OBVIOUS
  <2>1. PICK j : j = i - 1
    OBVIOUS
  <2>2. j \in Nat /\ j + 1 = i /\ text[j + 1] \in Chars
    BY <1>0, <1>2, <2>1, Zenon
  <2> QED
    BY <2>1, <2>2, NodeAtStep, Zenon
<1>5. Step(G)
  <2>1. \A i \in 0..L : NodeAt(text, i) = IF i = 0 THEN <<>> ELSE Move(Fail, G[i - 1], text[i])
    <3> SUFFICES ASSUME NEW i \in 0..L
                 PROVE  NodeAt(text, i) = IF i = 0 THEN <<>> ELSE Move(Fail, G[i - 1], text[i])
      OBVIOUS
    <3>1. i # 0 => G[i - 1] = NodeAt(text, i - 1)
      BY <1>2, Zenon
    <3> HIDE DEF G
    <3> QED
      BY <1>3, <1>4, <3>1, Zenon
  <2> QED
    BY <2>1, Zenon
<1>6. Step(F)
  BY <1>1, <1>5, ZenonT(60)
<1>7. \A i \in 0..L : F[i] = NodeAt(text, i)
  <2> DEFINE Bad == {i \in 0..L : F[i] # NodeAt(text, i)}
  <2> SUFFICES ASSUME Bad # {} PROVE FALSE
    OBVIOUS
  <2>1. Bad \subseteq Nat
    BY <1>2, Zenon
  <2>2. PICK i \in Bad : \A j \in Bad : i <= j
    BY <2>1, Least, Zenon
  <2>3. i \in 0..L /\ F[i] # NodeAt(text, i)
    OBVIOUS
  <2>4. F[i] = IF i = 0 THEN <<>> ELSE Move(Fail, F[i - 1], text[i])
    BY <1>6, <2>3, Zenon
  <2>5. i # 0 /\ F[i - 1] # NodeAt(text, i - 1)
    BY <1>3, <1>4, <2>3, <2>4, Zenon
  <2>6. i - 1 \in Bad
    BY <1>2, <2>3, <2>5, Zenon
  <2>7. i <= i - 1 /\ i \in Nat
    BY <1>2, <2>2, <2>3, <2>6, Zenon
  <2> QED
    BY <2>7, SMT
<1>8. ASSUME NEW j \in 1..L
      PROVE  Terms[F[j]] = {i \in Keywords : EndsAt(ToLower(Rules[i].pattern), text, j)}
  <2>1. j \in Nat /\ j \in 0..L
    BY <1>0, SMTT(30)
  <2>2. PICK n : n = NodeAt(text, j)
    OBVIOUS
  <2>3. IsNode(n, text, j)
    BY <2>1, <2>2, NodeExists, Zenon DEF NodeAt
  <2>4. n \in Nodes /\ EndsAt(n, text, j) /\ \A k \in Nodes : EndsAt(k, text, j) => Len(k) <= Len(n)
    BY <2>3 DEF IsNode
  <2>5. Terms[F[j]] = EndsOf(n)
    BY <1>7, <2>1, <2>2, <2>4, EndsAre, Zenon DEF Terms
  <2>6. ASSUME NEW w \in Nodes PROVE EndsAt(w, n, Len(n)) <=> EndsAt(w, text, j)
    <3>1. Len(w) \in Nat /\ Len(n) \in Nat
      BY <2>4, NodeLengths, Zenon
    <3>2. EndsAt(w, n, Len(n)) => Len(w) <= Len(n)
      BY DEF EndsAt
    <3> QED
      BY <2>1, <2>4, <3>1, <3>2, EndsShorter, Zenon
  <2>7. \A i \in Keywords : ToLower(Rules[i].pattern) \in Nodes
    BY NodesAre
  <2> QED
    BY <2>5, <2>6, <2>7, Zenon DEF EndsOf
<1>9. \A i \in Keywords : Within(ToLower(Rules[i].pattern), text) <=> \E j \in 1..L : i \in Terms[F[j]]
  <2>1. \A i \in Keywords, j \in 1..L : EndsAt(ToLower(Rules[i].pattern), text, j) <=> i \in Terms[F[j]]
    BY <1>8, Zenon
  <2> QED
    BY <1>0, <2>1, Zenon DEF Within
<1>10. \A j \in 1..L : Terms[F[j]] \subseteq Keywords
  BY <1>8, Zenon
<1>11. Matches(text) = UNION {Terms[F[j]] : j \in 1..L}
  BY <1>0, <1>1, Zenon
<1> QED
  BY <1>9, <1>10, <1>11, Zenon
-----------------------------------------------------------------------------
(***************************************************************************)
(* The normalization.  N[i] is how much of the normalized text there is    *)
(* after the first i characters of the text.                               *)
(***************************************************************************)
Scan(text, out, N) ==
  /\ out \in Seq(STRING \cup {Blank}) /\ N \in [0..Len(text) -> Nat]
  /\ N[0] = 0 /\ N[Len(text)] = Len(out)
  /\ \A i \in 1..Len(text) :
       /\ ~Word(text[i]) => N[i] = N[i - 1]
       /\ Word(text[i]) => /\ N[i] = N[i - 1] + IF Gap(text, i) THEN 2 ELSE 1
                           /\ out[N[i]] = text[i]
                           /\ Gap(text, i) => out[N[i] - 1] = Blank

\* What normalize makes of one character.
Normal(text, i) == IF ~Word(text[i]) THEN <<>>
                   ELSE IF Gap(text, i) THEN <<Blank, text[i]>> ELSE <<text[i]>>

\* Texts, and what they grow to one after the other.
Texts(ss, n, C) == ss = [i \in 1..n |-> ss[i]] /\ \A i \in 1..n : ss[i] \in Seq(C)
Growth(g, ss, n) == g[0] = <<>> /\ \A i \in 1..n : g[i] = g[i - 1] \o ss[i]
Grown(g, n, C) ==
  /\ \A i \in 0..n : g[i] \in Seq(C)
  /\ \A i \in 0..n : Len(g[i]) <= Len(g[n]) /\ \A k \in 1..Len(g[i]) : g[n][k] = g[i][k]

\* How the pieces follow each other, and that none is changed by a later one.
LEMMA Grows ==
  ASSUME NEW C, NEW ss, NEW n \in Nat, Texts(ss, n, C), NEW g, Growth(g, ss, n)
  PROVE  Grown(g, n, C)
<1> USE DEF Texts, Growth
<1>1. \A i \in 0..n : g[i] \in Seq(C)
  <2> DEFINE Bad == {i \in 0..n : g[i] \notin Seq(C)}
  <2> SUFFICES ASSUME Bad # {} PROVE FALSE
    OBVIOUS
  <2>1. Bad \subseteq Nat
    BY SMT
  <2>2. PICK m \in Bad : \A k \in Bad : m <= k
    BY <2>1, Least, Zenon
  <2>3. m # 0
    <3>1. <<>> \in Seq(C)
      BY SMT
    <3> QED
      BY <3>1, Zenon
  <2>4. m \in 1..n /\ m - 1 \in 0..n /\ ~(m <= m - 1)
    BY <2>3, SMT
  <2>5. g[m - 1] \in Seq(C) /\ ss[m] \in Seq(C) /\ g[m] = g[m - 1] \o ss[m]
    BY <2>2, <2>4, Zenon
  <2>6. g[m] \in Seq(C)
    BY <2>5, ConcatIs
  <2> QED
    BY <2>6
<1>2. \A i \in 0..n : Len(g[i]) <= Len(g[n]) /\ \A k \in 1..Len(g[i]) : g[n][k] = g[i][k]
  <2> DEFINE Good(i) == Len(g[i]) <= Len(g[n]) /\ \A k \in 1..Len(g[i]) : g[n][k] = g[i][k]
             Bad == {e \in 0..n : ~Good(n - e)}
  <2>1. \A i \in 0..n : n - i \in 0..n /\ n - (n - i) = i
    BY SMT
  <2> HIDE DEF Good
  <2>15. Bad = {} => \A i \in 0..n : Good(i)
    BY <2>1, Zenon
  <2> SUFFICES ASSUME Bad # {} PROVE FALSE
    BY <2>15, Zenon DEF Good
  <2>2. Bad \subseteq Nat
    BY SMT
  <2>3. PICK e \in Bad : \A k \in Bad : e <= k
    BY <2>2, Least, Zenon
  <2>4. e \in 0..n /\ ~Good(n - e)
    OBVIOUS
  <2>5. e # 0
    <3>1. n \in 0..n /\ n - 0 = n
      BY SMT
    <3>2. Len(g[n]) <= Len(g[n])
      BY <1>1, <3>1, SMTT(30)
    <3>3. Good(n)
      BY <3>2, Zenon DEF Good
    <3> QED
      BY <2>4, <3>1, <3>3, Zenon
  <2>6. PICK i : i = n - e
    OBVIOUS
  <2>7. /\ i \in 0..n /\ i + 1 \in 1..n /\ i + 1 \in 0..n /\ (i + 1) - 1 = i
        /\ e - 1 \in 0..n /\ n - (e - 1) = i + 1 /\ ~(e <= e - 1)
    <3> HIDE DEF Texts, Growth
    <3> QED
      BY <2>4, <2>5, <2>6, SMTT(30)
  <2>8. Good(i + 1)
    BY <2>3, <2>7, Zenon
  <2>9. g[i + 1] = g[i] \o ss[i + 1] /\ g[i] \in Seq(C) /\ ss[i + 1] \in Seq(C)
    BY <1>1, <2>7, Zenon
  <2>10. /\ Len(g[i + 1]) = Len(g[i]) + Len(ss[i + 1]) /\ Len(g[i]) \in Nat /\ Len(ss[i + 1]) \in Nat
         /\ \A k \in 1..Len(g[i]) : g[i + 1][k] = g[i][k]
    <3>1. /\ Len(g[i] \o ss[i + 1]) = Len(g[i]) + Len(ss[i + 1])
          /\ Len(g[i]) \in Nat /\ Len(ss[i + 1]) \in Nat
          /\ \A k \in 1..Len(g[i]) : (g[i] \o ss[i + 1])[k] = g[i][k]
      <4>1. PICK u, v : u = g[i] /\ v = ss[i + 1]
        BY Zenon
      <4>2. u \in Seq(C) /\ v \in Seq(C)
        BY <2>9, <4>1
      <4>3. /\ Len(u \o v) = Len(u) + Len(v) /\ Len(u) \in Nat /\ Len(v) \in Nat
            /\ \A k \in 1..Len(u) : (u \o v)[k] = u[k]
        BY <4>2, ConcatIs, SMTT(30)
      <4> QED
        BY <4>1, <4>3, Zenon
    <3> QED
      BY <2>9, <3>1, Zenon
  <2>11. Len(g[n]) \in Nat
    <3>1. n \in 0..n
      BY SMT
    <3> QED
      BY <1>1, <3>1, SMTT(30)
  <2>12. Len(g[i + 1]) <= Len(g[n]) /\ \A k \in 1..Len(g[i + 1]) : g[n][k] = g[i + 1][k]
    BY <2>8 DEF Good
  <2>13. Len(g[i]) <= Len(g[n]) /\ \A k \in 1..Len(g[i]) : k \in 1..Len(g[i + 1])
    <3>1. /\ Len(g[i + 1]) = Len(g[i]) + Len(ss[i + 1]) /\ Len(g[i]) \in Nat
          /\ Len(ss[i + 1]) \in Nat /\ Len(g[i + 1]) <= Len(g[n])
      BY <2>10, <2>12, Zenon
    <3>2. PICK a, b, c, d : a = Len(g[i]) /\ b = Len(ss[i + 1]) /\ c = Len(g[i + 1]) /\ d = Len(g[n])
      BY Zenon
    <3>3. a \in Nat /\ b \in Nat /\ d \in Nat /\ c = a + b /\ c <= d
      BY <2>11, <3>1, <3>2, Zenon
    <3>4. a <= d /\ \A k \in 1..a : k \in 1..c
      BY <3>3, SMTT(30)
    <3> QED
      BY <3>2, <3>4, SMTT(30)
  <2>14. Good(i)
    BY <2>10, <2>12, <2>13, Zenon DEF Good
  <2> QED
    BY <2>4, <2>6, <2>14, Zenon
<1> QED
  BY <1>1, <1>2, Zenon DEF Grown

\* What the pieces of the normalization add to a text.
LEMMA AddsNone == ASSUME NEW C, NEW u \in Seq(C) PROVE u \o <<>> = u
  BY SMT

\* One character.
LEMMA AddsOne ==
  ASSUME NEW C, NEW u \in Seq(C), NEW x \in C
  PROVE  Len(u \o <<x>>) = Len(u) + 1 /\ (u \o <<x>>)[Len(u) + 1] = x /\ Len(u) \in Nat
  BY SMTT(30)

\* A space and a character.
LEMMA AddsTwo ==
  ASSUME NEW C, NEW u \in Seq(C), NEW x \in C, NEW y \in C
  PROVE  /\ Len(u \o <<x, y>>) = Len(u) + 2 /\ Len(u) \in Nat
         /\ (u \o <<x, y>>)[Len(u) + 1] = x /\ (u \o <<x, y>>)[Len(u) + 2] = y
  BY SMTT(30)

\* The texts that FlattenSeq goes through, from the empty one.
LEMMA FlattenFrom ==
  ASSUME NEW C, NEW n \in Nat, NEW ss, Texts(ss, n, C)
  PROVE  \E g : Growth(g, ss, n) /\ FlattenSeq(ss) = g[n]
<1> USE DEF Texts, Growth
<1>1. Len(ss) = n
  BY SMTT(30)
<1>2. CASE n = 0
  <2>1. ss = <<>>
    BY <1>2, SMTT(30)
  <2>2. FlattenSeq(ss) = <<>>
    BY <1>1, <1>2, <2>1, Zenon DEF FlattenSeq
  <2> DEFINE g == [i \in 0..0 |-> <<>>]
  <2>3. g[0] = <<>> /\ 1..n = {}
    BY <1>2, SMTT(30)
  <2> HIDE DEF g
  <2> QED
    BY <1>2, <2>2, <2>3, ZenonT(60)
<1>3. CASE n > 0
  <2>1. PICK f : Runs(f, ss, n) /\ FlattenSeq(ss) = f[n]
    BY <1>1, <1>3, FlattenIs, Zenon
  <2>2. \A i \in 1..n : f[i] = IF i = 1 THEN ss[i] ELSE f[i - 1] \o ss[i]
    BY <2>1, Zenon DEF Runs
  <2> DEFINE g == [i \in 0..n |-> IF i = 0 THEN <<>> ELSE f[i]]
  <2>3. 0 \in 0..n /\ n # 0 /\ n \in 0..n /\ 1 - 1 = 0 /\ 1 \in 1..n
        /\ \A i \in 1..n : i \in 0..n /\ i # 0 /\ i - 1 \in 0..n /\ (i # 1 => i - 1 # 0)
    BY <1>3, SMTT(30)
  <2>4. g[0] = <<>> /\ \A i \in 1..n : g[i] = f[i]
    BY <2>3, ZenonT(60)
  <2>5. \A i \in 1..n : i # 1 => g[i - 1] = f[i - 1]
    BY <2>3, Zenon
  <2> HIDE DEF g
  <2>6. ASSUME NEW i \in 1..n PROVE g[i] = g[i - 1] \o ss[i]
    <3>1. CASE i = 1
      <4>1. g[i] = ss[i] /\ g[i - 1] = <<>> /\ ss[i] \in Seq(C)
        BY <2>2, <2>3, <2>4, <3>1, Zenon
      <4>2. <<>> \o ss[i] = ss[i]
        BY <4>1, ConcatNothing, SMTT(30)
      <4> QED
        BY <4>1, <4>2, Zenon
    <3>2. CASE i # 1
      BY <2>2, <2>4, <2>5, <3>2, Zenon
    <3> QED
      BY <3>1, <3>2, SMTT(30)
  <2>7. FlattenSeq(ss) = g[n]
    <3>1. n \in 1..n
      BY <1>3, SMTT(30)
    <3> QED
      BY <2>1, <2>4, <3>1, Zenon
  <2> QED
    BY <2>4, <2>6, <2>7, Zenon
<1>4. n = 0 \/ n > 0
  BY SMT
<1> QED
  BY <1>2, <1>3, <1>4, Zenon

\* The normalization is such a scan, in small letters.
LEMMA ScanIs ==
  ASSUME NEW text \in Seq(STRING)
  PROVE  \E out, N : Scan(text, out, N) /\ Normalize(text) = ToLower(out)
<1> DEFINE C == STRING \cup {Blank}
           L == Len(text)
           ss == [i \in 1..L |-> Normal(text, i)]
<1>1. L \in Nat /\ DOMAIN text = 1..L /\ \A i \in 1..L : text[i] \in C
  BY SMT
<1>2. Blank \in C
  OBVIOUS
<1> HIDE DEF C, L
<1>3. \A i \in 1..L : ss[i] = Normal(text, i)
  BY Zenon
<1>4. ss = [i \in 1..L |-> ss[i]]
  BY Zenon
<1>5. Normalize(text) = ToLower(FlattenSeq(ss))
  BY <1>1, Zenon DEF Normalize, Normal
<1> HIDE DEF ss
<1>6. \A i \in 1..L : ss[i] \in Seq(C)
  <2> SUFFICES ASSUME NEW i \in 1..L PROVE ss[i] \in Seq(C)
    OBVIOUS
  <2>1. text[i] \in C
    BY <1>1
  <2>2. <<>> \in Seq(C) /\ <<text[i]>> \in Seq(C) /\ <<Blank, text[i]>> \in Seq(C)
    BY <1>2, <2>1, SMT
  <2> QED
    BY <1>3, <2>2, Zenon DEF Normal
<1>14. Texts(ss, L, C) /\ L \in Nat
  BY <1>1, <1>4, <1>6, Zenon DEF Texts
<1>15. PICK g : Growth(g, ss, L) /\ FlattenSeq(ss) = g[L]
  BY <1>14, FlattenFrom, Zenon
<1>7. /\ g[0] = <<>> /\ \A i \in 1..L : g[i] = g[i - 1] \o ss[i]
      /\ FlattenSeq(ss) = g[L]
  BY <1>15, Zenon DEF Growth
<1>8. /\ \A i \in 0..L : g[i] \in Seq(C)
      /\ \A i \in 0..L : Len(g[i]) <= Len(g[L]) /\ \A k \in 1..Len(g[i]) : g[L][k] = g[i][k]
  <2>1. Grown(g, L, C)
    BY <1>14, <1>15, Grows, Zenon
  <2> QED
    BY <2>1, Zenon DEF Grown
<1> DEFINE N == [i \in 0..L |-> Len(g[i])]
<1>9. \A i \in 0..L : N[i] = Len(g[i])
  BY Zenon
<1>10. N \in [0..L -> Nat]
  <2>1. \A i \in 0..L : Len(g[i]) \in Nat
    BY <1>8, SMT
  <2> QED
    BY <2>1, Zenon
<1> HIDE DEF N
<1>11. N[0] = 0 /\ N[L] = Len(g[L]) /\ g[L] \in Seq(C)
  <2>1. 0 \in 0..L /\ L \in 0..L /\ Len(<<>>) = 0
    BY <1>1, SMTT(30)
  <2> QED
    BY <1>7, <1>8, <1>9, <2>1, Zenon
<1>12. ASSUME NEW i \in 1..L
       PROVE  /\ ~Word(text[i]) => N[i] = N[i - 1]
              /\ Word(text[i]) => /\ N[i] = N[i - 1] + IF Gap(text, i) THEN 2 ELSE 1
                                  /\ g[L][N[i]] = text[i]
                                  /\ Gap(text, i) => g[L][N[i] - 1] = Blank
  <2>1. i \in 0..L /\ i - 1 \in 0..L
    BY <1>1, SMT
  <2>2. PICK u : u = g[i - 1]
    OBVIOUS
  <2>3. u \in Seq(C) /\ N[i - 1] = Len(u) /\ g[i] = u \o Normal(text, i) /\ text[i] \in C
    BY <1>1, <1>3, <1>7, <1>8, <1>9, <2>1, <2>2, Zenon
  <2>4. N[i] = Len(g[i]) /\ \A k \in 1..Len(g[i]) : g[L][k] = g[i][k]
    BY <1>8, <1>9, <2>1, Zenon
  <2>5. CASE ~Word(text[i])
    <3>1. g[i] = u
      BY <2>3, <2>5, AddsNone, Zenon DEF Normal
    <3> QED
      BY <2>3, <2>4, <2>5, <3>1, Zenon
  <2>6. CASE Word(text[i]) /\ ~Gap(text, i)
    <3>1. g[i] = u \o <<text[i]>>
      BY <2>3, <2>6, Zenon DEF Normal
    <3>2. Len(g[i]) = Len(u) + 1 /\ g[i][Len(u) + 1] = text[i] /\ Len(u) \in Nat
      BY <2>3, <3>1, AddsOne, SMTT(30)
    <3>3. Len(u) + 1 \in 1..Len(g[i])
      BY <3>2, SMTT(30)
    <3>4. g[L][N[i]] = text[i]
      BY <2>4, <3>2, <3>3, Zenon
    <3>5. N[i] = N[i - 1] + 1
      BY <2>3, <2>4, <3>2, Zenon
    <3> QED
      BY <2>6, <3>4, <3>5, Zenon
  <2>7. CASE Word(text[i]) /\ Gap(text, i)
    <3>1. g[i] = u \o <<Blank, text[i]>>
      BY <2>3, <2>7, Zenon DEF Normal
    <3>2. /\ Len(g[i]) = Len(u) + 2 /\ Len(u) \in Nat
          /\ g[i][Len(u) + 1] = Blank /\ g[i][Len(u) + 2] = text[i]
      BY <1>2, <2>3, <3>1, AddsTwo, SMTT(30)
    <3>3. Len(u) + 1 \in 1..Len(g[i]) /\ Len(u) + 2 \in 1..Len(g[i]) /\ Len(g[i]) - 1 = Len(u) + 1
      BY <3>2, SMT
    <3>4. g[L][N[i]] = text[i] /\ g[L][N[i] - 1] = Blank
      BY <2>4, <3>2, <3>3, Zenon
    <3>5. N[i] = N[i - 1] + 2
      BY <2>3, <2>4, <3>2, Zenon
    <3> QED
      BY <2>7, <3>4, <3>5, Zenon
  <2> QED
    BY <2>5, <2>6, <2>7, SMTT(30)
<1>13. Scan(text, g[L], N)
  BY <1>10, <1>11, <1>12, Zenon DEF Scan, L, C
<1> QED
  BY <1>5, <1>7, <1>13, Zenon

\* A scan at one character.
LEMMA ScanAt ==
  ASSUME NEW text, Len(text) \in Nat, NEW out, NEW N, Scan(text, out, N), NEW i \in 1..Len(text)
  PROVE  /\ i - 1 \in 0..Len(text) /\ i \in 0..Len(text) /\ N[i - 1] \in Nat /\ N[i] \in Nat
         /\ ~Word(text[i]) => N[i] = N[i - 1]
         /\ Word(text[i]) => N[i - 1] < N[i]
         /\ Word(text[i]) /\ Gap(text, i) => N[i] = N[i - 1] + 2 /\ out[N[i] - 1] = Blank
         /\ Word(text[i]) /\ ~Gap(text, i) => N[i] = N[i - 1] + 1
         /\ Word(text[i]) => out[N[i]] = text[i]
<1>1. i - 1 \in 0..Len(text) /\ i \in 0..Len(text)
  BY SMT
<1>2. N[i - 1] \in Nat /\ N[i] \in Nat
  BY <1>1, Zenon DEF Scan
<1>3. /\ ~Word(text[i]) => N[i] = N[i - 1]
      /\ Word(text[i]) => /\ N[i] = N[i - 1] + IF Gap(text, i) THEN 2 ELSE 1
                          /\ out[N[i]] = text[i]
                          /\ Gap(text, i) => out[N[i] - 1] = Blank
  BY Zenon DEF Scan
<1>4. /\ Word(text[i]) /\ Gap(text, i) => N[i] = N[i - 1] + 2 /\ out[N[i] - 1] = Blank
      /\ Word(text[i]) /\ ~Gap(text, i) => N[i] = N[i - 1] + 1
  BY <1>3, Zenon
<1>5. Word(text[i]) => N[i] = N[i - 1] + 1 \/ N[i] = N[i - 1] + 2
  BY <1>4, Zenon
<1>6. Word(text[i]) => N[i - 1] < N[i]
  BY <1>2, <1>5, SMTT(30)
<1> QED
  BY <1>1, <1>2, <1>3, <1>4, <1>6, Zenon

\* The normalized text never shrinks, and only words make it longer.
LEMMA ScanGrows ==
  ASSUME NEW text, Len(text) \in Nat, NEW out, NEW N, Scan(text, out, N),
         NEW i \in 0..Len(text), NEW j \in 0..Len(text), i <= j
  PROVE  /\ N[i] \in Nat /\ N[j] \in Nat /\ N[i] <= N[j]
         /\ (\A k \in (i + 1)..j : ~Word(text[k])) => N[i] = N[j]
<1> DEFINE L == Len(text)
           Good(m) == N[i] <= N[m] /\ ((\A k \in (i + 1)..m : ~Word(text[k])) => N[i] = N[m])
           Bad == {m \in i..L : ~Good(m)}
<1>0. L \in Nat /\ i \in Nat /\ j \in i..L
  BY SMT
<1>1. \A m \in 0..L : N[m] \in Nat
  BY Zenon DEF Scan
<1>2. Bad = {}
  <2> SUFFICES ASSUME Bad # {} PROVE FALSE
    OBVIOUS
  <2> HIDE DEF L
  <2>1. Bad \subseteq Nat
    BY <1>0, SMT
  <2>2. PICK m \in Bad : \A k \in Bad : m <= k
    BY <2>1, Least, Zenon
  <2>3. m \in i..L /\ ~Good(m)
    OBVIOUS
  <2>4. m # i
    <3>1. N[i] \in Nat
      BY <1>1 DEF L
    <3>2. N[i] <= N[i]
      BY <3>1, SMT
    <3> QED
      BY <2>3, <3>2, Zenon
  <2>5. /\ m \in 1..L /\ m - 1 \in i..L /\ ~(m <= m - 1) /\ m \in (i + 1)..m
        /\ \A k \in (i + 1)..(m - 1) : k \in (i + 1)..m
    BY <1>0, <2>3, <2>4, SMTT(30)
  <2>6. Good(m - 1)
    <3> HIDE DEF Good
    <3> QED
      BY <2>2, <2>5, Zenon
  <2>7. /\ N[m - 1] \in Nat /\ N[m] \in Nat /\ (~Word(text[m]) => N[m] = N[m - 1])
        /\ (Word(text[m]) => N[m - 1] < N[m])
    <3>1. m \in 1..Len(text)
      BY <2>5 DEF L
    <3> QED
      BY <3>1, ScanAt
  <2>8. N[i] \in Nat
    BY <1>1 DEF L
  <2>9. N[i] <= N[m]
    <3>1. N[i] <= N[m - 1]
      BY <2>6
    <3>2. N[m] = N[m - 1] \/ N[m - 1] < N[m]
      BY <2>7, Zenon
    <3> QED
      BY <2>7, <2>8, <3>1, <3>2, SMTT(30)
  <2>10. (\A k \in (i + 1)..m : ~Word(text[k])) => N[i] = N[m]
    BY <2>5, <2>6, <2>7, Zenon
  <2> QED
    BY <2>3, <2>9, <2>10, Zenon
<1> HIDE DEF L, Good
<1>3. Good(j)
  BY <1>0, <1>2, Zenon
<1> QED
  BY <1>1, <1>3, Zenon DEF Good, L

\* A word makes it longer.
LEMMA ScanWord ==
  ASSUME NEW text, Len(text) \in Nat, NEW out, NEW N, Scan(text, out, N),
         NEW i \in 0..Len(text), NEW j \in 0..Len(text), NEW k \in 1..Len(text),
         i < k, k <= j, Word(text[k])
  PROVE  N[i] \in Nat /\ N[j] \in Nat /\ N[i] < N[j]
<1>1. i <= k - 1
  BY SMT
<1>2. k - 1 \in 0..Len(text) /\ k \in 0..Len(text) /\ N[k - 1] \in Nat /\ N[k] \in Nat /\ N[k - 1] < N[k]
  BY ScanAt, Zenon
<1>3. N[i] \in Nat /\ N[i] <= N[k - 1]
  BY <1>1, <1>2, ScanGrows, Zenon
<1>4. N[j] \in Nat /\ N[k] <= N[j]
  BY <1>2, ScanGrows, Zenon
<1> QED
  BY <1>2, <1>3, <1>4, SMTT(30)

\* The next word after a place.
LEMMA NextWord ==
  ASSUME NEW text, Len(text) \in Nat, NEW a \in 0..Len(text), NEW z \in (a + 1)..Len(text),
         Word(text[z])
  PROVE  \E w \in (a + 1)..z : Word(text[w]) /\ \A k \in (a + 1)..(w - 1) : ~Word(text[k])
<1> DEFINE S == {k \in (a + 1)..z : Word(text[k])}
<1>1. S \subseteq Nat /\ z \in S
  BY SMT
<1>2. PICK w \in S : \A k \in S : w <= k
  BY <1>1, Least, Zenon
<1>3. \A k \in (a + 1)..(w - 1) : k \in (a + 1)..z /\ ~(w <= k)
  BY SMT
<1> QED
  BY <1>2, <1>3, Zenon

\* White space after a word becomes one space before the next.
LEMMA SpaceIs ==
  ASSUME NEW text, Len(text) \in Nat, NEW out, NEW N, Scan(text, out, N),
         NEW a \in 1..Len(text), text[a] = Blank, \E j \in 1..(a - 1) : Word(text[j]),
         NEW w \in (a + 1)..Len(text), Word(text[w]), \A k \in (a + 1)..(w - 1) : ~Word(text[k])
  PROVE  /\ Gap(text, w) /\ N[a] \in Nat /\ N[w] \in Nat
         /\ N[w] = N[a] + 2 /\ out[N[a] + 1] = Blank
<1>1. /\ a \in 1..(w - 1) /\ w \in 1..Len(text) /\ w - 1 \in 0..Len(text) /\ a \in 0..Len(text)
      /\ a <= w - 1 /\ \A j \in a..(w - 1) : j = a \/ j \in (a + 1)..(w - 1)
  BY SMT
<1>2. ~Word(Blank)
  BY DEF Word
<1>3. Gap(text, w)
  BY <1>1, <1>2, Zenon DEF Gap
<1>4. N[w] = N[w - 1] + 2 /\ out[N[w] - 1] = Blank
  <2>1. w \in 1..Len(text)
    BY <1>1
  <2>2. Word(text[w]) /\ Gap(text, w) => N[w] = N[w - 1] + 2 /\ out[N[w] - 1] = Blank
    BY <2>1, ScanAt
  <2> QED
    BY <1>3, <2>2
<1>5. N[a] \in Nat /\ N[a] = N[w - 1]
  <2>1. w - 1 \in 0..Len(text) /\ a \in 0..Len(text) /\ a <= w - 1
    BY <1>1
  <2> QED
    BY <2>1, ScanGrows
<1>6. N[w] \in Nat /\ N[w] - 1 = N[a] + 1
  BY <1>4, <1>5, SMTT(30)
<1> QED
  BY <1>3, <1>4, <1>5, <1>6, Zenon

\* Where a visible character of a text is in the normalized text.
Place(text, N, a) == IF Word(text[a]) THEN N[a] ELSE N[a] + 1

\* What is there.
LEMMA PlaceIs ==
  ASSUME NEW text, Len(text) \in Nat, NEW out, NEW N, Scan(text, out, N),
         NEW a \in 1..Len(text), Visible(text, a)
  PROVE  Place(text, N, a) \in 1..Len(out) /\ out[Place(text, N, a)] = text[a]
<1> DEFINE L == Len(text)
<1>0. L \in 0..L /\ a \in 0..L /\ N[L] = Len(out) /\ a <= L /\ L <= L
  BY SMT DEF Scan
<1>1. CASE Word(text[a])
  <2>1. N[a - 1] \in Nat /\ N[a] \in Nat /\ N[a - 1] < N[a] /\ out[N[a]] = text[a]
    BY <1>1, ScanAt
  <2>2. N[L] \in Nat /\ N[a] <= N[L]
    BY <1>0, ScanGrows, SMTT(30)
  <2>3. N[a] \in 1..Len(out)
    BY <1>0, <2>1, <2>2, SMTT(30)
  <2> QED
    BY <1>1, <2>1, <2>3, Zenon DEF Place
<1>2. CASE ~Word(text[a])
  <2>1. /\ text[a] = Blank /\ \E j \in 1..(a - 1) : Word(text[j])
        /\ \E j \in (a + 1)..L : Word(text[j])
    BY <1>2 DEF Visible
  <2>2. PICK z \in (a + 1)..L : Word(text[z])
    BY <2>1
  <2>3. PICK w \in (a + 1)..z : Word(text[w]) /\ \A k \in (a + 1)..(w - 1) : ~Word(text[k])
    BY <1>0, <2>2, NextWord, SMTT(30)
  <2>4. w \in (a + 1)..L /\ w \in 0..L /\ w <= L
    BY <1>0, SMTT(30)
  <2>5. N[a] \in Nat /\ N[w] \in Nat /\ N[w] = N[a] + 2 /\ out[N[a] + 1] = Blank
    <3>1. \E j \in 1..(a - 1) : Word(text[j])
      BY <2>1
    <3>2. w \in (a + 1)..Len(text) /\ text[a] = Blank
      BY <2>1, <2>4, SMTT(30)
    <3> QED
      BY <2>3, <3>1, <3>2, SpaceIs, SMTT(30)
  <2>6. N[L] \in Nat /\ N[w] <= N[L]
    BY <1>0, <2>4, ScanGrows, SMTT(30)
  <2>7. N[a] + 1 \in 1..Len(out)
    BY <1>0, <2>5, <2>6, SMTT(30)
  <2> QED
    BY <1>2, <2>1, <2>5, <2>7, Zenon DEF Place
<1> QED
  BY <1>1, <1>2

\* Every character of the normalized text comes from one.
LEMMA PlaceOf ==
  ASSUME NEW text, Len(text) \in Nat, NEW out, NEW N, Scan(text, out, N), NEW m \in 1..Len(out)
  PROVE  \E a \in 1..Len(text) : Visible(text, a) /\ Place(text, N, a) = m
<1> DEFINE L == Len(text)
           S == {i \in 0..L : m <= N[i]}
<1>0. L \in 0..L /\ N[L] = Len(out) /\ N[0] = 0 /\ \A i \in 0..L : N[i] \in Nat
  <2>1. L \in 0..L
    BY SMT
  <2> QED
    BY <2>1, Zenon DEF Scan
<1>1. S \subseteq Nat /\ L \in S
  BY <1>0, SMT
<1>2. PICK i \in S : \A k \in S : i <= k
  BY <1>1, Least, Zenon
<1>3. i \in 1..L /\ i - 1 \in 0..L /\ ~(i <= i - 1) /\ m \in Nat /\ m > 0 /\ m <= N[i]
  <2>1. i \in 0..L /\ m <= N[i] /\ N[0] = 0 /\ N[L] \in Nat /\ N[L] = Len(out)
    BY <1>0
  <2>2. m \in Nat /\ m > 0
    BY <2>1, SMT
  <2>3. i # 0
    BY <2>1, <2>2, SMTT(30)
  <2> QED
    BY <2>1, <2>2, <2>3, SMTT(30)
<1>4. ~(m <= N[i - 1])
  BY <1>2, <1>3, Zenon
<1>5. /\ N[i - 1] \in Nat /\ N[i] \in Nat
      /\ ~Word(text[i]) => N[i] = N[i - 1]
      /\ Word(text[i]) /\ Gap(text, i) => N[i] = N[i - 1] + 2
      /\ Word(text[i]) /\ ~Gap(text, i) => N[i] = N[i - 1] + 1
  <2>1. i \in 1..Len(text)
    BY <1>3
  <2> QED
    BY ONLY Len(text) \in Nat, Scan(text, out, N), <2>1, ScanAt, SMTT(30)
<1>6. Word(text[i])
  BY <1>3, <1>4, <1>5, Zenon
<1>7. CASE m = N[i]
  BY <1>3, <1>6, <1>7, Zenon DEF Visible, Place
<1>8. CASE m # N[i]
  <2>1. Gap(text, i) /\ N[i - 1] + 1 = m
    <3>1. Gap(text, i)
      <4>1. ~(N[i] = N[i - 1] + 1)
        BY <1>3, <1>4, <1>5, <1>8, SMTT(30)
      <4> QED
        BY <1>5, <1>6, <4>1, SMTT(30)
    <3>2. N[i] = N[i - 1] + 2
      BY <1>5, <1>6, <3>1, SMTT(30)
    <3>3. N[i - 1] + 1 = m
      BY <1>3, <1>4, <1>5, <1>8, <3>2, SMTT(30)
    <3> QED
      BY <3>1, <3>3
  <2>2. PICK b \in 1..(i - 1) :
          /\ text[b] = Blank /\ \A j \in b..(i - 1) : ~Word(text[j])
          /\ \E j \in 1..(b - 1) : Word(text[j])
    BY <2>1, SMTT(30) DEF Gap
  <2>3. /\ b \in 1..L /\ b \in 0..L /\ b <= i - 1 /\ i \in (b + 1)..L
        /\ b \in b..(i - 1) /\ \A j \in (b + 1)..(i - 1) : j \in b..(i - 1)
    BY <1>3, SMT
  <2>4. Visible(text, b)
    BY <1>6, <2>2, <2>3, Zenon DEF Visible
  <2>5. ~Word(text[b]) /\ \A j \in (b + 1)..(i - 1) : ~Word(text[j])
    BY <2>2, <2>3, Zenon
  <2>6. N[b] = N[i - 1]
    <3>1. b \in 0..L /\ i - 1 \in 0..L /\ b <= i - 1
      BY <1>3, <2>3
    <3>2. (\A k \in (b + 1)..(i - 1) : ~Word(text[k])) => N[b] = N[i - 1]
      BY <3>1, ScanGrows
    <3> QED
      BY <2>5, <3>2
  <2>7. Place(text, N, b) = m
    BY <2>1, <2>5, <2>6, Zenon DEF Place
  <2> QED
    BY <2>3, <2>4, <2>7, SMTT(30)
<1> QED
  BY <1>7, <1>8

\* Nothing is visible between two characters when their places follow each other.
LEMMA PlacesFollow ==
  ASSUME NEW text, Len(text) \in Nat, NEW out, NEW N, Scan(text, out, N),
         NEW a \in 1..Len(text), Visible(text, a), NEW b \in 1..Len(text), Visible(text, b)
  PROVE  Adjacent(text, a, b) <=> Place(text, N, b) = Place(text, N, a) + 1
<1> DEFINE L == Len(text)
           none == \A k \in (a + 1)..(b - 1) : ~Word(text[k])
<1>0. a \in 0..L /\ b \in 0..L /\ b - 1 \in 0..L /\ a \in Int /\ b \in Int
  BY SMT
<1>1. ~Word(Blank) /\ Blank \notin Format
  BY InspectionAssumption DEF InspectionAssumption, Word
<1>2. \A x : ~Word(x) <=> x \in Format \/ x = Blank
  BY DEF Word
<1>3. /\ Word(text[a]) => Place(text, N, a) = N[a]
      /\ Word(text[b]) => Place(text, N, b) = N[b]
      /\ ~Word(text[a]) => Place(text, N, a) = N[a] + 1 /\ text[a] = Blank
                           /\ \E j \in 1..(a - 1) : Word(text[j])
      /\ ~Word(text[b]) => Place(text, N, b) = N[b] + 1 /\ text[b] = Blank
  BY Zenon DEF Place, Visible
<1>4. N[a] \in Nat /\ N[b] \in Nat /\ N[b - 1] \in Nat
  BY <1>0, Zenon DEF Scan
<1>5. /\ Word(text[b]) /\ Gap(text, b) => N[b] = N[b - 1] + 2
      /\ Word(text[b]) /\ ~Gap(text, b) => N[b] = N[b - 1] + 1
      /\ ~Word(text[b]) => N[b] = N[b - 1]
  BY ScanAt
<1>6. a < b /\ none => N[a] = N[b - 1]
  <2> SUFFICES ASSUME a < b, none PROVE N[a] = N[b - 1]
    OBVIOUS
  <2>1. a <= b - 1
    BY <1>0, SMTT(30)
  <2>2. none => N[a] = N[b - 1]
    BY <1>0, <2>1, ScanGrows, SMTT(30)
  <2> QED
    BY <2>2
<1>7. b <= a => N[b] <= N[a]
  BY <1>0, ScanGrows, SMTT(30)
<1>8. ASSUME a < b, ~none
      PROVE  \E w \in (a + 1)..(b - 1) : Word(text[w]) /\ \A k \in (a + 1)..(w - 1) : ~Word(text[k])
  <2>1. PICK z \in (a + 1)..(b - 1) : Word(text[z])
    BY <1>8
  <2>2. z \in (a + 1)..L
    BY <1>0, SMTT(30)
  <2>3. PICK w \in (a + 1)..z : Word(text[w]) /\ \A k \in (a + 1)..(w - 1) : ~Word(text[k])
    BY <1>0, <2>1, <2>2, NextWord, SMTT(30)
  <2>4. w \in (a + 1)..(b - 1)
    BY <1>0, <2>2, SMTT(30)
  <2> QED
    BY <2>3, <2>4, SMTT(30)
<1>9. CASE Word(text[a]) /\ Word(text[b])
  <2>1. Adjacent(text, a, b) <=> a < b /\ none /\ ~Gap(text, b)
    <3>1. Adjacent(text, a, b) <=> a < b /\ \A k \in (a + 1)..(b - 1) : text[k] \in Format
      BY <1>1, <1>9, Zenon DEF Adjacent
    <3>2. ASSUME a < b, \A k \in (a + 1)..(b - 1) : text[k] \in Format, Gap(text, b) PROVE FALSE
      <4>1. PICK c \in 1..(b - 1) : text[c] = Blank /\ \A j \in c..(b - 1) : ~Word(text[j])
        BY <3>2 DEF Gap
      <4>2. a \in c..(b - 1) \/ c \in (a + 1)..(b - 1)
        BY <1>0, <3>2, SMTT(30)
      <4> QED
        BY <1>1, <1>9, <3>2, <4>1, <4>2, ZenonT(60)
    <3>3. ASSUME a < b, none, ~Gap(text, b), NEW k \in (a + 1)..(b - 1) PROVE text[k] \in Format
      <4> SUFFICES ASSUME text[k] = Blank PROVE FALSE
        BY <1>2, <3>3, Zenon
      <4>1. /\ k \in 1..(b - 1) /\ a \in 1..(k - 1)
            /\ \A j \in k..(b - 1) : j \in (a + 1)..(b - 1)
        BY <1>0, <3>3, SMTT(30)
      <4>2. Gap(text, b)
        BY <1>9, <3>3, <4>1, Zenon DEF Gap
      <4> QED
        BY <3>3, <4>2
    <3> QED
      BY <1>2, <3>1, <3>2, <3>3, ZenonT(60)
  <2>2. ASSUME a < b, none, ~Gap(text, b) PROVE N[b] = N[a] + 1
    BY <1>5, <1>6, <1>9, <2>2, Zenon
  <2>3. ASSUME N[b] = N[a] + 1 PROVE a < b /\ none /\ ~Gap(text, b)
    <3>1. a < b
      BY <1>0, <1>4, <1>7, <2>3, SMTT(30)
    <3>2. a <= b - 1
      BY <1>0, <3>1, SMTT(30)
    <3>3. N[a] <= N[b - 1]
      BY <1>0, <3>2, ScanGrows, SMTT(30)
    <3>4. ~Gap(text, b)
      BY <1>4, <1>5, <1>9, <2>3, <3>3, SMTT(30)
    <3>5. N[b - 1] = N[a]
      BY <1>4, <1>5, <1>9, <2>3, <3>4, SMTT(30)
    <3>6. ASSUME NEW k \in (a + 1)..(b - 1), Word(text[k]) PROVE FALSE
      <4>1. k \in 1..L /\ a < k /\ k <= b - 1
        BY <1>0, SMT
      <4>2. N[a] < N[b - 1]
        BY <1>0, <3>6, <4>1, ScanWord, SMTT(30)
      <4> QED
        BY <1>4, <3>5, <4>2, SMTT(30)
    <3> QED
      BY <3>1, <3>4, <3>6, SMTT(30)
  <2> QED
    BY <1>3, <1>9, <2>1, <2>2, <2>3, Zenon
<1>10. ~Word(text[a]) \/ ~Word(text[b]) =>
         (Adjacent(text, a, b) <=> a < b /\ (Word(text[a]) \/ Word(text[b])) /\ none)
  <2>1. ~Word(text[a]) \/ ~Word(text[b]) => Blank \in {text[a], text[b]}
    BY <1>3, Zenon
  <2> QED
    BY <1>2, <2>1, Zenon DEF Adjacent
<1>11. CASE Word(text[a]) /\ ~Word(text[b])
  <2>1. Adjacent(text, a, b) <=> a < b /\ none
    BY <1>10, <1>11, Zenon
  <2>2. ASSUME a < b, none PROVE N[b] = N[a]
    BY <1>5, <1>6, <1>11, <2>2, Zenon
  <2>3. ASSUME N[b] = N[a] PROVE a < b /\ none
    <3>1. a < b
      <4> SUFFICES ASSUME ~(a < b) PROVE FALSE
        OBVIOUS
      <4>1. a # b
        BY <1>11, Zenon
      <4>2. b < a /\ a <= a
        BY <1>0, <4>1, SMTT(30)
      <4>3. N[b] < N[a]
        BY <1>0, <1>11, <4>2, ScanWord, SMTT(30)
      <4> QED
        BY <1>4, <2>3, <4>3, SMTT(30)
    <3>2. ASSUME NEW k \in (a + 1)..(b - 1), Word(text[k]) PROVE FALSE
      <4>1. k \in 1..L /\ a < k /\ k <= b
        BY <1>0, SMT
      <4>2. N[a] < N[b]
        BY <1>0, <3>2, <4>1, ScanWord, SMTT(30)
      <4> QED
        BY <1>4, <2>3, <4>2, SMTT(30)
    <3> QED
      BY <3>1, <3>2
  <2>4. Place(text, N, b) = Place(text, N, a) + 1 <=> N[b] = N[a]
    <3>1. Place(text, N, b) = N[b] + 1 /\ Place(text, N, a) = N[a]
      BY <1>3, <1>11, Zenon
    <3> QED
      BY <1>4, <3>1, SMTT(30)
  <2> QED
    BY <2>1, <2>2, <2>3, <2>4, Zenon
<1>12. ASSUME ~Word(text[a]), NEW w \in (a + 1)..L, Word(text[w]),
              \A k \in (a + 1)..(w - 1) : ~Word(text[k])
       PROVE  N[w] \in Nat /\ N[w] = N[a] + 2
  <2>1. text[a] = Blank /\ \E j \in 1..(a - 1) : Word(text[j])
    BY <1>3, <1>12, Zenon
  <2>2. w \in (a + 1)..Len(text)
    OBVIOUS
  <2> QED
    BY <1>12, <2>1, <2>2, SpaceIs, SMTT(30)
<1>13. CASE ~Word(text[a]) /\ Word(text[b])
  <2>1. Adjacent(text, a, b) <=> a < b /\ none
    BY <1>10, <1>13, Zenon
  <2>2. ASSUME a < b, none PROVE N[b] = N[a] + 2
    <3>1. b \in (a + 1)..L
      BY <1>0, <2>2, SMTT(30)
    <3> QED
      BY <1>12, <1>13, <2>2, <3>1, Zenon
  <2>3. ASSUME N[b] = N[a] + 2 PROVE a < b /\ none
    <3>1. a < b
      BY <1>0, <1>4, <1>7, <2>3, SMTT(30)
    <3>2. ASSUME ~none PROVE FALSE
      <4>1. PICK w \in (a + 1)..(b - 1) :
              Word(text[w]) /\ \A k \in (a + 1)..(w - 1) : ~Word(text[k])
        BY <1>8, <3>1, <3>2, Zenon
      <4>2. w \in (a + 1)..L /\ w \in 0..L /\ w < b /\ b <= b
        BY <1>0, SMT
      <4>3. N[w] \in Nat /\ N[w] = N[a] + 2
        BY <1>12, <1>13, <4>1, <4>2, Zenon
      <4>4. N[w] < N[b]
        BY <1>0, <1>13, <4>2, ScanWord, SMTT(30)
      <4> QED
        BY <1>4, <2>3, <4>3, <4>4, SMTT(30)
    <3> QED
      BY <3>1, <3>2, SMTT(30)
  <2>4. Place(text, N, b) = Place(text, N, a) + 1 <=> N[b] = N[a] + 2
    <3>1. Place(text, N, b) = N[b] /\ Place(text, N, a) = N[a] + 1
      BY <1>3, <1>13, Zenon
    <3> QED
      BY <1>4, <3>1, SMTT(30)
  <2> QED
    BY <2>1, <2>2, <2>3, <2>4, Zenon
<1>14. CASE ~Word(text[a]) /\ ~Word(text[b])
  <2>1. ~Adjacent(text, a, b)
    BY <1>10, <1>14, Zenon
  <2>2. ASSUME N[b] = N[a] + 1 PROVE FALSE
    <3>1. a < b
      BY <1>0, <1>4, <1>7, <2>2, SMT
    <3>2. ~none
      <4>1. N[b] = N[b - 1]
        BY <1>5, <1>14, Zenon
      <4>2. N[b - 1] # N[a]
        BY <1>4, <2>2, <4>1, SMTT(30)
      <4> QED
        BY <1>6, <3>1, <4>2, Zenon
    <3>3. PICK w \in (a + 1)..(b - 1) :
            Word(text[w]) /\ \A k \in (a + 1)..(w - 1) : ~Word(text[k])
      BY <1>8, <3>1, <3>2, Zenon
    <3>4. w \in (a + 1)..L /\ w \in 0..L /\ w <= b
      BY <1>0, SMT
    <3>5. N[w] \in Nat /\ N[w] = N[a] + 2
      BY <1>12, <1>14, <3>3, <3>4, Zenon
    <3>6. N[w] <= N[b]
      BY <1>0, <3>4, ScanGrows, SMTT(30)
    <3> QED
      BY <1>4, <2>2, <3>5, <3>6, SMTT(30)
  <2>3. Place(text, N, b) = Place(text, N, a) + 1 <=> N[b] = N[a] + 1
    <3>1. Place(text, N, b) = N[b] + 1 /\ Place(text, N, a) = N[a] + 1
      BY <1>3, <1>14, Zenon
    <3> QED
      BY <1>4, <3>1, SMTT(30)
  <2> QED
    BY <2>1, <2>2, <2>3, Zenon
<1> QED
  BY <1>9, <1>11, <1>13, <1>14, Zenon

\* The normalized text in small letters.
LEMMA LowerIs ==
  ASSUME NEW out \in Seq(STRING \cup {Blank})
  PROVE  /\ ToLower(out) \in Seq(Chars) /\ Len(ToLower(out)) = Len(out) /\ Len(out) \in Nat
         /\ DOMAIN ToLower(out) = 1..Len(out)
         /\ \A m \in 1..Len(out) : ToLower(out)[m] = Small(out[m])
<1>1. Len(out) \in Nat /\ DOMAIN out = 1..Len(out) /\ \A m \in 1..Len(out) : out[m] \in STRING \cup {Blank}
  BY SMT
<1>2. \A m \in 1..Len(out) : Small(out[m]) \in Chars
  BY <1>1, Zenon DEF Chars
<1>3. ToLower(out) = [m \in 1..Len(out) |-> Small(out[m])]
  BY <1>1, Zenon DEF ToLower
<1>4. ToLower(out) \in Seq(Chars) /\ Len(ToLower(out)) = Len(out)
  BY <1>1, <1>2, <1>3, SMTT(30)
<1> QED
  BY <1>1, <1>3, <1>4, Zenon

\* Normalize gives a text of these characters.
LEMMA NormalizeIs == ASSUME NEW text \in Seq(STRING) PROVE Normalize(text) \in Seq(Chars)
<1>1. PICK out, N : Scan(text, out, N) /\ Normalize(text) = ToLower(out)
  BY ScanIs
<1>2. out \in Seq(STRING \cup {Blank})
  BY <1>1 DEF Scan
<1> QED
  BY <1>1, <1>2, LowerIs, Zenon

\* The places of characters that are adjacent one after the other.
LEMMA PlacesInRow ==
  ASSUME NEW n \in Nat, NEW P, \A k \in 1..n : P[k] \in Nat, \A k \in 2..n : P[k] = P[k - 1] + 1,
         NEW k \in 1..n
  PROVE  P[n] - n + k = P[k]
<1> DEFINE Bad == {e \in 0..(n - k) : P[k + e] # P[k] + e}
<1>1. Bad = {}
  <2> SUFFICES ASSUME Bad # {} PROVE FALSE
    OBVIOUS
  <2>1. Bad \subseteq Nat
    BY SMT
  <2>2. PICK e \in Bad : \A x \in Bad : e <= x
    BY <2>1, Least, Zenon
  <2>3. e \in 0..(n - k) /\ P[k + e] # P[k] + e
    OBVIOUS
  <2>4. e # 0
    <3>1. P[k] \in Nat
      OBVIOUS
    <3>2. k + 0 = k /\ P[k] + 0 = P[k]
      BY <3>1, SMT
    <3> QED
      BY <2>3, <3>2, Zenon
  <2>5. e - 1 \in 0..(n - k) /\ ~(e <= e - 1) /\ k + e \in 2..n /\ (k + e) - 1 = k + (e - 1) /\ e \in Nat
    BY <2>3, <2>4, SMT
  <2>6. P[k + (e - 1)] = P[k] + (e - 1)
    BY <2>2, <2>5, Zenon
  <2>7. P[k + e] = P[k + (e - 1)] + 1
    BY <2>5, Zenon
  <2>8. P[k] \in Nat
    OBVIOUS
  <2>9. P[k + e] = P[k] + e
    BY <2>5, <2>6, <2>7, <2>8, SMTT(30)
  <2> QED
    BY <2>3, <2>9
<1>2. n - k \in 0..(n - k) /\ k + (n - k) = n
  BY SMT
<1>3. P[n] = P[k] + (n - k)
  BY <1>1, <1>2, Zenon
<1>4. P[k] \in Nat
  OBVIOUS
<1> QED
  BY <1>3, <1>4, SMTT(30)

\* A pattern is part of the normalized text when it occurs in the text.
LEMMA OccursIs ==
  ASSUME NEW text \in Seq(STRING), NEW i \in Keywords
  PROVE  Within(ToLower(Rules[i].pattern), Normalize(text)) <=> Occurs(Rules[i].pattern, text)
<1> DEFINE p == Rules[i].pattern
           low == ToLower(p)
           norm == Normalize(text)
           n == Len(p)
           L == Len(text)
<1>1. /\ p \in Seq(STRING) /\ low \in Seq(Chars) /\ low # <<>> /\ Len(low) = n
      /\ \A k \in 1..n : low[k] = Small(p[k])
  BY LowIs, SMTT(30)
<1> HIDE DEF p, low
<1>2. n \in Nat /\ DOMAIN p = 1..n /\ L \in Nat /\ DOMAIN text = 1..L /\ n > 0
  BY <1>1, SMT
<1>3. PICK out, N : Scan(text, out, N) /\ norm = ToLower(out)
  BY ScanIs
<1>4. out \in Seq(STRING \cup {Blank})
  BY <1>3 DEF Scan
<1>5. /\ DOMAIN norm = 1..Len(out) /\ Len(out) \in Nat
      /\ \A m \in 1..Len(out) : norm[m] = Small(out[m])
  BY <1>3, <1>4, LowerIs, Zenon
<1> HIDE DEF norm, n, L
<1>6. ASSUME NEW a \in 1..L, Visible(text, a)
      PROVE  Place(text, N, a) \in 1..Len(out) /\ out[Place(text, N, a)] = text[a]
  BY <1>2, <1>3, <1>6, PlaceIs, ZenonT(60) DEF L
<1>7. ASSUME NEW m \in 1..Len(out) PROVE \E a \in 1..L : Visible(text, a) /\ Place(text, N, a) = m
  <2>1. Len(text) \in Nat
    BY <1>2 DEF L
  <2>2. Scan(text, out, N)
    BY <1>3
  <2> QED
    BY <2>1, <2>2, PlaceOf, SMTT(30) DEF L
<1>8. ASSUME NEW a \in 1..L, Visible(text, a), NEW b \in 1..L, Visible(text, b)
      PROVE  Adjacent(text, a, b) <=> Place(text, N, b) = Place(text, N, a) + 1
  BY <1>2, <1>3, <1>8, PlacesFollow, ZenonT(60) DEF L
<1>9. ASSUME Within(low, norm) PROVE Occurs(p, text)
  <2>1. PICK j \in 1..Len(out) : n <= j /\ \A k \in 1..n : low[k] = norm[j - n + k]
    BY <1>1, <1>5, <1>9, Zenon DEF Within, EndsAt
  <2>2. \A k \in 1..n : j - n + k \in 1..Len(out)
    BY <1>2, <1>5, <2>1, SMTT(30)
  <2> DEFINE at == [k \in 1..n |-> CHOOSE a \in 1..L : Visible(text, a) /\ Place(text, N, a) = j - n + k]
  <2>3. ASSUME NEW k \in 1..n
        PROVE  at[k] \in 1..L /\ Visible(text, at[k]) /\ Place(text, N, at[k]) = j - n + k
    <3>1. \E a \in 1..L : Visible(text, a) /\ Place(text, N, a) = j - n + k
      BY <1>7, <2>2, Zenon
    <3> QED
      BY <3>1, Zenon
  <2>4. at \in [1..n -> 1..L]
    <3>1. at = [k \in 1..n |-> at[k]]
      OBVIOUS
    <3> HIDE DEF at
    <3> QED
      BY <2>3, <3>1, SMTT(30)
  <2> HIDE DEF at
  <2>5. ASSUME NEW k \in 1..n PROVE Small(text[at[k]]) = Small(p[k])
    <3>1. out[j - n + k] = text[at[k]]
      BY <1>6, <2>3, Zenon
    <3>2. low[k] = Small(out[j - n + k])
      BY <1>5, <2>1, <2>2, Zenon
    <3> QED
      BY <1>1, <3>1, <3>2, Zenon
  <2>6. ASSUME NEW k \in 2..n PROVE Adjacent(text, at[k - 1], at[k])
    <3>1. k \in 1..n /\ k - 1 \in 1..n /\ j - n + k = (j - n + (k - 1)) + 1
      BY <1>2, SMTT(30)
    <3>2. Place(text, N, at[k]) = Place(text, N, at[k - 1]) + 1
      BY <2>3, <3>1, Zenon
    <3> QED
      BY <1>8, <2>3, <3>1, <3>2, Zenon
  <2> QED
    BY <1>2, <2>3, <2>4, <2>5, <2>6, Zenon DEF Occurs, n
<1>10. ASSUME Occurs(p, text) PROVE Within(low, norm)
  <2>1. PICK at \in [1..n -> 1..L] :
          /\ \A k \in 1..n : Small(text[at[k]]) = Small(p[k]) /\ Visible(text, at[k])
          /\ \A k \in 2..n : Adjacent(text, at[k - 1], at[k])
    BY <1>2, <1>10, Zenon DEF Occurs, n
  <2> DEFINE P == [k \in 1..n |-> Place(text, N, at[k])]
  <2>2. \A k \in 1..n : at[k] \in 1..L
    BY <2>1
  <2>3. ASSUME NEW k \in 1..n PROVE P[k] \in 1..Len(out) /\ out[P[k]] = text[at[k]]
    <3>1. P[k] = Place(text, N, at[k])
      BY Zenon
    <3> HIDE DEF P
    <3> QED
      BY <1>6, <2>1, <2>2, <3>1, Zenon
  <2>4. ASSUME NEW k \in 2..n PROVE P[k] = P[k - 1] + 1
    <3>1. k \in 1..n /\ k - 1 \in 1..n
      BY <1>2, SMTT(30)
    <3>2. P[k] = Place(text, N, at[k]) /\ P[k - 1] = Place(text, N, at[k - 1])
      BY <3>1, Zenon
    <3> HIDE DEF P
    <3>3. /\ at[k - 1] \in 1..L /\ at[k] \in 1..L /\ Visible(text, at[k - 1]) /\ Visible(text, at[k])
          /\ Adjacent(text, at[k - 1], at[k])
      BY <2>1, <2>2, <3>1, Zenon
    <3> QED
      BY <1>8, <3>2, <3>3, Zenon
  <2> HIDE DEF P
  <2>5. \A k \in 1..n : P[k] \in Nat
    BY <1>5, <2>3, SMTT(30)
  <2>6. ASSUME NEW k \in 1..n PROVE P[n] - n + k = P[k]
    BY <1>2, <2>4, <2>5, PlacesInRow, Zenon
  <2>7. P[n] \in 1..Len(out) /\ n <= P[n]
    <3>1. n \in 1..n /\ 1 \in 1..n
      BY <1>2, SMTT(30)
    <3>2. P[n] \in 1..Len(out) /\ P[1] \in 1..Len(out) /\ P[n] - n + 1 = P[1]
      BY <2>3, <2>6, <3>1, Zenon
    <3>3. n <= P[n]
      BY <1>2, <1>5, <3>2, SMTT(30)
    <3> QED
      BY <3>2, <3>3, SMTT(30)
  <2>8. ASSUME NEW k \in 1..n PROVE low[k] = norm[P[n] - n + k]
    <3>1. low[k] = Small(p[k]) /\ Small(text[at[k]]) = Small(p[k])
      BY <1>1, <2>1, Zenon
    <3>2. norm[P[k]] = Small(text[at[k]])
      BY <1>5, <2>3, Zenon
    <3> QED
      BY <2>6, <3>1, <3>2, Zenon
  <2> QED
    BY <1>1, <1>5, <2>7, <2>8, Zenon DEF Within, EndsAt
<1> QED
  BY <1>9, <1>10 DEF p, low, norm
-----------------------------------------------------------------------------
\* The rules that the normalized text matches are those that occur in the text.
LEMMA MatchesOccur ==
  ASSUME NEW text \in Seq(STRING)
  PROVE  Matches(Normalize(text)) = {r \in Keywords : Occurs(Rules[r].pattern, text)}
<1>1. Normalize(text) \in Seq(Chars)
  BY NormalizeIs
<1>2. Matches(Normalize(text)) =
        {i \in Keywords : Within(ToLower(Rules[i].pattern), Normalize(text))}
  BY <1>1, MatchesAre, SMTT(30)
<1>3. \A i \in Keywords :
        Within(ToLower(Rules[i].pattern), Normalize(text)) <=> Occurs(Rules[i].pattern, text)
  BY OccursIs, Zenon
<1> QED
  BY <1>2, <1>3, Zenon

\* There are finitely many rules.
LEMMA KeywordsFinite == IsFiniteSet(Keywords)
<1>1. Len(Rules) \in Nat /\ DOMAIN Rules = 1..Len(Rules)
  BY RulesAssumption, SMTT(30)
<1>2. IsFiniteSet(1..Len(Rules))
  BY <1>1, FS_Interval, SMTT(30)
<1>3. Keywords \in SUBSET (1..Len(Rules))
  BY <1>1, Zenon DEF Keywords
<1> QED
  BY <1>2, <1>3, FS_Subset, Zenon

\* The weight of a rule is positive.
LEMMA WeightIs == ASSUME NEW i \in Keywords PROVE Weight(i) \in Nat /\ Weight(i) > 0
<1>1. Rules[i] \in [pattern : Seq(STRING), action : STRING, weight : Int]
  BY RulesAssumption, ElementIs, Zenon DEF Keywords
<1>2. Rules[i].weight \in Int
  BY <1>1, Zenon
<1> QED
  BY <1>2, SMTT(30) DEF Weight

\* As many marks for each of some rules as it has weight.
Marks(s) == {m \in s \X Nat : m[2] \in 1..Weight(m[1])}

\* A mark is that of a rule.
LEMMA MarkIs ==
  ASSUME NEW s, NEW m
  PROVE  m \in Marks(s) <=> \E i \in s, k \in Nat : m = <<i, k>> /\ k \in 1..Weight(i)
<1>1. m \in s \X Nat <=> \E i \in s, k \in Nat : m = <<i, k>>
  BY SMT
<1> QED
  BY <1>1 DEF Marks

\* A rule brings its own marks.
LEMMA MarksOfOne ==
  ASSUME NEW x \in Keywords
  PROVE  IsFiniteSet(Marks({x})) /\ Cardinality(Marks({x})) = Weight(x)
<1>1. Weight(x) \in Nat
  BY WeightIs
<1>2. Marks({x}) = {x} \X (1..Weight(x))
  <2>1. \A k : k \in 1..Weight(x) => k \in Nat
    BY <1>1, SMT
  <2>2. ASSUME NEW m \in Marks({x}) PROVE m \in {x} \X (1..Weight(x))
    BY Zenon DEF Marks
  <2>3. ASSUME NEW m \in {x} \X (1..Weight(x)) PROVE m \in Marks({x})
    BY <2>1 DEF Marks
  <2> QED
    BY <2>2, <2>3, Zenon
<1>3. IsFiniteSet({x}) /\ Cardinality({x}) = 1
  BY FS_Singleton
<1>4. IsFiniteSet(1..Weight(x)) /\ Cardinality(1..Weight(x)) = Weight(x)
  BY <1>1, FS_Interval, SMTT(30)
<1>5. /\ IsFiniteSet({x} \X (1..Weight(x)))
      /\ Cardinality({x} \X (1..Weight(x))) = Cardinality({x}) * Cardinality(1..Weight(x))
  BY <1>3, <1>4, FS_Product, Zenon
<1>6. \A n \in Nat : 1 * n = n
  BY SMT
<1> QED
  BY <1>1, <1>2, <1>3, <1>4, <1>5, <1>6, Zenon

\* They add up.
LEMMA MarksAdd ==
  ASSUME NEW s, s \subseteq Keywords, NEW x \in s, IsFiniteSet(Marks(s \ {x}))
  PROVE  /\ IsFiniteSet(Marks(s)) /\ Cardinality(Marks(s \ {x})) \in Nat
         /\ Cardinality(Marks(s)) = Weight(x) + Cardinality(Marks(s \ {x}))
<1> DEFINE A == Marks(s \ {x})
           B == Marks({x})
<1>1. IsFiniteSet(B) /\ Cardinality(B) = Weight(x) /\ Weight(x) \in Nat
  BY MarksOfOne, WeightIs, SMTT(30)
<1>2. Marks(s) = A \cup B
  <2>1. \A i : i \in s <=> i \in s \ {x} \/ i \in {x}
    OBVIOUS
  <2>2. ASSUME NEW m PROVE m \in Marks(s) <=> m \in A \/ m \in B
    <3>1. m \in Marks(s) <=> \E i \in s, k \in Nat : m = <<i, k>> /\ k \in 1..Weight(i)
      BY MarkIs
    <3>2. m \in A <=> \E i \in s \ {x}, k \in Nat : m = <<i, k>> /\ k \in 1..Weight(i)
      BY MarkIs
    <3>3. m \in B <=> \E i \in {x}, k \in Nat : m = <<i, k>> /\ k \in 1..Weight(i)
      BY MarkIs
    <3> HIDE DEF A, B
    <3> QED
      BY <2>1, <3>1, <3>2, <3>3, Zenon
  <2> HIDE DEF A, B
  <2> QED
    BY <2>2, Zenon
<1>3. A \cap B = {}
  <2>1. \A i, k, j, l : <<i, k>> = <<j, l>> => i = j
    BY SMT
  <2>2. ASSUME NEW m, m \in A, m \in B PROVE FALSE
    <3>1. PICK i \in s \ {x}, k \in Nat : m = <<i, k>>
      BY <2>2, MarkIs
    <3>2. PICK j \in {x}, l \in Nat : m = <<j, l>>
      BY <2>2, MarkIs, SMTT(30)
    <3> QED
      BY <2>1, <3>1, <3>2, Zenon
  <2> QED
    BY <2>2, Zenon
<1>4. Cardinality(A) \in Nat
  BY FS_CardinalityType
<1>5. IsFiniteSet(A \cup B)
      /\ Cardinality(A \cup B) = Cardinality(A) + Cardinality(B) - Cardinality(A \cap B)
  BY <1>1, FS_Union, Zenon
<1>6. Cardinality(A \cap B) = 0
  BY <1>3, FS_EmptySet, SMTT(30)
<1> HIDE DEF A, B
<1>7. Cardinality(A \cup B) = Weight(x) + Cardinality(A)
  BY <1>1, <1>4, <1>5, <1>6, SMT
<1> QED
  BY <1>2, <1>4, <1>5, <1>7, SMTT(30) DEF A

\* The marks of finitely many rules are finitely many.
LEMMA MarksFinite ==
  ASSUME NEW s, s \subseteq Keywords
  PROVE  IsFiniteSet(Marks(s))
<1> DEFINE Bad == {n \in Nat : \E t : t \subseteq Keywords /\ Cardinality(t) = n
                                      /\ ~IsFiniteSet(Marks(t))}
<1>1. IsFiniteSet(s) /\ Cardinality(s) \in Nat
  BY KeywordsFinite, FS_Subset, FS_CardinalityType, SMTT(30)
<1> SUFFICES ASSUME Bad # {} PROVE FALSE
  BY <1>1
<1>2. Bad \subseteq Nat
  OBVIOUS
<1>3. PICK n \in Bad : \A m \in Bad : n <= m
  BY <1>2, Least, Zenon
<1>4. PICK t : t \subseteq Keywords /\ Cardinality(t) = n /\ ~IsFiniteSet(Marks(t))
  BY <1>3
<1>5. IsFiniteSet(t)
  BY <1>4, KeywordsFinite, FS_Subset, SMTT(30)
<1>6. t # {}
  <2>1. Marks({}) = {}
    BY DEF Marks
  <2> QED
    BY <1>4, <2>1, FS_EmptySet, SMTT(30)
<1>7. PICK x : x \in t
  BY <1>6
<1>8. Cardinality(t \ {x}) = n - 1
  BY <1>4, <1>5, <1>7, FS_RemoveElement, Zenon
<1>9. n - 1 \in Nat /\ ~(n <= n - 1)
  <2>1. n # 0
    BY <1>4, <1>5, <1>6, FS_EmptySet
  <2> QED
    BY <1>2, <2>1, SMT
<1>10. IsFiniteSet(Marks(t \ {x}))
  <2>1. n - 1 \notin Bad
    BY <1>3, <1>9, Zenon
  <2>2. t \ {x} \subseteq Keywords
    BY <1>4
  <2> QED
    BY <1>8, <1>9, <2>1, <2>2, SMTT(30)
<1> QED
  BY <1>4, <1>7, <1>10, MarksAdd, SMTT(30)

\* The sum of the weights of some rules is the number of their marks.
LEMMA SumIs ==
  ASSUME NEW S, S \subseteq Keywords
  PROVE  MapThenSumSet(Weight, S) = Cardinality(Marks(S))
<1> DEFINE Pick(s) == CHOOSE x \in s : TRUE
           Step(f) == f = [s \in SUBSET S |->
                             IF s = {} THEN 0 ELSE Weight(Pick(s)) + f[s \ {Pick(s)}]]
           G == [s \in SUBSET S |-> Cardinality(Marks(s))]
           F == CHOOSE f : f = [s \in SUBSET S |->
                  IF s = {} THEN 0
                  ELSE Weight(CHOOSE x \in s : TRUE) + f[s \ {CHOOSE x \in s : TRUE}]]
<1>1. \A s \in SUBSET S : s # {} => Pick(s) \in s
  BY Zenon
<1>2. Marks({}) = {} /\ Cardinality({}) = 0
  BY FS_EmptySet DEF Marks
<1>3. ASSUME NEW s \in SUBSET S, s # {}
      PROVE  Cardinality(Marks(s)) = Weight(Pick(s)) + Cardinality(Marks(s \ {Pick(s)}))
  <2> HIDE DEF Pick
  <2>1. s \subseteq Keywords /\ s \ {Pick(s)} \subseteq Keywords /\ Pick(s) \in s
    BY <1>1, <1>3, SMTT(30)
  <2>2. IsFiniteSet(Marks(s \ {Pick(s)}))
    BY <2>1, MarksFinite, Zenon
  <2> QED
    BY <2>1, <2>2, MarksAdd, SMTT(30)
<1>4. Step(G)
  <2>1. ASSUME NEW s \in SUBSET S
        PROVE  G[s] = IF s = {} THEN 0 ELSE Weight(Pick(s)) + G[s \ {Pick(s)}]
    <3>1. s \ {Pick(s)} \in SUBSET S
      OBVIOUS
    <3>2. G[s] = Cardinality(Marks(s)) /\ G[s \ {Pick(s)}] = Cardinality(Marks(s \ {Pick(s)}))
      BY <3>1
    <3> HIDE DEF Pick, G
    <3> QED
      BY <1>2, <1>3, <3>2, Zenon
  <2> HIDE DEF Pick
  <2>2. G = [s \in SUBSET S |-> G[s]]
    OBVIOUS
  <2> HIDE DEF G
  <2> QED
    BY <2>1, <2>2, Zenon
<1>5. Step(F)
  <2>1. \E f : f = [s \in SUBSET S |->
                  IF s = {} THEN 0
                  ELSE Weight(CHOOSE x \in s : TRUE) + f[s \ {CHOOSE x \in s : TRUE}]]
    BY <1>4, Zenon
  <2> QED
    BY <2>1, Zenon
<1>6. MapThenSumSet(Weight, S) = F[S]
  BY DEF MapThenSumSet, MapThenFoldSet
<1>7. ASSUME NEW f, Step(f), NEW s \in SUBSET S
      PROVE  f[s] = IF s = {} THEN 0 ELSE Weight(Pick(s)) + f[s \ {Pick(s)}]
  <2> HIDE DEF Pick
  <2> QED
    BY <1>7, Zenon
<1> HIDE DEF F, G, Step, Pick
<1> DEFINE Bad == {n \in Nat : \E s \in SUBSET S : Cardinality(s) = n /\ F[s] # G[s]}
<1>8. Bad = {}
  <2> SUFFICES ASSUME Bad # {} PROVE FALSE
    OBVIOUS
  <2>1. Bad \subseteq Nat
    OBVIOUS
  <2>2. PICK n \in Bad : \A m \in Bad : n <= m
    BY <2>1, Least, Zenon
  <2>3. PICK s \in SUBSET S : Cardinality(s) = n /\ F[s] # G[s]
    BY <2>2, SMTT(30)
  <2>4. IsFiniteSet(s)
    BY KeywordsFinite, FS_Subset, SMTT(30)
  <2>5. s # {}
    BY <1>4, <1>5, <1>7, <2>3, Zenon
  <2>6. Pick(s) \in s /\ s \ {Pick(s)} \in SUBSET S
    BY <1>1, <2>5, SMTT(30)
  <2>7. Cardinality(s \ {Pick(s)}) = n - 1
    BY <2>3, <2>4, <2>6, FS_RemoveElement, Zenon
  <2>8. n - 1 \in Nat /\ ~(n <= n - 1)
    <3>1. n # 0
      BY <2>3, <2>4, <2>5, FS_EmptySet, SMTT(30)
    <3> QED
      BY <2>1, <3>1, SMT
  <2>9. n - 1 \notin Bad
    BY <2>2, <2>8, Zenon
  <2>10. F[s \ {Pick(s)}] = G[s \ {Pick(s)}]
    BY <2>6, <2>7, <2>8, <2>9, SMTT(30)
  <2>11. F[s] = Weight(Pick(s)) + F[s \ {Pick(s)}] /\ G[s] = Weight(Pick(s)) + G[s \ {Pick(s)}]
    BY <1>4, <1>5, <1>7, <2>5, Zenon
  <2> QED
    BY <2>3, <2>10, <2>11, Zenon
<1>9. Cardinality(S) \in Nat
  BY KeywordsFinite, FS_Subset, FS_CardinalityType, SMTT(30)
<1>10. S \in SUBSET S /\ F[S] = G[S]
  BY <1>8, <1>9, SMTT(30)
<1> QED
  BY <1>6, <1>10 DEF G

\* More rules weigh more, and the score is a number.
LEMMA ScoreIs ==
  ASSUME NEW S, S \subseteq Keywords, NEW T, T \subseteq S
  PROVE  /\ Score(S) \in Nat /\ Score(T) \in Nat
         /\ Score(T) <= Score(S)
<1>1. /\ IsFiniteSet(Marks(S)) /\ Cardinality(Marks(S)) \in Nat
      /\ T \subseteq Keywords
  BY MarksFinite, FS_CardinalityType, SMTT(30)
<1>2. Marks(T) \in SUBSET Marks(S)
  BY DEF Marks
<1>3. Cardinality(Marks(T)) \in Nat /\ Cardinality(Marks(T)) <= Cardinality(Marks(S))
  BY <1>1, <1>2, FS_Subset, FS_CardinalityType, SMTT(30)
<1>4. \A n \in Nat : Min({100, n}) = IF n <= 100 THEN n ELSE 100
  <2> SUFFICES ASSUME NEW n \in Nat PROVE Min({100, n}) = IF n <= 100 THEN n ELSE 100
    OBVIOUS
  <2>1. \E x \in {100, n} : \A y \in {100, n} : x =< y
    BY SMT
  <2>2. PICK x : x = Min({100, n}) /\ x \in {100, n} /\ \A y \in {100, n} : x =< y
    BY <2>1, Zenon DEF Min
  <2>3. x = IF n <= 100 THEN n ELSE 100
    BY <2>2, SMTT(30)
  <2> QED
    BY <2>2, <2>3, Zenon
<1>5. PICK s, t : s = Cardinality(Marks(S)) /\ t = Cardinality(Marks(T))
  OBVIOUS
<1>6. Score(S) = Min({100, s}) /\ Score(T) = Min({100, t})
  BY <1>1, <1>5, SumIs, Zenon DEF Score
<1>7. s \in Nat /\ t \in Nat /\ t <= s
  BY <1>1, <1>3, <1>5, Zenon
<1>8. Score(S) = (IF s <= 100 THEN s ELSE 100) /\ Score(T) = IF t <= 100 THEN t ELSE 100
  BY <1>4, <1>6, <1>7, Zenon
<1> QED
  BY <1>7, <1>8, SMTT(30)

\* SetToSeq lists every element of a finite set.
LEMMA ListIs ==
  ASSUME NEW S, IsFiniteSet(S)
  PROVE  /\ Cardinality(S) \in Nat /\ SetToSeq(S) \in [1..Cardinality(S) -> S]
         /\ \A x \in S : \E k \in 1..Cardinality(S) : SetToSeq(S)[k] = x
<1> DEFINE n == Cardinality(S)
           f == SetToSeq(S)
<1>1. n \in Nat /\ ExistsBijection(1..n, S)
  BY FS_CardinalityType
<1>2. \E g \in [1..n -> S] : IsInjective(g)
  BY <1>1, Zenon DEF ExistsBijection, Bijection, Injection
<1>3. f \in [1..n -> S] /\ IsInjective(f)
  BY <1>2, Zenon DEF SetToSeq
<1>4. f \in Injection(1..n, S)
  BY <1>3, Zenon DEF Injection
<1>5. Cardinality(1..n) = n
  BY <1>1, FS_Interval, SMTT(30)
<1>6. f \in Surjection(1..n, S)
  <2> HIDE DEF f
  <2> QED
    BY <1>4, <1>5, FS_Injection, SMTT(30)
<1> QED
  BY <1>1, <1>3, <1>6, Zenon DEF Surjection

\* The decisions of the loop of Elevate after each match.
Loop(f, matches, d, n) ==
  f = [i \in 0..n |-> IF i = 0 THEN d ELSE Elevated(f[i - 1], matches[i])]

\* They exist: the recursion defines a function.
LEMMA LoopExists ==
  ASSUME NEW matches, NEW d, NEW n \in Nat
  PROVE  \E f : Loop(f, matches, d, n)
<1> DEFINE Bad == {m \in Nat : ~\E f : Loop(f, matches, d, m)}
<1> SUFFICES ASSUME Bad # {} PROVE FALSE
  OBVIOUS
<1>0. Bad \subseteq Nat
  OBVIOUS
<1>1. PICK m \in Bad : \A k \in Bad : m <= k
  BY <1>0, Least, Zenon
<1>2. m # 0
  <2>1. Loop([i \in 0..0 |-> d], matches, d, 0)
    BY SMT DEF Loop
  <2> QED
    BY <2>1
<1>3. m - 1 \in Nat /\ m - 1 \notin Bad
  BY <1>1, <1>2, SMTT(30)
<1>4. PICK g : Loop(g, matches, d, m - 1)
  BY <1>3
<1> DEFINE h == [i \in 0..m |-> IF i < m THEN g[i] ELSE Elevated(g[m - 1], matches[m])]
<1>5. m \in Nat /\ m > 0
  BY <1>1, <1>2, SMTT(30)
<1>6. \A i \in 0..m : h[i] = IF i = 0 THEN d ELSE Elevated(h[i - 1], matches[i])
  <2> SUFFICES ASSUME NEW i \in 0..m
               PROVE  h[i] = IF i = 0 THEN d ELSE Elevated(h[i - 1], matches[i])
    OBVIOUS
  <2>1. CASE i < m
    <3>1. i \in 0..(m - 1) /\ (i # 0 => i - 1 \in 0..m /\ i - 1 < m)
      BY <1>5, <2>1, SMTT(30)
    <3>2. g[i] = IF i = 0 THEN d ELSE Elevated(g[i - 1], matches[i])
      BY <1>4, <3>1, Zenon DEF Loop
    <3>3. h[i] = g[i] /\ (i # 0 => h[i - 1] = g[i - 1])
      BY <2>1, <3>1, SMTT(30)
    <3> QED
      BY <3>2, <3>3, Zenon
  <2>2. CASE i = m
    <3>1. m - 1 \in 0..m /\ m - 1 < m /\ ~(m < m) /\ m # 0
      BY <1>5, SMTT(30)
    <3>2. h[i] = Elevated(g[m - 1], matches[m]) /\ h[i - 1] = g[m - 1]
      BY <2>2, <3>1
    <3> QED
      BY <2>2, <3>1, <3>2, Zenon
  <2> QED
    BY <1>5, <2>1, <2>2, SMTT(30)
<1>7. Loop(h, matches, d, m)
  <2> HIDE DEF h
  <2>1. h = [i \in 0..m |-> h[i]]
    BY DEF h
  <2> QED
    BY <1>6, <2>1, Zenon DEF Loop
<1> QED
  BY <1>1, <1>7, Zenon

\* Matches raise a decision to a block when one of them blocks, and only then.
LEMMA ElevateBlocks ==
  ASSUME NEW matches, Len(matches) \in Nat, NEW d
  PROVE  Elevate(matches, d) = "block" <=>
           d = "block" \/ \E k \in 1..Len(matches) : matches[k] = "block"
<1> DEFINE n == Len(matches)
           F == CHOOSE f : f = [i \in 0..Len(matches) |->
                                  IF i = 0 THEN d ELSE Elevated(f[i - 1], matches[i])]
           Good(i) == F[i] = "block" <=> d = "block" \/ \E k \in 1..i : matches[k] = "block"
           Bad == {i \in 0..n : ~Good(i)}
<1>1. \E f : Loop(f, matches, d, n)
  BY LoopExists, Zenon
<1>2. \E f : f = [i \in 0..n |-> IF i = 0 THEN d ELSE Elevated(f[i - 1], matches[i])]
  BY <1>1, Zenon DEF Loop
<1>3. F = [i \in 0..n |-> IF i = 0 THEN d ELSE Elevated(F[i - 1], matches[i])]
  BY <1>2, Zenon
<1>4. Elevate(matches, d) = F[n]
  BY Zenon DEF Elevate
<1> HIDE DEF F
<1>5. Good(0)
  <2>1. 0 \in 0..n /\ 1..0 = {}
    BY SMT
  <2> QED
    BY <1>3, <2>1, Zenon
<1>6. ASSUME NEW i \in 1..n, Good(i - 1) PROVE Good(i)
  <2>1. i \in 0..n /\ i # 0 /\ \A k : k \in 1..i <=> k \in 1..(i - 1) \/ k = i
    BY SMT
  <2>2. F[i] = Elevated(F[i - 1], matches[i])
    BY <1>3, <2>1, Zenon
  <2>3. F[i] = "block" <=> F[i - 1] = "block" \/ matches[i] = "block"
    <3>1. \A a, b : Elevated(a, b) = "block" <=> a = "block" \/ b = "block"
      BY SMT DEF Elevated
    <3> QED
      BY <2>2, <3>1, Zenon
  <2> QED
    BY <1>6, <2>1, <2>3, Zenon
<1> HIDE DEF Good
<1>7. Bad = {}
  <2> SUFFICES ASSUME Bad # {} PROVE FALSE
    OBVIOUS
  <2>1. Bad \subseteq Nat
    BY SMT
  <2>2. PICK i \in Bad : \A k \in Bad : i <= k
    BY <2>1, Least, Zenon
  <2>3. i \in 0..n /\ ~Good(i) /\ i # 0
    BY <1>5, <2>2, Zenon
  <2>4. i \in 1..n /\ i - 1 \in 0..n /\ ~(i <= i - 1)
    BY <2>3, SMT
  <2>5. i - 1 \notin Bad
    BY <2>2, <2>4, Zenon
  <2> QED
    BY <1>6, <2>3, <2>4, <2>5, Zenon
<1>8. n \in 0..n
  BY SMT
<1>9. Good(n)
  BY <1>7, <1>8, Zenon
<1> QED
  BY <1>4, <1>9, Zenon DEF Good

\* A policy whose settings are all given, as the policies in force are.
Given(policy) ==
  policy.monitorAt \in Nat \ {0} /\ policy.interventionAt \in Nat \ {0} /\ policy.action # ""

\* The score alone blocks from the threshold on, when the policy says block.
LEMMA DecideBlocks ==
  ASSUME NEW score \in Int, NEW policy, Given(policy)
  PROVE  Decide(score, policy) = "block" <=>
           policy.action = "block" /\ score >= policy.interventionAt
<1>1. PICK m, i, a : m = policy.monitorAt /\ i = policy.interventionAt /\ a = policy.action
  OBVIOUS
<1>2. m \in Nat \ {0} /\ i \in Nat \ {0}
  BY <1>1, Zenon DEF Given
<1>0. a # ""
  BY <1>1, Zenon DEF Given
<1>3. /\ Normalized(policy).monitorAt = IF m <= 0 THEN 30 ELSE m
      /\ Normalized(policy).interventionAt = IF i <= 0 THEN 80 ELSE i
      /\ Normalized(policy).action = IF a = "" THEN "block" ELSE a
  BY <1>1, Zenon DEF Normalized
<1>4. PICK qm, qi, qa : /\ qm = Normalized(policy).monitorAt
                        /\ qi = Normalized(policy).interventionAt
                        /\ qa = Normalized(policy).action
  OBVIOUS
<1>5. ~(m <= 0) /\ ~(i <= 0)
  BY <1>2, SMTT(30)
<1>6. qm = m /\ qi = i /\ qa = a
  BY <1>0, <1>3, <1>4, <1>5, Zenon
<1>7. Decide(score, policy) = CASE score >= qi -> qa
                                [] score < qi /\ score >= qm -> "monitor"
                                [] OTHER -> "allow"
  BY <1>4 DEF Decide
<1> QED
  BY <1>1, <1>2, <1>6, <1>7, SMTT(30)

\* The decision of the handler: it blocks when a rule that blocks matches, or
\* when the score of the rules that match reaches the threshold.
LEMMA DecisionBlocks ==
  ASSUME NEW text, NEW policy, Given(policy), Matches(text) \subseteq Keywords
  PROVE  Decision(text, policy) = "block" <=>
           \/ \E r \in Matches(text) : Rules[r].action = "block"
           \/ policy.action = "block" /\ Score(Matches(text)) >= policy.interventionAt
<1>1. PICK found : found = Matches(text)
  OBVIOUS
<1>2. PICK actions : actions = SetToSeq(found)
  OBVIOUS
<1>3. IsFiniteSet(found)
  BY <1>1, KeywordsFinite, FS_Subset, SMTT(30)
<1>4. PICK n \in Nat : /\ actions \in [1..n -> found]
                       /\ \A x \in found : \E k \in 1..n : actions[k] = x
  BY <1>2, <1>3, ListIs, SMTT(30)
<1>5. PICK list : list = [k \in 1..n |-> Action(actions[k])]
  BY Zenon
<1>6. Len(list) = n /\ \A k \in 1..n : list[k] = Action(actions[k])
  BY <1>5, SMT
<1>7. PICK d : d = Decide(Score(found), policy)
  OBVIOUS
<1>8. Decision(text, policy) = Elevate(list, d)
  <2>1. DOMAIN actions = 1..n
    BY <1>4, Zenon
  <2> QED
    BY <1>1, <1>2, <1>5, <1>7, <2>1, Zenon DEF Decision
<1>9. Elevate(list, d) = "block" <=> d = "block" \/ \E k \in 1..n : list[k] = "block"
  BY <1>6, ElevateBlocks
<1>10. d = "block" <=> policy.action = "block" /\ Score(found) >= policy.interventionAt
  <2>1. found \subseteq Keywords /\ found \subseteq found
    BY <1>1
  <2>2. Score(found) \in Int
    BY <2>1, ScoreIs, SMTT(30)
  <2> QED
    BY <1>7, <2>2, DecideBlocks, Zenon
<1>11. (\E k \in 1..n : list[k] = "block") <=> \E r \in found : Rules[r].action = "block"
  <2>1. \A r : Action(r) = "block" <=> Rules[r].action = "block"
    <3>1. "monitor" # "block" /\ "" # "block"
      BY SMT
    <3> QED
      BY <3>1, Zenon DEF Action
  <2>2. \A k \in 1..n : actions[k] \in found
    BY <1>4, Zenon
  <2>3. \A k \in 1..n : list[k] = "block" <=> Rules[actions[k]].action = "block"
    BY <1>6, <2>1, Zenon
  <2>4. ASSUME NEW r \in found, Rules[r].action = "block"
        PROVE  \E k \in 1..n : list[k] = "block"
    BY <1>4, <2>3, <2>4, Zenon
  <2> QED
    BY <2>2, <2>3, <2>4, Zenon
<1> QED
  BY <1>1, <1>8, <1>9, <1>10, <1>11, Zenon

\* The inspection of a text, from the normalization through the automaton to
\* the decision, blocks the text when it is forbidden, and only then: no
\* format character, no spacing and no capital hides an occurrence of a rule,
\* and nothing that is not one counts (Handler.audit, Engine.Audit).
THEOREM InspectionIsExact ==
  ASSUME NEW text \in Seq(STRING), NEW policy, Given(policy)
  PROVE  Verdict(text, policy) = {"block"} <=> Forbidden(text, policy)
<1>1. PICK found : found = {r \in Keywords : Occurs(Rules[r].pattern, text)}
  BY Zenon
<1>2. Matches(Normalize(text)) = found /\ found \subseteq Keywords
  BY <1>1, MatchesOccur, Zenon
<1>3. Decision(Normalize(text), policy) = "block" <=>
           \/ \E r \in found : Rules[r].action = "block"
           \/ policy.action = "block" /\ Score(found) >= policy.interventionAt
  BY <1>2, DecisionBlocks
<1>4. Forbidden(text, policy) <=>
           \/ \E r \in found : Rules[r].action = "block"
           \/ policy.action = "block" /\ Score(found) >= policy.interventionAt
  BY <1>1, Zenon DEF Forbidden
<1>5. Verdict(text, policy) = {Decision(Normalize(text), policy)}
  BY Zenon DEF Verdict
<1>6. {Decision(Normalize(text), policy)} = {"block"} <=>
        Decision(Normalize(text), policy) = "block"
  BY Zenon
<1> QED
  BY <1>3, <1>4, <1>5, <1>6, Zenon

\* What is seen of a part is seen of the whole.
LEMMA VisibleInWhole ==
  ASSUME NEW text \in Seq(STRING), NEW a \in Int, NEW b \in Int, 1 <= a, b <= Len(text), a <= b + 1,
         NEW i \in 1..(b - a + 1), Visible(SubSeq(text, a, b), i)
  PROVE  Visible(text, a + i - 1)
<1>1. PICK part : part = SubSeq(text, a, b)
  BY Zenon
<1>2. Len(part) = b - a + 1 /\ \A k \in 1..(b - a + 1) : part[k] = text[a + k - 1]
  BY <1>1, PartIs
<1>0. PICK x : x = a + i - 1
  OBVIOUS
<1>3. part[i] = text[x]
  BY <1>0, <1>2, SMTT(30)
<1>4. ASSUME NEW j \in 1..(i - 1), Word(part[j])
      PROVE  \E k \in 1..(x - 1) : Word(text[k])
  <2>1. j \in 1..(b - a + 1) /\ a + j - 1 \in 1..(x - 1)
    BY <1>0, SMTT(30)
  <2> QED
    BY <1>2, <1>4, <2>1, SMTT(30)
<1>5. ASSUME NEW j \in (i + 1)..Len(part), Word(part[j])
      PROVE  \E k \in (x + 1)..Len(text) : Word(text[k])
  <2>1. j \in 1..(b - a + 1) /\ a + j - 1 \in (x + 1)..Len(text)
    <3>1. Len(text) \in Nat
      BY SMT
    <3> QED
      BY <1>0, <1>2, <3>1, SMTT(30)
  <2> QED
    BY <1>2, <1>5, <2>1, SMTT(30)
<1>6. Visible(part, i)
  BY <1>1
<1>7. Word(part[i]) => Word(text[x])
  BY <1>3, Zenon
<1>8. ~Word(part[i]) =>
        /\ text[x] = Blank
        /\ \E k \in 1..(x - 1) : Word(text[k])
        /\ \E k \in (x + 1)..Len(text) : Word(text[k])
  <2> SUFFICES ASSUME ~Word(part[i])
               PROVE  /\ text[x] = Blank
                      /\ \E k \in 1..(x - 1) : Word(text[k])
                      /\ \E k \in (x + 1)..Len(text) : Word(text[k])
    OBVIOUS
  <2>1. /\ part[i] = Blank
        /\ \E j \in 1..(i - 1) : Word(part[j])
        /\ \E j \in (i + 1)..Len(part) : Word(part[j])
    BY <1>6, Zenon DEF Visible
  <2> QED
    BY <1>3, <1>4, <1>5, <2>1, Zenon
<1>9. Visible(text, x)
  BY <1>7, <1>8, Zenon DEF Visible
<1> QED
  BY <1>0, <1>9, SMTT(30)

\* What is next to each other in a part is so in the whole.
LEMMA AdjacentInWhole ==
  ASSUME NEW text \in Seq(STRING), NEW a \in Int, NEW b \in Int, 1 <= a, b <= Len(text), a <= b + 1,
         NEW i \in 1..(b - a + 1), NEW j \in 1..(b - a + 1), Adjacent(SubSeq(text, a, b), i, j)
  PROVE  Adjacent(text, a + i - 1, a + j - 1)
<1>1. PICK part : part = SubSeq(text, a, b)
  BY Zenon
<1>2. Len(part) = b - a + 1 /\ \A k \in 1..(b - a + 1) : part[k] = text[a + k - 1]
  BY <1>1, PartIs
<1>3. PICK x, y : x = a + i - 1 /\ y = a + j - 1
  OBVIOUS
<1>4. part[i] = text[x] /\ part[j] = text[y]
  BY <1>2, <1>3, SMTT(30)
<1>5. Adjacent(part, i, j)
  BY <1>1, SMTT(30)
<1>6. x < y
  <2>1. i < j
    BY <1>5, SMTT(30) DEF Adjacent
  <2> QED
    BY <1>3, <2>1, SMTT(30)
<1>7. ASSUME NEW k \in (x + 1)..(y - 1)
      PROVE  text[k] \in Format \/ (text[k] = Blank /\ Blank \in {text[x], text[y]})
  <2>1. PICK l : l = k - a + 1
    OBVIOUS
  <2>2. l \in (i + 1)..(j - 1) /\ l \in 1..(b - a + 1) /\ a + l - 1 = k
    BY <1>3, <2>1, SMTT(30)
  <2>3. part[l] = text[k]
    BY <1>2, <2>2, Zenon
  <2>4. part[l] \in Format \/ (part[l] = Blank /\ Blank \in {part[i], part[j]})
    BY <1>5, <2>2, Zenon DEF Adjacent
  <2> QED
    BY <1>4, <2>3, <2>4, ZenonT(60)
<1>8. Word(text[x]) \/ Word(text[y])
  BY <1>4, <1>5, Zenon DEF Adjacent
<1>9. Adjacent(text, x, y)
  BY <1>6, <1>7, <1>8, Zenon DEF Adjacent
<1> QED
  BY <1>3, <1>9, SMTT(30)

\* A rule that occurs in a part of a text occurs in the text.
LEMMA OccursInWhole ==
  ASSUME NEW text \in Seq(STRING), NEW a \in Int, NEW b \in Int, 1 <= a, b <= Len(text), a <= b + 1,
         NEW pattern \in Seq(STRING), Occurs(pattern, SubSeq(text, a, b))
  PROVE  Occurs(pattern, text)
<1>1. PICK part : part = SubSeq(text, a, b)
  BY Zenon
<1>2. /\ part \in Seq(STRING) /\ Len(part) = b - a + 1
      /\ \A k \in 1..(b - a + 1) : part[k] = text[a + k - 1]
  BY <1>1, PartIs
<1>3. /\ DOMAIN part = 1..(b - a + 1) /\ DOMAIN text = 1..Len(text) /\ Len(text) \in Nat
      /\ DOMAIN pattern = 1..Len(pattern) /\ Len(pattern) \in Nat
  BY <1>2, SMT
<1>4. PICK at \in [DOMAIN pattern -> DOMAIN part] :
        /\ \A k \in DOMAIN pattern :
             Small(part[at[k]]) = Small(pattern[k]) /\ Visible(part, at[k])
        /\ \A k \in 2..Len(pattern) : Adjacent(part, at[k - 1], at[k])
  BY <1>1, Zenon DEF Occurs
<1>5. PICK to : to = [k \in DOMAIN pattern |-> a + at[k] - 1]
  BY Zenon
<1>6. \A k \in DOMAIN pattern : at[k] \in 1..(b - a + 1) /\ to[k] = a + at[k] - 1
  BY <1>3, <1>4, <1>5, Zenon
<1>7. \A i \in 1..(b - a + 1) : a + i - 1 \in 1..Len(text)
  BY <1>3, SMTT(30)
<1>8. to \in [DOMAIN pattern -> DOMAIN text]
  <2>1. \A k \in DOMAIN pattern : to[k] \in DOMAIN text
    BY <1>3, <1>6, <1>7, Zenon
  <2> QED
    BY <1>5, <2>1, Zenon
<1>9. ASSUME NEW k \in DOMAIN pattern
      PROVE  Small(text[to[k]]) = Small(pattern[k]) /\ Visible(text, to[k])
  <2>1. part[at[k]] = text[to[k]]
    BY <1>2, <1>6, SMTT(30)
  <2>2. Visible(SubSeq(text, a, b), at[k])
    BY <1>1, <1>4, SMTT(30)
  <2>3. at[k] \in 1..(b - a + 1) /\ to[k] = a + at[k] - 1
    BY <1>6
  <2>4. Visible(text, a + at[k] - 1)
    BY <2>2, <2>3, VisibleInWhole, SMTT(30)
  <2> QED
    BY <1>4, <2>1, <2>3, <2>4, Zenon
<1>10. ASSUME NEW k \in 2..Len(pattern) PROVE Adjacent(text, to[k - 1], to[k])
  <2>1. k - 1 \in DOMAIN pattern /\ k \in DOMAIN pattern
    BY <1>3, SMTT(30)
  <2>2. PICK i, j : i = at[k - 1] /\ j = at[k]
    OBVIOUS
  <2>3. /\ i \in 1..(b - a + 1) /\ j \in 1..(b - a + 1)
        /\ to[k - 1] = a + i - 1 /\ to[k] = a + j - 1
    BY <1>6, <2>1, <2>2, ZenonT(60)
  <2>4. Adjacent(SubSeq(text, a, b), i, j)
    BY <1>1, <1>4, <2>2, SMTT(30)
  <2>5. Adjacent(text, a + i - 1, a + j - 1)
    BY <2>3, <2>4, AdjacentInWhole, SMTT(30)
  <2> QED
    BY <2>3, <2>5, Zenon
<1> QED
  BY <1>8, <1>9, <1>10, Zenon DEF Occurs

\* A text with a forbidden part is forbidden: more text only adds matches.
LEMMA ForbiddenWhole ==
  ASSUME NEW text \in Seq(STRING), NEW a \in Int, NEW b \in Int, 1 <= a, b <= Len(text), a <= b + 1,
         NEW policy, Given(policy), Forbidden(SubSeq(text, a, b), policy)
  PROVE  Forbidden(text, policy)
<1>1. PICK part : part = SubSeq(text, a, b)
  BY Zenon
<1>2. PICK some : some = {r \in Keywords : Occurs(Rules[r].pattern, part)}
  BY Zenon
<1>3. PICK found : found = {r \in Keywords : Occurs(Rules[r].pattern, text)}
  BY Zenon
<1>4. some \subseteq found /\ found \subseteq Keywords
  <2>1. ASSUME NEW r \in Keywords, Occurs(Rules[r].pattern, part)
        PROVE  Occurs(Rules[r].pattern, text)
    <3>1. Rules[r].pattern \in Seq(STRING)
      BY LowIs, SMTT(30)
    <3> QED
      BY <1>1, <2>1, <3>1, OccursInWhole, SMTT(30)
  <2> QED
    BY <1>2, <1>3, <2>1, Zenon
<1>5. Score(some) \in Int /\ Score(found) \in Int /\ Score(some) <= Score(found)
  BY <1>4, ScoreIs, SMTT(30)
<1>6. policy.interventionAt \in Int
  <2>1. policy.interventionAt \in Nat
    BY Zenon DEF Given
  <2> QED
    BY <2>1, SMTT(30)
<1>7. Score(some) >= policy.interventionAt => Score(found) >= policy.interventionAt
  BY <1>5, <1>6, SMTT(30)
<1>8. \/ \E r \in some : Rules[r].action = "block"
      \/ policy.action = "block" /\ Score(some) >= policy.interventionAt
  BY <1>1, <1>2, Zenon DEF Forbidden
<1> QED
  BY <1>3, <1>4, <1>7, <1>8, Zenon DEF Forbidden
-----------------------------------------------------------------------------
(***************************************************************************)
(* The window over a stream.                                               *)
(***************************************************************************)
\* The rules let a text pass.
Passed(text) == \E decision \in Verdict(text, Default) : decision # "block"

\* Every span of a text that fits the window and one character lies in a part
\* of the text that was inspected and passed as a whole.
Inspected(text) ==
  \A i, j \in DOMAIN text : j - i \in 0..Window =>
    \E a \in 1..i, b \in j..Len(text) : Passed(SubSeq(text, a, b))

\* What the window keeps of a text: its end.
LEMMA KeptIs ==
  ASSUME NEW C, NEW w \in Seq(C)
  PROVE  /\ Kept(w) \in Seq(C) /\ Len(w) \in Nat /\ Window \in Nat
         /\ Len(Kept(w)) = IF Len(w) > Window THEN Window ELSE Len(w)
         /\ \A k \in 1..Len(Kept(w)) : Kept(w)[k] = w[Len(w) - Len(Kept(w)) + k]
<1>1. Window \in Nat /\ Len(w) \in Nat
  BY InspectionAssumption, SMTT(30) DEF InspectionAssumption
<1>2. CASE Len(w) > Window
  <2>1. Kept(w) = SubSeq(w, Len(w) - Window + 1, Len(w))
    BY <1>2, Zenon DEF Kept
  <2>2. /\ SubSeq(w, Len(w) - Window + 1, Len(w)) \in Seq(C)
        /\ Len(SubSeq(w, Len(w) - Window + 1, Len(w))) = Window
        /\ \A k \in 1..Window :
             SubSeq(w, Len(w) - Window + 1, Len(w))[k] = w[Len(w) - Window + k]
    <3> DEFINE a == Len(w) - Window + 1
               b == Len(w)
    <3>1. /\ a \in Int /\ b \in Int /\ 1 <= a /\ b <= Len(w) /\ a <= b + 1
          /\ b - a + 1 = Window
      BY <1>1, <1>2, SMTT(30)
    <3>2. /\ SubSeq(w, a, b) \in Seq(C) /\ Len(SubSeq(w, a, b)) = b - a + 1
          /\ \A k \in 1..(b - a + 1) : SubSeq(w, a, b)[k] = w[a + k - 1]
      BY <3>1, PartIs, SMTT(30)
    <3>3. \A k \in 1..Window : a + k - 1 = Len(w) - Window + k
      BY <1>1, SMTT(30)
    <3> QED
      BY <3>1, <3>2, <3>3, Zenon
  <2> QED
    BY <1>1, <1>2, <2>1, <2>2, Zenon
<1>3. CASE ~(Len(w) > Window)
  <2>1. Kept(w) = w
    BY <1>3, Zenon DEF Kept
  <2>2. \A k \in 1..Len(w) : w[k] = w[Len(w) - Len(w) + k]
    BY <1>1, SMTT(30)
  <2> QED
    BY <1>1, <1>3, <2>1, <2>2, Zenon
<1> QED
  BY <1>2, <1>3, SMTT(30)

\* Where the k-th of m kept characters of n and of l new ones is in the whole.
LEMMA OldPlace ==
  ASSUME NEW n \in Nat, NEW m \in Nat, m <= n, NEW k \in Int, 1 <= k, k <= m
  PROVE  k \in 1..m /\ n - m + k \in 1..n
  BY SMT

\* Where the l new characters are, in the text and in the window.
LEMMA NewPlace ==
  ASSUME NEW n \in Nat, NEW m \in Nat, m <= n, NEW l \in Nat, NEW k \in Int, m < k, k <= m + l
  PROVE  /\ k \in (m + 1)..(m + l) /\ n - m + k \in (n + 1)..(n + l)
         /\ (n - m + k) - n = k - m
  BY SMT

\* The ends of the m kept characters and the l new ones.
LEMMA Bounds ==
  ASSUME NEW n \in Nat, NEW m \in Nat, m <= n, NEW l \in Nat
  PROVE  /\ n - m + 1 \in Int /\ n + l \in Int /\ 1 <= n - m + 1
         /\ n - m + 1 <= (n + l) + 1 /\ n + l <= n + l
         /\ (n + l) - (n - m + 1) + 1 = m + l
  BY SMT

\* The last q of p places.
LEMMA LastPlace ==
  ASSUME NEW p \in Nat, NEW q \in Nat, q <= p, NEW k \in Int, 1 <= k, k <= q
  PROVE  p - q + k \in 1..p
  BY SMT

\* A span that ends in the new characters and fits the window starts in what
\* is kept of n characters, or after them.
LEMMA SpanStarts ==
  ASSUME NEW n \in Nat, NEW l \in Nat, NEW win \in Nat, NEW i \in Int, NEW j \in Int, 1 <= i,
         j - i \in 0..win, n < j, j <= n + l
  PROVE  n - (IF n > win THEN win ELSE n) + 1 \in 1..i /\ n + l \in j..(n + l)
  BY SMT

\* Windows.Feed keeps the end of the whole text, not only of what it was fed.
LEMMA KeptConcat ==
  ASSUME NEW C, NEW w \in Seq(C), NEW t \in Seq(C)
  PROVE  Kept(Kept(w) \o t) = Kept(w \o t)
<1> DEFINE kw == Kept(w)
           x == kw \o t
           y == w \o t
<1>1. /\ kw \in Seq(C) /\ Len(w) \in Nat /\ Window \in Nat
      /\ Len(kw) = IF Len(w) > Window THEN Window ELSE Len(w)
      /\ \A k \in 1..Len(kw) : kw[k] = w[Len(w) - Len(kw) + k]
  BY KeptIs
<1> HIDE DEF kw
<1>2. /\ x \in Seq(C) /\ Len(x) = Len(kw) + Len(t) /\ Len(kw) \in Nat /\ Len(t) \in Nat
      /\ \A k \in 1..Len(kw) : x[k] = kw[k]
      /\ \A k \in (Len(kw) + 1)..(Len(kw) + Len(t)) : x[k] = t[k - Len(kw)]
  BY <1>1, ConcatIs, ZenonT(60)
<1>3. /\ y \in Seq(C) /\ Len(y) = Len(w) + Len(t)
      /\ \A k \in 1..Len(w) : y[k] = w[k]
      /\ \A k \in (Len(w) + 1)..(Len(w) + Len(t)) : y[k] = t[k - Len(w)]
  BY ConcatIs
<1> HIDE DEF x, y
<1>4. /\ Kept(x) \in Seq(C) /\ Len(Kept(x)) = IF Len(x) > Window THEN Window ELSE Len(x)
      /\ \A k \in 1..Len(Kept(x)) : Kept(x)[k] = x[Len(x) - Len(Kept(x)) + k]
  BY <1>2, KeptIs, Zenon
<1>5. /\ Kept(y) \in Seq(C) /\ Len(Kept(y)) = IF Len(y) > Window THEN Window ELSE Len(y)
      /\ \A k \in 1..Len(Kept(y)) : Kept(y)[k] = y[Len(y) - Len(Kept(y)) + k]
  BY <1>3, KeptIs, Zenon
<1>10. /\ Len(w) \in Nat /\ Len(kw) \in Nat /\ Len(t) \in Nat /\ Window \in Nat
       /\ Len(kw) = IF Len(w) > Window THEN Window ELSE Len(w)
       /\ Len(x) = Len(kw) + Len(t) /\ Len(y) = Len(w) + Len(t)
       /\ Len(Kept(x)) = IF Len(x) > Window THEN Window ELSE Len(x)
       /\ Len(Kept(y)) = IF Len(y) > Window THEN Window ELSE Len(y)
  BY <1>1, <1>2, <1>3, <1>4, <1>5, Zenon
<1>6. /\ Len(Kept(x)) = Len(Kept(y)) /\ Len(kw) <= Len(w)
      /\ Len(Kept(x)) \in Nat /\ Len(Kept(x)) <= Len(kw) + Len(t)
  BY <1>10, SMTT(30)
<1>11. /\ Len(w) \in Nat /\ Len(kw) \in Nat /\ Len(t) \in Nat /\ Len(kw) <= Len(w)
       /\ Len(Kept(x)) \in Nat /\ Len(Kept(x)) <= Len(kw) + Len(t)
  BY <1>6, <1>10, SMTT(30)
<1>12. Len(kw) + Len(t) \in Nat
  BY <1>11, SMTT(30)
<1>7. \A k \in 1..Len(x) : x[k] = y[Len(w) - Len(kw) + k]
  <2> SUFFICES ASSUME NEW k \in 1..Len(x) PROVE x[k] = y[Len(w) - Len(kw) + k]
    BY SMTT(30)
  <2>0. k \in Int /\ 1 <= k /\ k <= Len(kw) + Len(t) /\ (k <= Len(kw) \/ Len(kw) < k)
    BY <1>10, SMTT(30)
  <2>1. CASE k <= Len(kw)
    <3>1. k \in 1..Len(kw) /\ Len(w) - Len(kw) + k \in 1..Len(w)
      BY <1>11, <2>0, <2>1, OldPlace, Zenon
    <3> QED
      BY <1>1, <1>2, <1>3, <3>1, Zenon
  <2>2. CASE Len(kw) < k
    <3>1. /\ k \in (Len(kw) + 1)..(Len(kw) + Len(t))
          /\ Len(w) - Len(kw) + k \in (Len(w) + 1)..(Len(w) + Len(t))
          /\ (Len(w) - Len(kw) + k) - Len(w) = k - Len(kw)
      BY <1>11, <2>0, <2>2, NewPlace, ZenonT(60)
    <3>2. x[k] = t[k - Len(kw)]
      BY <1>2, <3>1, Zenon
    <3>3. y[Len(w) - Len(kw) + k] = t[(Len(w) - Len(kw) + k) - Len(w)]
      BY <1>3, <3>1, Zenon
    <3> QED
      BY <3>1, <3>2, <3>3, Zenon
  <2> QED
    BY <2>0, <2>1, <2>2, SMTT(30)
<1>8. ASSUME NEW k \in 1..Len(Kept(x)) PROVE Kept(x)[k] = Kept(y)[k]
  <2>1. /\ Len(x) - Len(Kept(x)) + k \in 1..Len(x)
        /\ Len(w) - Len(kw) + (Len(x) - Len(Kept(x)) + k) = Len(y) - Len(Kept(y)) + k
    <3>1. /\ (Len(kw) + Len(t)) - Len(Kept(x)) + k \in 1..(Len(kw) + Len(t))
          /\ Len(w) - Len(kw) + ((Len(kw) + Len(t)) - Len(Kept(x)) + k)
               = (Len(w) + Len(t)) - Len(Kept(x)) + k
      <4>1. k \in Int /\ 1 <= k /\ k <= Len(Kept(x))
        BY <1>11, SMTT(30)
      <4>2. (Len(kw) + Len(t)) - Len(Kept(x)) + k \in 1..(Len(kw) + Len(t))
        BY <1>11, <1>12, <4>1, LastPlace, Zenon
      <4>3. Len(w) - Len(kw) + ((Len(kw) + Len(t)) - Len(Kept(x)) + k)
              = (Len(w) + Len(t)) - Len(Kept(x)) + k
        BY <1>11, <4>1, SMTT(30)
      <4> QED
        BY <4>2, <4>3, SMTT(30)
    <3> QED
      BY <1>10, <1>6, <3>1, Zenon
  <2>2. Kept(x)[k] = x[Len(x) - Len(Kept(x)) + k]
    BY <1>4, Zenon
  <2>3. Kept(y)[k] = y[Len(y) - Len(Kept(y)) + k]
    BY <1>5, <1>6, Zenon
  <2> QED
    BY <1>7, <2>1, <2>2, <2>3, Zenon
<1>9. Kept(x) = Kept(y)
  BY <1>4, <1>5, <1>6, <1>8, SameText, SMTT(30)
<1> QED
  BY <1>9 DEF x, y, kw

\* What Feed lets the rules see is the end of the text with the fragment.
LEMMA FedIsPart ==
  ASSUME NEW C, NEW w \in Seq(C), NEW t \in Seq(C)
  PROVE  Kept(w) \o t = SubSeq(w \o t, Len(w) - Len(Kept(w)) + 1, Len(w) + Len(t))
<1> DEFINE kw == Kept(w)
           y == w \o t
           a == Len(w) - Len(kw) + 1
           b == Len(w) + Len(t)
<1>1. /\ kw \in Seq(C) /\ Len(w) \in Nat /\ Window \in Nat
      /\ Len(kw) = IF Len(w) > Window THEN Window ELSE Len(w)
      /\ \A k \in 1..Len(kw) : kw[k] = w[Len(w) - Len(kw) + k]
  BY KeptIs
<1> HIDE DEF kw
<1>2. /\ kw \o t \in Seq(C) /\ Len(kw \o t) = Len(kw) + Len(t) /\ Len(kw) \in Nat /\ Len(t) \in Nat
      /\ \A k \in 1..Len(kw) : (kw \o t)[k] = kw[k]
      /\ \A k \in (Len(kw) + 1)..(Len(kw) + Len(t)) : (kw \o t)[k] = t[k - Len(kw)]
  BY <1>1, ConcatIs, ZenonT(60)
<1>3. /\ y \in Seq(C) /\ Len(y) = Len(w) + Len(t)
      /\ \A k \in 1..Len(w) : y[k] = w[k]
      /\ \A k \in (Len(w) + 1)..(Len(w) + Len(t)) : y[k] = t[k - Len(w)]
  BY ConcatIs
<1> HIDE DEF y
<1>4. /\ Len(w) \in Nat /\ Len(kw) \in Nat /\ Len(t) \in Nat /\ Window \in Nat
      /\ Len(kw) = IF Len(w) > Window THEN Window ELSE Len(w)
      /\ Len(kw \o t) = Len(kw) + Len(t) /\ Len(y) = Len(w) + Len(t)
  BY <1>1, <1>2, <1>3, Zenon
<1>10. Len(kw) <= Len(w)
  BY <1>4, SMT
<1>5. /\ a \in Int /\ b \in Int /\ 1 <= a /\ b <= Len(y) /\ a <= b + 1
      /\ b - a + 1 = Len(kw \o t)
  <2>1. /\ a \in Int /\ b \in Int /\ 1 <= a /\ b <= Len(w) + Len(t) /\ a <= b + 1
        /\ b - a + 1 = Len(kw) + Len(t)
    BY <1>4, <1>10, Bounds, ZenonT(60)
  <2> QED
    BY <1>4, <2>1, Zenon
<1>6. /\ SubSeq(y, a, b) \in Seq(C) /\ Len(SubSeq(y, a, b)) = b - a + 1
      /\ \A k \in 1..(b - a + 1) : SubSeq(y, a, b)[k] = y[a + k - 1]
  BY <1>3, <1>5, PartIs, SMTT(30)
<1>7. ASSUME NEW k \in 1..Len(kw \o t) PROVE (kw \o t)[k] = y[a + k - 1]
  <2>0. k \in Int /\ 1 <= k /\ k <= Len(kw) + Len(t) /\ (k <= Len(kw) \/ Len(kw) < k)
    BY <1>4, SMTT(30)
  <2>3. a + k - 1 = Len(w) - Len(kw) + k
    BY <1>4, <2>0, SMTT(30)
  <2>1. CASE k <= Len(kw)
    <3>1. k \in 1..Len(kw) /\ Len(w) - Len(kw) + k \in 1..Len(w)
      BY <1>4, <1>10, <2>0, <2>1, OldPlace, Zenon
    <3> QED
      BY <1>1, <1>2, <1>3, <2>3, <3>1, Zenon
  <2>2. CASE Len(kw) < k
    <3>1. /\ k \in (Len(kw) + 1)..(Len(kw) + Len(t))
          /\ Len(w) - Len(kw) + k \in (Len(w) + 1)..(Len(w) + Len(t))
          /\ (Len(w) - Len(kw) + k) - Len(w) = k - Len(kw)
      <4>1. PICK lw, lk, lt : lw = Len(w) /\ lk = Len(kw) /\ lt = Len(t)
        BY Zenon
      <4>2. /\ lw \in Nat /\ lk \in Nat /\ lt \in Nat /\ k \in Int
            /\ k <= lk + lt /\ lk < k /\ lk <= lw
        BY <1>4, <1>10, <2>0, <2>2, <4>1, ZenonT(60)
      <4>3. /\ k \in (lk + 1)..(lk + lt) /\ lw - lk + k \in (lw + 1)..(lw + lt)
            /\ (lw - lk + k) - lw = k - lk
        BY <4>2, SMTT(30)
      <4> QED
        BY <4>1, <4>3, Zenon
    <3>2. (kw \o t)[k] = t[k - Len(kw)]
      BY <1>2, <3>1, Zenon
    <3>3. y[Len(w) - Len(kw) + k] = t[(Len(w) - Len(kw) + k) - Len(w)]
      BY <1>3, <3>1, Zenon
    <3> QED
      BY <2>3, <3>1, <3>2, <3>3, Zenon
  <2> QED
    BY <2>0, <2>1, <2>2, SMTT(30)
<1> HIDE DEF a, b
<1>8. \A k \in 1..Len(kw \o t) : (kw \o t)[k] = SubSeq(y, a, b)[k]
  BY <1>5, <1>6, <1>7, Zenon
<1>9. kw \o t = SubSeq(y, a, b)
  BY <1>2, <1>5, <1>6, <1>8, SameText, Zenon
<1> QED
  BY <1>9, SMTT(30) DEF kw, y, a, b

\* A part of a text is a part of what it grows to.
LEMMA PartStays ==
  ASSUME NEW C, NEW w \in Seq(C), NEW t \in Seq(C), NEW a \in Int, NEW b \in Int,
         1 <= a, a <= b + 1, b <= Len(w)
  PROVE  SubSeq(w \o t, a, b) = SubSeq(w, a, b)
<1> DEFINE y == w \o t
<1>1. /\ y \in Seq(C) /\ Len(y) = Len(w) + Len(t) /\ Len(w) \in Nat /\ Len(t) \in Nat
      /\ \A k \in 1..Len(w) : y[k] = w[k]
  BY ConcatIs
<1> HIDE DEF y
<1>2. Len(y) = Len(w) + Len(t) /\ Len(w) \in Nat /\ Len(t) \in Nat
  BY <1>1
<1>3. b <= Len(y)
  BY <1>2, SMTT(30)
<1>4. /\ SubSeq(y, a, b) \in Seq(C) /\ Len(SubSeq(y, a, b)) = b - a + 1
      /\ \A k \in 1..(b - a + 1) : SubSeq(y, a, b)[k] = y[a + k - 1]
  BY <1>1, <1>3, PartIs, SMTT(30)
<1>5. /\ SubSeq(w, a, b) \in Seq(C) /\ Len(SubSeq(w, a, b)) = b - a + 1
      /\ \A k \in 1..(b - a + 1) : SubSeq(w, a, b)[k] = w[a + k - 1]
  BY PartIs
<1>6. \A k \in 1..(b - a + 1) : a + k - 1 \in 1..Len(w)
  BY <1>2, SMTT(30)
<1>7. \A k \in 1..(b - a + 1) : SubSeq(y, a, b)[k] = SubSeq(w, a, b)[k]
  BY <1>1, <1>4, <1>5, <1>6, Zenon
<1>8. SubSeq(y, a, b) = SubSeq(w, a, b)
  BY <1>4, <1>5, <1>7, SameText, Zenon
<1> QED
  BY <1>8 DEF y

\* A fragment that passes with what the window kept leaves every span inspected,
\* those across its boundary included.
LEMMA InspectedGrows ==
  ASSUME NEW C, NEW w \in Seq(C), NEW t \in Seq(C), Inspected(w), Passed(Kept(w) \o t)
  PROVE  Inspected(w \o t)
<1> DEFINE y == w \o t
           a0 == Len(w) - Len(Kept(w)) + 1
           b0 == Len(w) + Len(t)
<1>1. /\ Kept(w) \in Seq(C) /\ Len(w) \in Nat /\ Window \in Nat
      /\ Len(Kept(w)) = IF Len(w) > Window THEN Window ELSE Len(w)
  BY KeptIs
<1>2. y \in Seq(C) /\ Len(y) = Len(w) + Len(t) /\ Len(t) \in Nat
  BY ConcatIs
<1>3. Passed(SubSeq(y, a0, b0))
  BY FedIsPart, Zenon
<1> HIDE DEF y
<1>4. DOMAIN y = 1..Len(y) /\ DOMAIN w = 1..Len(w)
  BY <1>2, SMTT(30)
<1>5. /\ Len(w) \in Nat /\ Window \in Nat /\ Len(t) \in Nat /\ Len(y) = Len(w) + Len(t)
      /\ Len(Kept(w)) = IF Len(w) > Window THEN Window ELSE Len(w)
  BY <1>1, <1>2, SMTT(30)
<1> SUFFICES ASSUME NEW i \in DOMAIN y, NEW j \in DOMAIN y, j - i \in 0..Window
             PROVE  \E a \in 1..i, b \in j..Len(y) : Passed(SubSeq(y, a, b))
  BY DEF Inspected, y
<1>6. i \in 1..Len(y) /\ j \in 1..Len(y)
  BY <1>4
<1>7. CASE j <= Len(w)
  <2>1. i \in 1..Len(w) /\ j \in 1..Len(w)
    BY <1>5, <1>6, <1>7, SMTT(30)
  <2>2. PICK a \in 1..i, b \in j..Len(w) : Passed(SubSeq(w, a, b))
    BY <1>4, <2>1, Zenon DEF Inspected
  <2>3. /\ a \in Int /\ b \in Int /\ 1 <= a /\ a <= b + 1 /\ b <= Len(w) /\ b \in j..Len(y)
    BY <1>5, <2>1, SMTT(30)
  <2>4. SubSeq(y, a, b) = SubSeq(w, a, b)
    BY <2>3, PartStays, SMTT(30) DEF y
  <2> QED
    BY <2>2, <2>3, <2>4, ZenonT(60)
<1>8. CASE ~(j <= Len(w))
  <2>1. a0 \in 1..i /\ b0 \in j..Len(y)
    <3>1. i \in Int /\ j \in Int /\ 1 <= i /\ Len(w) < j /\ j <= Len(w) + Len(t)
      BY <1>5, <1>6, <1>8, SMTT(30)
    <3>2. /\ Len(w) - (IF Len(w) > Window THEN Window ELSE Len(w)) + 1 \in 1..i
          /\ Len(w) + Len(t) \in j..(Len(w) + Len(t))
      BY <1>5, <3>1, SpanStarts, Zenon
    <3> QED
      BY <1>5, <3>2, Zenon
  <2> QED
    BY <1>3, <2>1, Zenon
<1> QED
  BY <1>7, <1>8, SMTT(30)

\* A text that passed as a whole has every span inspected.
LEMMA InspectedWhole ==
  ASSUME NEW C, NEW t \in Seq(C), Passed(t)
  PROVE  Inspected(t)
<1>1. Len(t) \in Nat /\ DOMAIN t = 1..Len(t) /\ SubSeq(t, 1, Len(t)) = t
  BY SMT
<1> SUFFICES ASSUME NEW i \in DOMAIN t, NEW j \in DOMAIN t
             PROVE  \E a \in 1..i, b \in j..Len(t) : Passed(SubSeq(t, a, b))
  BY SMTT(30) DEF Inspected
<1>2. 1 \in 1..i /\ Len(t) \in j..Len(t)
  BY <1>1, SMTT(30)
<1> QED
  BY <1>1, <1>2, Zenon

\* Nothing is in an empty text.
LEMMA InspectedNothing == Inspected(<<>>) /\ Kept(<<>>) = <<>>
<1>1. DOMAIN <<>> = {} /\ Len(<<>>) = 0
  BY SMT
<1>2. ~(Len(<<>>) > Window)
  BY <1>1, InspectionAssumption, SMTT(30) DEF InspectionAssumption
<1> QED
  BY <1>1, <1>2, Zenon DEF Inspected, Kept
\* The default policy decides by its own settings.
LEMMA DefaultGiven == Given(Default)
<1>1. Default.monitorAt = 30 /\ Default.interventionAt = 80
  BY Zenon DEF Default
<1>2. Default.action # ""
  <2>1. Default.action = "block"
    BY Zenon DEF Default
  <2>2. "block" # ""
    BY Zenon
  <2> QED
    BY <2>1, <2>2, Zenon
<1>3. 30 \in Nat \ {0} /\ 80 \in Nat \ {0}
  BY SMT
<1> QED
  BY <1>1, <1>2, <1>3, Zenon DEF Given

\* What passes is what is not forbidden.
LEMMA PassedIs == ASSUME NEW text \in Seq(STRING) PROVE Passed(text) <=> ~Forbidden(text, Default)
<1>1. Verdict(text, Default) = {"block"} <=> Forbidden(text, Default)
  BY DefaultGiven, InspectionIsExact, SMTT(30)
<1>2. Verdict(text, Default) = {Decision(Normalize(text), Default)}
  BY Zenon DEF Verdict
<1> QED
  BY <1>1, <1>2, Zenon DEF Passed

\* A part of a part is a part.
LEMMA PartOfPart ==
  ASSUME NEW C, NEW s \in Seq(C), NEW a \in Int, NEW b \in Int, NEW i \in Int, NEW j \in Int,
         1 <= a, a <= i, i <= j, j <= b, b <= Len(s)
  PROVE  SubSeq(s, i, j) = SubSeq(SubSeq(s, a, b), i - a + 1, j - a + 1)
<1>1. PICK t : t = SubSeq(s, a, b)
  BY Zenon
<1>2. /\ t \in Seq(C) /\ Len(t) = b - a + 1
      /\ \A k \in 1..(b - a + 1) : t[k] = s[a + k - 1]
  <2>1. a <= b + 1
    BY SMT
  <2> QED
    BY <1>1, <2>1, PartIs, SMTT(30)
<1>3. PICK i2, j2 : i2 = i - a + 1 /\ j2 = j - a + 1
  OBVIOUS
<1>4. /\ i2 \in Int /\ j2 \in Int /\ 1 <= i2 /\ j2 <= Len(t) /\ i2 <= j2 + 1
      /\ j2 - i2 + 1 = j - i + 1
  BY <1>2, <1>3, SMTT(30)
<1>5. /\ SubSeq(t, i2, j2) \in Seq(C) /\ Len(SubSeq(t, i2, j2)) = j2 - i2 + 1
      /\ \A k \in 1..(j2 - i2 + 1) : SubSeq(t, i2, j2)[k] = t[i2 + k - 1]
  BY <1>2, <1>4, PartIs, SMTT(30)
<1>6. 1 <= i /\ j <= Len(s) /\ i <= j + 1
  <2>1. Len(s) \in Nat
    BY SMTT(30)
  <2> QED
    BY <2>1, SMTT(30)
<1>7. /\ SubSeq(s, i, j) \in Seq(C) /\ Len(SubSeq(s, i, j)) = j - i + 1
      /\ \A k \in 1..(j - i + 1) : SubSeq(s, i, j)[k] = s[i + k - 1]
  BY <1>6, PartIs, SMTT(30)
<1>8. ASSUME NEW k \in 1..(j - i + 1) PROVE SubSeq(t, i2, j2)[k] = SubSeq(s, i, j)[k]
  <2>1. i2 + k - 1 \in 1..(b - a + 1) /\ a + (i2 + k - 1) - 1 = i + k - 1
    BY <1>3, SMTT(30)
  <2>2. SubSeq(t, i2, j2)[k] = t[i2 + k - 1]
    BY <1>4, <1>5, Zenon
  <2>3. t[i2 + k - 1] = s[i + k - 1]
    BY <1>2, <2>1, Zenon
  <2> QED
    BY <1>7, <2>2, <2>3, Zenon
<1>9. SubSeq(t, i2, j2) = SubSeq(s, i, j)
  <2>1. PICK u, v : u = SubSeq(t, i2, j2) /\ v = SubSeq(s, i, j)
    BY Zenon
  <2>2. u \in Seq(C) /\ v \in Seq(C) /\ Len(u) = Len(v) /\ Len(v) = j - i + 1
    BY <1>4, <1>5, <1>7, <2>1, Zenon
  <2>3. \A k \in 1..Len(u) : u[k] = v[k]
    BY <1>8, <2>1, <2>2, ZenonT(60)
  <2>4. u = v
    BY <2>2, <2>3, SameText, SMTT(30)
  <2> QED
    BY <2>1, <2>4, Zenon
<1> QED
  BY <1>1, <1>3, <1>9, Zenon

\* A part of a part that is not forbidden is not.
LEMMA CleanPart ==
  ASSUME NEW text \in Seq(STRING), NEW a \in Int, NEW b \in Int, NEW i \in Int, NEW j \in Int,
         1 <= a, a <= i, i <= j, j <= b, b <= Len(text), ~Forbidden(SubSeq(text, a, b), Default)
  PROVE  ~Forbidden(SubSeq(text, i, j), Default)
<1>1. PICK part : part = SubSeq(text, a, b)
  BY Zenon
<1>2. a <= b + 1
  BY SMT
<1>3. part \in Seq(STRING) /\ Len(part) = b - a + 1
  BY <1>1, <1>2, PartIs
<1>4. PICK i2, j2 : i2 = i - a + 1 /\ j2 = j - a + 1
  OBVIOUS
<1>5. SubSeq(text, i, j) = SubSeq(part, i2, j2)
  BY <1>1, <1>4, PartOfPart, SMTT(30)
<1>6. i2 \in Int /\ j2 \in Int /\ 1 <= i2 /\ j2 <= b - a + 1 /\ i2 <= j2 + 1
  BY <1>4, SMTT(30)
<1>7. j2 <= Len(part)
  BY <1>3, <1>6, Zenon
<1>8. Forbidden(SubSeq(part, i2, j2), Default) => Forbidden(part, Default)
  BY <1>3, <1>6, <1>7, DefaultGiven, ForbiddenWhole, SMTT(30)
<1> QED
  BY <1>1, <1>5, <1>8, Zenon

\* No span that fits the window and one character of a text that was inspected
\* through it is forbidden.
LEMMA InspectedIsClean ==
  ASSUME NEW text \in Seq(STRING), Inspected(text),
         NEW i \in DOMAIN text, NEW j \in DOMAIN text, j - i \in 0..Window
  PROVE  ~Forbidden(SubSeq(text, i, j), Default)
<1>1. PICK a \in 1..i, b \in j..Len(text) : Passed(SubSeq(text, a, b))
  BY Zenon DEF Inspected
<1>2. Len(text) \in Nat /\ DOMAIN text = 1..Len(text) /\ Window \in Nat
  BY InspectionAssumption, SMTT(30) DEF InspectionAssumption
<1>3. /\ a \in Int /\ b \in Int /\ i \in Int /\ j \in Int
      /\ 1 <= a /\ a <= i /\ i <= j /\ j <= b /\ b <= Len(text) /\ a <= b + 1
  <2>1. PICK n : n = Len(text)
    OBVIOUS
  <2>2. n \in Nat /\ i \in 1..n /\ j \in 1..n /\ a \in 1..i /\ b \in j..n
    BY <1>2, <2>1, ZenonT(60)
  <2>3. /\ a \in Int /\ b \in Int /\ i \in Int /\ j \in Int
        /\ 1 <= a /\ a <= i /\ i <= j /\ j <= b /\ b <= n /\ a <= b + 1
    BY <1>2, <2>2, SMTT(30)
  <2> QED
    BY <2>1, <2>3, Zenon
<1>4. SubSeq(text, a, b) \in Seq(STRING)
  BY <1>3, PartIs, ZenonT(60)
<1>5. ~Forbidden(SubSeq(text, a, b), Default)
  BY <1>1, <1>4, PassedIs, Zenon
<1> QED
  BY <1>3, <1>5, CleanPart, Zenon

\* What Feed lets the rules see is forbidden only if the text of the channel is.
LEMMA FedIsForbidden ==
  ASSUME NEW w \in Seq(STRING), NEW t \in Seq(STRING), ~Passed(Kept(w) \o t)
  PROVE  Forbidden(w \o t, Default)
<1>1. PICK y : y = w \o t
  BY Zenon
<1>2. PICK a, b : a = Len(w) - Len(Kept(w)) + 1 /\ b = Len(w) + Len(t)
  OBVIOUS
<1>3. Kept(w) \o t = SubSeq(y, a, b)
  BY <1>1, <1>2, FedIsPart, Zenon
<1>4. /\ Kept(w) \in Seq(STRING) /\ Len(w) \in Nat /\ Window \in Nat
      /\ Len(Kept(w)) = IF Len(w) > Window THEN Window ELSE Len(w)
  BY KeptIs
<1>5. y \in Seq(STRING) /\ Len(y) = Len(w) + Len(t) /\ Len(t) \in Nat
  BY <1>1, ConcatIs, SMTT(30)
<1>6. a \in Int /\ b \in Int /\ 1 <= a /\ b <= Len(y) /\ a <= b + 1
  <2>1. PICK lw, lk, lt : lw = Len(w) /\ lk = Len(Kept(w)) /\ lt = Len(t)
    BY Zenon
  <2>2. /\ lw \in Nat /\ lt \in Nat /\ Window \in Nat /\ lk = (IF lw > Window THEN Window ELSE lw)
        /\ a = lw - lk + 1 /\ b = lw + lt /\ Len(y) = lw + lt
    BY <1>2, <1>4, <1>5, <2>1, Zenon
  <2> QED
    BY <2>2, SMTT(30)
<1>7. Kept(w) \o t \in Seq(STRING)
  BY <1>4, ConcatIs, SMTT(30)
<1>8. Forbidden(SubSeq(y, a, b), Default)
  BY <1>3, <1>7, PassedIs, Zenon
<1>9. Forbidden(y, Default)
  BY <1>5, <1>6, <1>8, DefaultGiven, ForbiddenWhole, SMTT(30)
<1> QED
  BY <1>1, <1>9, SMTT(30)
=============================================================================
