----------------------------- MODULE RuleEngine ------------------------------
(***************************************************************************)
(* The keyword rules of a snapshot: the automaton that buildAho makes of   *)
(* their patterns, the matches it finds in a normalized text, and the      *)
(* score.  A node of the automaton is the text that leads to it.           *)
(***************************************************************************)
EXTENDS PolicyDecision

CONSTANTS Rules,  \* a sequence of records: pattern, action, weight
          Lower   \* maps a capital letter to its small one

ASSUME RulesAssumption ==
  Rules \in Seq([pattern : Seq(STRING), action : STRING, weight : Int])

\* strings.ToLower, for a character and for a text.
Small(char) == IF char \in DOMAIN Lower THEN Lower[char] ELSE char
ToLower(text) == [i \in DOMAIN text |-> Small(text[i])]

\* Replace skips definitions without a pattern and fills in what they leave out.
Keywords == {i \in DOMAIN Rules : Rules[i].pattern # <<>>}
Weight(i) == IF Rules[i].weight <= 0 THEN 10 ELSE Rules[i].weight
Action(i) == IF Rules[i].action = "" THEN "monitor" ELSE Rules[i].action

\* The trie of the patterns.
Nodes == {<<>>} \cup UNION {Prefixes(ToLower(Rules[i].pattern)) : i \in Keywords}

\* The node for the next character: up the links until there is a child.
Move(fail, node, char) ==
  LET walk[n \in Nodes] == IF Append(n, char) \in Nodes THEN Append(n, char)
                           ELSE IF n = <<>> THEN <<>> ELSE walk[fail[n]]
  IN walk[node]

\* The links of the nodes up to a depth; those of the others are not set yet.
Links[depth \in Nat] ==
  IF depth <= 1 THEN [n \in Nodes |-> <<>>]
  ELSE [n \in Nodes |->
          IF Len(n) = depth THEN Move(Links[depth - 1], Links[depth - 1][Front(n)], Last(n))
          ELSE Links[depth - 1][n]]
Fail == [n \in Nodes |-> Links[Len(n)][n]]

\* The rules that end in a node, or in a node its links lead to.
Ends[n \in Nodes] == {i \in Keywords : ToLower(Rules[i].pattern) = n}
                     \cup IF n = <<>> THEN {} ELSE Ends[Fail[n]]
Terms == [n \in Nodes |-> Ends[n]]

\* ahoMatches: every rule once.
Matches(text) ==
  LET state[i \in 0..Len(text)] ==
        IF i = 0 THEN <<>> ELSE Move(Fail, state[i - 1], text[i])
  IN UNION {Terms[state[i]] : i \in DOMAIN text}

\* The score of Engine.Audit, and the decision of the handler by a policy.
Score(found) == Min({100, MapThenSumSet(Weight, found)})

Decision(text, policy) ==
  LET found == Matches(text)
      actions == SetToSeq(found)
  IN Elevate([k \in DOMAIN actions |-> Action(actions[k])],
             Decide(Score(found), policy))
=============================================================================
