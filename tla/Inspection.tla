------------------------------ MODULE Inspection -----------------------------
(***************************************************************************)
(* What the handler lets the rules see: normalized text, of a body as a    *)
(* whole and of a stream through a window over each channel.  Characters   *)
(* that the normalization does not touch stand for themselves; a text here *)
(* is never a JSON document, of which only the strings would be taken.     *)
(***************************************************************************)
EXTENDS RuleEngine

CONSTANTS Channels, Window,
          Alphabet,
          Format,  \* format characters
          Blank    \* white space

ASSUME InspectionAssumption ==
  /\ Window \in Nat \ {0}
  /\ Format \subseteq Alphabet /\ Blank \in Alphabet \ Format

Word(char) == char \notin Format /\ char # Blank

\* There is white space between a place and the last word before it.
Gap(text, i) ==
  \E b \in 1..(i - 1) :
    /\ text[b] = Blank /\ \A j \in b..(i - 1) : ~Word(text[j])
    /\ \E j \in 1..(b - 1) : Word(text[j])

\* normalize: format characters go, a run of white space between two words
\* becomes one space, and capitals become small.
Normalize(text) ==
  ToLower(FlattenSeq([i \in DOMAIN text |->
            IF ~Word(text[i]) THEN <<>>
            ELSE IF Gap(text, i) THEN <<Blank, text[i]>> ELSE <<text[i]>>]))

\* The decision on a text, the only member of a set so that TLC evaluates the
\* text once.
Verdict(text, policy) == {Decision(plain, policy) : plain \in {Normalize(text)}}

\* The last characters of a text, as many as the window holds.
Kept(text) == IF Len(text) > Window THEN SubSeq(text, Len(text) - Window + 1, Len(text))
              ELSE text

\* Mutant of Feed: every channel feeds every window.
FeedShared(tails, fragment) ==
  LET combined == tails[fragment.channel] \o fragment.text
  IN [seen |-> combined, tails |-> [c \in Channels |-> Kept(combined)]]

\* Windows.Feed: what is inspected, and the tails that are kept.
Feed(tails, fragment) ==
  LET combined == tails[fragment.channel] \o fragment.text
  IN [seen |-> combined,
      tails |-> [tails EXCEPT ![fragment.channel] = Kept(combined)]]

-----------------------------------------------------------------------------
\* The reference.  The rules see the words of a text and the space between two.
Visible(text, i) ==
  \/ Word(text[i])
  \/ /\ text[i] = Blank
     /\ \E j \in 1..(i - 1) : Word(text[j])
     /\ \E j \in (i + 1)..Len(text) : Word(text[j])

\* There is nothing to see between two such characters.
Adjacent(text, i, j) ==
  /\ i < j /\ (Word(text[i]) \/ Word(text[j]))
  /\ \A k \in (i + 1)..(j - 1) :
       text[k] \in Format \/ (text[k] = Blank /\ Blank \in {text[i], text[j]})

\* A pattern occurs in a text when its characters do in their order, in either
\* case, with nothing but format characters between them and with any number
\* of spaces for one.
Occurs(pattern, text) ==
  \E at \in [DOMAIN pattern -> DOMAIN text] :
    /\ \A k \in DOMAIN pattern :
         Small(text[at[k]]) = Small(pattern[k]) /\ Visible(text, at[k])
    /\ \A k \in 2..Len(pattern) : Adjacent(text, at[k - 1], at[k])

\* A text is forbidden when a rule that blocks occurs in it, or when the
\* weights of the rules that do reach the threshold.
Forbidden(text, policy) ==
  LET found == {r \in Keywords : Occurs(Rules[r].pattern, text)}
  IN \/ \E r \in found : Rules[r].action = "block"
     \/ policy.action = "block" /\ Score(found) >= policy.interventionAt

\* The forbidden texts that fit the window and one character.
Banned == {text \in UNION {[1..n -> Alphabet] : n \in 1..(Window + 1)} :
             Forbidden(text, Default)}
=============================================================================
