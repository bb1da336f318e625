-------------------------------- MODULE Texts --------------------------------
(***************************************************************************)
(* Operators on sequences, with the names and the meaning they have in     *)
(* SequencesExt.  They stand here alone because SequencesExt extends Bags  *)
(* and TLC, and tlapm carries every definition in scope through each of    *)
(* the obligations of the proofs about the models that use these five.     *)
(***************************************************************************)
EXTENDS Integers, Sequences, FiniteSetsExt

Front(s) == SubSeq(s, 1, Len(s) - 1)
Last(s) == s[Len(s)]
Prefixes(s) == {SubSeq(s, 1, l) : l \in 0..Len(s)}

\* The sequences of a sequence, one after the other.
FlattenSeq(seqs) ==
  LET flat[i \in 1..Len(seqs)] ==
        IF i = 1 THEN seqs[i] ELSE flat[i - 1] \o seqs[i]
  IN IF Len(seqs) = 0 THEN <<>> ELSE flat[Len(seqs)]

\* The members of a finite set in some order, each of them once.
SetToSeq(S) == CHOOSE f \in [1..Cardinality(S) -> S] : IsInjective(f)
=============================================================================
