--------------------------- MODULE MCUntimedFilter ---------------------------
(***************************************************************************)
(* UntimedFilter for the files with two vertices and at most               *)
(* MaxTransitions edges over two characters.                               *)
(***************************************************************************)
EXTENDS UntimedFilter, FiniteSets, SequencesExt

CONSTANT MaxTransitions

MCAlphabet == {"a", "b"}

Edges ==
  [source : {1, 2}, target : {1, 2}, label : MCAlphabet, reset : {<<>>}, guard : {<<>>}]

(* One edge leads to the matching vertex, or nothing would ever match; it  *)
(* is labelled "a", up to the names of the characters.                     *)
MCFiles ==
  [vertices : {<<[init |-> TRUE, match |-> FALSE], [init |-> FALSE, match |-> TRUE]>>},
   edges : {SetToSeq(E) : E \in {D \in SUBSET Edges :
              /\ Cardinality(D) =< MaxTransitions
              /\ \E e \in D : e.source = 1 /\ e.target = 2 /\ e.label = "a"}}]

==============================================================================
