------------------------------- MODULE Words --------------------------------
(***************************************************************************)
(* Where words lead along transitions [at, via, to]: what the automata of  *)
(* the patterns mean, apart from any construction of the program.          *)
(***************************************************************************)
EXTENDS Integers, Sequences

(* The states that the character a leads to from those in qs.              *)
Successors(trans, qs, a) == {t.to : t \in {u \in trans : u.at \in qs /\ u.via = a}}

(* The states that the word w leads to from those in start.                *)
StatesAfter(trans, start, w) ==
  LET reached[n \in 0 .. Len(w)] ==
        IF n = 0 THEN start ELSE Successors(trans, reached[n - 1], w[n])
  IN  reached[Len(w)]

==============================================================================
