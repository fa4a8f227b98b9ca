--------------------------- MODULE MCMooreMachine ---------------------------
(***************************************************************************)
(* MooreMachine over a timed alphabet and every automaton with two states  *)
(* and any partial transition function and counters.                       *)
(***************************************************************************)
EXTENDS MooreMachine

(* Pairs of a character and a duration; mask() keeps the duration.         *)
MCAlphabet == {<<"a", 1>>, <<"a", 2>>}
MCMaskChar == <<"_", 0>>
MCMaskOf(c) == <<"_", c[2]>>

MCStates == {1, 2}

MCMachines ==
  [initial : {1},
   next : UNION {[D -> MCStates] : D \in SUBSET (MCStates \X MCAlphabet)},
   counter : [MCStates -> 0 .. BufferSize]]

==============================================================================
