---------------------------- MODULE MCAddCounter ----------------------------
(***************************************************************************)
(* AddCounter for every automaton with two states over two letters (for a  *)
(* timed automaton, two pairs of a letter and a guard).                    *)
(***************************************************************************)
EXTENDS AddCounter

MCStates == {1, 2}

MCAutomata ==
  [initial : {{1}, {1, 2}},
   match : {{2}},
   trans : SUBSET [at : MCStates, via : {"a", "b"}, to : MCStates]]

==============================================================================
