-------------------------- MODULE MCToMooreMachine --------------------------
(***************************************************************************)
(* ToMooreMachine for the automata with counters that module AddCounter    *)
(* makes of every automaton with two states over two characters.  A copy   *)
(* is named by its original and its counter.                               *)
(***************************************************************************)
EXTENDS ToMooreMachine

MCStates == {1, 2}
MCCopies == MCStates \X (0 .. BufferSize)

Automata ==
  [initial : {{1}, {1, 2}},
   match : {{1}, {2}},
   trans : SUBSET [at : MCStates, via : {"a", "b"}, to : MCStates]]

(* Where a transition takes a copy.                                        *)
Step(t, s) == <<t.to, IF s[2] = BufferSize THEN 1 ELSE s[2] + 1>>

(* The least set of copies with the initial ones and closed under steps.   *)
Reached(m) ==
  LET grow[S \in SUBSET MCCopies] ==
        LET T == S \union {Step(p[1], p[2]) :
                     p \in {u \in m.trans \X S : u[1].at = u[2][1]}}
        IN  IF T = S THEN S ELSE grow[T]
  IN  grow[m.initial \X {0}]

Unfolded(m) ==
  LET R == Reached(m)
  IN  [initial |-> m.initial \X {0},
       match |-> {s \in R : s[1] \in m.match},
       counter |-> [s \in R |-> s[2]],
       trans |-> {[at |-> p[2], via |-> p[1].via, to |-> Step(p[1], p[2])] :
                    p \in {u \in m.trans \X R : u[1].at = u[2][1]}}]

MCCounted == {Unfolded(m) : m \in Automata}

==============================================================================
