----------------------- MODULE MCToTimedMooreMachine -----------------------
(***************************************************************************)
(* ToTimedMooreMachine for the automata with counters that module          *)
(* AddCounter makes of timed automata with two states and few transitions. *)
(* A copy is named by its original and its counter.                        *)
(***************************************************************************)
EXTENDS ToTimedMooreMachine

CONSTANTS MaxTransitions, MaxConstant

MCCharacters == {"a", "b"}
MCStates == {1, 2}
MCCopies == MCStates \X (0 .. BufferSize)

Guards ==
  {<<>>} \union [1 .. 1 -> [x : 1 .. Clocks, order : {"lt", "le", "gt", "ge"},
                            c : 1 .. MaxConstant]]

Transitions ==
  [at : MCStates, via : MCCharacters, guard : Guards,
   resetVars : SUBSET (1 .. Clocks), to : MCStates]

(* Where a transition takes a copy.                                        *)
Step(t, s) == <<t.to, IF s[2] = BufferSize THEN 1 ELSE s[2] + 1>>

(* The least set of copies with the initial ones and closed under steps.   *)
Reached(trans) ==
  LET grow[S \in SUBSET MCCopies] ==
        LET T == S \union {Step(p[1], p[2]) :
                     p \in {u \in trans \X S : u[1].at = u[2][1]}}
        IN  IF T = S THEN S ELSE grow[T]
  IN  grow[{<<1, 0>>}]

Unfolded(trans) ==
  LET R == Reached(trans)
  IN  [initial |-> {<<1, 0>>},
       match |-> {s \in R : s[1] = 2},
       counter |-> [s \in R |-> s[2]],
       trans |-> {[p[1] EXCEPT !.at = p[2], !.to = Step(p[1], p[2])] :
                    p \in {u \in trans \X R : u[1].at = u[2][1]}}]

(* Automata with one to MaxTransitions transitions.                        *)
MCAll == {{t[i] : i \in 1 .. MaxTransitions} : t \in [1 .. MaxTransitions -> Transitions]}

MCCounted == {Unfolded(trans) : trans \in MCAll}

==============================================================================
