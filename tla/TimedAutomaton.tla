--------------------------- MODULE TimedAutomaton ---------------------------
(***************************************************************************)
(* TimedAutomaton::isMember of src/automata.hh, with which the tests of    *)
(* the repository decide what an automaton accepts.  A configuration is a  *)
(* state with the values of the clocks.                                    *)
(***************************************************************************)
EXTENDS TimedSteps

Started(ta) == {<<s, [x \in 1 .. Clocks |-> 0]>> : s \in ta.initial}

(* The configurations after an event c and the time t before it.           *)
Moved(ta, confs, c, t) ==
  {<<p[2].to, ResetPoint(After(p[1][2], t), p[2].via.resetVars)>> :
     p \in {q \in confs \X ta.trans :
              /\ q[2].at = q[1][1]
              /\ q[2].via.c = c
              /\ Satisfies(After(q[1][2], t), q[2].via.guard)}}

(* w is a sequence of <<character, time>>.                                 *)
IsMember(ta, w) ==
  LET since(i) == IF i > 1 THEN w[i][2] - w[i - 1][2] ELSE w[i][2]
      confs[i \in 0 .. Len(w)] ==
        IF i = 0 THEN Started(ta) ELSE Moved(ta, confs[i - 1], w[i][1], since(i))
  IN  \E conf \in confs[Len(w)] : conf[1] \in ta.match

==============================================================================
