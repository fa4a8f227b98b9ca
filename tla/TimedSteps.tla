----------------------------- MODULE TimedSteps -----------------------------
(***************************************************************************)
(* One step of a timed automaton on zones, as the body of constructNexts   *)
(* of src/timed_moore_machine.cc computes it, and on points, which is what *)
(* it stands for.                                                          *)
(***************************************************************************)
EXTENDS DBM

CONSTANTS
  Clocks,   \* the number of clocks
  Parts     \* points and durations are multiples of 1 / Parts

ASSUME ClocksAssumption == Clocks \in Nat
ASSUME PartsAssumption == Parts \in Nat \ {0}

Constraint == [x : 1 .. Clocks, order : {"lt", "le", "gt", "ge"}, c : Int]

(* Elapse, intersect with the guard, and test, which canonizes.            *)
Guarded(v, guard) == Canonize(Clocks, TightenAll(Clocks, Elapse(Clocks, v), guard))

(* Faulty: the duration is looked for in the zone that has elapsed.        *)
DurationElapsed(v, guard) ==
  FindDuration(Clocks, Elapse(Clocks, v), ConstraintsToDBM(Clocks, guard))

Duration(v, guard) == FindDuration(Clocks, v, ConstraintsToDBM(Clocks, guard))

(* Reset the clocks one after the other.                                   *)
ResetAll(v, resetVars) ==
  LET upTo[x \in 0 .. Clocks] ==
        IF x = 0 THEN v
        ELSE IF x \in resetVars THEN Reset(Clocks, upTo[x - 1], x)
        ELSE upTo[x - 1]
  IN  upTo[Clocks]

(* What toTuple() and operator== of DBM see of a zone.                     *)
Tuple(v) == [v EXCEPT ![<<0, 0>>] = <<0, TRUE>>]

-----------------------------------------------------------------------------
(* Points, the clock values themselves.                                    *)

Meets(d, bound) ==
  \/ bound[1] = Infinity
  \/ d < Parts * bound[1]
  \/ d = Parts * bound[1] /\ bound[2]

(* The points of a zone.                                                   *)
In(p, v) ==
  /\ \A x \in 1 .. Clocks : Meets(p[x], v[<<x, 0>>]) /\ Meets(-p[x], v[<<0, x>>])
  /\ \A x, y \in 1 .. Clocks : x # y => Meets(p[x] - p[y], v[<<x, y>>])

Satisfies(p, guard) ==
  \A k \in DOMAIN guard :
    LET g == guard[k]
    IN  \/ g.order = "lt" /\ p[g.x] < Parts * g.c
        \/ g.order = "le" /\ p[g.x] =< Parts * g.c
        \/ g.order = "gt" /\ p[g.x] > Parts * g.c
        \/ g.order = "ge" /\ p[g.x] >= Parts * g.c

After(p, t) == [x \in 1 .. Clocks |-> p[x] + t]

ResetPoint(p, resetVars) ==
  [x \in 1 .. Clocks |-> IF x \in resetVars THEN 0 ELSE p[x]]

==============================================================================
