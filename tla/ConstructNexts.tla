--------------------------- MODULE ConstructNexts ---------------------------
(***************************************************************************)
(* The body of constructNexts of src/timed_moore_machine.cc, applied from  *)
(* the initial zone along any path of transitions: the zone reached by a   *)
(* transition, and the interval of the durations by which it can be taken. *)
(***************************************************************************)
EXTENDS TimedSteps

CONSTANTS
  Guards,      \* the guards of transitions, sequences of constraints
  MaxSteps     \* bound on the length of the paths

ASSUME GuardsAssumption == Guards \subseteq Seq(Constraint)

VARIABLES
  zone,   \* the zone of the configuration
  steps,  \* the length of the path
  last    \* the transition looked at last: what it was taken from, and what
          \* was found, "none" if it was left out

pathVars == <<zone, steps, last>>

PathInit ==
  /\ zone = Zero(Clocks)
  /\ steps = 0
  /\ last = [found |-> "nothing"]

(* A transition whose guard can be met leads to a configuration.           *)
Take ==
  /\ steps < MaxSteps
  /\ \E guard \in Guards, resetVars \in SUBSET (1 .. Clocks) :
       /\ IsSatisfiable(Clocks, Guarded(zone, guard))
       /\ zone' = ResetAll(Guarded(zone, guard), resetVars)
       /\ last' = [found |-> "next", from |-> zone, guard |-> guard,
                   resetVars |-> resetVars, duration |-> Duration(zone, guard)]
  /\ steps' = steps + 1

(* One whose guard cannot be met is left out.                              *)
Leave ==
  /\ steps < MaxSteps
  /\ \E guard \in Guards :
       /\ ~IsSatisfiable(Clocks, Guarded(zone, guard))
       /\ last' = [found |-> "none", from |-> zone, guard |-> guard]
  /\ UNCHANGED <<zone, steps>>

PathNext == Take \/ Leave

PathSpec == PathInit /\ [][PathNext]_pathVars

-----------------------------------------------------------------------------
(***************************************************************************)
(* Properties.  Zones are compared with the sets of points they stand for. *)
(* Clock values and durations are multiples of 1 / Parts up to Horizon.    *)
(* The results are compared at the multiples of 1 / 2 only, because a      *)
(* point may be reached only from points between: two strict ends that are *)
(* a half apart have one of a finer grid between them, and Parts is chosen *)
(* so that there are as many as there are clocks.                          *)
(***************************************************************************)
CONSTANT Horizon

ASSUME HorizonAssumption == Horizon \in Nat

Moments == 0 .. Parts * Horizon
Halves == {h \in Moments : (2 * h) % Parts = 0}
Points == [1 .. Clocks -> Moments]

(* The points of a zone and the durations after which they meet a guard.   *)
Ways(v, guard) ==
  {pt \in {p \in Points : In(p, v)} \X (Moments \ {0}) :
     Satisfies(After(pt[1], pt[2]), guard)}

(* The durations found are exactly those by which the transition can be    *)
(* taken from some point of the zone.                                      *)
DurationsExact ==
  last.found = "next" =>
    {t \in Halves \ {0} :
       Meets(-t, last.duration.lower) /\ Meets(t, last.duration.upper)}
      = {pt[2] : pt \in Ways(last.from, last.guard)} \intersect Halves

(* The zone reached holds exactly the points that the transition leads to. *)
ZoneExact ==
  last.found = "next" =>
    {p \in [1 .. Clocks -> Halves] : In(p, zone)}
      = {ResetPoint(After(pt[1], pt[2]), last.resetVars) :
           pt \in Ways(last.from, last.guard)} \intersect [1 .. Clocks -> Halves]

(***************************************************************************)
(* toTuple() and operator== leave out entry <<0, 0>>, where elapse() and   *)
(* the closure leave values behind.  Zones that are equal but for it lead  *)
(* to zones that are equal but for it, by the same durations.              *)
(***************************************************************************)
CornerIgnored ==
  last.found = "next" =>
    /\ Tuple(ResetAll(Guarded(Tuple(last.from), last.guard), last.resetVars)) = Tuple(zone)
    /\ Duration(Tuple(last.from), last.guard) = last.duration

(* constructNexts has it for a TODO to apply the guard at once:            *)
(* the intersection with the zone of the guard is empty exactly if         *)
(* tightening by one constraint after the other leaves nothing, and else   *)
(* it is the same zone.                                                    *)
GuardByIntersection ==
  last.found # "nothing" =>
    LET met == Intersect(Clocks, Elapse(Clocks, last.from), ConstraintsToDBM(Clocks, last.guard))
    IN  /\ IsSatisfiable(Clocks, met) = (last.found = "next")
        /\ last.found = "next" => Tuple(met) = Tuple(Guarded(last.from, last.guard))

(* A transition that is left out cannot be taken.                          *)
NoneLeftOut == last.found = "none" => Ways(last.from, last.guard) = {}

==============================================================================
