-------------------------- MODULE MCConstructNexts --------------------------
(***************************************************************************)
(* ConstructNexts for guards of at most two constraints with constants up  *)
(* to MaxConstant.                                                         *)
(***************************************************************************)
EXTENDS ConstructNexts

CONSTANT MaxConstant

Constraints ==
  {g \in [x : 1 .. Clocks, order : {"lt", "le", "gt", "ge"}, c : 0 .. MaxConstant] :
     ~(g.order = "lt" /\ g.c = 0)}

(* At most one constraint for each clock, or an interval for the first.    *)
MCGuards ==
  {g \in UNION {[1 .. k -> Constraints] : k \in 0 .. 2} :
     \A i, j \in DOMAIN g : i < j =>
       \/ g[i].x < g[j].x
       \/ /\ g[i].x = 1 /\ g[i].order \in {"gt", "ge"}
          /\ g[j].x = 1 /\ g[j].order \in {"lt", "le"}}

==============================================================================
