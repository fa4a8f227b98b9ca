---------------------------- MODULE MCTimedFilter ----------------------------
(***************************************************************************)
(* TimedFilter for files with two vertices and two edges, the first from   *)
(* the initial vertex, and one clock in their guards.                      *)
(***************************************************************************)
EXTENDS TimedFilter

MCLetters == {"a", "b"}

MCVertices == <<[init |-> TRUE, match |-> FALSE], [init |-> FALSE, match |-> TRUE]>>

Guards(orders) == {<<>>} \union {<<[x |-> 0, order |-> o, c |-> 1]>> : o \in orders}

Files2(resets) ==
  [vertices : {MCVertices},
   edges : [source : {1}, target : {1, 2}, label : {"a"}, reset : resets,
            guard : Guards({"le", "gt"})]
           \X
           [source : {1, 2}, target : {2}, label : MCLetters, reset : resets,
            guard : Guards({"lt", "ge"})]]

(* Files with a guard in which the matching vertex can be reached and only *)
(* edges after which another can be taken reset the clock.                 *)
MCFiles ==
  {f \in Files2({<<>>, <<0>>}) :
     LET first == f.edges[1]
         second == f.edges[2]
     IN  /\ first.guard # <<>> \/ second.guard # <<>>
         /\ second.source \in {1, first.target}
         /\ second.source = 1 => second.reset = <<>>
         /\ second.source # first.target => first.reset = <<>>}

(* Files in which a second clock may be reset.                             *)
MCResetOnly == Files2({<<>>, <<0>>, <<0, 1>>})

==============================================================================
