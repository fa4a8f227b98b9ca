-------------------------- MODULE MCLinearizeNexts --------------------------
(***************************************************************************)
(* LinearizeNexts for every vector of up to MaxIntervals intervals with    *)
(* ends up to MaxEnd or infinity and two configurations.                   *)
(***************************************************************************)
EXTENDS LinearizeNexts

CONSTANTS MaxIntervals, MaxEnd

MCInitials == {{"init"}}

(* findDuration returns non-empty intervals of positive durations.         *)
Nonempty(e) ==
  \/ -e.lower[1] < e.upper[1]
  \/ -e.lower[1] = e.upper[1] /\ e.lower[2] /\ e.upper[2]

Intervals ==
  {e \in [conf : {"p", "q"},
          lower : ((-MaxEnd .. -1) \X BOOLEAN) \union {<<0, FALSE>>},
          upper : ((1 .. MaxEnd) \X BOOLEAN) \union {Unbounded}] : Nonempty(e)}

(* The order of the vector does not matter: it is sorted.                  *)
Rank(e) ==
  LET half(b) == 2 * b[1] + (IF b[2] THEN 1 ELSE 0)
  IN  half(e.upper) - 1000 * half(e.lower) + (IF e.conf = "p" THEN 0 ELSE 500)

MCVectors ==
  UNION {{s \in [1 .. n -> Intervals] :
            \A i \in 1 .. n - 1 : Rank(s[i]) =< Rank(s[i + 1])} :
         n \in 0 .. MaxIntervals}

==============================================================================
