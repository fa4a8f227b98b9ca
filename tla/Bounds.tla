------------------------------- MODULE Bounds -------------------------------
(***************************************************************************)
(* The type Bounds of src/dbm.hh: a number and whether it is attained.     *)
(* <<c, TRUE>> stands for "at most c", <<c, FALSE>> for "less than c".     *)
(*                                                                         *)
(* The program computes with doubles; all of its bounds are sums and       *)
(* differences of the integer constants of guards, so integers are exact.  *)
(***************************************************************************)
EXTENDS Integers

CONSTANT Infinity   \* a number larger than every sum of constants

ASSUME InfinityAssumption == Infinity \in Nat \ {0}

Unbounded == <<Infinity, FALSE>>

(* The order of std::pair, where false comes before true.                  *)
Less(a, b) == a[1] < b[1] \/ (a[1] = b[1] /\ ~a[2] /\ b[2])
AtMost(a, b) == a = b \/ Less(a, b)
Least(a, b) == IF Less(b, a) THEN b ELSE a

Plus(a, b) ==
  <<IF a[1] = Infinity \/ b[1] = Infinity THEN Infinity ELSE a[1] + b[1],
    a[2] /\ b[2]>>

==============================================================================
