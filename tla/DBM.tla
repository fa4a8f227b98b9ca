-------------------------------- MODULE DBM --------------------------------
(***************************************************************************)
(* The difference-bound matrices of src/dbm.hh.                            *)
(*                                                                         *)
(* A zone of n clocks is a matrix of bounds indexed by 0 .. n: entry       *)
(* <<i, j>> bounds clock i minus clock j, and clock 0 is always 0.  The    *)
(* clocks of the automaton count from 0 in the source (x++ in tighten and  *)
(* reset) and from 1 here.                                                 *)
(***************************************************************************)
EXTENDS Bounds, Sequences

Indices(n) == (0 .. n) \X (0 .. n)

(* The matrix m.  TLC evaluates a function it has compared, and would      *)
(* otherwise evaluate an entry again every time that it is read.           *)
Stored(m) == CHOOSE v \in {m} : v = m

(* DBM::zero: every clock is 0.                                            *)
Zero(n) == [ij \in Indices(n) |-> <<0, TRUE>>]

(***************************************************************************)
(* close1(x): shorten every path through x.  Row after row is updated in   *)
(* place, so the rows after x see the updated row of x.                    *)
(***************************************************************************)
Close1(n, v, x) ==
  LET rowX == [j \in 0 .. n |-> Least(v[<<x, j>>], Plus(v[<<x, j>>], v[<<x, x>>]))]
      via(i, j) == IF i > x THEN rowX[j] ELSE v[<<x, j>>]
  IN  Stored([ij \in Indices(n) |->
                Least(v[ij], Plus(via(ij[1], ij[2]), v[<<ij[1], x>>]))])

(* tighten(x, y, c): add the constraint that x - y is within c.            *)
Tighten(n, v, x, y, c) ==
  LET w == [v EXCEPT ![<<x, y>>] = Least(v[<<x, y>>], c)]
  IN  Close1(n, Close1(n, w, x), y)

(* Faulty: the differences to the other clocks are not updated.            *)
ResetAlone(n, v, x) ==
  [v EXCEPT ![<<0, x>>] = <<0, TRUE>>, ![<<x, 0>>] = <<0, TRUE>>]

(* reset(x): clock x is 0, and its differences are those of clock 0.       *)
Reset(n, v, x) ==
  LET w == [v EXCEPT ![<<0, x>>] = <<0, TRUE>>, ![<<x, 0>>] = <<0, TRUE>>]
  IN  [ij \in Indices(n) |->
         IF ij[1] = x /\ ij[2] # 0 THEN
           IF ij[2] = x THEN w[<<0, x>>] ELSE w[<<0, ij[2]>>]
         ELSE IF ij[2] = x /\ ij[1] # 0 THEN w[<<ij[1], 0>>]
         ELSE w[ij]]

(* elapse(): a positive time passes.                                       *)
Elapse(n, v) ==
  [ij \in Indices(n) |->
     IF ij[2] = 0 THEN Unbounded
     ELSE IF ij[1] = 0 THEN <<v[ij][1], FALSE>>
     ELSE v[ij]]

Canonize(n, v) ==
  LET upTo[k \in -1 .. n] == IF k = -1 THEN v ELSE Close1(n, upTo[k - 1], k)
  IN  upTo[n]

(* isSatisfiable() of a matrix that is canonized: it canonizes *this.      *)
IsSatisfiable(n, v) ==
  \A i, j \in 0 .. n : AtMost(<<0, TRUE>>, Plus(v[<<i, j>>], v[<<j, i>>]))

(* Faulty: the intersection is not canonized.                              *)
IntersectOpen(n, v, z) == [ij \in Indices(n) |-> Least(v[ij], z[ij])]

(* operator&=(z), which canonizes.                                         *)
Intersect(n, v, z) == Canonize(n, [ij \in Indices(n) |-> Least(v[ij], z[ij])])

(***************************************************************************)
(* A constraint of a guard is [x, order, c]; a guard is a sequence of them *)
(***************************************************************************)
(* Faulty: an attained upper bound is taken for a strict one.              *)
TightenToStrict(n, v, g) ==
  CASE g.order = "lt" -> Tighten(n, v, g.x, 0, <<g.c, FALSE>>)
    [] g.order = "le" -> Tighten(n, v, g.x, 0, <<g.c, FALSE>>)
    [] g.order = "gt" -> Tighten(n, v, 0, g.x, <<-g.c, FALSE>>)
    [] g.order = "ge" -> Tighten(n, v, 0, g.x, <<-g.c, TRUE>>)

TightenTo(n, v, g) ==
  CASE g.order = "lt" -> Tighten(n, v, g.x, 0, <<g.c, FALSE>>)
    [] g.order = "le" -> Tighten(n, v, g.x, 0, <<g.c, TRUE>>)
    [] g.order = "gt" -> Tighten(n, v, 0, g.x, <<-g.c, FALSE>>)
    [] g.order = "ge" -> Tighten(n, v, 0, g.x, <<-g.c, TRUE>>)

TightenAll(n, v, guard) ==
  LET upTo[k \in 0 .. Len(guard)] ==
        IF k = 0 THEN v ELSE TightenTo(n, upTo[k - 1], guard[k])
  IN  upTo[Len(guard)]

(* constraintsToDBM: the zone of a guard.                                  *)
ConstraintsToDBM(n, guard) ==
  TightenAll(n, [ij \in Indices(n) |->
                   IF ij[1] = ij[2] \/ ij[1] = 0 THEN <<0, TRUE>> ELSE Unbounded],
             guard)

(* Faulty: nothing says that the duration is positive.                     *)
FindDurationUncapped(n, v, z) ==
  LET T == n + 1
      withT == [ij \in Indices(T) |->
                  IF ij = <<T, T>> THEN <<0, TRUE>>
                  ELSE IF ij = <<T, 0>> THEN Unbounded
                  ELSE IF ij[1] = T THEN v[<<0, ij[2]>>]
                  ELSE IF ij[2] = T THEN v[<<ij[1], 0>>]
                  ELSE v[ij]]
      target == [ij \in Indices(T) |->
                   IF ij = <<T, T>> THEN <<0, TRUE>>
                   ELSE IF T \in {ij[1], ij[2]} THEN Unbounded
                   ELSE z[ij]]
      elapsed == Elapse(T, withT)
      met == Canonize(T, [ij \in Indices(T) |-> Least(elapsed[ij], target[ij])])
  IN  [lower |-> met[<<0, T>>], upper |-> met[<<T, 0>>]]

(***************************************************************************)
(* findDuration(z): the durations after which a point of the zone is in z, *)
(* as an upper bound and a negated lower bound.  A clock T is added that   *)
(* is 0 in the zone, time passes, and T is read off the intersection.      *)
(***************************************************************************)
FindDuration(n, v, z) ==
  LET T == n + 1
      withT == [ij \in Indices(T) |->
                  IF ij = <<T, T>> THEN <<0, TRUE>>
                  ELSE IF ij = <<T, 0>> THEN Unbounded
                  ELSE IF ij[1] = T THEN v[<<0, ij[2]>>]
                  ELSE IF ij[2] = T THEN v[<<ij[1], 0>>]
                  ELSE v[ij]]
      target == [ij \in Indices(T) |->
                   IF ij = <<T, T>> THEN <<0, TRUE>>
                   ELSE IF ij = <<0, T>> THEN <<0, FALSE>>
                   ELSE IF T \in {ij[1], ij[2]} THEN Unbounded
                   ELSE z[ij]]
      elapsed == Elapse(T, withT)
      met == Canonize(T, [ij \in Indices(T) |-> Least(elapsed[ij], target[ij])])
  IN  [lower |-> met[<<0, T>>], upper |-> met[<<T, 0>>]]

==============================================================================
