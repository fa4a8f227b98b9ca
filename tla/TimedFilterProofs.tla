-------------------------- MODULE TimedFilterProofs --------------------------
(***************************************************************************)
(* The program for timed automata loses no match, for every file, every    *)
(* buffer whose mask does not overflow and words of any length.            *)
(*                                                                         *)
(* First, the zones: every operation on difference-bound matrices keeps    *)
(* the points that it should keep, so a point that meets a guard is in the *)
(* zone that the transition leads to and its duration in the interval that *)
(* was found.  Nothing is assumed of Infinity but that it is positive: a   *)
(* sum that happens to be Infinity only makes a zone larger.  The theorems *)
(* about the paths of ConstructNexts follow.                               *)
(*                                                                         *)
(* Then the program, whose parts are those of AddCounterProofs,            *)
(* LinearizeNextsProofs and MooreMachineProofs.  While the machine is made *)
(* every piece of a sweep serves the durations of its interval, and so     *)
(* does the entry that it becomes.  When it is complete, the state of the  *)
(* machine covers the runs of the pattern that are alive, step by step,    *)
(* and its counter shows as much as each of them needs.                    *)
(*                                                                         *)
(* That every interval swept contains a duration, SweepsIntervals, is a    *)
(* hypothesis of the theorems about the program: it needs that the closure *)
(* of a matrix is exact, which holds only where no sum is Infinity.        *)
(***************************************************************************)
EXTENDS TimedFilter, ConstructNexts, BasicLemmas, FiniteSetTheorems

Bound == Int \X BOOLEAN
Matrices(n) == [Indices(n) -> Bound]

(* Points with the clock 0, which is always 0.                             *)
Places(n) == {p \in [0 .. n -> Int] : p[0] = 0}

(* The point p is within all bounds of v, those of the diagonal included.  *)
Within(n, p, v) == \A i, j \in 0 .. n : Meets(p[i] - p[j], v[<<i, j>>])

(* The matrices of n clocks that have the point p.                         *)
Around(n, p) == {v \in Matrices(n) : Within(n, p, v)}

-----------------------------------------------------------------------------
(* Bounds.                                                                 *)

LEMMA BoundIsPair ==
  ASSUME NEW a \in Bound PROVE a = <<a[1], a[2]>> /\ a[1] \in Int /\ a[2] \in BOOLEAN
BY DEF Bound

LEMMA PairIsBound ==
  ASSUME NEW c \in Int, NEW attained \in BOOLEAN PROVE <<c, attained>> \in Bound
BY DEF Bound

LEMMA BoundsOfZero == <<0, TRUE>> \in Bound /\ <<0, FALSE>> \in Bound
<1>1. 0 \in Int /\ TRUE \in BOOLEAN /\ FALSE \in BOOLEAN
  OBVIOUS
<1>2. \A c \in Int, attained \in BOOLEAN : <<c, attained>> \in Bound
  BY DEF Bound
<1> QED
  BY <1>1, <1>2

LEMMA AllMeetUnbounded == Unbounded \in Bound /\ \A d : Meets(d, Unbounded)
<1>1. Infinity \in Int
  BY InfinityAssumption
<1> QED
  BY <1>1 DEF Unbounded, Meets, Bound

LEMMA MeetsIsAtMost ==
  ASSUME NEW a \in Bound, NEW d \in Int, Meets(d, a)
  PROVE  a[1] = Infinity \/ d =< Parts * a[1]
<1>1. Parts * a[1] \in Int
  BY BoundIsPair, PartsAssumption
<1> QED
  BY <1>1 DEF Meets

LEMMA LeastIsOne ==
  ASSUME NEW a, NEW b PROVE Least(a, b) = a \/ Least(a, b) = b
BY DEF Least

LEMMA PlusIsBound ==
  ASSUME NEW a \in Bound, NEW b \in Bound PROVE Plus(a, b) \in Bound
<1>1. a[1] + b[1] \in Int /\ (a[2] /\ b[2]) \in BOOLEAN
  BY BoundIsPair
<1>2. Infinity \in Int
  BY InfinityAssumption
<1> QED
  BY <1>1, <1>2, BoundIsPair DEF Plus, Bound

LEMMA ProductOfSum ==
  ASSUME NEW a \in Int, NEW b \in Int
  PROVE  Parts * (a + b) = Parts * a + Parts * b /\ Parts * a \in Int /\ Parts * b \in Int
BY PartsAssumption

(* What meets two bounds meets their sum.                                  *)
LEMMA SumMeets ==
  ASSUME NEW a \in Bound, NEW b \in Bound, NEW d \in Int, NEW e \in Int,
         Meets(d, a), Meets(e, b)
  PROVE  Meets(d + e, Plus(a, b))
<1>1. CASE a[1] = Infinity \/ b[1] = Infinity
  BY <1>1 DEF Meets, Plus
<1>2. CASE a[1] # Infinity /\ b[1] # Infinity
  <2>1. Plus(a, b)[1] = a[1] + b[1] /\ Plus(a, b)[2] = (a[2] /\ b[2])
    BY <1>2 DEF Plus
  <2>2. Parts * (a[1] + b[1]) = Parts * a[1] + Parts * b[1]
        /\ Parts * a[1] \in Int /\ Parts * b[1] \in Int
    BY ProductOfSum, BoundIsPair
  <2> DEFINE A == Parts * a[1]
             B == Parts * b[1]
  <2>3. /\ d < A \/ (d = A /\ a[2])
        /\ e < B \/ (e = B /\ b[2])
    BY <1>2 DEF Meets
  <2>4. A \in Int /\ B \in Int /\ Parts * (a[1] + b[1]) = A + B
    BY <2>2
  <2> HIDE DEF A, B
  <2>5. d + e < A + B \/ (d + e = A + B /\ a[2] /\ b[2])
    BY <2>3, <2>4
  <2> QED
    BY <2>1, <2>4, <2>5 DEF Meets
<1> QED
  BY <1>1, <1>2

(* A bound that 0 meets is not below <<0, TRUE>>.                          *)
LEMMA ZeroMeets ==
  ASSUME NEW a \in Bound
  PROVE  Meets(0, a) <=> AtMost(<<0, TRUE>>, a)
<1>1. a = <<a[1], a[2]>> /\ a[1] \in Int /\ a[2] \in BOOLEAN
  BY BoundIsPair
<1>2. Parts * a[1] \in Int /\ (Parts * a[1] > 0 <=> a[1] > 0) /\ (Parts * a[1] = 0 <=> a[1] = 0)
  BY <1>1, PartsAssumption
<1>3. Infinity \in Int /\ Infinity > 0
  BY InfinityAssumption
<1>4. <<0, TRUE>> = a <=> a[1] = 0 /\ a[2]
  <2>1. \A x, y : <<0, TRUE>> = <<x, y>> <=> x = 0 /\ y = TRUE
    OBVIOUS
  <2> QED
    BY <1>1, <2>1
<1> DEFINE A == Parts * a[1]
<1> HIDE DEF A
<1>5. Meets(0, a) <=> a[1] = Infinity \/ 0 < A \/ (0 = A /\ a[2])
  BY DEF Meets, A
<1>6. A \in Int /\ (A > 0 <=> a[1] > 0) /\ (A = 0 <=> a[1] = 0)
  BY <1>2 DEF A
<1>7. AtMost(<<0, TRUE>>, a) <=> (a[1] = 0 /\ a[2]) \/ 0 < a[1]
  BY <1>1, <1>4 DEF AtMost, Less
<1> QED
  BY <1>1, <1>3, <1>5, <1>6, <1>7

-----------------------------------------------------------------------------
(* Closing.                                                                *)

LEMMA StoredIs == ASSUME NEW m PROVE Stored(m) = m
BY DEF Stored

LEMMA EntryIsBound ==
  ASSUME NEW n, NEW v \in Matrices(n), NEW i \in 0 .. n, NEW j \in 0 .. n
  PROVE  v[<<i, j>>] \in Bound
BY DEF Matrices, Indices

LEMMA IndexIsPair ==
  ASSUME NEW n, NEW ij \in Indices(n)
  PROVE  \E i, j \in 0 .. n : ij = <<i, j>>
BY DEF Indices

LEMMA LeastIsBound ==
  ASSUME NEW a \in Bound, NEW b \in Bound PROVE Least(a, b) \in Bound
BY LeastIsOne

LEMMA LeastMeets ==
  ASSUME NEW a, NEW b, NEW d, Meets(d, a), Meets(d, b) PROVE Meets(d, Least(a, b))
<1>1. Least(a, b) = a \/ Least(a, b) = b
  BY LeastIsOne
<1> QED
  BY <1>1

LEMMA MatrixByEntries ==
  ASSUME NEW n, NEW m, m = [ij \in Indices(n) |-> m[ij]],
         \A i, j \in 0 .. n : m[<<i, j>>] \in Bound
  PROVE  m \in Matrices(n)
<1>1. ASSUME NEW ij \in Indices(n) PROVE m[ij] \in Bound
  <2>1. PICK i \in 0 .. n, j \in 0 .. n : ij = <<i, j>>
    BY IndexIsPair
  <2>2. m[<<i, j>>] \in Bound
    OBVIOUS
  <2> QED
    BY <2>1, <2>2
<1> QED
  BY <1>1 DEF Matrices

LEMMA AroundByEntries ==
  ASSUME NEW n, NEW p, NEW m, m = [ij \in Indices(n) |-> m[ij]],
         \A i, j \in 0 .. n : m[<<i, j>>] \in Bound /\ Meets(p[i] - p[j], m[<<i, j>>])
  PROVE  m \in Around(n, p)
BY MatrixByEntries DEF Around, Within

LEMMA Close1Keeps ==
  ASSUME NEW n \in Nat, NEW p \in Places(n), NEW v \in Around(n, p), NEW x \in 0 .. n
  PROVE  Close1(n, v, x) \in Around(n, p)
<1> DEFINE rowX == [j \in 0 .. n |-> Least(v[<<x, j>>], Plus(v[<<x, j>>], v[<<x, x>>]))]
           through(i, j) == IF i > x THEN rowX[j] ELSE v[<<x, j>>]
           entry(i, j) == Least(v[<<i, j>>], Plus(through(i, j), v[<<i, x>>]))
           m == [ij \in Indices(n) |->
                   Least(v[ij], Plus(through(ij[1], ij[2]), v[<<ij[1], x>>]))]
<1>1. Close1(n, v, x) = m
  BY StoredIs DEF Close1
<1>2. \A i, j \in 0 .. n : v[<<i, j>>] \in Bound /\ Meets(p[i] - p[j], v[<<i, j>>])
  BY EntryIsBound DEF Around, Within
<1>3. \A i \in 0 .. n : p[i] \in Int
  BY DEF Places
<1>4. ASSUME NEW j \in 0 .. n
      PROVE  rowX[j] \in Bound /\ Meets(p[x] - p[j], rowX[j])
  <2>1. Plus(v[<<x, j>>], v[<<x, x>>]) \in Bound
    BY <1>2, PlusIsBound
  <2>2. p[x] - p[j] \in Int /\ p[x] - p[x] \in Int /\ (p[x] - p[j]) + (p[x] - p[x]) = p[x] - p[j]
    BY <1>3
  <2>3. Meets((p[x] - p[j]) + (p[x] - p[x]), Plus(v[<<x, j>>], v[<<x, x>>]))
    BY <1>2, <2>2, SumMeets
  <2>4. Meets(p[x] - p[j], Plus(v[<<x, j>>], v[<<x, x>>]))
    BY <2>2, <2>3
  <2>5. rowX[j] = Least(v[<<x, j>>], Plus(v[<<x, j>>], v[<<x, x>>]))
    OBVIOUS
  <2> HIDE DEF rowX
  <2> QED
    BY <1>2, <2>1, <2>4, <2>5, LeastIsBound, LeastMeets
<1> HIDE DEF rowX
<1>5. ASSUME NEW i \in 0 .. n, NEW j \in 0 .. n
      PROVE  entry(i, j) \in Bound /\ Meets(p[i] - p[j], entry(i, j))
  <2>1. through(i, j) \in Bound /\ Meets(p[x] - p[j], through(i, j))
    BY <1>2, <1>4
  <2> HIDE DEF through
  <2>2. Plus(through(i, j), v[<<i, x>>]) \in Bound
    BY <1>2, <2>1, PlusIsBound
  <2>3. p[x] - p[j] \in Int /\ p[i] - p[x] \in Int /\ (p[x] - p[j]) + (p[i] - p[x]) = p[i] - p[j]
    BY <1>3
  <2>4. Meets((p[x] - p[j]) + (p[i] - p[x]), Plus(through(i, j), v[<<i, x>>]))
    BY <1>2, <2>1, <2>3, SumMeets
  <2>5. Meets(p[i] - p[j], Plus(through(i, j), v[<<i, x>>]))
    BY <2>3, <2>4
  <2> QED
    BY <1>2, <2>2, <2>5, LeastIsBound, LeastMeets
<1>6. m = [ij \in Indices(n) |-> m[ij]] /\ \A i, j \in 0 .. n : m[<<i, j>>] = entry(i, j)
  BY DEF Indices
<1> HIDE DEF m, entry
<1>7. \A i, j \in 0 .. n : m[<<i, j>>] \in Bound /\ Meets(p[i] - p[j], m[<<i, j>>])
  BY <1>5, <1>6
<1> QED
  BY <1>1, <1>6, <1>7, AroundByEntries

LEMMA TightenKeeps ==
  ASSUME NEW n \in Nat, NEW p \in Places(n), NEW v \in Around(n, p),
         NEW x \in 0 .. n, NEW y \in 0 .. n, NEW c \in Bound, Meets(p[x] - p[y], c)
  PROVE  Tighten(n, v, x, y, c) \in Around(n, p)
<1> DEFINE w == [v EXCEPT ![<<x, y>>] = Least(v[<<x, y>>], c)]
<1>1. \A i, j \in 0 .. n : v[<<i, j>>] \in Bound /\ Meets(p[i] - p[j], v[<<i, j>>])
  BY EntryIsBound DEF Around, Within
<1>2. Least(v[<<x, y>>], c) \in Bound /\ Meets(p[x] - p[y], Least(v[<<x, y>>], c))
  BY <1>1, LeastIsBound, LeastMeets
<1>3. v \in [Indices(n) -> Bound]
  BY DEF Around, Matrices
<1>4. w \in Matrices(n)
  BY <1>2, <1>3 DEF Matrices
<1>5. \A i, j \in 0 .. n : w[<<i, j>>] = IF i = x /\ j = y THEN Least(v[<<x, y>>], c)
                                                         ELSE v[<<i, j>>]
  BY <1>3 DEF Indices
<1> HIDE DEF w
<1>6. w \in Around(n, p)
  BY <1>1, <1>2, <1>4, <1>5 DEF Around, Within
<1>7. Close1(n, w, x) \in Around(n, p)
  BY <1>6, Close1Keeps
<1>8. Close1(n, Close1(n, w, x), y) \in Around(n, p)
  BY <1>7, Close1Keeps
<1> QED
  BY <1>8 DEF Tighten, w

LEMMA TightenToKeeps ==
  ASSUME NEW p \in Places(Clocks), NEW v \in Around(Clocks, p), NEW g \in Constraint,
         Satisfies(p, <<g>>)
  PROVE  TightenTo(Clocks, v, g) \in Around(Clocks, p)
<1>1. g.x \in 0 .. Clocks /\ g.x \in 1 .. Clocks /\ g.c \in Int /\ 0 \in 0 .. Clocks /\ Clocks \in Nat
  BY ClocksAssumption DEF Constraint
<1>2. p[0] = 0 /\ p[g.x] \in Int
  BY <1>1 DEF Places
<1>3. Parts * g.c \in Int /\ Parts * (-g.c) = -(Parts * g.c)
  BY <1>1, PartsAssumption
<1>4. /\ <<g.c, FALSE>> \in Bound /\ <<g.c, TRUE>> \in Bound
      /\ <<-g.c, FALSE>> \in Bound /\ <<-g.c, TRUE>> \in Bound
  <2>1. g.c \in Int /\ -g.c \in Int
    BY <1>1
  <2>2. \A c \in Int : <<c, FALSE>> \in Bound /\ <<c, TRUE>> \in Bound
    BY DEF Bound
  <2> QED
    BY <2>1, <2>2
<1>5. \/ g.order = "lt" /\ p[g.x] < Parts * g.c
      \/ g.order = "le" /\ p[g.x] =< Parts * g.c
      \/ g.order = "gt" /\ p[g.x] > Parts * g.c
      \/ g.order = "ge" /\ p[g.x] >= Parts * g.c
  BY DEF Satisfies
<1> DEFINE C == Parts * g.c
<1>6. C \in Int /\ Parts * (-g.c) = -C
  BY <1>3
<1>7. CASE g.order = "lt" /\ p[g.x] < C
  <2>1. Meets(p[g.x] - p[0], <<g.c, FALSE>>)
    <3>1. p[g.x] - p[0] < Parts * g.c
      BY <1>2, <1>3, <1>7
    <3> QED
      BY <3>1 DEF Meets
  <2>2. Tighten(Clocks, v, g.x, 0, <<g.c, FALSE>>) \in Around(Clocks, p)
    BY <1>1, <1>4, <2>1, TightenKeeps
  <2> QED
    BY <1>7, <2>2 DEF TightenTo
<1>8. CASE g.order = "le" /\ p[g.x] =< C
  <2>1. Meets(p[g.x] - p[0], <<g.c, TRUE>>)
    <3>1. p[g.x] - p[0] =< Parts * g.c
      BY <1>2, <1>3, <1>8
    <3> QED
      BY <1>2, <1>3, <3>1 DEF Meets
  <2>2. Tighten(Clocks, v, g.x, 0, <<g.c, TRUE>>) \in Around(Clocks, p)
    BY <1>1, <1>4, <2>1, TightenKeeps
  <2> QED
    BY <1>8, <2>2 DEF TightenTo
<1>9. CASE g.order = "gt" /\ p[g.x] > C
  <2>1. Meets(p[0] - p[g.x], <<-g.c, FALSE>>)
    <3>1. p[0] - p[g.x] < -(Parts * g.c)
      BY <1>2, <1>3, <1>9
    <3>2. p[0] - p[g.x] < Parts * (-g.c)
      BY <1>3, <3>1
    <3> QED
      BY <3>2 DEF Meets
  <2>2. Tighten(Clocks, v, 0, g.x, <<-g.c, FALSE>>) \in Around(Clocks, p)
    BY <1>1, <1>4, <2>1, TightenKeeps
  <2> QED
    BY <1>9, <2>2 DEF TightenTo
<1>10. CASE g.order = "ge" /\ p[g.x] >= C
  <2>1. Meets(p[0] - p[g.x], <<-g.c, TRUE>>)
    <3>1. p[0] - p[g.x] =< -(Parts * g.c)
      BY <1>2, <1>3, <1>10
    <3>2. p[0] - p[g.x] < Parts * (-g.c) \/ p[0] - p[g.x] = Parts * (-g.c)
      BY <1>2, <1>3, <3>1
    <3> QED
      BY <3>2 DEF Meets
  <2>2. Tighten(Clocks, v, 0, g.x, <<-g.c, TRUE>>) \in Around(Clocks, p)
    BY <1>1, <1>4, <2>1, TightenKeeps
  <2> QED
    BY <1>10, <2>2 DEF TightenTo
<1> QED
  BY <1>5, <1>7, <1>8, <1>9, <1>10

(* A set of matrices that each constraint of a guard stays in.             *)
LEMMA TightenAllStays ==
  ASSUME NEW n, NEW S, NEW v \in S, NEW guard, Len(guard) \in Nat,
         \A k \in 1 .. Len(guard) : \A w \in S : TightenTo(n, w, guard[k]) \in S
  PROVE  TightenAll(n, v, guard) \in S
<1> DEFINE L == Len(guard)
           F == [k \in 1 .. L |-> [w \in S |-> TightenTo(n, w, guard[k])]]
           Solves(r) == r = [k \in 0 .. L |-> IF k = 0 THEN v ELSE TightenTo(n, r[k - 1], guard[k])]
           upTo == CHOOSE r : Solves(r)
<1>1. L \in Nat
  OBVIOUS
<1>2. F \in [1 .. L -> [S -> S]]
  <2>1. \A k \in 1 .. L : \A w \in S : TightenTo(n, w, guard[k]) \in S
    OBVIOUS
  <2> HIDE DEF L
  <2> QED
    BY <2>1
<1>3. TightenAll(n, v, guard) = upTo[L]
  BY DEF TightenAll
<1>4. PICK r \in [0 .. L -> S] : Iterates(r, v, F, L)
  <2> HIDE DEF F, L
  <2> QED
    BY <1>1, <1>2, IterationExists
<1>5. Solves(r)
  <2>1. \A k \in 0 .. L : r[k] = IF k = 0 THEN v ELSE TightenTo(n, r[k - 1], guard[k])
    <3> SUFFICES ASSUME NEW k \in 0 .. L
                 PROVE  r[k] = IF k = 0 THEN v ELSE TightenTo(n, r[k - 1], guard[k])
      OBVIOUS
    <3>1. CASE k = 0
      BY <1>4, <3>1 DEF Iterates
    <3>2. CASE k # 0
      <4>1. k \in 1 .. L /\ k - 1 \in 0 .. L
        BY <1>1, <3>2
      <4>2. r[k] = F[k][r[k - 1]]
        <5> HIDE DEF F
        <5> QED
          BY <1>4, <4>1 DEF Iterates
      <4>3. r[k - 1] \in S
        BY <4>1
      <4> HIDE DEF L
      <4> QED
        BY <3>2, <4>1, <4>2, <4>3
    <3> QED
      BY <3>1, <3>2
  <2>2. r = [k \in 0 .. L |-> r[k]]
    OBVIOUS
  <2> HIDE DEF F, L
  <2> QED
    BY <2>1, <2>2
<1>6. Solves(upTo)
  BY <1>5
<1> HIDE DEF upTo, F, L
<1> DEFINE D == {k \in 0 .. L : upTo[k] \in S}
<1>7. 0 \in D
  <2>1. 0 \in 0 .. L
    BY <1>1
  <2> QED
    BY <1>6, <2>1
<1>8. ASSUME NEW k \in 0 .. L - 1, k \in D PROVE k + 1 \in D
  <2>1. k + 1 \in 0 .. L /\ k + 1 \in 1 .. L /\ k + 1 # 0 /\ (k + 1) - 1 = k
    BY <1>1
  <2>2. upTo[k + 1] = TightenTo(n, upTo[k], guard[k + 1])
    BY <1>6, <2>1
  <2> QED
    BY <1>8, <2>1, <2>2 DEF L
<1>9. L \in D
  <2> HIDE DEF D
  <2>1. \A k \in 0 .. L : k \in D
    BY <1>1, <1>7, <1>8, InductionToBound
  <2> QED
    BY <1>1, <2>1
<1> QED
  BY <1>3, <1>9

LEMMA TightenAllKeeps ==
  ASSUME NEW p \in Places(Clocks), NEW v \in Around(Clocks, p), NEW guard \in Seq(Constraint),
         Satisfies(p, guard)
  PROVE  TightenAll(Clocks, v, guard) \in Around(Clocks, p)
<1>1. Len(guard) \in Nat /\ DOMAIN guard = 1 .. Len(guard)
      /\ \A k \in 1 .. Len(guard) : guard[k] \in Constraint
  <2> HIDE DEF Constraint
  <2> QED
    OBVIOUS
<1>2. ASSUME NEW k \in 1 .. Len(guard), NEW w \in Around(Clocks, p)
      PROVE  TightenTo(Clocks, w, guard[k]) \in Around(Clocks, p)
  <2>1. Satisfies(p, <<guard[k]>>)
    BY <1>1 DEF Satisfies
  <2> QED
    BY <1>1, <2>1, TightenToKeeps
<1> QED
  BY <1>1, <1>2, TightenAllStays

(* A set of matrices that closing stays in.                                *)
LEMMA CanonizeStays ==
  ASSUME NEW n \in Nat, NEW S, NEW v \in S,
         \A x \in 0 .. n : \A w \in S : Close1(n, w, x) \in S
  PROVE  Canonize(n, v) \in S
<1> DEFINE F == [k \in 1 .. n + 1 |-> [w \in S |-> Close1(n, w, k - 1)]]
           Solves(r) == r = [k \in -1 .. n |-> IF k = -1 THEN v ELSE Close1(n, r[k - 1], k)]
           upTo == CHOOSE r : Solves(r)
<1>1. F \in [1 .. n + 1 -> [S -> S]]
  <2>1. \A k \in 1 .. n + 1 : k - 1 \in 0 .. n
    OBVIOUS
  <2> QED
    BY <2>1
<1>2. Canonize(n, v) = upTo[n]
  BY DEF Canonize
<1>3. PICK r \in [0 .. n + 1 -> S] : Iterates(r, v, F, n + 1)
  <2>1. n + 1 \in Nat
    OBVIOUS
  <2> HIDE DEF F
  <2> QED
    BY <1>1, <2>1, IterationExists
<1> DEFINE s == [k \in -1 .. n |-> r[k + 1]]
<1>4. Solves(s)
  <2> SUFFICES ASSUME NEW k \in -1 .. n
               PROVE  s[k] = IF k = -1 THEN v ELSE Close1(n, s[k - 1], k)
    OBVIOUS
  <2>1. CASE k = -1
    BY <1>3, <2>1 DEF Iterates
  <2>2. CASE k # -1
    <3>1. k + 1 \in 1 .. n + 1 /\ k - 1 \in -1 .. n /\ (k - 1) + 1 = k /\ (k + 1) - 1 = k
          /\ k \in 0 .. n + 1
      BY <2>2
    <3>2. s[k] = r[k + 1] /\ s[k - 1] = r[k]
      BY <3>1
    <3>3. r[k + 1] = F[k + 1][r[k]]
      <4> HIDE DEF F
      <4> QED
        BY <1>3, <3>1 DEF Iterates
    <3>4. r[k] \in S
      BY <3>1
    <3>5. F[k + 1] = [w \in S |-> Close1(n, w, k)]
      BY <3>1
    <3> HIDE DEF F, s
    <3> QED
      BY <2>2, <3>2, <3>3, <3>4, <3>5
  <2> QED
    BY <2>1, <2>2
<1>5. Solves(upTo)
  BY <1>4
<1> HIDE DEF upTo, F, s
<1> DEFINE D == {k \in 0 .. n + 1 : upTo[k - 1] \in S}
<1>6. 0 \in D
  BY <1>5
<1>7. ASSUME NEW k \in 0 .. n, k \in D PROVE k + 1 \in D
  <2>1. k + 1 \in 0 .. n + 1 /\ (k + 1) - 1 = k /\ k \in -1 .. n /\ k # -1
    OBVIOUS
  <2>2. upTo[k] = Close1(n, upTo[k - 1], k)
    BY <1>5, <2>1
  <2> QED
    BY <1>7, <2>1, <2>2
<1>8. n + 1 \in D
  <2>1. n + 1 \in Nat /\ (n + 1) - 1 = n /\ n + 1 \in 0 .. n + 1
    OBVIOUS
  <2> HIDE DEF D
  <2>2. \A k \in 0 .. n + 1 : k \in D
    BY <1>6, <1>7, <2>1, InductionToBound
  <2> QED
    BY <2>1, <2>2
<1>9. (n + 1) - 1 = n
  OBVIOUS
<1> QED
  BY <1>2, <1>8, <1>9

LEMMA CanonizeKeeps ==
  ASSUME NEW n \in Nat, NEW p \in Places(n), NEW v \in Around(n, p)
  PROVE  Canonize(n, v) \in Around(n, p)
BY Close1Keeps, CanonizeStays

-----------------------------------------------------------------------------
(* Time, resets, and emptiness.                                            *)

(* Time passes for every clock but clock 0.                                *)
Later(n, p, t) == [x \in 0 .. n |-> IF x = 0 THEN 0 ELSE p[x] + t]

LEMMA LaterIsPlace ==
  ASSUME NEW n \in Nat, NEW p \in Places(n), NEW t \in Int
  PROVE  Later(n, p, t) \in Places(n)
BY DEF Later, Places

LEMMA ElapseKeeps ==
  ASSUME NEW n \in Nat, NEW p \in Places(n), NEW v \in Around(n, p), NEW t \in Nat \ {0}
  PROVE  Elapse(n, v) \in Around(n, Later(n, p, t))
<1> DEFINE q == Later(n, p, t)
           e == Elapse(n, v)
<1>1. ASSUME NEW i \in 0 .. n, NEW j \in 0 .. n
      PROVE  e[<<i, j>>] \in Bound /\ Meets(q[i] - q[j], e[<<i, j>>])
  <2>1. /\ v[<<i, j>>] \in Bound /\ v[<<i, j>>][1] \in Int
        /\ Meets(p[i] - p[j], v[<<i, j>>])
    BY EntryIsBound, BoundIsPair DEF Around, Within
  <2>2. p[0] = 0 /\ p[i] \in Int /\ p[j] \in Int
    BY DEF Places
  <2>3. e[<<i, j>>] = IF j = 0 THEN Unbounded
                      ELSE IF i = 0 THEN <<v[<<i, j>>][1], FALSE>>
                      ELSE v[<<i, j>>]
    BY DEF Elapse, Indices
  <2>4. q[i] = (IF i = 0 THEN 0 ELSE p[i] + t) /\ q[j] = (IF j = 0 THEN 0 ELSE p[j] + t)
    BY DEF Later
  <2> HIDE DEF e, q
  <2>5. CASE j = 0
    BY <2>3, <2>5, AllMeetUnbounded
  <2>6. CASE j # 0 /\ i = 0
    <3>1. q[i] - q[j] = -(p[j] + t) /\ p[i] - p[j] = -p[j]
      BY <2>2, <2>4, <2>6
    <3> DEFINE b == v[<<i, j>>][1]
    <3>2. e[<<i, j>>] = <<b, FALSE>> /\ b \in Int
      BY <2>1, <2>3, <2>6
    <3>3. b = Infinity \/ -p[j] =< Parts * b
      <4>1. -p[j] \in Int
        BY <2>2
      <4> QED
        BY <2>1, <3>1, <4>1, MeetsIsAtMost
    <3>4. Parts * b \in Int
      BY <2>1, PartsAssumption
    <3>5. b = Infinity \/ -(p[j] + t) < Parts * b
      BY <2>2, <3>3, <3>4
    <3> HIDE DEF b
    <3>6. <<b, FALSE>> \in Bound
      BY <3>2, PairIsBound
    <3>7. Meets(-(p[j] + t), <<b, FALSE>>)
      BY <3>5 DEF Meets
    <3> QED
      BY <3>1, <3>2, <3>6, <3>7
  <2>7. CASE j # 0 /\ i # 0
    <3>1. q[i] - q[j] = p[i] - p[j]
      BY <2>2, <2>4, <2>7
    <3> QED
      BY <2>1, <2>3, <2>7, <3>1
  <2> QED
    BY <2>5, <2>6, <2>7
<1>2. e = [ij \in Indices(n) |-> e[ij]]
  BY DEF Elapse
<1> HIDE DEF e, q
<1>3. e \in Around(n, q)
  BY <1>1, <1>2, AroundByEntries
<1> QED
  BY <1>3 DEF e, q

LEMMA ResetEntries ==
  ASSUME NEW n \in Nat, NEW v \in Matrices(n), NEW x \in 1 .. n
  PROVE  /\ Reset(n, v, x) \in Matrices(n)
         /\ \A i, j \in 0 .. n :
              Reset(n, v, x)[<<i, j>>] =
                IF (i = x /\ j = 0) \/ (i = 0 /\ j = x) \/ (i = x /\ j = x) THEN <<0, TRUE>>
                ELSE IF i = x THEN v[<<0, j>>]
                ELSE IF j = x THEN v[<<i, 0>>]
                ELSE v[<<i, j>>]
<1> DEFINE w == [v EXCEPT ![<<0, x>>] = <<0, TRUE>>, ![<<x, 0>>] = <<0, TRUE>>]
           m == Reset(n, v, x)
           at(i, j) == IF (i = x /\ j = 0) \/ (i = 0 /\ j = x) \/ (i = x /\ j = x) THEN <<0, TRUE>>
                       ELSE IF i = x THEN v[<<0, j>>]
                       ELSE IF j = x THEN v[<<i, 0>>]
                       ELSE v[<<i, j>>]
<1>1. \A i, j \in 0 .. n : <<i, j>> \in Indices(n)
  BY DEF Indices
<1>2. 0 \in 0 .. n /\ x \in 0 .. n /\ x # 0
  OBVIOUS
<1>3. ASSUME NEW i \in 0 .. n, NEW j \in 0 .. n
      PROVE  w[<<i, j>>] = IF (i = 0 /\ j = x) \/ (i = x /\ j = 0) THEN <<0, TRUE>>
                           ELSE v[<<i, j>>]
  BY <1>1 DEF Matrices
<1>4. m = [ij \in Indices(n) |->
             IF ij[1] = x /\ ij[2] # 0 THEN
               IF ij[2] = x THEN w[<<0, x>>] ELSE w[<<0, ij[2]>>]
             ELSE IF ij[2] = x /\ ij[1] # 0 THEN w[<<ij[1], 0>>]
             ELSE w[ij]]
  BY DEF Reset
<1> HIDE DEF w, m
<1>5. ASSUME NEW i \in 0 .. n, NEW j \in 0 .. n
      PROVE  m[<<i, j>>] = at(i, j)
  <2>1. m[<<i, j>>] = IF i = x /\ j # 0 THEN
                        IF j = x THEN w[<<0, x>>] ELSE w[<<0, j>>]
                      ELSE IF j = x /\ i # 0 THEN w[<<i, 0>>]
                      ELSE w[<<i, j>>]
    BY <1>1, <1>4
  <2>2. CASE i = x
    BY <1>2, <1>3, <2>1, <2>2
  <2>3. CASE i # x /\ j = x
    BY <1>2, <1>3, <2>1, <2>3
  <2>4. CASE i # x /\ j # x
    BY <1>2, <1>3, <2>1, <2>4
  <2> QED
    BY <2>2, <2>3, <2>4
<1>6. \A i, j \in 0 .. n : at(i, j) \in Bound
  <2>1. <<0, TRUE>> \in Bound
    BY BoundsOfZero
  <2> QED
    BY <1>2, <2>1, EntryIsBound
<1> HIDE DEF at
<1>7. m = [ij \in Indices(n) |-> m[ij]]
  BY <1>4
<1>8. m \in Matrices(n)
  BY <1>5, <1>6, <1>7, MatrixByEntries
<1> QED
  BY <1>5, <1>8 DEF m, at

LEMMA ResetOnDiagonal ==
  ASSUME NEW n \in Nat, NEW v \in Matrices(n), NEW x \in 1 .. n, NEW k \in 0 .. n
  PROVE  Reset(n, v, x)[<<k, k>>] = IF k = x THEN <<0, TRUE>> ELSE v[<<k, k>>]
<1> DEFINE m == Reset(n, v, x)
<1>1. m \in Matrices(n) /\ \A i, j \in 0 .. n :
        m[<<i, j>>] =
          IF (i = x /\ j = 0) \/ (i = 0 /\ j = x) \/ (i = x /\ j = x) THEN <<0, TRUE>>
          ELSE IF i = x THEN v[<<0, j>>]
          ELSE IF j = x THEN v[<<i, 0>>]
          ELSE v[<<i, j>>]
  BY ResetEntries
<1> HIDE DEF m
<1>2. m[<<k, k>>] = IF k = x THEN <<0, TRUE>> ELSE v[<<k, k>>]
  BY <1>1
<1> QED
  BY <1>2 DEF m

LEMMA ResetKeeps ==
  ASSUME NEW n \in Nat, NEW p \in Places(n), NEW v \in Around(n, p), NEW x \in 1 .. n
  PROVE  Reset(n, v, x) \in Around(n, [p EXCEPT ![x] = 0])
<1> DEFINE q == [p EXCEPT ![x] = 0]
           m == Reset(n, v, x)
<1>1. v \in Matrices(n) /\ \A i, j \in 0 .. n : Meets(p[i] - p[j], v[<<i, j>>])
  BY DEF Around, Within
<1>2. p[0] = 0 /\ \A i \in 0 .. n : p[i] \in Int /\ q[i] = IF i = x THEN 0 ELSE p[i]
  BY DEF Places
<1>3. m \in Matrices(n) /\ \A i, j \in 0 .. n :
        m[<<i, j>>] =
          IF (i = x /\ j = 0) \/ (i = 0 /\ j = x) \/ (i = x /\ j = x) THEN <<0, TRUE>>
          ELSE IF i = x THEN v[<<0, j>>]
          ELSE IF j = x THEN v[<<i, 0>>]
          ELSE v[<<i, j>>]
  BY <1>1, ResetEntries
<1>4. 0 \in 0 .. n /\ x \in 0 .. n
  OBVIOUS
<1>5. Meets(0, <<0, TRUE>>)
  <2>1. Parts * 0 = 0
    BY PartsAssumption
  <2> QED
    BY <2>1 DEF Meets
<1> HIDE DEF q, m
<1>6. ASSUME NEW i \in 0 .. n, NEW j \in 0 .. n PROVE Meets(q[i] - q[j], m[<<i, j>>])
  <2>1. CASE (i = x /\ j = 0) \/ (i = 0 /\ j = x) \/ (i = x /\ j = x)
    <3>1. q[i] - q[j] = 0
      BY <1>2, <1>4, <2>1
    <3> QED
      BY <1>3, <1>5, <2>1, <3>1
  <2>2. CASE i = x /\ j \notin {0, x}
    <3>1. q[i] - q[j] = p[0] - p[j]
      BY <1>2, <1>4, <2>2
    <3> QED
      BY <1>1, <1>3, <1>4, <2>2, <3>1
  <2>3. CASE i \notin {0, x} /\ j = x
    <3>1. q[i] - q[j] = p[i] - p[0]
      BY <1>2, <1>4, <2>3
    <3> QED
      BY <1>1, <1>3, <1>4, <2>3, <3>1
  <2>4. CASE i # x /\ j # x
    <3>1. q[i] - q[j] = p[i] - p[j]
      BY <1>2, <2>4
    <3> QED
      BY <1>1, <1>3, <2>4, <3>1
  <2> QED
    BY <2>1, <2>2, <2>3, <2>4
<1>7. m \in Around(n, q)
  BY <1>3, <1>6 DEF Around, Within
<1> QED
  BY <1>7 DEF m, q

(* S[x] is a set of matrices that the resets of the clocks up to x lead to. *)
LEMMA ResetAllStays ==
  ASSUME NEW S, NEW v \in S[0], NEW resetVars,
         \A x \in 0 .. Clocks : S[x] \subseteq Matrices(Clocks),
         \A x \in 1 .. Clocks : \A w \in S[x - 1] :
           (IF x \in resetVars THEN Reset(Clocks, w, x) ELSE w) \in S[x]
  PROVE  ResetAll(v, resetVars) \in S[Clocks]
<1> DEFINE T == Matrices(Clocks)
           G(w, x) == IF x \in resetVars THEN Reset(Clocks, w, x) ELSE w
           F == [x \in 1 .. Clocks |-> [w \in T |-> G(w, x)]]
           Solves(r) == r = [x \in 0 .. Clocks |->
                               IF x = 0 THEN v
                               ELSE IF x \in resetVars THEN Reset(Clocks, r[x - 1], x)
                               ELSE r[x - 1]]
           upTo == CHOOSE r : Solves(r)
<1>1. Clocks \in Nat
  BY ClocksAssumption
<1>2. v \in T
  BY <1>1
<1>3. F \in [1 .. Clocks -> [T -> T]]
  <2>1. \A x \in 1 .. Clocks : \A w \in T : G(w, x) \in T
    BY <1>1, ResetEntries
  <2> HIDE DEF T, G
  <2> QED
    BY <2>1
<1>4. ResetAll(v, resetVars) = upTo[Clocks]
  BY DEF ResetAll
<1>5. PICK r \in [0 .. Clocks -> T] : Iterates(r, v, F, Clocks)
  <2> HIDE DEF F, T
  <2> QED
    BY <1>1, <1>2, <1>3, IterationExists
<1>6. Solves(r)
  <2>1. ASSUME NEW x \in 0 .. Clocks, x # 0 PROVE r[x] = G(r[x - 1], x)
    <3>1. x \in 1 .. Clocks /\ x - 1 \in 0 .. Clocks
      BY <1>1, <2>1
    <3>2. r[x] = F[x][r[x - 1]]
      <4> HIDE DEF F
      <4> QED
        BY <1>5, <3>1 DEF Iterates
    <3>3. r[x - 1] \in T
      BY <3>1
    <3> HIDE DEF T, G
    <3> QED
      BY <3>1, <3>2, <3>3
  <2>2. r[0] = v
    BY <1>5 DEF Iterates
  <2>3. r = [x \in 0 .. Clocks |-> r[x]]
    OBVIOUS
  <2> HIDE DEF F, T
  <2> QED
    BY <2>1, <2>2, <2>3
<1>7. Solves(upTo)
  BY <1>6
<1> HIDE DEF upTo, F, T
<1> DEFINE D == {x \in 0 .. Clocks : upTo[x] \in S[x]}
<1>8. 0 \in D
  <2>1. 0 \in 0 .. Clocks
    BY <1>1
  <2> QED
    BY <1>7, <2>1
<1>9. ASSUME NEW x \in 0 .. Clocks - 1, x \in D PROVE x + 1 \in D
  <2>1. x + 1 \in 0 .. Clocks /\ x + 1 \in 1 .. Clocks /\ x + 1 # 0 /\ (x + 1) - 1 = x
    BY <1>1
  <2>2. upTo[x + 1] = G(upTo[x], x + 1)
    BY <1>7, <2>1
  <2>3. upTo[x] \in S[(x + 1) - 1]
    BY <1>9, <2>1
  <2>4. G(upTo[x], x + 1) \in S[x + 1]
    BY <2>1, <2>3
  <2> HIDE DEF G
  <2> QED
    BY <2>1, <2>2, <2>4
<1>10. Clocks \in D
  <2> HIDE DEF D
  <2>1. \A x \in 0 .. Clocks : x \in D
    BY <1>1, <1>8, <1>9, InductionToBound
  <2> QED
    BY <1>1, <2>1
<1> QED
  BY <1>4, <1>10

(* The point after the clocks in resetVars, those up to k, have been reset. *)
ResetUpTo(p, resetVars, k) ==
  [x \in 0 .. Clocks |-> IF x \in resetVars /\ 1 =< x /\ x =< k THEN 0 ELSE p[x]]

LEMMA ResetAllKeeps ==
  ASSUME NEW p \in Places(Clocks), NEW v \in Around(Clocks, p), NEW resetVars
  PROVE  ResetAll(v, resetVars) \in Around(Clocks, ResetUpTo(p, resetVars, Clocks))
<1> DEFINE q(k) == ResetUpTo(p, resetVars, k)
           S == [k \in 0 .. Clocks |-> Around(Clocks, q(k))]
<1>1. Clocks \in Nat /\ 0 \in 0 .. Clocks /\ Clocks \in 0 .. Clocks
  BY ClocksAssumption
<1>2. ASSUME NEW k \in 0 .. Clocks PROVE q(k) \in Places(Clocks)
  BY <1>1 DEF ResetUpTo, Places
<1>3. q(0) = p
  <2>1. \A x \in 0 .. Clocks : ~(1 =< x /\ x =< 0)
    BY <1>1
  <2> QED
    BY <2>1 DEF ResetUpTo, Places
<1>4. v \in S[0]
  BY <1>1, <1>3
<1>5. \A k \in 0 .. Clocks : S[k] \subseteq Matrices(Clocks)
  BY DEF Around
<1>6. ASSUME NEW x \in 1 .. Clocks, NEW w \in S[x - 1]
      PROVE  (IF x \in resetVars THEN Reset(Clocks, w, x) ELSE w) \in S[x]
  <2>1. x \in 0 .. Clocks /\ x - 1 \in 0 .. Clocks
    BY <1>1
  <2>2. q(x - 1) \in Places(Clocks) /\ w \in Around(Clocks, q(x - 1))
    BY <1>2, <2>1
  <2>3. q(x) = IF x \in resetVars THEN [q(x - 1) EXCEPT ![x] = 0] ELSE q(x - 1)
    <3>1. \A y \in 0 .. Clocks : (1 =< y /\ y =< x <=> (1 =< y /\ y =< x - 1) \/ y = x)
      BY <1>1
    <3>2. CASE x \in resetVars
      BY <3>1, <3>2 DEF ResetUpTo
    <3>3. CASE x \notin resetVars
      BY <3>1, <3>3 DEF ResetUpTo
    <3> QED
      BY <3>2, <3>3
  <2> HIDE DEF q
  <2>4. S[x] = Around(Clocks, q(x))
    BY <2>1
  <2> HIDE DEF S
  <2>5. CASE x \in resetVars
    BY <1>1, <2>2, <2>3, <2>4, <2>5, ResetKeeps
  <2>6. CASE x \notin resetVars
    BY <2>2, <2>3, <2>4, <2>6
  <2> QED
    BY <2>5, <2>6
<1>7. S[Clocks] = Around(Clocks, q(Clocks))
  BY <1>1
<1> HIDE DEF S
<1>8. ResetAll(v, resetVars) \in S[Clocks]
  BY <1>4, <1>5, <1>6, ResetAllStays
<1> QED
  BY <1>7, <1>8

(* A matrix with a point is satisfiable.                                   *)
LEMMA SatisfiableWhenAround ==
  ASSUME NEW n \in Nat, NEW p \in Places(n), NEW v \in Around(n, p)
  PROVE  IsSatisfiable(n, v)
<1> SUFFICES ASSUME NEW i \in 0 .. n, NEW j \in 0 .. n
             PROVE  AtMost(<<0, TRUE>>, Plus(v[<<i, j>>], v[<<j, i>>]))
  BY DEF IsSatisfiable
<1>1. /\ v[<<i, j>>] \in Bound /\ Meets(p[i] - p[j], v[<<i, j>>])
      /\ v[<<j, i>>] \in Bound /\ Meets(p[j] - p[i], v[<<j, i>>])
  BY EntryIsBound DEF Around, Within
<1>2. p[i] - p[j] \in Int /\ p[j] - p[i] \in Int /\ (p[i] - p[j]) + (p[j] - p[i]) = 0
  BY DEF Places
<1>3. Meets((p[i] - p[j]) + (p[j] - p[i]), Plus(v[<<i, j>>], v[<<j, i>>]))
  BY <1>1, <1>2, SumMeets
<1>4. Plus(v[<<i, j>>], v[<<j, i>>]) \in Bound
  BY <1>1, PlusIsBound
<1> QED
  BY <1>2, <1>3, <1>4, ZeroMeets

-----------------------------------------------------------------------------
(* Durations.                                                              *)

LEMMA ConstraintsToDBMKeeps ==
  ASSUME NEW p \in Places(Clocks), \A x \in 0 .. Clocks : p[x] \in Nat,
         NEW guard \in Seq(Constraint), Satisfies(p, guard)
  PROVE  ConstraintsToDBM(Clocks, guard) \in Around(Clocks, p)
<1> DEFINE v == [ij \in Indices(Clocks) |->
                   IF ij[1] = ij[2] \/ ij[1] = 0 THEN <<0, TRUE>> ELSE Unbounded]
<1>1. ASSUME NEW i \in 0 .. Clocks, NEW j \in 0 .. Clocks
      PROVE  v[<<i, j>>] \in Bound /\ Meets(p[i] - p[j], v[<<i, j>>])
  <2>1. v[<<i, j>>] = IF i = j \/ i = 0 THEN <<0, TRUE>> ELSE Unbounded
    BY DEF Indices
  <2>2. CASE i = j \/ i = 0
    <3>1. p[i] - p[j] < 0 \/ p[i] - p[j] = 0
      BY <2>2 DEF Places
    <3>2. Parts * 0 = 0
      BY PartsAssumption
    <3>3. Meets(p[i] - p[j], <<0, TRUE>>)
      BY <3>1, <3>2 DEF Meets
    <3>4. <<0, TRUE>> \in Bound
      BY BoundsOfZero
    <3> QED
      BY <2>1, <2>2, <3>3, <3>4
  <2>3. CASE ~(i = j \/ i = 0)
    BY <2>1, <2>3, AllMeetUnbounded
  <2> QED
    BY <2>2, <2>3
<1>2. v = [ij \in Indices(Clocks) |-> v[ij]]
  OBVIOUS
<1>3. ConstraintsToDBM(Clocks, guard) = TightenAll(Clocks, v, guard)
  BY DEF ConstraintsToDBM
<1> HIDE DEF v
<1>4. v \in Around(Clocks, p)
  BY <1>1, <1>2, AroundByEntries
<1> QED
  BY <1>3, <1>4, TightenAllKeeps

LEMMA LeastKeeps ==
  ASSUME NEW n, NEW p, NEW v \in Around(n, p), NEW z \in Around(n, p)
  PROVE  [ij \in Indices(n) |-> Least(v[ij], z[ij])] \in Around(n, p)
<1> DEFINE m == [ij \in Indices(n) |-> Least(v[ij], z[ij])]
<1>1. ASSUME NEW i \in 0 .. n, NEW j \in 0 .. n
      PROVE  m[<<i, j>>] \in Bound /\ Meets(p[i] - p[j], m[<<i, j>>])
  <2>1. m[<<i, j>>] = Least(v[<<i, j>>], z[<<i, j>>])
    BY DEF Indices
  <2>2. /\ v[<<i, j>>] \in Bound /\ Meets(p[i] - p[j], v[<<i, j>>])
        /\ z[<<i, j>>] \in Bound /\ Meets(p[i] - p[j], z[<<i, j>>])
    BY EntryIsBound DEF Around, Within
  <2> QED
    BY <2>1, <2>2, LeastIsBound, LeastMeets
<1>2. m = [ij \in Indices(n) |-> m[ij]]
  OBVIOUS
<1> HIDE DEF m
<1>3. m \in Around(n, p)
  BY <1>1, <1>2, AroundByEntries
<1> QED
  BY <1>3 DEF m

(* A time that leads from a point of v to one of z is a duration found.    *)
LEMMA FindDurationFinds ==
  ASSUME NEW n \in Nat, NEW p \in Places(n), NEW t \in Nat \ {0},
         NEW v \in Around(n, p), NEW z \in Around(n, Later(n, p, t))
  PROVE  /\ Meets(-t, FindDuration(n, v, z).lower)
         /\ Meets(t, FindDuration(n, v, z).upper)
<1> DEFINE T == n + 1
           withT == [ij \in Indices(T) |->
                       IF ij = <<T, T>> THEN <<0, TRUE>>
                       ELSE IF ij = <<T, 0>> THEN Unbounded
                       ELSE IF ij[1] = T THEN v[<<0, ij[2]>>]
                       ELSE IF ij[2] = T THEN v[<<ij[1], 0>>]
                       ELSE v[ij]]
           target == [ij \in Indices(T) |->
                        IF ij = <<T, T>> THEN <<0, TRUE>>
                        ELSE IF ij = <<0, T>> THEN <<0, FALSE>>
                        ELSE IF T \in {ij[1], ij[2]} THEN Unbounded
                        ELSE z[ij]]
           elapsed == Elapse(T, withT)
           least == [ij \in Indices(T) |-> Least(elapsed[ij], target[ij])]
           q == [x \in 0 .. T |-> IF x = T THEN 0 ELSE p[x]]
           r == Later(T, q, t)
<1>1. FindDuration(n, v, z) =
        [lower |-> Canonize(T, least)[<<0, T>>], upper |-> Canonize(T, least)[<<T, 0>>]]
  BY DEF FindDuration
<1>2. T \in Nat /\ T # 0 /\ 0 \in 0 .. T /\ T \in 0 .. T /\ 0 \in 0 .. n
      /\ \A x \in 0 .. T : x # T => x \in 0 .. n
  OBVIOUS
<1>3. p[0] = 0 /\ \A x \in 0 .. n : p[x] \in Int
  BY DEF Places
<1>4. q \in Places(T) /\ r \in Places(T)
  <2>1. q \in Places(T)
    BY <1>2, <1>3 DEF Places
  <2> HIDE DEF T, q
  <2> QED
    BY <1>2, <2>1, LaterIsPlace
<1>5. q[0] = 0 /\ q[T] = 0 /\ \A x \in 0 .. n : q[x] = p[x]
  BY <1>2, <1>3
<1>6. r[0] = 0 /\ r[T] = t /\ \A x \in 0 .. n : r[x] = Later(n, p, t)[x]
  BY <1>2, <1>3, <1>5 DEF Later
<1>7. ASSUME NEW i \in 0 .. n, NEW j \in 0 .. n
      PROVE  /\ v[<<i, j>>] \in Bound /\ Meets(p[i] - p[j], v[<<i, j>>])
             /\ z[<<i, j>>] \in Bound
             /\ Meets(Later(n, p, t)[i] - Later(n, p, t)[j], z[<<i, j>>])
  BY EntryIsBound DEF Around, Within
<1>8. Meets(0, <<0, TRUE>>) /\ Meets(-t, <<0, FALSE>>)
  <2>1. Parts * 0 = 0 /\ -t < 0
    BY PartsAssumption
  <2> QED
    BY <2>1 DEF Meets
<1>9. withT \in Around(T, q)
  <2>1. ASSUME NEW i \in 0 .. T, NEW j \in 0 .. T
        PROVE  withT[<<i, j>>] = IF i = T /\ j = T THEN <<0, TRUE>>
                                 ELSE IF i = T /\ j = 0 THEN Unbounded
                                 ELSE IF i = T THEN v[<<0, j>>]
                                 ELSE IF j = T THEN v[<<i, 0>>]
                                 ELSE v[<<i, j>>]
    <3>1. <<i, j>> \in Indices(T)
      BY DEF Indices
    <3> HIDE DEF T
    <3> QED
      BY <3>1
  <2>2. withT = [ij \in Indices(T) |-> withT[ij]]
    OBVIOUS
  <2> HIDE DEF withT, T, q
  <2>3. ASSUME NEW i \in 0 .. T, NEW j \in 0 .. T
        PROVE  withT[<<i, j>>] \in Bound /\ Meets(q[i] - q[j], withT[<<i, j>>])
    <3>1. CASE i = T /\ j = T
      <4>1. q[i] - q[j] = 0
        BY <1>5, <3>1
      <4> QED
        BY <1>8, <2>1, <3>1, <4>1, BoundsOfZero
    <3>2. CASE i = T /\ j = 0
      BY <1>2, <2>1, <3>2, AllMeetUnbounded
    <3>3. CASE i = T /\ j # T /\ j # 0
      <4>1. q[i] - q[j] = p[0] - p[j]
        BY <1>2, <1>3, <1>5, <3>3
      <4> QED
        BY <1>2, <1>7, <2>1, <3>3, <4>1
    <3>4. CASE i # T /\ j = T
      <4>1. q[i] - q[j] = p[i] - p[0]
        BY <1>2, <1>3, <1>5, <3>4
      <4> QED
        BY <1>2, <1>7, <2>1, <3>4, <4>1
    <3>5. CASE i # T /\ j # T
      <4>1. q[i] - q[j] = p[i] - p[j]
        BY <1>2, <1>5, <3>5
      <4> QED
        BY <1>2, <1>7, <2>1, <3>5, <4>1
    <3> QED
      BY <3>1, <3>2, <3>3, <3>4, <3>5
  <2> QED
    BY <2>2, <2>3, AroundByEntries
<1>10. elapsed \in Around(T, r)
  <2> HIDE DEF withT, T, q
  <2> QED
    BY <1>2, <1>4, <1>9, ElapseKeeps
<1>11. target \in Around(T, r)
  <2>1. ASSUME NEW i \in 0 .. T, NEW j \in 0 .. T
        PROVE  target[<<i, j>>] = IF i = T /\ j = T THEN <<0, TRUE>>
                                  ELSE IF i = 0 /\ j = T THEN <<0, FALSE>>
                                  ELSE IF i = T \/ j = T THEN Unbounded
                                  ELSE z[<<i, j>>]
    <3>1. <<i, j>> \in Indices(T)
      BY DEF Indices
    <3> HIDE DEF T
    <3> QED
      BY <3>1
  <2>2. target = [ij \in Indices(T) |-> target[ij]]
    OBVIOUS
  <2> HIDE DEF target, T, r
  <2>3. ASSUME NEW i \in 0 .. T, NEW j \in 0 .. T
        PROVE  target[<<i, j>>] \in Bound /\ Meets(r[i] - r[j], target[<<i, j>>])
    <3>1. CASE i = T /\ j = T
      <4>1. r[i] - r[j] = 0
        BY <1>6, <3>1
      <4> QED
        BY <1>8, <2>1, <3>1, <4>1, BoundsOfZero
    <3>2. CASE i = 0 /\ j = T
      <4>1. r[i] - r[j] = -t
        BY <1>6, <3>2
      <4> QED
        BY <1>2, <1>8, <2>1, <3>2, <4>1, BoundsOfZero
    <3>3. CASE ~(i = T /\ j = T) /\ ~(i = 0 /\ j = T) /\ (i = T \/ j = T)
      BY <2>1, <3>3, AllMeetUnbounded
    <3>4. CASE i # T /\ j # T
      BY <1>2, <1>6, <1>7, <2>1, <3>4
    <3> QED
      BY <3>1, <3>2, <3>3, <3>4
  <2> QED
    BY <2>2, <2>3, AroundByEntries
<1> HIDE DEF elapsed, target, T, r
<1>12. Canonize(T, least) \in Around(T, r)
  <2>1. least \in Around(T, r)
    BY <1>10, <1>11, LeastKeeps
  <2> HIDE DEF least
  <2> QED
    BY <1>2, <1>4, <2>1, CanonizeKeeps
<1> HIDE DEF least
<1>13. /\ Meets(r[0] - r[T], Canonize(T, least)[<<0, T>>])
       /\ Meets(r[T] - r[0], Canonize(T, least)[<<T, 0>>])
  BY <1>2, <1>12 DEF Around, Within
<1>14. r[0] - r[T] = -t /\ r[T] - r[0] = t
  BY <1>6
<1> QED
  BY <1>1, <1>13, <1>14

-----------------------------------------------------------------------------
(* The points of TimedSteps.                                               *)

(* No bound of a clock minus itself excludes 0.                            *)
Diagonal == {v \in Matrices(Clocks) : \A i \in 0 .. Clocks : Meets(0, v[<<i, i>>])}

WithZero(p) == [x \in 0 .. Clocks |-> IF x = 0 THEN 0 ELSE p[x]]

LEMMA InIsAround ==
  ASSUME NEW v \in Diagonal, NEW p \in [1 .. Clocks -> Int]
  PROVE  In(p, v) <=> v \in Around(Clocks, WithZero(p))
<1> DEFINE q == WithZero(p)
<1>1. q[0] = 0 /\ \A x \in 1 .. Clocks : q[x] = p[x] /\ p[x] \in Int
  BY ClocksAssumption DEF WithZero
<1>2. \A x \in 0 .. Clocks : x = 0 \/ x \in 1 .. Clocks
  BY ClocksAssumption
<1>3. \A x \in 1 .. Clocks : x \in 0 .. Clocks /\ 0 \in 0 .. Clocks /\ x # 0
  BY ClocksAssumption
<1>4. v \in Matrices(Clocks) /\ \A i \in 0 .. Clocks : Meets(0, v[<<i, i>>])
  BY DEF Diagonal
<1> HIDE DEF q
<1>5. ASSUME NEW x \in 1 .. Clocks
      PROVE  q[x] - q[0] = p[x] /\ q[0] - q[x] = -p[x] /\ q[x] - q[x] = 0 /\ q[0] - q[0] = 0
  BY <1>1
<1>6. ASSUME v \in Around(Clocks, q) PROVE In(p, v)
  <2>1. \A i, j \in 0 .. Clocks : Meets(q[i] - q[j], v[<<i, j>>])
    BY <1>6 DEF Around, Within
  <2>2. ASSUME NEW x \in 1 .. Clocks
        PROVE  Meets(p[x], v[<<x, 0>>]) /\ Meets(-p[x], v[<<0, x>>])
    BY <1>3, <1>5, <2>1
  <2>3. ASSUME NEW x \in 1 .. Clocks, NEW y \in 1 .. Clocks
        PROVE  Meets(p[x] - p[y], v[<<x, y>>])
    BY <1>1, <1>3, <2>1
  <2> QED
    BY <2>2, <2>3 DEF In
<1>7. ASSUME In(p, v) PROVE v \in Around(Clocks, q)
  <2>1. ASSUME NEW i \in 0 .. Clocks, NEW j \in 0 .. Clocks
        PROVE  Meets(q[i] - q[j], v[<<i, j>>])
    <3>1. CASE i = j
      <4>1. q[i] - q[j] = 0
        BY <1>1, <1>2, <3>1
      <4> QED
        BY <1>4, <3>1, <4>1
    <3>2. CASE i # j /\ j = 0
      BY <1>2, <1>5, <1>7, <3>2 DEF In
    <3>3. CASE i # j /\ i = 0
      BY <1>2, <1>5, <1>7, <3>3 DEF In
    <3>4. CASE i # j /\ i # 0 /\ j # 0
      BY <1>1, <1>2, <1>7, <3>4 DEF In
    <3> QED
      BY <3>1, <3>2, <3>3, <3>4
  <2> QED
    BY <1>4, <2>1 DEF Around, Within
<1> QED
  BY <1>6, <1>7 DEF q

(* Where the guard is met after a time, the zone that meets it is.         *)
LEMMA GuardedKeeps ==
  ASSUME NEW v \in Diagonal, NEW p \in [1 .. Clocks -> Int], In(p, v),
         NEW t \in Nat \ {0}, NEW guard \in Seq(Constraint), Satisfies(After(p, t), guard)
  PROVE  Guarded(v, guard) \in Around(Clocks, WithZero(After(p, t)))
<1> DEFINE q == WithZero(p)
           r == Later(Clocks, q, t)
<1>1. Clocks \in Nat
  BY ClocksAssumption
<1>2. q \in Places(Clocks) /\ v \in Around(Clocks, q)
  BY <1>1, InIsAround DEF Places, WithZero
<1>3. r = WithZero(After(p, t))
  <2>1. \A x \in 0 .. Clocks : x # 0 => x \in 1 .. Clocks
    BY <1>1
  <2> QED
    BY <2>1 DEF Later, WithZero, After
<1>4. Satisfies(r, guard)
  <2>1. \A k \in DOMAIN guard : guard[k].x \in 1 .. Clocks
    <3>1. \A k \in DOMAIN guard : guard[k] \in Constraint
      <4> HIDE DEF Constraint
      <4> QED
        OBVIOUS
    <3> QED
      BY <3>1 DEF Constraint
  <2>2. \A x \in 1 .. Clocks : r[x] = After(p, t)[x]
    BY <1>1, <1>3 DEF WithZero
  <2> HIDE DEF r
  <2> QED
    BY <2>1, <2>2 DEF Satisfies
<1> HIDE DEF q
<1>5. r \in Places(Clocks)
  BY <1>1, <1>2, LaterIsPlace
<1>6. Elapse(Clocks, v) \in Around(Clocks, r)
  BY <1>1, <1>2, ElapseKeeps
<1> HIDE DEF r
<1>7. TightenAll(Clocks, Elapse(Clocks, v), guard) \in Around(Clocks, r)
  BY <1>4, <1>5, <1>6, TightenAllKeeps
<1> QED
  BY <1>1, <1>3, <1>5, <1>7, CanonizeKeeps DEF Guarded

-----------------------------------------------------------------------------
(* What the operations make are matrices, points or not.                   *)

LEMMA Close1IsMatrix ==
  ASSUME NEW n \in Nat, NEW v \in Matrices(n), NEW x \in 0 .. n
  PROVE  Close1(n, v, x) \in Matrices(n)
<1> DEFINE rowX == [j \in 0 .. n |-> Least(v[<<x, j>>], Plus(v[<<x, j>>], v[<<x, x>>]))]
           through(i, j) == IF i > x THEN rowX[j] ELSE v[<<x, j>>]
           m == [ij \in Indices(n) |->
                   Least(v[ij], Plus(through(ij[1], ij[2]), v[<<ij[1], x>>]))]
<1>1. Close1(n, v, x) = m
  BY StoredIs DEF Close1
<1>2. \A j \in 0 .. n : rowX[j] \in Bound
  BY EntryIsBound, PlusIsBound, LeastIsBound
<1> HIDE DEF rowX
<1>3. ASSUME NEW i \in 0 .. n, NEW j \in 0 .. n PROVE m[<<i, j>>] \in Bound
  <2>1. m[<<i, j>>] = Least(v[<<i, j>>], Plus(through(i, j), v[<<i, x>>]))
    BY DEF Indices
  <2>2. through(i, j) \in Bound
    BY <1>2, EntryIsBound
  <2> HIDE DEF m, through
  <2> QED
    BY <2>1, <2>2, EntryIsBound, PlusIsBound, LeastIsBound
<1>4. m = [ij \in Indices(n) |-> m[ij]]
  OBVIOUS
<1> HIDE DEF m
<1> QED
  BY <1>1, <1>3, <1>4, MatrixByEntries

LEMMA TightenToIsMatrix ==
  ASSUME NEW v \in Matrices(Clocks), NEW g \in Constraint
  PROVE  TightenTo(Clocks, v, g) \in Matrices(Clocks)
<1>1. g.x \in 0 .. Clocks /\ 0 \in 0 .. Clocks /\ Clocks \in Nat /\ g.c \in Int /\ -g.c \in Int
      /\ g.order \in {"lt", "le", "gt", "ge"}
  BY ClocksAssumption DEF Constraint
<1>2. ASSUME NEW x \in 0 .. Clocks, NEW y \in 0 .. Clocks, NEW c \in Bound
      PROVE  Tighten(Clocks, v, x, y, c) \in Matrices(Clocks)
  <2> DEFINE w == [v EXCEPT ![<<x, y>>] = Least(v[<<x, y>>], c)]
  <2>1. Least(v[<<x, y>>], c) \in Bound
    BY EntryIsBound, LeastIsBound
  <2>2. w \in Matrices(Clocks)
    BY <2>1 DEF Matrices
  <2> HIDE DEF w
  <2> QED
    BY <1>1, <2>2, Close1IsMatrix DEF Tighten, w
<1>3. /\ <<g.c, FALSE>> \in Bound /\ <<g.c, TRUE>> \in Bound
      /\ <<-g.c, FALSE>> \in Bound /\ <<-g.c, TRUE>> \in Bound
  <2>1. \A c \in Int : <<c, FALSE>> \in Bound /\ <<c, TRUE>> \in Bound
    BY DEF Bound
  <2> QED
    BY <1>1, <2>1
<1>4. /\ Tighten(Clocks, v, g.x, 0, <<g.c, FALSE>>) \in Matrices(Clocks)
      /\ Tighten(Clocks, v, g.x, 0, <<g.c, TRUE>>) \in Matrices(Clocks)
      /\ Tighten(Clocks, v, 0, g.x, <<-g.c, FALSE>>) \in Matrices(Clocks)
      /\ Tighten(Clocks, v, 0, g.x, <<-g.c, TRUE>>) \in Matrices(Clocks)
  BY <1>1, <1>2, <1>3
<1> QED
  BY <1>1, <1>4 DEF TightenTo

LEMMA ElapseIsMatrix ==
  ASSUME NEW n \in Nat, NEW v \in Matrices(n)
  PROVE  Elapse(n, v) \in Matrices(n)
<1> DEFINE e == Elapse(n, v)
<1>1. ASSUME NEW i \in 0 .. n, NEW j \in 0 .. n PROVE e[<<i, j>>] \in Bound
  <2>1. e[<<i, j>>] = IF j = 0 THEN Unbounded
                      ELSE IF i = 0 THEN <<v[<<i, j>>][1], FALSE>>
                      ELSE v[<<i, j>>]
    BY DEF Elapse, Indices
  <2>2. v[<<i, j>>] \in Bound /\ v[<<i, j>>][1] \in Int
    BY EntryIsBound, BoundIsPair
  <2>3. <<v[<<i, j>>][1], FALSE>> \in Bound
    BY <2>2, PairIsBound
  <2> QED
    BY <2>1, <2>2, <2>3, AllMeetUnbounded
<1>2. e = [ij \in Indices(n) |-> e[ij]]
  BY DEF Elapse
<1> HIDE DEF e
<1>3. e \in Matrices(n)
  BY <1>1, <1>2, MatrixByEntries
<1> QED
  BY <1>3 DEF e

LEMMA GuardedIsMatrix ==
  ASSUME NEW v \in Matrices(Clocks), NEW guard \in Seq(Constraint)
  PROVE  Guarded(v, guard) \in Matrices(Clocks)
<1>1. Clocks \in Nat
  BY ClocksAssumption
<1>2. Len(guard) \in Nat /\ \A k \in 1 .. Len(guard) : guard[k] \in Constraint
  <2> HIDE DEF Constraint
  <2> QED
    OBVIOUS
<1>3. TightenAll(Clocks, Elapse(Clocks, v), guard) \in Matrices(Clocks)
  BY <1>1, <1>2, ElapseIsMatrix, TightenToIsMatrix, TightenAllStays
<1> QED
  BY <1>1, <1>3, Close1IsMatrix, CanonizeStays DEF Guarded

(* No clock differs from itself where a matrix is satisfiable.             *)
LEMMA SatisfiableIsDiagonal ==
  ASSUME NEW v \in Matrices(Clocks), IsSatisfiable(Clocks, v)
  PROVE  v \in Diagonal
<1> SUFFICES ASSUME NEW i \in 0 .. Clocks PROVE Meets(0, v[<<i, i>>])
  BY DEF Diagonal
<1> DEFINE d == v[<<i, i>>]
<1>1. d \in Bound /\ d = <<d[1], d[2]>> /\ d[1] \in Int /\ d[2] \in BOOLEAN
  BY EntryIsBound, BoundIsPair
<1>2. AtMost(<<0, TRUE>>, Plus(d, d))
  BY DEF IsSatisfiable
<1> HIDE DEF d
<1>3. Plus(d, d) = <<IF d[1] = Infinity THEN Infinity ELSE d[1] + d[1], d[2]>>
  BY <1>1 DEF Plus
<1>4. AtMost(<<0, TRUE>>, d)
  <2>1. Plus(d, d)[1] > 0 => d[1] > 0
    BY <1>1, <1>3, InfinityAssumption
  <2>2. Plus(d, d)[1] = 0 => d[1] = 0
    BY <1>1, <1>3, InfinityAssumption
  <2>3. Plus(d, d)[2] = d[2]
    BY <1>3
  <2>4. \A b \in Bound : AtMost(<<0, TRUE>>, b) <=> (b[1] = 0 /\ b[2]) \/ b[1] > 0
    <3> SUFFICES ASSUME NEW b \in Bound
                 PROVE  AtMost(<<0, TRUE>>, b) <=> (b[1] = 0 /\ b[2]) \/ b[1] > 0
      OBVIOUS
    <3>1. b = <<b[1], b[2]>> /\ b[1] \in Int /\ b[2] \in BOOLEAN
      BY BoundIsPair
    <3>2. \A x, y : <<0, TRUE>> = <<x, y>> <=> x = 0 /\ y = TRUE
      OBVIOUS
    <3>3. <<0, TRUE>> = b <=> b[1] = 0 /\ b[2]
      BY <3>1, <3>2
    <3> QED
      BY <3>1, <3>3 DEF AtMost, Less
  <2>5. Plus(d, d) \in Bound
    BY <1>1, PlusIsBound
  <2> QED
    BY <1>1, <1>2, <2>1, <2>2, <2>3, <2>4, <2>5
<1> QED
  BY <1>1, <1>4, ZeroMeets DEF d

LEMMA ResetAllIsDiagonal ==
  ASSUME NEW v \in Diagonal, NEW resetVars
  PROVE  ResetAll(v, resetVars) \in Diagonal
<1> DEFINE S == [k \in 0 .. Clocks |-> Diagonal]
<1>1. Clocks \in Nat /\ 0 \in 0 .. Clocks /\ Clocks \in 0 .. Clocks
  BY ClocksAssumption
<1>2. ASSUME NEW x \in 1 .. Clocks, NEW w \in Diagonal
      PROVE  Reset(Clocks, w, x) \in Diagonal
  <2>1. w \in Matrices(Clocks) /\ \A i \in 0 .. Clocks : Meets(0, w[<<i, i>>])
    BY DEF Diagonal
  <2>2. Meets(0, <<0, TRUE>>)
    <3>1. Parts * 0 = 0
      BY PartsAssumption
    <3> QED
      BY <3>1 DEF Meets
  <2>3. ASSUME NEW i \in 0 .. Clocks PROVE Meets(0, Reset(Clocks, w, x)[<<i, i>>])
    <3>1. Reset(Clocks, w, x)[<<i, i>>] = IF i = x THEN <<0, TRUE>> ELSE w[<<i, i>>]
      BY <1>1, <2>1, ResetOnDiagonal
    <3> QED
      BY <2>1, <2>2, <3>1
  <2>4. Reset(Clocks, w, x) \in Matrices(Clocks)
    BY <1>1, <2>1, ResetEntries
  <2> QED
    BY <2>3, <2>4 DEF Diagonal
<1>3. v \in S[0]
  BY <1>1
<1>4. \A x \in 0 .. Clocks : S[x] \subseteq Matrices(Clocks)
  BY DEF Diagonal
<1>5. ASSUME NEW x \in 1 .. Clocks, NEW w \in S[x - 1]
      PROVE  (IF x \in resetVars THEN Reset(Clocks, w, x) ELSE w) \in S[x]
  <2>1. x \in 0 .. Clocks /\ x - 1 \in 0 .. Clocks
    BY <1>1
  <2> QED
    BY <1>2, <2>1
<1>6. S[Clocks] = Diagonal
  BY <1>1
<1> HIDE DEF S
<1> QED
  BY <1>3, <1>4, <1>5, <1>6, ResetAllStays

-----------------------------------------------------------------------------
(* Entry <<0, 0>>.                                                         *)

LEMMA TupleEntries ==
  ASSUME NEW v \in Matrices(Clocks)
  PROVE  /\ Tuple(v) \in Matrices(Clocks)
         /\ \A ij \in Indices(Clocks) :
              Tuple(v)[ij] = IF ij = <<0, 0>> THEN <<0, TRUE>> ELSE v[ij]
BY BoundsOfZero DEF Tuple, Matrices

LEMMA ElapseIgnoresCorner ==
  ASSUME NEW v \in Matrices(Clocks)
  PROVE  Elapse(Clocks, Tuple(v)) = Elapse(Clocks, v)
<1>1. \A ij \in Indices(Clocks) : ij[2] # 0 => Tuple(v)[ij] = v[ij]
  <2>1. <<0, 0>>[2] = 0
    OBVIOUS
  <2> QED
    BY <2>1, TupleEntries
<1> QED
  BY <1>1 DEF Elapse

LEMMA CornerIsNotNegative ==
  ASSUME NEW v \in Diagonal PROVE v[<<0, 0>>][1] \in Nat
<1>1. 0 \in 0 .. Clocks
  BY ClocksAssumption
<1>2. v[<<0, 0>>] \in Bound /\ Meets(0, v[<<0, 0>>])
  BY <1>1, EntryIsBound DEF Diagonal
<1>3. v[<<0, 0>>][1] = Infinity \/ 0 =< Parts * v[<<0, 0>>][1]
  BY <1>2, MeetsIsAtMost
<1> DEFINE c == v[<<0, 0>>][1]
<1>4. c \in Int
  BY <1>2, BoundIsPair
<1>5. c = Infinity \/ 0 =< Parts * c
  BY <1>3
<1> HIDE DEF c
<1>6. c \in Nat
  BY <1>4, <1>5, PartsAssumption, InfinityAssumption
<1> QED
  BY <1>6 DEF c

LEMMA DurationIgnoresCorner ==
  ASSUME NEW v \in Diagonal, NEW guard
  PROVE  Duration(Tuple(v), guard) = Duration(v, guard)
<1> DEFINE T == Clocks + 1
           z == ConstraintsToDBM(Clocks, guard)
           withT(m) == [ij \in Indices(T) |->
                          IF ij = <<T, T>> THEN <<0, TRUE>>
                          ELSE IF ij = <<T, 0>> THEN Unbounded
                          ELSE IF ij[1] = T THEN m[<<0, ij[2]>>]
                          ELSE IF ij[2] = T THEN m[<<ij[1], 0>>]
                          ELSE m[ij]]
           target == [ij \in Indices(T) |->
                        IF ij = <<T, T>> THEN <<0, TRUE>>
                        ELSE IF ij = <<0, T>> THEN <<0, FALSE>>
                        ELSE IF T \in {ij[1], ij[2]} THEN Unbounded
                        ELSE z[ij]]
           least(m) == [ij \in Indices(T) |-> Least(Elapse(T, withT(m))[ij], target[ij])]
<1>1. ASSUME NEW m
      PROVE  Duration(m, guard) =
               [lower |-> Canonize(T, least(m))[<<0, T>>], upper |-> Canonize(T, least(m))[<<T, 0>>]]
  BY DEF Duration, FindDuration
<1>2. T \in Nat /\ T # 0 /\ 0 \in 0 .. T /\ T \in 0 .. T /\ 0 \in 0 .. Clocks /\ T \notin 0 .. Clocks
      /\ \A x \in 0 .. T : x # T => x \in 0 .. Clocks
  BY ClocksAssumption
<1> DEFINE w == Tuple(v)
<1>3. \A i, j \in 0 .. Clocks : w[<<i, j>>] = IF i = 0 /\ j = 0 THEN <<0, TRUE>> ELSE v[<<i, j>>]
  <2>1. \A i, j \in 0 .. Clocks : <<i, j>> \in Indices(Clocks)
    BY DEF Indices
  <2> QED
    BY <2>1, TupleEntries DEF Diagonal
<1>4. ASSUME NEW m, NEW i \in 0 .. T, NEW j \in 0 .. T
      PROVE  Elapse(T, withT(m))[<<i, j>>] =
               IF j = 0 THEN Unbounded
               ELSE IF i = 0 /\ j = T THEN <<m[<<0, 0>>][1], FALSE>>
               ELSE IF i = 0 THEN <<m[<<0, j>>][1], FALSE>>
               ELSE IF i = T /\ j = T THEN <<0, TRUE>>
               ELSE IF i = T THEN m[<<0, j>>]
               ELSE IF j = T THEN m[<<i, 0>>]
               ELSE m[<<i, j>>]
  <2>1. <<i, j>> \in Indices(T)
    BY DEF Indices
  <2>2. withT(m)[<<i, j>>] = IF i = T /\ j = T THEN <<0, TRUE>>
                             ELSE IF i = T /\ j = 0 THEN Unbounded
                             ELSE IF i = T THEN m[<<0, j>>]
                             ELSE IF j = T THEN m[<<i, 0>>]
                             ELSE m[<<i, j>>]
    <3> HIDE DEF T
    <3> QED
      BY <2>1
  <2> HIDE DEF withT
  <2>3. Elapse(T, withT(m))[<<i, j>>] = IF j = 0 THEN Unbounded
                                        ELSE IF i = 0 THEN <<withT(m)[<<i, j>>][1], FALSE>>
                                        ELSE withT(m)[<<i, j>>]
    BY <2>1 DEF Elapse
  <2> HIDE DEF T
  <2>4. CASE i = 0 /\ j # 0
    BY <1>2, <2>2, <2>3, <2>4
  <2>5. CASE ~(i = 0 /\ j # 0)
    BY <1>2, <2>2, <2>3, <2>5
  <2> QED
    BY <2>4, <2>5
<1>5. ASSUME NEW i \in 0 .. T, NEW j \in 0 .. T
      PROVE  Least(Elapse(T, withT(w))[<<i, j>>], target[<<i, j>>]) =
             Least(Elapse(T, withT(v))[<<i, j>>], target[<<i, j>>])
  <2> HIDE DEF withT, w, T
  <2>1. CASE i = 0 /\ j = T
    <3>1. target[<<i, j>>] = <<0, FALSE>>
      <4>1. <<i, j>> \in Indices(T)
        BY DEF Indices
      <4> QED
        BY <1>2, <2>1, <4>1
    <3> HIDE DEF target
    <3>2. \A c \in Nat : Least(<<c, FALSE>>, <<0, FALSE>>) = <<0, FALSE>>
      <4> SUFFICES ASSUME NEW c \in Nat PROVE Least(<<c, FALSE>>, <<0, FALSE>>) = <<0, FALSE>>
        OBVIOUS
      <4>1. CASE c = 0
        BY <4>1 DEF Least
      <4>2. CASE c # 0
        <5>1. Less(<<0, FALSE>>, <<c, FALSE>>)
          BY <4>2 DEF Less
        <5> QED
          BY <5>1 DEF Least
      <4> QED
        BY <4>1, <4>2
    <3>3. w[<<0, 0>>][1] \in Nat /\ v[<<0, 0>>][1] \in Nat
      <4>1. w[<<0, 0>>] = <<0, TRUE>>
        BY <1>2, <1>3
      <4> QED
        BY <4>1, CornerIsNotNegative
    <3>4. /\ Elapse(T, withT(w))[<<i, j>>] = <<w[<<0, 0>>][1], FALSE>>
          /\ Elapse(T, withT(v))[<<i, j>>] = <<v[<<0, 0>>][1], FALSE>>
      BY <1>2, <1>4, <2>1
    <3> QED
      BY <3>1, <3>2, <3>3, <3>4
  <2>2. CASE ~(i = 0 /\ j = T)
    <3>1. Elapse(T, withT(w))[<<i, j>>] = Elapse(T, withT(v))[<<i, j>>]
      <4>1. CASE j = 0
        BY <1>4, <4>1
      <4>2. CASE j # 0 /\ i = 0
        <5>1. w[<<0, j>>] = v[<<0, j>>]
          BY <1>2, <1>3, <2>2, <4>2
        <5>2. \A m : Elapse(T, withT(m))[<<i, j>>] = <<m[<<0, j>>][1], FALSE>>
          BY <1>4, <2>2, <4>2
        <5> QED
          BY <5>1, <5>2
      <4>3. CASE j # 0 /\ i = T
        <5>1. j # T => w[<<0, j>>] = v[<<0, j>>]
          BY <1>2, <1>3, <4>3
        <5> QED
          BY <1>2, <1>4, <4>3, <5>1, ZenonT(40)
      <4>4. CASE j = T /\ i # 0 /\ i # T
        <5>1. w[<<i, 0>>] = v[<<i, 0>>]
          BY <1>2, <1>3, <4>4
        <5> QED
          BY <1>2, <1>4, <4>4, <5>1
      <4>5. CASE j # 0 /\ j # T /\ i # 0 /\ i # T
        <5>1. w[<<i, j>>] = v[<<i, j>>]
          BY <1>2, <1>3, <4>5
        <5> QED
          BY <1>4, <4>5, <5>1
      <4> QED
        BY <4>1, <4>2, <4>3, <4>4, <4>5
    <3> QED
      BY <3>1
  <2> QED
    BY <2>1, <2>2
<1>6. least(w) = least(v)
  <2> HIDE DEF withT, w, T, target
  <2>1. ASSUME NEW ij \in Indices(T)
        PROVE  Least(Elapse(T, withT(w))[ij], target[ij]) = Least(Elapse(T, withT(v))[ij], target[ij])
    <3>1. PICK i \in 0 .. T, j \in 0 .. T : ij = <<i, j>>
      BY IndexIsPair
    <3> QED
      BY <1>5, <3>1
  <2> QED
    BY <2>1
<1> HIDE DEF least, T
<1> QED
  BY <1>1, <1>6

LEMMA AfterIsPoint ==
  ASSUME NEW p \in [1 .. Clocks -> Int], NEW t \in Int
  PROVE  After(p, t) \in [1 .. Clocks -> Int]
BY DEF After

(* The durations by which a transition is taken are within those found.    *)
LEMMA DurationKeeps ==
  ASSUME NEW v \in Diagonal, NEW p \in [1 .. Clocks -> Int], In(p, v),
         \A x \in 1 .. Clocks : p[x] \in Nat,
         NEW t \in Nat \ {0}, NEW guard \in Seq(Constraint), Satisfies(After(p, t), guard)
  PROVE  /\ Meets(-t, Duration(v, guard).lower)
         /\ Meets(t, Duration(v, guard).upper)
<1> DEFINE q == WithZero(p)
           r == Later(Clocks, q, t)
<1>1. Clocks \in Nat
  BY ClocksAssumption
<1>2. q \in Places(Clocks) /\ v \in Around(Clocks, q)
  BY <1>1, InIsAround DEF Places, WithZero
<1>3. \A x \in 0 .. Clocks : x # 0 => x \in 1 .. Clocks
  BY <1>1
<1>4. r = WithZero(After(p, t)) /\ \A x \in 0 .. Clocks : r[x] \in Nat
  BY <1>3 DEF Later, WithZero, After
<1>5. \A x \in 1 .. Clocks : r[x] = After(p, t)[x]
  BY <1>1, <1>4 DEF WithZero
<1>6. Satisfies(r, guard)
  <2>1. \A k \in DOMAIN guard : guard[k].x \in 1 .. Clocks
    <3>1. \A k \in DOMAIN guard : guard[k] \in Constraint
      <4> HIDE DEF Constraint
      <4> QED
        OBVIOUS
    <3> QED
      BY <3>1 DEF Constraint
  <2> HIDE DEF r
  <2> QED
    BY <1>5, <2>1 DEF Satisfies
<1> HIDE DEF q
<1>7. r \in Places(Clocks)
  BY <1>1, <1>2, LaterIsPlace
<1>8. ConstraintsToDBM(Clocks, guard) \in Around(Clocks, r)
  <2> HIDE DEF r
  <2> QED
    BY <1>4, <1>6, <1>7, ConstraintsToDBMKeeps
<1> QED
  BY <1>1, <1>2, <1>8, FindDurationFinds DEF Duration

-----------------------------------------------------------------------------
(* The paths of ConstructNexts: the inductive invariant.                   *)

(* A transition that led to the zone.                                      *)
Taken(l) ==
  /\ l.from \in Diagonal /\ l.guard \in Seq(Constraint)
  /\ IsSatisfiable(Clocks, Guarded(l.from, l.guard))
  /\ zone = ResetAll(Guarded(l.from, l.guard), l.resetVars)
  /\ l.duration = Duration(l.from, l.guard)

(* One that was left out.                                                  *)
LeftOut(l) ==
  /\ l.from \in Diagonal /\ l.guard \in Seq(Constraint)
  /\ ~IsSatisfiable(Clocks, Guarded(l.from, l.guard))

PathInv ==
  /\ zone \in Diagonal
  /\ last.found = "next" => Taken(last)
  /\ last.found = "none" => LeftOut(last)

LEMMA PathInitOK == PathInit => PathInv
<1> SUFFICES ASSUME PathInit PROVE PathInv
  OBVIOUS
<1> USE DEF PathInit
<1>1. Zero(Clocks) \in Diagonal
  <2>1. ASSUME NEW i \in 0 .. Clocks, NEW j \in 0 .. Clocks
        PROVE  Zero(Clocks)[<<i, j>>] = <<0, TRUE>>
    BY DEF Zero, Indices
  <2>2. Meets(0, <<0, TRUE>>)
    <3>1. Parts * 0 = 0
      BY PartsAssumption
    <3> QED
      BY <3>1 DEF Meets
  <2>3. Zero(Clocks) = [ij \in Indices(Clocks) |-> Zero(Clocks)[ij]]
    BY DEF Zero
  <2>4. Zero(Clocks) \in Matrices(Clocks)
    BY <2>1, <2>3, BoundsOfZero, MatrixByEntries
  <2> QED
    BY <2>1, <2>2, <2>4 DEF Diagonal
<1>2. last.found # "next" /\ last.found # "none"
  OBVIOUS
<1> QED
  BY <1>1, <1>2 DEF PathInv

LEMMA PathStepOK == PathInv /\ [PathNext]_pathVars => PathInv'
<1> SUFFICES ASSUME PathInv, [PathNext]_pathVars PROVE PathInv'
  OBVIOUS
<1>1. ASSUME Take PROVE PathInv'
  <2>1. PICK guard \in Guards, resetVars \in SUBSET (1 .. Clocks) :
          /\ IsSatisfiable(Clocks, Guarded(zone, guard))
          /\ zone' = ResetAll(Guarded(zone, guard), resetVars)
          /\ last' = [found |-> "next", from |-> zone, guard |-> guard,
                      resetVars |-> resetVars, duration |-> Duration(zone, guard)]
    BY <1>1 DEF Take
  <2>2. zone \in Diagonal /\ guard \in Seq(Constraint)
    BY GuardsAssumption DEF PathInv
  <2>3. Guarded(zone, guard) \in Diagonal
    <3>1. Guarded(zone, guard) \in Matrices(Clocks)
      BY <2>2, GuardedIsMatrix DEF Diagonal
    <3> QED
      BY <2>1, <3>1, SatisfiableIsDiagonal
  <2>4. zone' \in Diagonal
    BY <2>1, <2>3, ResetAllIsDiagonal
  <2>5. /\ last'.found = "next" /\ last'.from = zone /\ last'.guard = guard
        /\ last'.resetVars = resetVars /\ last'.duration = Duration(zone, guard)
    BY <2>1
  <2>6. (Taken(last))'
    BY <2>1, <2>2, <2>5 DEF Taken
  <2> QED
    BY <2>4, <2>5, <2>6 DEF PathInv
<1>2. ASSUME Leave PROVE PathInv'
  <2>1. PICK guard \in Guards :
          /\ ~IsSatisfiable(Clocks, Guarded(zone, guard))
          /\ last' = [found |-> "none", from |-> zone, guard |-> guard]
    BY <1>2 DEF Leave
  <2>2. zone' = zone /\ zone \in Diagonal /\ guard \in Seq(Constraint)
    BY <1>2, GuardsAssumption DEF PathInv, Leave
  <2>3. last'.found = "none" /\ last'.from = zone /\ last'.guard = guard
    BY <2>1
  <2>4. (LeftOut(last))'
    BY <2>1, <2>2, <2>3 DEF LeftOut
  <2> QED
    BY <2>2, <2>3, <2>4 DEF PathInv
<1>3. ASSUME UNCHANGED pathVars PROVE PathInv'
  BY <1>3 DEF PathInv, Taken, LeftOut, pathVars
<1> QED
  BY <1>1, <1>2, <1>3 DEF PathNext

THEOREM PathInvariance == PathSpec => []PathInv
BY PathInitOK, PathStepOK, PTL DEF PathSpec

-----------------------------------------------------------------------------
(* The theorems about them.                                                *)

(* constructNexts loses no point: where a transition can be taken from a   *)
(* point of the zone after a time, the point it leads to is in the zone    *)
(* reached, and the time is within the durations found.                    *)
LeadsInside ==
  last.found = "next" =>
    \A p \in [1 .. Clocks -> Nat], t \in Nat \ {0} :
      In(p, last.from) /\ Satisfies(After(p, t), last.guard) =>
          /\ In(ResetPoint(After(p, t), last.resetVars), zone)
          /\ Meets(-t, last.duration.lower) /\ Meets(t, last.duration.upper)

THEOREM PointsAreKept == PathSpec => []LeadsInside
<1>1. PathInv => LeadsInside
  <2> SUFFICES ASSUME PathInv, last.found = "next",
                      NEW p \in [1 .. Clocks -> Nat], NEW t \in Nat \ {0},
                      In(p, last.from), Satisfies(After(p, t), last.guard)
               PROVE  /\ In(ResetPoint(After(p, t), last.resetVars), zone)
                      /\ Meets(-t, last.duration.lower) /\ Meets(t, last.duration.upper)
    BY DEF LeadsInside
  <2> DEFINE a == After(p, t)
             R == last.resetVars
             g == Guarded(last.from, last.guard)
  <2>1. /\ Taken(last) /\ zone \in Diagonal
        /\ p \in [1 .. Clocks -> Int] /\ \A x \in 1 .. Clocks : p[x] \in Nat
    BY DEF PathInv
  <2>2. Meets(-t, last.duration.lower) /\ Meets(t, last.duration.upper)
    BY <2>1, DurationKeeps DEF Taken
  <2>3. g \in Around(Clocks, WithZero(a))
    BY <2>1, GuardedKeeps DEF Taken
  <2>4. a \in [1 .. Clocks -> Int]
    BY AfterIsPoint
  <2>5. WithZero(a) \in Places(Clocks)
    BY <2>4, ClocksAssumption DEF Places, WithZero
  <2>6. zone = ResetAll(g, R)
    BY <2>1 DEF Taken
  <2> HIDE DEF a, g
  <2>7. zone \in Around(Clocks, ResetUpTo(WithZero(a), R, Clocks))
    BY <2>3, <2>5, <2>6, ResetAllKeeps
  <2>8. ResetUpTo(WithZero(a), R, Clocks) = WithZero(ResetPoint(a, R))
    <3>1. \A x \in 0 .. Clocks : x # 0 <=> 1 =< x /\ x =< Clocks
      BY ClocksAssumption
    <3>2. \A x \in 0 .. Clocks : x # 0 => x \in 1 .. Clocks
      BY ClocksAssumption
    <3> QED
      BY <3>1, <3>2 DEF ResetUpTo, WithZero, ResetPoint
  <2>9. ResetPoint(a, R) \in [1 .. Clocks -> Int]
    BY <2>4 DEF ResetPoint
  <2>10. In(ResetPoint(a, R), zone)
    BY <2>1, <2>7, <2>8, <2>9, InIsAround
  <2> QED
    BY <2>2, <2>10 DEF a
<1> QED
  BY <1>1, PathInvariance, PTL

(* constructNexts leaves a transition out, because isSatisfiable() is      *)
(* false, only if no point of the zone ever meets its guard.               *)
THEOREM LeavesOutRightly == PathSpec => []NoneLeftOut
<1>1. PathInv => NoneLeftOut
  <2> SUFFICES ASSUME PathInv, last.found = "none", NEW pt \in Ways(last.from, last.guard)
               PROVE  FALSE
    BY DEF NoneLeftOut
  <2>1. LeftOut(last)
    BY DEF PathInv
  <2>2. Moments \subseteq Nat
    <3>1. Parts * Horizon \in Nat
      BY PartsAssumption, HorizonAssumption
    <3> QED
      BY <3>1 DEF Moments
  <2>3. /\ pt[1] \in [1 .. Clocks -> Int] /\ In(pt[1], last.from)
        /\ pt[2] \in Nat \ {0} /\ Satisfies(After(pt[1], pt[2]), last.guard)
    <3>1. /\ pt[1] \in Points /\ In(pt[1], last.from) /\ pt[2] \in Moments \ {0}
          /\ Satisfies(After(pt[1], pt[2]), last.guard)
      BY DEF Ways
    <3>2. pt[1] \in [1 .. Clocks -> Int]
      <4>1. \A n \in Moments : n \in Int
        BY <2>2
      <4> HIDE DEF Moments
      <4>2. \A f \in [1 .. Clocks -> Moments] : f \in [1 .. Clocks -> Int]
        BY <4>1
      <4> QED
        BY <3>1, <4>2 DEF Points
    <3> QED
      BY <2>2, <3>1, <3>2
  <2>4. Guarded(last.from, last.guard) \in Around(Clocks, WithZero(After(pt[1], pt[2])))
    BY <2>1, <2>3, GuardedKeeps DEF LeftOut
  <2>5. WithZero(After(pt[1], pt[2])) \in Places(Clocks)
    <3>1. After(pt[1], pt[2]) \in [1 .. Clocks -> Int]
      BY <2>3, AfterIsPoint
    <3> QED
      BY <3>1, ClocksAssumption DEF Places, WithZero
  <2>6. IsSatisfiable(Clocks, Guarded(last.from, last.guard))
    BY <2>4, <2>5, ClocksAssumption, SatisfiableWhenAround
  <2> QED
    BY <2>1, <2>6 DEF LeftOut
<1> QED
  BY <1>1, PathInvariance, PTL

(* toTuple() and operator== may leave entry <<0, 0>> out: nothing that     *)
(* constructNexts makes of a zone depends on it.                           *)
THEOREM CornerIsIgnored == PathSpec => []CornerIgnored
<1>1. PathInv => CornerIgnored
  <2> SUFFICES ASSUME PathInv, last.found = "next"
               PROVE  /\ Tuple(ResetAll(Guarded(Tuple(last.from), last.guard), last.resetVars))
                           = Tuple(zone)
                      /\ Duration(Tuple(last.from), last.guard) = last.duration
    BY DEF CornerIgnored
  <2>1. Taken(last)
    BY DEF PathInv
  <2>2. Guarded(Tuple(last.from), last.guard) = Guarded(last.from, last.guard)
    BY <2>1, ElapseIgnoresCorner DEF Guarded, Taken, Diagonal
  <2>3. Duration(Tuple(last.from), last.guard) = Duration(last.from, last.guard)
    BY <2>1, DurationIgnoresCorner DEF Taken
  <2> QED
    BY <2>1, <2>2, <2>3 DEF Taken
<1> QED
  BY <1>1, PathInvariance, PTL

Copying == INSTANCE AddCounterProofs WITH
  Automata <- {}, WordLength <- 0,
  from <- pattern, toNewState <- copies, cursor <- visited

Vector == IF via \in DOMAIN nexts THEN nexts[via] ELSE <<>>

Sweeping == INSTANCE LinearizeNextsProofs WITH
  Vectors <- {}, Initials <- {},
  nexts <- Vector, initConfs <- Determinized!InitConfs, nextLineared <- pieces

-----------------------------------------------------------------------------
(* They are the same parts.                                                *)

LEMMA SameCopying ==
  /\ WithCounter!Start <=> Copying!Start
  /\ WithCounter!Next <=> Copying!Next
  /\ WithCounter!Done <=> Copying!Done
  /\ WithCounter!Result = Copying!Result
BY DEF WithCounter!Start, Copying!Start, WithCounter!Next, Copying!Next,
  WithCounter!AddInitial, Copying!AddInitial, WithCounter!Visit, Copying!Visit,
  WithCounter!Redirect, Copying!Redirect, WithCounter!AddNewState, Copying!AddNewState,
  WithCounter!NextCount, Copying!NextCount, WithCounter!Fresh, Copying!Fresh,
  WithCounter!CopiesToVisit, Copying!CopiesToVisit,
  WithCounter!InitialCopied, Copying!InitialCopied,
  WithCounter!Done, Copying!Done, WithCounter!Result, Copying!Result

LEMMA SameBounds ==
  /\ Determinized!Unbounded = Unbounded
  /\ \A a, b : /\ Determinized!Less(a, b) <=> Less(a, b)
               /\ Determinized!AtMost(a, b) <=> AtMost(a, b)
               /\ Determinized!Least(a, b) = Least(a, b)
               /\ Determinized!Plus(a, b) = Plus(a, b)
BY DEF Determinized!Unbounded, Unbounded, Determinized!Less, Less, Determinized!AtMost, AtMost,
  Determinized!Least, Least, Determinized!Plus, Plus

LEMMA SameIndices == ASSUME NEW n PROVE Determinized!Indices(n) = Indices(n)
BY DEF Determinized!Indices, Indices

LEMMA SameClose1 ==
  ASSUME NEW n, NEW v, NEW x PROVE Determinized!Close1(n, v, x) = Close1(n, v, x)
<1> DEFINE rowD == [j \in 0 .. n |-> Determinized!Least(v[<<x, j>>], Determinized!Plus(v[<<x, j>>], v[<<x, x>>]))]
           row == [j \in 0 .. n |-> Least(v[<<x, j>>], Plus(v[<<x, j>>], v[<<x, x>>]))]
           through(i, j) == IF i > x THEN row[j] ELSE v[<<x, j>>]
           throughD(i, j) == IF i > x THEN rowD[j] ELSE v[<<x, j>>]
<1>1. rowD = row
  BY SameBounds
<1>2. \A m : Determinized!Stored(m) = m
  BY DEF Determinized!Stored
<1>3. Close1(n, v, x) = [ij \in Indices(n) |->
                           Least(v[ij], Plus(through(ij[1], ij[2]), v[<<ij[1], x>>]))]
  BY StoredIs DEF Close1
<1>4. Determinized!Close1(n, v, x) =
        [ij \in Determinized!Indices(n) |->
           Determinized!Least(v[ij], Determinized!Plus(throughD(ij[1], ij[2]), v[<<ij[1], x>>]))]
  BY <1>2 DEF Determinized!Close1
<1> HIDE DEF row, rowD
<1>5. \A i, j : throughD(i, j) = through(i, j)
  BY <1>1
<1> HIDE DEF through, throughD
<1> QED
  BY <1>3, <1>4, <1>5, SameBounds, SameIndices

LEMMA SameCanonize ==
  ASSUME NEW n, NEW v PROVE Determinized!Canonize(n, v) = Canonize(n, v)
<1> DEFINE P(r) == r = [k \in -1 .. n |-> IF k = -1 THEN v ELSE Determinized!Close1(n, r[k - 1], k)]
           Q(r) == r = [k \in -1 .. n |-> IF k = -1 THEN v ELSE Close1(n, r[k - 1], k)]
<1>1. ASSUME NEW r PROVE P(r) <=> Q(r)
  BY SameClose1
<1>2. Determinized!Canonize(n, v) = (CHOOSE r : P(r))[n] /\ Canonize(n, v) = (CHOOSE r : Q(r))[n]
  BY DEF Determinized!Canonize, Canonize
<1> HIDE DEF P, Q
<1>3. (CHOOSE r : P(r)) = (CHOOSE r : Q(r))
  BY <1>1, Zenon
<1> QED
  BY <1>2, <1>3

LEMMA SameTightenTo ==
  ASSUME NEW n, NEW v, NEW g PROVE Determinized!TightenTo(n, v, g) = TightenTo(n, v, g)
<1>1. ASSUME NEW x, NEW y, NEW c PROVE Determinized!Tighten(n, v, x, y, c) = Tighten(n, v, x, y, c)
  BY SameClose1, SameBounds DEF Determinized!Tighten, Tighten
<1> QED
  BY <1>1 DEF Determinized!TightenTo, TightenTo

LEMMA SameTightenAll ==
  ASSUME NEW n, NEW v, NEW guard
  PROVE  Determinized!TightenAll(n, v, guard) = TightenAll(n, v, guard)
<1> DEFINE L == Len(guard)
           P(r) == r = [k \in 0 .. L |-> IF k = 0 THEN v ELSE Determinized!TightenTo(n, r[k - 1], guard[k])]
           Q(r) == r = [k \in 0 .. L |-> IF k = 0 THEN v ELSE TightenTo(n, r[k - 1], guard[k])]
<1>1. ASSUME NEW r PROVE P(r) <=> Q(r)
  BY SameTightenTo
<1>2. /\ Determinized!TightenAll(n, v, guard) = (CHOOSE r : P(r))[L]
      /\ TightenAll(n, v, guard) = (CHOOSE r : Q(r))[L]
  BY DEF Determinized!TightenAll, TightenAll
<1> HIDE DEF P, Q, L
<1>3. (CHOOSE r : P(r)) = (CHOOSE r : Q(r))
  BY <1>1, Zenon
<1> QED
  BY <1>2, <1>3

LEMMA SameElapse ==
  ASSUME NEW n, NEW v PROVE Determinized!Elapse(n, v) = Elapse(n, v)
BY SameIndices DEF Determinized!Elapse, Elapse, Determinized!Unbounded, Unbounded

LEMMA SameGuarded == ASSUME NEW v, NEW guard PROVE Determinized!Guarded(v, guard) = Guarded(v, guard)
BY SameElapse, SameTightenAll, SameCanonize DEF Determinized!Guarded, Guarded

LEMMA SameConstraintsToDBM ==
  ASSUME NEW n, NEW guard
  PROVE  Determinized!ConstraintsToDBM(n, guard) = ConstraintsToDBM(n, guard)
BY SameIndices, SameBounds, SameTightenAll DEF Determinized!ConstraintsToDBM, ConstraintsToDBM

LEMMA SameDuration ==
  ASSUME NEW v, NEW guard PROVE Determinized!Duration(v, guard) = Duration(v, guard)
<1>1. ASSUME NEW n, NEW z PROVE Determinized!FindDuration(n, v, z) = FindDuration(n, v, z)
  BY SameIndices, SameBounds, SameElapse, SameCanonize, ZenonT(40) DEF Determinized!FindDuration, FindDuration
<1> QED
  BY <1>1, SameConstraintsToDBM DEF Determinized!Duration, Duration

LEMMA SameSatisfiable ==
  ASSUME NEW v PROVE Determinized!IsSatisfiable(Clocks, v) <=> IsSatisfiable(Clocks, v)
BY DEF Determinized!IsSatisfiable, IsSatisfiable, Determinized!AtMost, AtMost, Determinized!Less, Less,
  Determinized!Plus, Plus

LEMMA SameResetAll ==
  ASSUME NEW v, NEW xs PROVE Determinized!ResetAll(v, xs) = ResetAll(v, xs)
BY DEF Determinized!ResetAll, ResetAll, Determinized!Reset, Reset, Determinized!Indices, Indices

LEMMA SameZones ==
  /\ Determinized!Zero(Clocks) = Zero(Clocks)
  /\ \A v : Determinized!Tuple(v) = Tuple(v)
  /\ \A p, v : Determinized!In(p, v) <=> In(p, v)
  /\ \A d, bound : Determinized!Meets(d, bound) <=> Meets(d, bound)
BY DEF Determinized!Zero, Zero, Determinized!Indices, Indices, Determinized!Tuple, Tuple,
  Determinized!In, In, Determinized!Meets, Meets

LEMMA SameEnds ==
  /\ Determinized!Linear!lowers = Sweeping!lowers /\ Determinized!Linear!uppers = Sweeping!uppers
  /\ Determinized!Linear!lower = Sweeping!lower /\ Determinized!Linear!upper = Sweeping!upper
BY DEF Determinized!Linear!lowers, Sweeping!lowers, Determinized!Linear!uppers, Sweeping!uppers,
  Determinized!Linear!Negated, Sweeping!Negated, Vector,
  Determinized!Linear!lower, Sweeping!lower, Determinized!Linear!upper, Sweeping!upper

LEMMA SameBatch ==
  ASSUME NEW o, NEW bounds
  PROVE  /\ Determinized!Linear!Batch(o, bounds) = Sweeping!Batch(o, bounds)
         /\ Determinized!Linear!Rest(o, bounds) = Sweeping!Rest(o, bounds)
<1>1. Determinized!Linear!Taken(o, bounds) = Sweeping!Taken(o, bounds)
  BY DEF Determinized!Linear!Taken, Sweeping!Taken, Vector
<1> QED
  BY <1>1 DEF Determinized!Linear!Batch, Sweeping!Batch, Determinized!Linear!Rest, Sweeping!Rest

LEMMA SameBags ==
  /\ \A S : Determinized!Linear!Cardinality(S) = Sweeping!Cardinality(S)
  /\ \A S : Determinized!Linear!SetToBag(S) = Sweeping!SetToBag(S)
  /\ \A b, c : Determinized!Linear!(+)(b, c) = Sweeping!(+)(b, c)
  /\ \A b, c : Determinized!Linear!(-)(b, c) = Sweeping!(-)(b, c)
BY DEF Determinized!Linear!Cardinality, Sweeping!Cardinality,
  Determinized!Linear!SetToBag, Sweeping!SetToBag,
  Determinized!Linear!(+), Sweeping!(+), Determinized!Linear!(-), Sweeping!(-)

LEMMA SameAfter ==
  ASSUME NEW b
  PROVE  /\ Determinized!Linear!AfterLower(b) = Sweeping!AfterLower(b)
         /\ Determinized!Linear!AfterUpper(b) = Sweeping!AfterUpper(b)
<1>1. ASSUME NEW is PROVE Determinized!Linear!Confs(is) = Sweeping!Confs(is)
  BY SameBags DEF Determinized!Linear!Confs, Sweeping!Confs, Vector
<1> QED
  BY <1>1, SameEnds, SameBatch, SameBags DEF Determinized!Linear!AfterLower, Sweeping!AfterLower,
    Determinized!Linear!AfterUpper, Sweeping!AfterUpper

LEMMA SameSweep ==
  Determinized!Linear!Next <=> Sweeping!Next
<1>1. Determinized!Linear!UseLower <=> Sweeping!UseLower
  BY SameBatch, SameEnds DEF Determinized!Linear!UseLower, Sweeping!UseLower
<1>2. Determinized!Linear!UseUpper <=> Sweeping!UseUpper
  BY SameBatch, SameEnds DEF Determinized!Linear!UseUpper, Sweeping!UseUpper
<1>3. Determinized!Linear!BeginsAtZero <=> Sweeping!BeginsAtZero
  BY SameEnds DEF Determinized!Linear!BeginsAtZero, Sweeping!BeginsAtZero,
    Determinized!Linear!AtMost, Sweeping!AtMost, Determinized!Linear!Less, Sweeping!Less
<1>4. Determinized!Linear!NeedsLast <=> Sweeping!NeedsLast
  BY SameBags DEF Determinized!Linear!NeedsLast, Sweeping!NeedsLast
<1>5. Determinized!Linear!Zero <=> Sweeping!Zero
  BY <1>1, <1>3, SameAfter DEF Determinized!Linear!Zero, Sweeping!Zero, Vector
<1>6. Determinized!Linear!SweepLower <=> Sweeping!SweepLower
  BY <1>1, SameEnds, SameAfter DEF Determinized!Linear!SweepLower, Sweeping!SweepLower, Vector,
    Determinized!Linear!Sweeping, Sweeping!Sweeping, Determinized!Linear!Piece, Sweeping!Piece,
    Determinized!Linear!BeforeLower, Sweeping!BeforeLower
<1>7. Determinized!Linear!SweepUpper <=> Sweeping!SweepUpper
  BY <1>2, SameEnds, SameAfter DEF Determinized!Linear!SweepUpper, Sweeping!SweepUpper, Vector,
    Determinized!Linear!Sweeping, Sweeping!Sweeping, Determinized!Linear!Piece, Sweeping!Piece
<1>8. Determinized!Linear!SweepAdjacent <=> Sweeping!SweepAdjacent
  BY <1>1, <1>2, SameEnds, SameAfter DEF Determinized!Linear!SweepAdjacent, Sweeping!SweepAdjacent, Vector,
    Determinized!Linear!Sweeping, Sweeping!Sweeping, Determinized!Linear!Piece, Sweeping!Piece
<1>9. Determinized!Linear!SweepPoint <=> Sweeping!SweepPoint
  BY <1>1, <1>2, SameEnds, SameAfter DEF Determinized!Linear!SweepPoint, Sweeping!SweepPoint, Vector,
    Determinized!Linear!Sweeping, Sweeping!Sweeping, Determinized!Linear!Piece, Sweeping!Piece
<1>10. Determinized!Linear!SweepRest <=> Sweeping!SweepRest
  BY <1>2, SameEnds, SameAfter DEF Determinized!Linear!SweepRest, Sweeping!SweepRest, Vector,
    Determinized!Linear!Piece, Sweeping!Piece
<1>11. Determinized!Linear!Finish <=> Sweeping!Finish
  BY <1>4, SameBags DEF Determinized!Linear!Finish, Sweeping!Finish, Vector,
    Determinized!Linear!Piece, Sweeping!Piece,
    Determinized!Linear!Unbounded, Sweeping!Unbounded
<1> QED
  BY <1>5, <1>6, <1>7, <1>8, <1>9, <1>10, <1>11 DEF Determinized!Linear!Next, Sweeping!Next

LEMMA SameVectors ==
  /\ \A s : Determinized!Linear!LowerOrder(s) = Sweeping!LowerOrder(s)
  /\ \A s : Determinized!Linear!UpperOrder(s) = Sweeping!UpperOrder(s)
  /\ \A e : Determinized!Linear!IsElement(e) <=> Sweeping!IsElement(e)
<1>1. ASSUME NEW s PROVE Determinized!Linear!LowerOrder(s) = Sweeping!LowerOrder(s)
  <2> DEFINE beforeD(i) == {j \in DOMAIN s : Determinized!Linear!ByLower(s, j, i)
                                             /\ (Determinized!Linear!ByLower(s, i, j) => j < i)}
             before(i) == {j \in DOMAIN s : Sweeping!ByLower(s, j, i) /\ (Sweeping!ByLower(s, i, j) => j < i)}
             P(k, i) == i \in DOMAIN s /\ Determinized!Linear!Cardinality(beforeD(i)) = k - 1
             Q(k, i) == i \in DOMAIN s /\ Sweeping!Cardinality(before(i)) = k - 1
  <2>1. \A i, j : Determinized!Linear!ByLower(s, j, i) <=> Sweeping!ByLower(s, j, i)
    BY DEF Determinized!Linear!ByLower, Sweeping!ByLower, Determinized!Linear!Less, Sweeping!Less
  <2>2. \A i : beforeD(i) = before(i)
    BY <2>1
  <2>3. \A k, i : P(k, i) <=> Q(k, i)
    <3> HIDE DEF before, beforeD
    <3> QED
      BY <2>2, SameBags
  <2>4. Determinized!Linear!LowerOrder(s) = [k \in DOMAIN s |-> CHOOSE i : P(k, i)]
    BY DEF Determinized!Linear!LowerOrder
  <2>5. Sweeping!LowerOrder(s) = [k \in DOMAIN s |-> CHOOSE i : Q(k, i)]
    BY DEF Sweeping!LowerOrder
  <2> HIDE DEF P, Q
  <2>6. \A k : (CHOOSE i : P(k, i)) = (CHOOSE i : Q(k, i))
    BY <2>3, Zenon
  <2> QED
    BY <2>4, <2>5, <2>6
<1>2. ASSUME NEW s PROVE Determinized!Linear!UpperOrder(s) = Sweeping!UpperOrder(s)
  <2> DEFINE beforeD(i) == {j \in DOMAIN s : Determinized!Linear!ByUpper(s, j, i)
                                             /\ (Determinized!Linear!ByUpper(s, i, j) => j < i)}
             before(i) == {j \in DOMAIN s : Sweeping!ByUpper(s, j, i) /\ (Sweeping!ByUpper(s, i, j) => j < i)}
             P(k, i) == i \in DOMAIN s /\ Determinized!Linear!Cardinality(beforeD(i)) = k - 1
             Q(k, i) == i \in DOMAIN s /\ Sweeping!Cardinality(before(i)) = k - 1
  <2>1. \A i, j : Determinized!Linear!ByUpper(s, j, i) <=> Sweeping!ByUpper(s, j, i)
    BY DEF Determinized!Linear!ByUpper, Sweeping!ByUpper, Determinized!Linear!Less, Sweeping!Less
  <2>2. \A i : beforeD(i) = before(i)
    BY <2>1
  <2>3. \A k, i : P(k, i) <=> Q(k, i)
    <3> HIDE DEF before, beforeD
    <3> QED
      BY <2>2, SameBags
  <2>4. Determinized!Linear!UpperOrder(s) = [k \in DOMAIN s |-> CHOOSE i : P(k, i)]
    BY DEF Determinized!Linear!UpperOrder
  <2>5. Sweeping!UpperOrder(s) = [k \in DOMAIN s |-> CHOOSE i : Q(k, i)]
    BY DEF Sweeping!UpperOrder
  <2> HIDE DEF P, Q
  <2>6. \A k : (CHOOSE i : P(k, i)) = (CHOOSE i : Q(k, i))
    BY <2>3, Zenon
  <2> QED
    BY <2>4, <2>5, <2>6
<1>3. \A e : Determinized!Linear!IsElement(e) <=> Sweeping!IsElement(e)
  BY DEF Determinized!Linear!IsElement, Sweeping!IsElement,
    Determinized!Linear!Within, Sweeping!Within, Determinized!Linear!Below, Sweeping!Below,
    Determinized!Linear!Unbounded, Sweeping!Unbounded
<1> QED
  BY <1>1, <1>2, <1>3

LEMMA SameFinite ==
  /\ \A S : Determinized!Cardinality(S) = Cardinality(S)
  /\ \A S : Determinized!Linear!SetToBag(S) = [e \in S |-> 1]
  /\ \A S : Sweeping!SetToBag(S) = [e \in S |-> 1]
<1>1. \A S : Determinized!Cardinality(S) = Cardinality(S)
  BY DEF Determinized!Cardinality, Cardinality
<1> QED
  BY <1>1 DEF Determinized!Linear!SetToBag, Sweeping!SetToBag

LEMMA ImageIsFinite ==
  ASSUME NEW S, IsFiniteSet(S), NEW f, f = [x \in S |-> f[x]]
  PROVE  IsFiniteSet({f[x] : x \in S})
<1> DEFINE T == {f[x] : x \in S}
<1>1. f \in Surjection(S, T)
  <2>1. f \in [S -> T]
    OBVIOUS
  <2>2. \A y \in T : \E x \in S : f[x] = y
    OBVIOUS
  <2> HIDE DEF T
  <2> QED
    BY <2>1, <2>2 DEF Surjection
<1> QED
  BY <1>1, FS_Surjection

(* Listed gives every element of a finite set.                             *)
LEMMA ListedLists ==
  ASSUME NEW S, IsFiniteSet(S), NEW n, n = Cardinality(S)
  PROVE  /\ n \in Nat
         /\ Determinized!Listed(S) = [k \in 1 .. n |-> Determinized!Listed(S)[k]]
         /\ \A k \in 1 .. n : Determinized!Listed(S)[k] \in S
         /\ \A x \in S : \E k \in 1 .. n : Determinized!Listed(S)[k] = x
<1> DEFINE T == SUBSET S
           first(R) == CHOOSE x \in R : TRUE
           F == [k \in 1 .. n |-> [R \in T |-> R \ {first(R)}]]
           Solves(r) == r = [k \in 0 .. n |-> IF k = 0 THEN S ELSE r[k - 1] \ {first(r[k - 1])}]
           rest == CHOOSE r : Solves(r)
<1>1. n \in Nat
  BY FS_CardinalityType
<1>2. F \in [1 .. n -> [T -> T]]
  OBVIOUS
<1>3. Determinized!Listed(S) = [k \in 1 .. n |-> first(rest[k - 1])]
  <2>1. Determinized!Cardinality(S) = n
    BY SameFinite
  <2> QED
    BY <2>1 DEF Determinized!Listed
<1>4. PICK r \in [0 .. n -> T] : Iterates(r, S, F, n)
  <2>1. S \in T
    OBVIOUS
  <2> HIDE DEF F, T
  <2> QED
    BY <1>1, <1>2, <2>1, IterationExists
<1>5. Solves(r)
  <2>1. ASSUME NEW k \in 0 .. n PROVE r[k] = IF k = 0 THEN S ELSE r[k - 1] \ {first(r[k - 1])}
    <3>1. CASE k = 0
      BY <1>4, <3>1 DEF Iterates
    <3>2. CASE k # 0
      <4>1. k \in 1 .. n /\ k - 1 \in 0 .. n
        BY <1>1, <3>2
      <4>2. r[k] = F[k][r[k - 1]]
        <5> HIDE DEF F
        <5> QED
          BY <1>4, <4>1 DEF Iterates
      <4>3. r[k - 1] \in T
        BY <4>1
      <4>4. F[k][r[k - 1]] = r[k - 1] \ {first(r[k - 1])}
        <5> HIDE DEF first, T
        <5> QED
          BY <4>1, <4>3
      <4> QED
        BY <3>2, <4>2, <4>4
    <3> QED
      BY <3>1, <3>2
  <2>2. r = [k \in 0 .. n |-> r[k]]
    OBVIOUS
  <2> HIDE DEF F, T, first
  <2> QED
    BY <2>1, <2>2
<1>6. Solves(rest)
  BY <1>5
<1> HIDE DEF rest, F
<1>7. rest[0] = S
  BY <1>1, <1>6
<1>8. ASSUME NEW k \in 1 .. n PROVE rest[k] = rest[k - 1] \ {first(rest[k - 1])}
  <2>1. k \in 0 .. n /\ k # 0
    BY <1>1
  <2> HIDE DEF first
  <2> QED
    BY <1>6, <2>1
<1> DEFINE D == {k \in 0 .. n : /\ rest[k] \subseteq S /\ IsFiniteSet(rest[k])
                                /\ Cardinality(rest[k]) = n - k
                                /\ \A x \in S : x \in rest[k] \/ \E j \in 1 .. k : first(rest[j - 1]) = x}
<1> HIDE DEF first
<1>9. 0 \in D
  <2>1. n = n - 0 /\ 0 \in 0 .. n
    BY <1>1
  <2> QED
    BY <1>7, <2>1
<1>10. ASSUME NEW k \in 0 .. n - 1, rest[k] \subseteq S, Cardinality(rest[k]) = n - k
       PROVE  first(rest[k]) \in rest[k]
  <2>1. Cardinality(rest[k]) # 0
    BY <1>1, <1>10
  <2>2. rest[k] # {}
    BY <2>1, FS_EmptySet
  <2> QED
    BY <2>2 DEF first
<1>11. ASSUME NEW k \in 0 .. n - 1, k \in D PROVE k + 1 \in D
  <2>1. k + 1 \in 1 .. n /\ (k + 1) - 1 = k /\ k + 1 \in 0 .. n /\ (n - k) - 1 = n - (k + 1)
    BY <1>1
  <2>2. first(rest[k]) \in rest[k]
    BY <1>10, <1>11
  <2>3. rest[k + 1] = rest[k] \ {first(rest[k])}
    BY <1>8, <2>1
  <2>4. IsFiniteSet(rest[k + 1]) /\ Cardinality(rest[k + 1]) = n - (k + 1)
    BY <1>11, <2>1, <2>2, <2>3, FS_RemoveElement
  <2>5. ASSUME NEW x \in S
        PROVE  x \in rest[k + 1] \/ \E j \in 1 .. k + 1 : first(rest[j - 1]) = x
    <3>1. CASE x \in rest[k] /\ x # first(rest[k])
      BY <2>3, <3>1
    <3>2. CASE x = first(rest[k])
      <4>1. k + 1 \in 1 .. k + 1
        BY <1>1
      <4> QED
        BY <2>1, <3>2, <4>1
    <3>3. CASE x \notin rest[k]
      <4>1. PICK j \in 1 .. k : first(rest[j - 1]) = x
        BY <1>11, <3>3
      <4>2. j \in 1 .. k + 1
        BY <1>1
      <4> QED
        BY <4>1, <4>2
    <3> QED
      BY <3>1, <3>2, <3>3
  <2> QED
    BY <1>11, <2>1, <2>3, <2>4, <2>5
<1>12. \A k \in 0 .. n : k \in D
  <2> HIDE DEF D
  <2> QED
    BY <1>1, <1>9, <1>11, InductionToBound
<1>13. ASSUME NEW k \in 1 .. n PROVE first(rest[k - 1]) \in S
  <2>1. k - 1 \in 0 .. n - 1 /\ k - 1 \in 0 .. n
    BY <1>1
  <2>2. k - 1 \in D
    BY <1>12, <2>1
  <2> QED
    BY <1>10, <2>1, <2>2
<1>14. ASSUME NEW x \in S PROVE \E k \in 1 .. n : first(rest[k - 1]) = x
  <2>1. n \in D
    <3>1. n \in 0 .. n
      BY <1>1
    <3> HIDE DEF D
    <3> QED
      BY <1>12, <3>1
  <2>2. rest[n] = {}
    BY <1>1, <2>1, FS_EmptySet
  <2> QED
    BY <2>1, <2>2
<1> QED
  BY <1>1, <1>3, <1>13, <1>14

-----------------------------------------------------------------------------
(* What the counters leave.                                                *)

Members == DOMAIN states

(* The automaton with counters has been made, from a pattern that fits.    *)
Copied ==
  /\ Fits(pattern)
  /\ Copying!IInv /\ Copying!Done
  /\ IsFiniteSet(next)
  /\ counted = Counted

RecordOf(t) == [at |-> t.at, via |-> t.via.c, guard |-> t.via.guard,
                resetVars |-> t.via.resetVars, edge |-> t.via.edge, to |-> t.to]

(* The numbers of the clocks come through.                                 *)
LEMMA CountedIs ==
  ASSUME Copied
  PROVE  /\ counted.initial = initialStates
         /\ counted.match = {i \in DOMAIN states : states[i].old \in pattern.match}
         /\ counted.counter = [i \in DOMAIN states |-> states[i].count]
         /\ counted.trans = {RecordOf(t) : t \in next}
         /\ \A t \in next : \E u \in pattern.trans : Copying!IsCopy(t, u)
         /\ \A t \in next : /\ t.via.guard \in Seq(Constraint)
                            /\ t.via.resetVars \subseteq 1 .. Clocks
                            /\ t.via.c # Mask
                            /\ t.to \in Members
<1>1. /\ \A t \in next : \E u \in pattern.trans : Copying!IsCopy(t, u)
      /\ \A t \in next : t.to \in Members
  <2>1. Copying!Unfolds
    BY BufferAssumption, Copying!IInvUnfolds DEF Copied
  <2>2. \A t \in next : t.to \in Members
    BY DEF Copied, Copying!IInv, Copying!TypeOK, Members
  <2> QED
    BY <2>1, <2>2 DEF Copied, Copying!Unfolds
<1>2. ASSUME NEW t \in next
      PROVE  /\ t.via.guard \in Seq(Constraint)
             /\ t.via.resetVars \subseteq 1 .. Clocks
             /\ t.via.c # Mask
  <2>1. PICK u \in pattern.trans : Copying!IsCopy(t, u)
    BY <1>1
  <2>2. t.via = u.via
    BY <2>1 DEF Copying!IsCopy
  <2> QED
    BY <2>2 DEF Copied, Fits
<1>3. ASSUME NEW t \in next
      PROVE  [at |-> t.at, via |-> t.via.c,
              guard |-> [k \in DOMAIN t.via.guard |-> [t.via.guard[k] EXCEPT !.x = Row(@)]],
              resetVars |-> {Row(x) : x \in t.via.resetVars},
              edge |-> t.via.edge, to |-> t.to] = RecordOf(t)
  <2>1. \A x \in 1 .. Clocks : Row(x) = x
    BY DEF Copied, Fits
  <2> DEFINE g == t.via.guard
  <2>2. g \in Seq(Constraint)
    BY <1>2
  <2>3. ASSUME NEW k \in DOMAIN g PROVE [g[k] EXCEPT !.x = Row(@)] = g[k]
    <3>1. g[k] \in Constraint
      BY <2>2
    <3>2. Row(g[k].x) = g[k].x
      BY <2>1, <3>1 DEF Constraint
    <3> QED
      BY <3>1, <3>2 DEF Constraint
  <2>4. [k \in DOMAIN g |-> [g[k] EXCEPT !.x = Row(@)]] = g
    <3> HIDE DEF g
    <3>1. g = [k \in DOMAIN g |-> g[k]]
      BY <2>2
    <3> QED
      BY <2>3, <3>1
  <2>5. {Row(x) : x \in t.via.resetVars} = t.via.resetVars
    BY <1>2, <2>1
  <2> QED
    BY <2>4, <2>5 DEF RecordOf
<1>4. /\ counted.initial = initialStates
      /\ counted.match = {i \in DOMAIN states : states[i].old \in pattern.match}
      /\ counted.counter = [i \in DOMAIN states |-> states[i].count]
  BY DEF Copied, Counted, WithCounter!Result
<1>5. counted.trans =
        {[at |-> t.at, via |-> t.via.c,
          guard |-> [k \in DOMAIN t.via.guard |-> [t.via.guard[k] EXCEPT !.x = Row(@)]],
          resetVars |-> {Row(x) : x \in t.via.resetVars},
          edge |-> t.via.edge, to |-> t.to] : t \in next}
  BY DEF Copied, Counted, WithCounter!Result
<1>6. counted.trans = {RecordOf(t) : t \in next}
  <2> DEFINE made(t) ==
        [at |-> t.at, via |-> t.via.c,
         guard |-> [k \in DOMAIN t.via.guard |-> [t.via.guard[k] EXCEPT !.x = Row(@)]],
         resetVars |-> {Row(x) : x \in t.via.resetVars},
         edge |-> t.via.edge, to |-> t.to]
  <2>1. \A t \in next : made(t) = RecordOf(t)
    BY <1>3
  <2>2. counted.trans = {made(t) : t \in next}
    BY <1>5
  <2> HIDE DEF made
  <2> QED
    BY <2>1, <2>2
<1> QED
  BY <1>1, <1>2, <1>4, <1>6

LEMMA CountedTransitions ==
  ASSUME Copied
  PROVE  /\ IsFiniteSet(counted.trans)
         /\ \A t \in counted.trans : /\ t.guard \in Seq(Constraint)
                                     /\ t.resetVars \subseteq 1 .. Clocks
                                     /\ t.to \in Members
         /\ DOMAIN counted.counter = Members
         /\ IsFiniteSet(counted.initial) /\ counted.initial \subseteq Members
<1>1. IsFiniteSet(counted.trans)
  <2> DEFINE f == [t \in next |-> RecordOf(t)]
  <2>1. IsFiniteSet({f[t] : t \in next})
    BY ImageIsFinite DEF Copied
  <2>2. {f[t] : t \in next} = {RecordOf(t) : t \in next}
    OBVIOUS
  <2> QED
    BY <2>1, <2>2, CountedIs
<1>2. initialStates \subseteq Members /\ IsFiniteSet(Members)
  <2>1. states \in Seq([old : Copying!Originals, count : 0 .. BufferSize]) /\ initialStates \subseteq DOMAIN states
    BY DEF Copied, Copying!IInv, Copying!TypeOK
  <2>2. DOMAIN states = 1 .. Len(states) /\ Len(states) \in Nat
    BY <2>1
  <2> QED
    BY <2>1, <2>2, FS_Interval DEF Members
<1>3. IsFiniteSet(initialStates)
  BY <1>2, FS_Subset
<1> QED
  BY <1>1, <1>2, <1>3, CountedIs DEF RecordOf, Members

-----------------------------------------------------------------------------
(* The step of a configuration.                                            *)

Confs == Members \X Diagonal
Valuations == [1 .. Clocks -> Nat]

LEMMA ZeroIsDiagonal ==
  /\ Zero(Clocks) \in Diagonal
  /\ \A p : (\A x \in 1 .. Clocks : p[x] = 0) => In(p, Zero(Clocks))
<1>1. ASSUME NEW i \in 0 .. Clocks, NEW j \in 0 .. Clocks
      PROVE  Zero(Clocks)[<<i, j>>] = <<0, TRUE>>
  BY DEF Zero, Indices
<1>2. <<0, TRUE>> \in Bound /\ Meets(0, <<0, TRUE>>)
  <2>1. <<0, TRUE>> \in Bound
    BY BoundsOfZero
  <2> QED
    BY <2>1, ZeroMeets DEF AtMost
<1>3. Zero(Clocks) \in Matrices(Clocks)
  BY <1>2 DEF Zero, Matrices
<1>4. 1 .. Clocks \subseteq 0 .. Clocks /\ 0 \in 0 .. Clocks
  BY ClocksAssumption
<1>5. \A a \in Int : -a = 0 - a
  OBVIOUS
<1>6. ASSUME NEW a \in Int, NEW b \in Int, a =< 0, a >= 0, b =< 0, b >= 0
      PROVE  -a = 0 /\ a - b = 0
  <2>1. -a = 0 - a
    BY <1>5
  <2> QED
    BY <1>6, <2>1
<1>7. ASSUME NEW p, \A x \in 1 .. Clocks : p[x] = 0
      PROVE  In(p, Zero(Clocks))
  <2>1. \A x \in 1 .. Clocks : p[x] \in Int /\ p[x] =< 0 /\ p[x] >= 0
    BY <1>7
  <2>2. \A x, y \in 1 .. Clocks : -p[x] = 0 /\ p[x] - p[y] = 0
    BY <1>6, <2>1
  <2> QED
    BY <1>1, <1>2, <1>4, <1>7, <2>2 DEF In
<1>8. Zero(Clocks) \in Diagonal
  BY <1>1, <1>2, <1>3 DEF Diagonal
<1> QED
  BY <1>7, <1>8

(* Whatever can be taken leads to a configuration.                         *)
LEMMA NextConfType ==
  ASSUME Copied, NEW conf \in Confs, NEW t \in counted.trans,
         IsSatisfiable(Clocks, Guarded(conf[2], t.guard))
  PROVE  Determinized!NextConf(conf, t).conf \in Confs
<1> DEFINE g == Guarded(conf[2], t.guard)
           z == ResetAll(g, t.resetVars)
<1>1. conf[2] \in Matrices(Clocks)
  BY DEF Confs, Diagonal
<1>2. t.guard \in Seq(Constraint) /\ t.to \in Members
  BY CountedTransitions
<1>3. g \in Matrices(Clocks)
  BY <1>1, <1>2, GuardedIsMatrix
<1>4. z \in Diagonal
  BY <1>3, SatisfiableIsDiagonal, ResetAllIsDiagonal
<1>5. Determinized!NextConf(conf, t).conf = <<t.to, Tuple(z)>>
  BY SameZones, SameResetAll, SameGuarded DEF Determinized!NextConf
<1>6. Tuple(z) \in Diagonal
  <2>1. z \in Matrices(Clocks) /\ \A i \in 0 .. Clocks : Meets(0, z[<<i, i>>])
    BY <1>4 DEF Diagonal
  <2>2. /\ Tuple(z) \in Matrices(Clocks)
        /\ \A ij \in Indices(Clocks) :
             Tuple(z)[ij] = IF ij = <<0, 0>> THEN <<0, TRUE>> ELSE z[ij]
    BY <2>1, TupleEntries
  <2>3. ASSUME NEW i \in 0 .. Clocks PROVE Meets(0, Tuple(z)[<<i, i>>])
    <3>1. <<i, i>> \in Indices(Clocks)
      BY DEF Indices
    <3>2. Meets(0, <<0, TRUE>>)
      BY PartsAssumption DEF Meets
    <3> QED
      BY <2>1, <2>2, <3>1, <3>2
  <2> QED
    BY <2>2, <2>3 DEF Diagonal
<1> HIDE DEF z
<1> QED
  BY <1>2, <1>5, <1>6 DEF Confs

(* Whoever can take a transition is led on by it.                          *)
LEMMA NextConfServes ==
  ASSUME Copied, NEW conf \in Confs, NEW t \in counted.trans,
         NEW p \in Valuations, In(p, conf[2]), NEW d \in Nat \ {0},
         Satisfies(After(p, d), t.guard), NEW e, e = Determinized!NextConf(conf, t)
  PROVE  /\ IsSatisfiable(Clocks, Guarded(conf[2], t.guard))
         /\ Meets(-d, e.lower) /\ Meets(d, e.upper)
         /\ e.conf[1] = t.to /\ In(ResetPoint(After(p, d), t.resetVars), e.conf[2])
<1> DEFINE a == After(p, d)
           g == Guarded(conf[2], t.guard)
           z == ResetAll(g, t.resetVars)
<1>1. /\ conf[2] \in Diagonal /\ t.guard \in Seq(Constraint)
      /\ p \in [1 .. Clocks -> Int] /\ \A x \in 1 .. Clocks : p[x] \in Nat
  BY CountedTransitions DEF Confs, Valuations
<1>2. Meets(-d, Duration(conf[2], t.guard).lower) /\ Meets(d, Duration(conf[2], t.guard).upper)
  BY <1>1, DurationKeeps
<1>3. /\ e.conf = <<t.to, Tuple(z)>>
      /\ e.lower = Duration(conf[2], t.guard).lower /\ e.upper = Duration(conf[2], t.guard).upper
  BY SameZones, SameResetAll, SameGuarded, SameDuration DEF Determinized!NextConf
<1>4. g \in Around(Clocks, WithZero(a))
  BY <1>1, GuardedKeeps
<1>5. a \in [1 .. Clocks -> Int]
  BY <1>1, AfterIsPoint
<1>6. WithZero(a) \in Places(Clocks)
  BY <1>5, ClocksAssumption DEF Places, WithZero
<1>7. IsSatisfiable(Clocks, g)
  BY <1>4, <1>6, ClocksAssumption, SatisfiableWhenAround
<1>8. z \in Diagonal
  <2>1. g \in Matrices(Clocks)
    BY <1>1, GuardedIsMatrix DEF Diagonal
  <2> QED
    BY <1>7, <2>1, SatisfiableIsDiagonal, ResetAllIsDiagonal
<1> DEFINE R == t.resetVars
<1>9. In(ResetPoint(a, R), z)
  <2> HIDE DEF a, g
  <2>1. z \in Around(Clocks, ResetUpTo(WithZero(a), R, Clocks))
    BY <1>4, <1>6, ResetAllKeeps
  <2> HIDE DEF R, z
  <2>2. ResetUpTo(WithZero(a), R, Clocks) = WithZero(ResetPoint(a, R))
    <3>1. \A x \in 0 .. Clocks : x # 0 <=> 1 =< x /\ x =< Clocks
      BY ClocksAssumption
    <3>2. \A x \in 0 .. Clocks : x # 0 => x \in 1 .. Clocks
      BY ClocksAssumption
    <3> QED
      BY <3>1, <3>2 DEF ResetUpTo, WithZero, ResetPoint
  <2>3. ResetPoint(a, R) \in [1 .. Clocks -> Int]
    BY <1>5 DEF ResetPoint
  <2> QED
    BY <1>8, <2>1, <2>2, <2>3, InIsAround
<1>10. In(ResetPoint(a, R), Tuple(z))
  <2> HIDE DEF z, a, R
  <2>1. \A ij \in Indices(Clocks) : ij # <<0, 0>> => Tuple(z)[ij] = z[ij]
    BY <1>8, TupleEntries DEF Diagonal
  <2>2. \A x \in 1 .. Clocks : /\ <<x, 0>> \in Indices(Clocks) /\ <<0, x>> \in Indices(Clocks)
                               /\ <<x, 0>> # <<0, 0>> /\ <<0, x>> # <<0, 0>>
    BY ClocksAssumption DEF Indices
  <2>3. \A x, y \in 1 .. Clocks : <<x, y>> \in Indices(Clocks) /\ <<x, y>> # <<0, 0>>
    BY ClocksAssumption DEF Indices
  <2> QED
    BY <1>9, <2>1, <2>2, <2>3 DEF In
<1> HIDE DEF z, a, g, R
<1> QED
  BY <1>2, <1>3, <1>7, <1>10 DEF a, R, g

-----------------------------------------------------------------------------
(* Durations are multiples of 1 / Parts here and halves in LinearizeNexts. *)

Half(d) == IF d % Parts = 0 THEN 2 * (d \div Parts) ELSE 2 * (d \div Parts) + 1

LEMMA HalfCompares ==
  ASSUME NEW d \in Nat \ {0}
  PROVE  /\ Half(d) \in Nat \ {0}
         /\ \A n \in Int : /\ Parts * n < d <=> 2 * n < Half(d)
                           /\ Parts * n = d <=> 2 * n = Half(d)
<1> DEFINE q == d \div Parts  r == d % Parts
<1>1. q \in Nat /\ r \in 0 .. Parts - 1 /\ d = Parts * q + r /\ Parts \in Nat \ {0}
  BY PartsAssumption
<1>2. Half(d) = IF r = 0 THEN 2 * q ELSE 2 * q + 1
  BY DEF Half
<1> HIDE DEF q, r
<1>3. q # 0 \/ r # 0
  <2>1. q = 0 => Parts * q = 0
    BY <1>1
  <2> QED
    BY <1>1, <2>1
<1>4. Half(d) \in Nat \ {0}
  BY <1>1, <1>2, <1>3
<1>5. ASSUME NEW n \in Int
      PROVE  /\ Parts * n < d <=> 2 * n < Half(d)
             /\ Parts * n = d <=> 2 * n = Half(d)
  <2> DEFINE A == Parts * n  B == Parts * q
  <2>1. A \in Int /\ B \in Int
    BY <1>1
  <2>2. CASE n = q
    <3>1. A = B
      BY <2>2
    <3> HIDE DEF A, B
    <3>2. d = B + r
      BY <1>1 DEF B
    <3>3. A < d <=> 2 * n < Half(d)
      BY <1>1, <1>2, <2>1, <2>2, <3>1, <3>2
    <3>4. A = d <=> 2 * n = Half(d)
      BY <1>1, <1>2, <2>1, <2>2, <3>1, <3>2
    <3> QED
      BY <3>3, <3>4 DEF A
  <2>3. CASE n < q
    <3>1. A + Parts =< B
      <4>1. Parts * (q - n) >= Parts
        BY <1>1, <2>3
      <4>2. Parts * (q - n) = Parts * q - Parts * n
        BY <1>1
      <4> HIDE DEF A, B
      <4>3. B - A >= Parts
        BY <4>1, <4>2 DEF A, B
      <4> QED
        BY <1>1, <2>1, <4>3
    <3> HIDE DEF A, B
    <3>2. d = B + r
      BY <1>1 DEF B
    <3>3. A < d
      BY <1>1, <2>1, <3>1, <3>2
    <3>4. 2 * n < Half(d)
      BY <1>1, <1>2, <2>3
    <3> QED
      BY <1>4, <2>1, <3>3, <3>4 DEF A
  <2>4. CASE n > q
    <3>1. B + Parts =< A
      <4>1. Parts * (n - q) >= Parts
        BY <1>1, <2>4
      <4>2. Parts * (n - q) = Parts * n - Parts * q
        BY <1>1
      <4> HIDE DEF A, B
      <4>3. A - B >= Parts
        BY <4>1, <4>2 DEF A, B
      <4> QED
        BY <1>1, <2>1, <4>3
    <3> HIDE DEF A, B
    <3>2. d = B + r
      BY <1>1 DEF B
    <3>3. A > d
      BY <1>1, <2>1, <3>1, <3>2
    <3>4. 2 * n > Half(d)
      BY <1>1, <1>2, <2>4
    <3> QED
      BY <1>4, <2>1, <3>3, <3>4 DEF A
  <2> QED
    BY <1>1, <2>2, <2>3, <2>4
<1> QED
  BY <1>4, <1>5

LEMMA BelowAtHalf ==
  ASSUME NEW bound \in Sweeping!UpperBounds, NEW d \in Nat \ {0}
  PROVE  Determinized!Below(bound, d) <=> Sweeping!Below(bound, Half(d))
<1>1. bound[1] \in Int
  <2>1. Infinity \in Nat
    BY InfinityAssumption
  <2>2. CASE bound = Sweeping!Unbounded
    BY <2>1, <2>2 DEF Sweeping!Unbounded
  <2>3. CASE bound \in (0 .. Infinity - 1) \X BOOLEAN
    BY <2>1, <2>3
  <2> QED
    BY <2>2, <2>3 DEF Sweeping!UpperBounds
<1> QED
  BY <1>1, HalfCompares DEF Determinized!Below, Sweeping!Below

(* A duration that the zones allow is one of the interval.                 *)
LEMMA WithinAtHalf ==
  ASSUME NEW e, Sweeping!IsElement(e), NEW d \in Nat \ {0},
         Meets(-d, e.lower), Meets(d, e.upper)
  PROVE  Sweeping!Within(e, Half(d))
<1>1. /\ e.lower[1] \in 1 - Infinity .. 0 /\ e.lower[2] \in BOOLEAN
      /\ Infinity \in Nat \ {0} /\ e.upper \in Sweeping!UpperBounds
  BY InfinityAssumption DEF Sweeping!IsElement, Sweeping!UpperBounds
<1> DEFINE n == -e.lower[1]
<1>2. n \in Int /\ e.lower[1] # Infinity /\ -2 * e.lower[1] = 2 * n /\ e.lower[1] = -n
  BY <1>1
<1>3. Parts * e.lower[1] = -(Parts * n) /\ Parts * n \in Int
  BY <1>2, PartsAssumption
<1>4. Parts * n < d \/ (Parts * n = d /\ e.lower[2])
  <2> DEFINE A == Parts * n
  <2>1. -d < -A \/ (-d = -A /\ e.lower[2])
    BY <1>2, <1>3 DEF Meets
  <2> HIDE DEF A
  <2>2. A \in Int
    BY <1>3 DEF A
  <2> QED
    BY <2>1, <2>2 DEF A
<1> HIDE DEF n
<1>5. 2 * n < Half(d) \/ (2 * n = Half(d) /\ e.lower[2])
  BY <1>2, <1>4, HalfCompares
<1>6. ~Determinized!Below(e.upper, d)
  <2>1. e.upper[1] \in Int
    <3>1. CASE e.upper = Sweeping!Unbounded
      BY <1>1, <3>1 DEF Sweeping!Unbounded
    <3>2. CASE e.upper \in (0 .. Infinity - 1) \X BOOLEAN
      BY <1>1, <3>2
    <3> QED
      BY <1>1, <3>1, <3>2 DEF Sweeping!UpperBounds
  <2> DEFINE A == Parts * e.upper[1]
  <2>2. A \in Int
    BY <2>1, PartsAssumption
  <2>3. e.upper[1] = Infinity \/ d < A \/ (d = A /\ e.upper[2])
    BY DEF Meets
  <2>4. Determinized!Below(e.upper, d) <=>
          e.upper[1] # Infinity /\ (A < d \/ (A = d /\ ~e.upper[2]))
    BY DEF Determinized!Below
  <2> HIDE DEF A
  <2> QED
    BY <2>2, <2>3, <2>4
<1> QED
  BY <1>1, <1>2, <1>5, <1>6, BelowAtHalf DEF Sweeping!Within

-----------------------------------------------------------------------------
(* The vectors.                                                            *)

(* What a state of the machine stands for.                                 *)
IsStateOf(b) ==
  /\ b = [c \in DOMAIN b |-> b[c]]
  /\ IsFiniteSet(DOMAIN b) /\ DOMAIN b \subseteq Confs
  /\ \A c \in DOMAIN b : b[c] \in Nat \ {0}
  /\ Determinized!InitConfs \subseteq DOMAIN b

LEMMA InitConfsAreConfs ==
  ASSUME Copied
  PROVE  /\ Determinized!InitConfs \subseteq Confs /\ IsFiniteSet(Determinized!InitConfs)
         /\ Determinized!InitConfs = {<<i, Zero(Clocks)>> : i \in initialStates}
<1>1. Determinized!InitConfs = {<<i, Zero(Clocks)>> : i \in counted.initial}
  BY SameZones DEF Determinized!InitConfs
<1> DEFINE f == [i \in counted.initial |-> <<i, Zero(Clocks)>>]
<1>2. IsFiniteSet({f[i] : i \in counted.initial})
  BY ImageIsFinite, CountedTransitions
<1>3. {f[i] : i \in counted.initial} = Determinized!InitConfs
  BY <1>1
<1> HIDE DEF f
<1>4. counted.initial = initialStates /\ counted.initial \subseteq Members
  BY CountedTransitions, CountedIs
<1>5. \A i \in Members : <<i, Zero(Clocks)>> \in Confs
  BY ZeroIsDiagonal DEF Confs
<1> QED
  BY <1>1, <1>2, <1>3, <1>4, <1>5

LEMMA OneOfEach ==
  ASSUME NEW S, IsFiniteSet(S), S \subseteq Confs, Determinized!InitConfs \subseteq S
  PROVE  IsStateOf(Determinized!Linear!SetToBag(S)) /\ DOMAIN Determinized!Linear!SetToBag(S) = S
BY SameFinite DEF IsStateOf

(* constructNexts lists the successors of every configuration by every     *)
(* transition that can be taken.                                           *)
LEMMA VectorLists ==
  ASSUME Copied, NEW b, IsStateOf(b), NEW vecs, vecs = Determinized!ConstructNexts(b)
  PROVE  /\ DOMAIN vecs \subseteq Determinized!Characters
         /\ \A c \in DOMAIN vecs : \E n \in Nat :
              /\ vecs[c] = [i \in 1 .. n |-> vecs[c][i]]
              /\ \A i \in 1 .. n : vecs[c][i].conf \in Confs
         /\ \A conf \in DOMAIN b : \A t \in counted.trans :
              t.at = conf[1] /\ IsSatisfiable(Clocks, Guarded(conf[2], t.guard)) =>
                /\ t.via \in DOMAIN vecs
                /\ \E i \in DOMAIN vecs[t.via] :
                     vecs[t.via][i] = Determinized!NextConf(conf, t)
<1> DEFINE leaving == {p \in (DOMAIN b) \X counted.trans : p[2].at = p[1][1]}
           can(p) == IsSatisfiable(Clocks, Guarded(p[1][2], p[2].guard))
           met(c) == {p \in leaving : p[2].via = c /\ can(p)}
           copiesOf(p) == {p} \X (1 .. b[p[1]])
           all(c) == UNION {copiesOf(p) : p \in met(c)}
           made(x) == Determinized!NextConf(x[1][1], x[1][2])
           l(c) == Determinized!Listed(all(c))
<1>1. /\ DOMAIN vecs = {p[2].via : p \in leaving}
      /\ \A c \in DOMAIN vecs : vecs[c] = [i \in DOMAIN l(c) |-> made(l(c)[i])]
  BY SameSatisfiable, SameGuarded DEF Determinized!ConstructNexts
<1>2. /\ IsFiniteSet(DOMAIN b) /\ DOMAIN b \subseteq Confs
      /\ \A c \in DOMAIN b : b[c] \in Nat \ {0}
      /\ IsFiniteSet(counted.trans)
  BY CountedTransitions DEF IsStateOf
<1>3. ASSUME NEW p \in leaving
      PROVE  p = <<p[1], p[2]>> /\ p[1] \in DOMAIN b /\ p[2] \in counted.trans /\ p[2].at = p[1][1]
  OBVIOUS
<1>4. ASSUME NEW c PROVE IsFiniteSet(all(c))
  <2>1. IsFiniteSet(leaving)
    <3>1. IsFiniteSet((DOMAIN b) \X counted.trans)
      BY <1>2, FS_Product
    <3> QED
      BY <3>1, FS_Subset
  <2>2. IsFiniteSet(met(c))
    <3> HIDE DEF leaving, can
    <3>1. met(c) \subseteq leaving
      OBVIOUS
    <3> QED
      BY <2>1, <3>1, FS_Subset
  <2>3. ASSUME NEW p \in met(c) PROVE IsFiniteSet(copiesOf(p))
    <3>1. p[1] \in DOMAIN b
      BY <1>3
    <3>2. b[p[1]] \in Nat
      BY <1>2, <3>1
    <3> DEFINE N == 1 .. b[p[1]]
    <3>3. \A m \in Nat : IsFiniteSet(1 .. m)
      BY FS_Interval
    <3>4. IsFiniteSet({p})
      BY FS_Singleton
    <3>5. IsFiniteSet(N)
      BY <3>2, <3>3
    <3> HIDE DEF N
    <3>6. IsFiniteSet({p} \X N)
      BY <3>4, <3>5, FS_Product
    <3> QED
      BY <3>6 DEF N
  <2> DEFINE f == [p \in met(c) |-> copiesOf(p)]
  <2> HIDE DEF met, copiesOf
  <2>4. IsFiniteSet({f[p] : p \in met(c)})
    BY <2>2, ImageIsFinite
  <2>5. {f[p] : p \in met(c)} = {copiesOf(p) : p \in met(c)}
    OBVIOUS
  <2>6. \A T \in {copiesOf(p) : p \in met(c)} : IsFiniteSet(T)
    BY <2>3
  <2> QED
    BY <2>4, <2>5, <2>6, FS_UNION
<1>5. ASSUME NEW c, NEW x \in all(c)
      PROVE  /\ x[1] \in leaving /\ x[1][2].via = c /\ can(x[1])
             /\ x[1][1] \in DOMAIN b /\ x[1][2] \in counted.trans
  <2>1. PICK p \in met(c) : x \in copiesOf(p)
    OBVIOUS
  <2>2. x[1] = p
    BY <2>1
  <2>3. p \in leaving /\ p[2].via = c /\ can(p)
    <3> HIDE DEF leaving, can
    <3> QED
      OBVIOUS
  <2> QED
    BY <1>3, <2>2, <2>3
<1>6. ASSUME NEW p \in leaving, can(p) PROVE <<p, 1>> \in all(p[2].via)
  <2>1. p \in met(p[2].via)
    <3> HIDE DEF leaving, can
    <3> QED
      BY <1>6
  <2>2. b[p[1]] \in Nat \ {0}
    BY <1>2, <1>3
  <2>3. 1 \in 1 .. b[p[1]]
    BY <2>2
  <2> HIDE DEF met
  <2> QED
    BY <2>1, <2>3
<1> HIDE DEF can, all
<1>7. ASSUME NEW c
      PROVE  \E n \in Nat : /\ l(c) = [i \in 1 .. n |-> l(c)[i]]
                            /\ \A i \in 1 .. n : l(c)[i] \in all(c)
                            /\ \A x \in all(c) : \E i \in 1 .. n : l(c)[i] = x
  BY <1>4, ListedLists
<1> HIDE DEF l
<1>8. ASSUME NEW c, NEW x \in all(c) PROVE made(x).conf \in Confs
  <2>1. /\ can(x[1]) /\ x[1][1] \in Confs /\ x[1][2] \in counted.trans
    BY <1>2, <1>5
  <2> QED
    BY <2>1, NextConfType DEF can
<1> HIDE DEF made, leaving
<1>9. ASSUME NEW c \in DOMAIN vecs
      PROVE  \E n \in Nat : /\ vecs[c] = [i \in 1 .. n |-> vecs[c][i]]
                            /\ \A i \in 1 .. n : vecs[c][i].conf \in Confs
                            /\ \A x \in all(c) : \E i \in 1 .. n : vecs[c][i] = made(x)
  <2>1. PICK n \in Nat : /\ l(c) = [i \in 1 .. n |-> l(c)[i]]
                         /\ \A i \in 1 .. n : l(c)[i] \in all(c)
                         /\ \A x \in all(c) : \E i \in 1 .. n : l(c)[i] = x
    BY <1>7
  <2>2. DOMAIN l(c) = 1 .. n
    BY <2>1
  <2>3. vecs[c] = [i \in 1 .. n |-> made(l(c)[i])]
    BY <1>1, <2>2
  <2>4. \A i \in 1 .. n : made(l(c)[i]).conf \in Confs
    BY <1>8, <2>1
  <2>5. \A x \in all(c) : \E i \in 1 .. n : vecs[c][i] = made(x)
    BY <2>1, <2>3
  <2>6. vecs[c] = [i \in 1 .. n |-> vecs[c][i]] /\ \A i \in 1 .. n : vecs[c][i].conf \in Confs
    BY <2>3, <2>4
  <2> QED
    BY <2>5, <2>6
<1>10. ASSUME NEW conf \in DOMAIN b, NEW t \in counted.trans, t.at = conf[1],
              IsSatisfiable(Clocks, Guarded(conf[2], t.guard))
       PROVE  /\ t.via \in DOMAIN vecs
              /\ \E i \in DOMAIN vecs[t.via] : vecs[t.via][i] = Determinized!NextConf(conf, t)
  <2> DEFINE p == <<conf, t>>
  <2>1. p \in leaving /\ p[1] = conf /\ p[2] = t
    BY <1>10 DEF leaving
  <2>2. can(p)
    BY <1>10, <2>1 DEF can
  <2>3. <<p, 1>> \in all(t.via)
    BY <1>6, <2>1, <2>2
  <2>4. t.via \in DOMAIN vecs
    BY <1>1, <2>1
  <2>5. made(<<p, 1>>) = Determinized!NextConf(conf, t)
    BY DEF made
  <2> HIDE DEF p
  <2>6. PICK n \in Nat : /\ vecs[t.via] = [i \in 1 .. n |-> vecs[t.via][i]]
                         /\ \A x \in all(t.via) : \E i \in 1 .. n : vecs[t.via][i] = made(x)
    BY <1>9, <2>4
  <2>7. DOMAIN vecs[t.via] = 1 .. n
    BY <2>6
  <2> QED
    BY <2>3, <2>4, <2>5, <2>6, <2>7
<1>11. DOMAIN vecs \subseteq Determinized!Characters
  BY <1>1, <1>3 DEF Determinized!Characters
<1> QED
  BY <1>9, <1>10, <1>11, SMTT(30)

UpperBounds == Sweeping!UpperBounds

(* The states that the machine may have.                                   *)
StateOf ==
  {b \in UNION {[S -> Nat \ {0}] : S \in SUBSET Confs} : IsStateOf(b)}

LEMMA StateOfIs == ASSUME NEW b PROVE b \in StateOf <=> IsStateOf(b)
<1>1. ASSUME IsStateOf(b) PROVE b \in UNION {[S -> Nat \ {0}] : S \in SUBSET Confs}
  <2>1. b \in [DOMAIN b -> Nat \ {0}] /\ DOMAIN b \in SUBSET Confs
    BY <1>1 DEF IsStateOf
  <2> QED
    BY <2>1
<1> QED
  BY <1>1 DEF StateOf

(* The counter of a state of the machine is that of the member that shows  *)
(* the most.                                                               *)
LEMMA CounterShows ==
  ASSUME Copied, NEW b \in StateOf, NEW n, n = Determinized!CounterOf(b)
  PROVE  /\ n \in 0 .. BufferSize
         /\ \A c \in DOMAIN b :
              c[1] \in counted.match \/ counted.counter[c[1]] = BufferSize
                => n >= counted.counter[c[1]]
<1> DEFINE all == {c[1] : c \in DOMAIN b}
           shown == {counted.counter[s] : s \in all \intersect counted.match}
<1>1. all \subseteq Members
  <2>1. \A c \in DOMAIN b : c \in Confs
    BY StateOfIs DEF IsStateOf
  <2>2. \A c \in Confs : c[1] \in Members
    BY DEF Confs
  <2> QED
    BY <2>1, <2>2
<1>2. \A s \in Members : counted.counter[s] \in 0 .. BufferSize
  <2>1. states \in Seq([old : Copying!Originals, count : 0 .. BufferSize])
    BY DEF Copied, Copying!IInv, Copying!TypeOK
  <2> DEFINE R == [old : Copying!Originals, count : 0 .. BufferSize]
  <2>2. \A s \in DOMAIN states : states[s] \in R
    <3>1. states \in Seq(R)
      BY <2>1
    <3> HIDE DEF R
    <3> QED
      BY <3>1
  <2>3. \A s \in DOMAIN states : states[s].count \in 0 .. BufferSize
    BY <2>2
  <2> QED
    BY <2>3, CountedIs DEF Members
<1>3. n = IF \E s \in all : counted.counter[s] = BufferSize
            THEN BufferSize
            ELSE CHOOSE m \in shown \union {0} : \A k \in shown : k =< m
  BY DEF Determinized!CounterOf
<1>4. \A c \in DOMAIN b : c[1] \in all
  OBVIOUS
<1>5. shown \subseteq 0 .. BufferSize
  BY <1>1, <1>2
<1>6. \A s \in all : s \in counted.match => counted.counter[s] \in shown
  OBVIOUS
<1> HIDE DEF all, shown
<1>7. CASE \E s \in all : counted.counter[s] = BufferSize
  <2>1. n = BufferSize
    BY <1>3, <1>7
  <2> QED
    BY <1>1, <1>2, <1>4, <2>1, BufferAssumption
<1>8. CASE ~ \E s \in all : counted.counter[s] = BufferSize
  <2>1. n = CHOOSE m \in shown \union {0} : \A k \in shown : k =< m
    BY <1>3, <1>8
  <2>2. \E m \in shown \union {0} : \A k \in shown : k =< m
    <3>1. CASE shown = {}
      BY <3>1
    <3>2. CASE shown # {}
      BY <1>5, <3>2, BufferAssumption, GreatestExists
    <3> QED
      BY <3>1, <3>2
  <2>3. n \in shown \union {0} /\ \A k \in shown : k =< n
    BY <2>1, <2>2
  <2>4. n \in 0 .. BufferSize
    BY <1>5, <2>3, BufferAssumption
  <2>5. ASSUME NEW c \in DOMAIN b,
               c[1] \in counted.match \/ counted.counter[c[1]] = BufferSize
        PROVE  n >= counted.counter[c[1]]
    <3>1. c[1] \in all /\ c[1] \in counted.match
      BY <1>4, <1>8, <2>5
    <3>2. counted.counter[c[1]] \in shown
      BY <1>6, <3>1
    <3>3. counted.counter[c[1]] =< n
      BY <2>3, <3>2
    <3>4. counted.counter[c[1]] \in 0 .. BufferSize
      BY <1>5, <3>2
    <3> QED
      BY <2>4, <3>3, <3>4, BufferAssumption
  <2> QED
    BY <2>4, <2>5
<1> QED
  BY <1>7, <1>8

(* What was copied stays as it is while the machine is made.               *)
LEMMA CopiedStays ==
  ASSUME Copied, UNCHANGED <<pattern, counterVars>>
  PROVE  /\ Copied'
         /\ Members' = Members /\ StateOf' = StateOf
         /\ Determinized!InitConfs' = Determinized!InitConfs
         /\ Determinized!Characters' = Determinized!Characters
<1>1. UNCHANGED Copying!vars /\ counted' = counted
  BY DEF Copying!vars, counterVars
<1>2. Copying!IInv'
  BY <1>1, BufferAssumption, Copying!StepIInv DEF Copied
<1>3. Copying!Done'
  BY <1>1 DEF Copying!vars, Copying!Done, Copying!InitialCopied, Copied
<1>4. Counted' = Counted
  BY <1>1 DEF Copying!vars, Counted, WithCounter!Result
<1>5. Copied'
  BY <1>1, <1>2, <1>3, <1>4 DEF Copied, Fits, Copying!vars, ClockSize
<1>6. Members' = Members /\ Determinized!InitConfs' = Determinized!InitConfs
  BY <1>1 DEF Members, Copying!vars, Determinized!InitConfs
<1>7. StateOf' = StateOf
  BY <1>6 DEF StateOf, IsStateOf, Confs
<1>8. Determinized!Characters' = Determinized!Characters
  BY <1>1 DEF Determinized!Characters
<1> QED
  BY <1>5, <1>6, <1>7, <1>8

-----------------------------------------------------------------------------
(* The rows of the map.                                                    *)

Entry == [bound : UpperBounds, target : Nat]

(* The pieces P[1] .. P[L] have every duration, and each of them has the   *)
(* configurations that vec leads to by its durations.                      *)
Serves(P, L, vec) ==
  /\ L \in Nat \ {0}
  /\ P[L].bound[1] = Infinity
  /\ \A k \in 1 .. L : P[k].bound \in UpperBounds
  /\ \A i \in DOMAIN vec : Sweeping!IsElement(vec[i])
  /\ \A k \in 1 .. L, half \in Nat \ {0} :
       /\ k = 1 \/ Sweeping!Below(P[k - 1].bound, half)
       /\ ~Sweeping!Below(P[k].bound, half)
       => \A i \in DOMAIN vec :
            Sweeping!Within(vec[i], half) => vec[i].conf \in DOMAIN P[k].states

(* The first k pieces have become transitions, to states subs.             *)
Entered(row, P, k, subs) ==
  /\ row \in Seq(Entry) /\ Len(row) = k
  /\ \A i \in 1 .. k : /\ row[i].bound = P[i].bound /\ row[i].target \in DOMAIN subs
                       /\ DOMAIN P[i].states \subseteq DOMAIN subs[row[i].target]

(* The others are those of the queue that are for c.                       *)
Queued(queue, c, P, o, k, L) ==
  /\ \A j \in 1 .. Len(queue) : queue[j].via = c <=> o + k < j /\ j =< o + L
  /\ \A i \in k + 1 .. L : /\ o + i \in 1 .. Len(queue)
                           /\ queue[o + i].states = P[i].states
                           /\ queue[o + i].bound = P[i].bound

Handled(vec, row, queue, subs, c) ==
  \E P, L, o, k :
    /\ L \in Nat \ {0} /\ o \in Int /\ k \in Nat /\ k =< L
    /\ Serves(P, L, vec) /\ Entered(row, P, k, subs) /\ Queued(queue, c, P, o, k, L)

(* More states.                                                            *)
LEMMA HandledGrows ==
  ASSUME NEW vec, NEW row, NEW queue, NEW subs, NEW c, Handled(vec, row, queue, subs, c),
         NEW more, \A i \in DOMAIN subs : i \in DOMAIN more /\ more[i] = subs[i]
  PROVE  Handled(vec, row, queue, more, c)
<1>1. PICK P, L, o, k :
        /\ L \in Nat \ {0} /\ o \in Int /\ k \in Nat /\ k =< L
        /\ Serves(P, L, vec) /\ Entered(row, P, k, subs) /\ Queued(queue, c, P, o, k, L)
  BY DEF Handled
<1> L \in Nat \ {0} /\ o \in Int /\ k \in Nat /\ k =< L
  BY <1>1
<1>2. Entered(row, P, k, more)
  BY <1>1 DEF Entered
<1> QED
  BY <1>1, <1>2 DEF Handled

LEMMA QueueTail ==
  ASSUME NEW X, NEW queue \in Seq(X), queue # <<>>
  PROVE  /\ Len(queue) \in Nat \ {0} /\ Head(queue) = queue[1] /\ Head(queue) \in X
         /\ Tail(queue) \in Seq(X) /\ Len(Tail(queue)) = Len(queue) - 1
         /\ \A j \in 1 .. Len(queue) - 1 : Tail(queue)[j] = queue[j + 1]
OBVIOUS

(* The front of the queue is for another character.                        *)
LEMMA HandledWaits ==
  ASSUME NEW vec, NEW row, NEW X, NEW queue \in Seq(X), NEW subs, NEW c,
         Handled(vec, row, queue, subs, c), queue # <<>>, Head(queue).via # c
  PROVE  Handled(vec, row, Tail(queue), subs, c)
<1>1. PICK P, L, o, k :
        /\ L \in Nat \ {0} /\ o \in Int /\ k \in Nat /\ k =< L
        /\ Serves(P, L, vec) /\ Entered(row, P, k, subs) /\ Queued(queue, c, P, o, k, L)
  BY DEF Handled
<1> L \in Nat \ {0} /\ o \in Int /\ k \in Nat /\ k =< L
  BY <1>1
<1> DEFINE n == Len(queue)  rest == Tail(queue)
<1>2. /\ n \in Nat \ {0} /\ Head(queue) = queue[1] /\ Len(rest) = n - 1
      /\ \A j \in 1 .. n - 1 : rest[j] = queue[j + 1]
  BY QueueTail
<1> HIDE DEF n, rest
<1>3. /\ \A j \in 1 .. n : queue[j].via = c <=> o + k < j /\ j =< o + L
      /\ \A i \in k + 1 .. L : /\ o + i \in 1 .. n
                               /\ queue[o + i].states = P[i].states
                               /\ queue[o + i].bound = P[i].bound
  BY <1>1 DEF Queued, n
<1>4. queue[1].via # c /\ 1 \in 1 .. n
  BY <1>2
<1>5. \A i \in k + 1 .. L : o + i # 1
  BY <1>3, <1>4
<1>6. ASSUME NEW j \in 1 .. n - 1
      PROVE  rest[j].via = c <=> (o - 1) + k < j /\ j =< (o - 1) + L
  <2>1. j + 1 \in 1 .. n /\ rest[j] = queue[j + 1]
    BY <1>2
  <2>2. queue[j + 1].via = c <=> o + k < j + 1 /\ j + 1 =< o + L
    BY <1>3, <2>1
  <2> QED
    BY <2>1, <2>2
<1>7. ASSUME NEW i \in k + 1 .. L
      PROVE  /\ (o - 1) + i \in 1 .. n - 1
             /\ rest[(o - 1) + i].states = P[i].states
             /\ rest[(o - 1) + i].bound = P[i].bound
  <2>1. o + i \in 1 .. n /\ o + i # 1
    BY <1>3, <1>5
  <2>2. (o - 1) + i \in 1 .. n - 1 /\ ((o - 1) + i) + 1 = o + i
    BY <1>2, <2>1
  <2>3. rest[(o - 1) + i] = queue[o + i]
    BY <1>2, <2>2
  <2> QED
    BY <1>3, <2>2, <2>3
<1>8. Queued(rest, c, P, o - 1, k, L)
  BY <1>2, <1>6, <1>7 DEF Queued
<1>9. o - 1 \in Int
  OBVIOUS
<1> QED
  BY <1>1, <1>8, <1>9 DEF Handled, rest

(* The front of the queue becomes a transition.                            *)
LEMMA HandledEnters ==
  ASSUME NEW vec, NEW row, NEW X, NEW queue \in Seq(X), NEW subs, NEW c,
         Handled(vec, row, queue, subs, c), queue # <<>>, Head(queue).via = c,
         NEW target \in Nat, target \in DOMAIN subs,
         DOMAIN Head(queue).states \subseteq DOMAIN subs[target],
         NEW e, e = [bound |-> Head(queue).bound, target |-> target]
  PROVE  Handled(vec, Append(row, e), Tail(queue), subs, c)
<1>1. PICK P, L, o, k :
        /\ L \in Nat \ {0} /\ o \in Int /\ k \in Nat /\ k =< L
        /\ Serves(P, L, vec) /\ Entered(row, P, k, subs) /\ Queued(queue, c, P, o, k, L)
  BY DEF Handled
<1> L \in Nat \ {0} /\ o \in Int /\ k \in Nat /\ k =< L
  BY <1>1
<1> DEFINE n == Len(queue)  rest == Tail(queue)  head == Head(queue)
<1>2. /\ n \in Nat \ {0} /\ head = queue[1] /\ Len(rest) = n - 1
      /\ \A j \in 1 .. n - 1 : rest[j] = queue[j + 1]
  BY QueueTail
<1>20. head.via = c /\ DOMAIN head.states \subseteq DOMAIN subs[target]
       /\ e = [bound |-> head.bound, target |-> target]
  OBVIOUS
<1> HIDE DEF n, rest, head
<1>3. /\ \A j \in 1 .. n : queue[j].via = c <=> o + k < j /\ j =< o + L
      /\ \A i \in k + 1 .. L : /\ o + i \in 1 .. n
                               /\ queue[o + i].states = P[i].states
                               /\ queue[o + i].bound = P[i].bound
  BY <1>1 DEF Queued, n
<1>4. 1 \in 1 .. n /\ queue[1].via = c
  BY <1>2, <1>20
<1>5. o + k < 1 /\ 1 =< o + L
  BY <1>3, <1>4
<1>6. k + 1 \in k + 1 .. L /\ o + (k + 1) = (o + k) + 1
  BY <1>5
<1>7. o + (k + 1) = 1 /\ k + 1 \in Nat /\ k + 1 =< L
  <2>1. o + (k + 1) \in 1 .. n
    BY <1>3, <1>6
  <2> QED
    BY <1>5, <1>6, <2>1
<1>8. head.states = P[k + 1].states /\ head.bound = P[k + 1].bound
  <2>1. queue[o + (k + 1)].states = P[k + 1].states /\ queue[o + (k + 1)].bound = P[k + 1].bound
    BY <1>3, <1>6
  <2> QED
    BY <1>2, <1>7, <2>1
<1>9. ASSUME NEW j \in 1 .. n - 1
      PROVE  rest[j].via = c <=> (o - 1) + (k + 1) < j /\ j =< (o - 1) + L
  <2>1. j + 1 \in 1 .. n /\ rest[j] = queue[j + 1]
    BY <1>2
  <2>2. queue[j + 1].via = c <=> o + k < j + 1 /\ j + 1 =< o + L
    BY <1>3, <2>1
  <2>3. j >= 1 /\ (o - 1) + (k + 1) = o + k /\ ((o - 1) + L) + 1 = o + L
    OBVIOUS
  <2>4. o + k = 0
    BY <1>7
  <2> QED
    BY <2>1, <2>2, <2>3, <2>4
<1>10. ASSUME NEW i \in (k + 1) + 1 .. L
       PROVE  /\ (o - 1) + i \in 1 .. n - 1
              /\ rest[(o - 1) + i].states = P[i].states
              /\ rest[(o - 1) + i].bound = P[i].bound
  <2>1. i \in k + 1 .. L
    OBVIOUS
  <2>2. o + i \in 1 .. n /\ o + i > 1
    <3>1. o + i \in 1 .. n
      BY <1>3, <2>1
    <3>2. i > k + 1 /\ o + i > o + (k + 1)
      OBVIOUS
    <3> QED
      BY <1>7, <3>1, <3>2
  <2>3. (o - 1) + i \in 1 .. n - 1 /\ ((o - 1) + i) + 1 = o + i
    BY <1>2, <2>2
  <2>4. rest[(o - 1) + i] = queue[o + i]
    BY <1>2, <2>3
  <2> QED
    BY <1>3, <2>1, <2>3, <2>4
<1>11. Queued(rest, c, P, o - 1, k + 1, L)
  BY <1>2, <1>9, <1>10 DEF Queued
<1>12. Entered(Append(row, e), P, k + 1, subs)
  <2> DEFINE E == Entry
  <2>1. row \in Seq(E) /\ Len(row) = k
    BY <1>1 DEF Entered
  <2>2. e \in E
    <3>1. head.bound \in UpperBounds
      <4>1. k + 1 \in 1 .. L
        BY <1>7
      <4> QED
        BY <1>1, <1>8, <4>1 DEF Serves
    <3> QED
      BY <1>20, <3>1 DEF Entry
  <2> HIDE DEF E
  <2>3. /\ Append(row, e) \in Seq(E) /\ Len(Append(row, e)) = k + 1
        /\ Append(row, e)[k + 1] = e
        /\ \A i \in 1 .. k : Append(row, e)[i] = row[i]
    BY <2>1, <2>2
  <2> USE DEF E
  <2>4. \A i \in 1 .. k + 1 : i = k + 1 \/ i \in 1 .. k
    OBVIOUS
  <2>5. e.bound = P[k + 1].bound /\ e.target = target /\ DOMAIN P[k + 1].states \subseteq DOMAIN subs[target]
    BY <1>8, <1>20
  <2>6. \A i \in 1 .. k : /\ row[i].bound = P[i].bound /\ row[i].target \in DOMAIN subs
                          /\ DOMAIN P[i].states \subseteq DOMAIN subs[row[i].target]
    BY <1>1 DEF Entered
  <2> DEFINE longer == Append(row, e)
  <2> HIDE DEF longer
  <2>7. /\ longer \in Seq(Entry) /\ Len(longer) = k + 1 /\ longer[k + 1] = e
        /\ \A i \in 1 .. k : longer[i] = row[i]
    BY <2>3 DEF longer
  <2>8. Entered(longer, P, k + 1, subs)
    BY <2>4, <2>5, <2>6, <2>7 DEF Entered
  <2> QED
    BY <2>8 DEF longer
<1>13. o - 1 \in Int
  OBVIOUS
<1> QED
  BY <1>1, <1>7, <1>11, <1>12, <1>13 DEF Handled, rest

LEMMA QueueJoins ==
  ASSUME NEW X, NEW queue \in Seq(X), NEW L \in Nat, NEW block \in [1 .. L -> X]
  PROVE  /\ queue \o block \in Seq(X) /\ Len(queue) \in Nat
         /\ Len(queue \o block) = Len(queue) + L
         /\ \A j \in 1 .. Len(queue) : (queue \o block)[j] = queue[j]
         /\ \A i \in 1 .. L : (queue \o block)[Len(queue) + i] = block[i]
<1>1. block \in Seq(X) /\ Len(block) = L
  OBVIOUS
<1> QED
  BY <1>1

(* The pieces for c are queued.                                            *)
LEMMA HandledQueues ==
  ASSUME NEW vec, NEW X, NEW queue \in Seq(X), NEW subs, NEW c,
         NEW P, NEW L \in Nat \ {0}, Serves(P, L, vec),
         \A j \in 1 .. Len(queue) : queue[j].via # c,
         NEW block \in [1 .. L -> X],
         \A i \in 1 .. L : /\ block[i].via = c
                           /\ block[i].states = P[i].states /\ block[i].bound = P[i].bound
  PROVE  Handled(vec, <<>>, queue \o block, subs, c)
<1> DEFINE n == Len(queue)  longer == queue \o block
<1>1. /\ n \in Nat /\ Len(longer) = n + L
      /\ \A j \in 1 .. n : longer[j] = queue[j]
      /\ \A i \in 1 .. L : longer[n + i] = block[i]
  BY QueueJoins
<1>2. \A j \in 1 .. n : queue[j].via # c
  OBVIOUS
<1> HIDE DEF n, longer
<1>3. ASSUME NEW j \in 1 .. n + L
      PROVE  longer[j].via = c <=> n + 0 < j /\ j =< n + L
  <2>1. CASE j \in 1 .. n
    BY <1>1, <1>2, <2>1
  <2>2. CASE j \notin 1 .. n
    <3>1. j - n \in 1 .. L /\ n + (j - n) = j
      BY <1>1, <2>2
    <3>2. longer[j] = block[j - n]
      BY <1>1, <3>1
    <3> QED
      BY <1>1, <2>2, <3>1, <3>2
  <2> QED
    BY <2>1, <2>2
<1>4. ASSUME NEW i \in 0 + 1 .. L
      PROVE  /\ n + i \in 1 .. n + L
             /\ longer[n + i].states = P[i].states
             /\ longer[n + i].bound = P[i].bound
  <2>1. i \in 1 .. L /\ n + i \in 1 .. n + L
    BY <1>1
  <2> QED
    BY <1>1, <2>1
<1>5. Queued(longer, c, P, n, 0, L)
  BY <1>1, <1>3, <1>4 DEF Queued
<1>6. Entered(<<>>, P, 0, subs)
  BY DEF Entered
<1>7. n \in Int /\ 0 \in Nat /\ 0 =< L
  BY <1>1
<1>8. Handled(vec, <<>>, longer, subs, c)
  BY <1>5, <1>6, <1>7 DEF Handled
<1> QED
  BY <1>8 DEF longer

(* The pieces for another character are queued.                            *)
LEMMA HandledStays ==
  ASSUME NEW vec, NEW row, NEW X, NEW queue \in Seq(X), NEW subs, NEW c,
         Handled(vec, row, queue, subs, c),
         NEW L \in Nat \ {0}, NEW block \in [1 .. L -> X],
         \A i \in 1 .. L : block[i].via # c
  PROVE  Handled(vec, row, queue \o block, subs, c)
<1>1. PICK P, M, o, k :
        /\ M \in Nat \ {0} /\ o \in Int /\ k \in Nat /\ k =< M
        /\ Serves(P, M, vec) /\ Entered(row, P, k, subs) /\ Queued(queue, c, P, o, k, M)
  BY DEF Handled
<1> M \in Nat \ {0} /\ o \in Int /\ k \in Nat /\ k =< M
  BY <1>1
<1> DEFINE n == Len(queue)  longer == queue \o block
<1>2. /\ n \in Nat /\ Len(longer) = n + L
      /\ \A j \in 1 .. n : longer[j] = queue[j]
      /\ \A i \in 1 .. L : longer[n + i] = block[i]
  BY QueueJoins
<1> HIDE DEF n, longer
<1>3. /\ \A j \in 1 .. n : queue[j].via = c <=> o + k < j /\ j =< o + M
      /\ \A i \in k + 1 .. M : /\ o + i \in 1 .. n
                               /\ queue[o + i].states = P[i].states
                               /\ queue[o + i].bound = P[i].bound
  BY <1>1 DEF Queued, n
(* With none left in the queue the place is of no matter; put it in front. *)
<1> DEFINE p == IF k = M THEN -M ELSE o
<1>4. p \in Int /\ (k = M => p = -M) /\ (k # M => p = o)
  OBVIOUS
<1> HIDE DEF p
<1>5. \A j \in 1 .. n : queue[j].via = c <=> p + k < j /\ j =< p + M
  <2>1. CASE k = M
    BY <1>2, <1>3, <1>4, <2>1
  <2>2. CASE k # M
    BY <1>3, <1>4, <2>2
  <2> QED
    BY <2>1, <2>2
<1>6. \A i \in k + 1 .. M : p = o /\ o + i \in 1 .. n
  BY <1>3, <1>4
<1>7. k # M => p + M =< n
  <2>1. ASSUME k # M PROVE M \in k + 1 .. M
    BY <2>1
  <2> QED
    BY <1>2, <1>6, <2>1
<1>8. p + M =< n
  BY <1>2, <1>4, <1>7
<1>9. ASSUME NEW j \in 1 .. n + L
      PROVE  longer[j].via = c <=> p + k < j /\ j =< p + M
  <2>1. CASE j \in 1 .. n
    BY <1>2, <1>5, <2>1
  <2>2. CASE j \notin 1 .. n
    <3>1. j - n \in 1 .. L /\ n + (j - n) = j /\ j > n
      BY <1>2, <2>2
    <3>2. longer[j] = block[j - n]
      BY <1>2, <3>1
    <3>3. ~(j =< p + M)
      BY <1>2, <1>4, <1>8, <3>1
    <3> QED
      BY <3>1, <3>2, <3>3
  <2> QED
    BY <2>1, <2>2
<1>10. ASSUME NEW i \in k + 1 .. M
       PROVE  /\ p + i \in 1 .. n + L
              /\ longer[p + i].states = P[i].states
              /\ longer[p + i].bound = P[i].bound
  <2>1. p = o /\ o + i \in 1 .. n
    BY <1>6
  <2>2. p + i \in 1 .. n + L /\ longer[p + i] = queue[o + i]
    BY <1>2, <2>1
  <2> QED
    BY <1>3, <2>2
<1>11. Queued(longer, c, P, p, k, M)
  BY <1>2, <1>9, <1>10 DEF Queued
<1> QED
  BY <1>1, <1>4, <1>11 DEF Handled, longer

(* The row is complete: whatever the duration, the first transition whose  *)
(* bound is not below it leads to all that the elements of vec lead to.    *)
LEMMA HandledServes ==
  ASSUME NEW vec, NEW row, NEW subs, NEW c, Handled(vec, row, <<>>, subs, c),
         NEW d \in Nat \ {0},
         NEW found, found = {i \in DOMAIN row : ~Determinized!Below(row[i].bound, d)},
         NEW k, k = CHOOSE i \in found : \A j \in found : i =< j
  PROVE  /\ row # <<>>
         /\ k \in DOMAIN row /\ row[k].target \in DOMAIN subs
         /\ \A i \in DOMAIN vec :
              /\ Sweeping!IsElement(vec[i])
              /\ Sweeping!Within(vec[i], Half(d)) => vec[i].conf \in DOMAIN subs[row[k].target]
<1>1. PICK P, L, o, m :
        /\ L \in Nat \ {0} /\ o \in Int /\ m \in Nat /\ m =< L
        /\ Serves(P, L, vec) /\ Entered(row, P, m, subs) /\ Queued(<<>>, c, P, o, m, L)
  BY DEF Handled
<1> L \in Nat \ {0} /\ o \in Int /\ m \in Nat /\ m =< L
  BY <1>1
<1>2. m = L
  <2>1. ASSUME m # L PROVE FALSE
    <3>1. L \in m + 1 .. L
      BY <2>1
    <3>2. o + L \in 1 .. Len(<<>>)
      BY <1>1, <3>1 DEF Queued
    <3>3. Len(<<>>) = 0
      OBVIOUS
    <3> QED
      BY <3>2, <3>3
  <2> QED
    BY <2>1
<1>3. DOMAIN row = 1 .. L /\ row # <<>>
  <2> DEFINE E == Entry
  <2>1. row \in Seq(E) /\ Len(row) = L
    BY <1>1, <1>2 DEF Entered
  <2> HIDE DEF E
  <2> QED
    BY <2>1
<1>4. ASSUME NEW i \in 1 .. L
      PROVE  /\ row[i].bound = P[i].bound /\ row[i].target \in DOMAIN subs
             /\ DOMAIN P[i].states \subseteq DOMAIN subs[row[i].target]
             /\ Determinized!Below(row[i].bound, d) <=> Sweeping!Below(P[i].bound, Half(d))
  <2>1. /\ row[i].bound = P[i].bound /\ row[i].target \in DOMAIN subs
        /\ DOMAIN P[i].states \subseteq DOMAIN subs[row[i].target]
    BY <1>1, <1>2 DEF Entered
  <2>2. P[i].bound \in UpperBounds
    BY <1>1 DEF Serves
  <2> DEFINE bound == P[i].bound
  <2>3. bound \in Sweeping!UpperBounds
    BY <2>2 DEF UpperBounds
  <2> HIDE DEF bound
  <2>4. Determinized!Below(bound, d) <=> Sweeping!Below(bound, Half(d))
    BY <2>3, BelowAtHalf
  <2> QED
    BY <2>1, <2>4 DEF bound
<1>5. L \in found
  <2>1. L \in 1 .. L
    OBVIOUS
  <2>2. P[L].bound[1] = Infinity
    BY <1>1 DEF Serves
  <2> QED
    BY <1>3, <1>4, <2>1, <2>2 DEF Determinized!Below
<1>6. k \in found /\ \A j \in found : k =< j
  <2>1. found \subseteq Nat /\ found # {}
    BY <1>3, <1>5
  <2> QED
    BY <2>1, LeastExists
<1>7. k \in 1 .. L /\ ~Sweeping!Below(P[k].bound, Half(d))
  BY <1>3, <1>4, <1>6
<1>8. k = 1 \/ Sweeping!Below(P[k - 1].bound, Half(d))
  <2>1. CASE k # 1
    <3>1. k - 1 \in 1 .. L /\ k - 1 \notin found
      BY <1>6, <1>7, <2>1
    <3> QED
      BY <1>3, <1>4, <3>1
  <2> QED
    BY <2>1
<1>9. Half(d) \in Nat \ {0}
  BY HalfCompares
<1>10. ASSUME NEW i \in DOMAIN vec
       PROVE  /\ Sweeping!IsElement(vec[i])
              /\ Sweeping!Within(vec[i], Half(d)) => vec[i].conf \in DOMAIN P[k].states
  BY <1>1, <1>7, <1>8, <1>9 DEF Serves
<1> QED
  BY <1>3, <1>4, <1>7, <1>10

-----------------------------------------------------------------------------
(* While the machine is made.                                              *)

Vecs(q) == Determinized!ConstructNexts(subsets[q])
RowOf(map, q, c) == IF <<q, c>> \in DOMAIN map THEN map[<<q, c>>] ELSE <<>>

Waiting == [via : Determinized!Characters, states : StateOf, bound : UpperBounds]

(* The states have their counters, and the map finds them.                 *)
StatesOK ==
  /\ subsets \in Seq(StateOf)
  /\ drtaCounter \in Seq(0 .. BufferSize) /\ Len(drtaCounter) = Len(subsets)
  /\ \A i \in DOMAIN subsets : drtaCounter[i] = Determinized!CounterOf(subsets[i])
  /\ \A b \in DOMAIN drtaStates : drtaStates[b] \in DOMAIN subsets /\ subsets[drtaStates[b]] = b

(* The rows of the states before the visited one are complete.             *)
MapOK ==
  /\ drtaVisited \in 0 .. Len(subsets)
  /\ \A k \in DOMAIN nextMap : /\ k = <<k[1], k[2]>> /\ k[1] \in 1 .. drtaVisited
                               /\ k[2] \in DOMAIN Vecs(k[1])
  /\ \A q \in 1 .. drtaVisited - 1 : \A c \in DOMAIN Vecs(q) :
       Handled(Vecs(q)[c], RowOf(nextMap, q, c), <<>>, subsets, c)

(* Those of the visited one are, as far as its vectors have been cut and   *)
(* the pieces been taken off the queue.                                    *)
VisitedOK ==
  LET vecs == Vecs(drtaVisited)
  IN  /\ DOMAIN nexts \subseteq DOMAIN vecs
      /\ \A j \in 1 .. Len(nextLineared) : nextLineared[j].via \in DOMAIN vecs \ DOMAIN nexts
      /\ \A c \in DOMAIN nexts : nexts[c] = vecs[c] /\ RowOf(nextMap, drtaVisited, c) = <<>>
      /\ \A c \in DOMAIN vecs \ DOMAIN nexts :
           Handled(vecs[c], RowOf(nextMap, drtaVisited, c), nextLineared, subsets, c)

QueueOK ==
  /\ nextLineared \in Seq(Waiting)
  /\ drtaVisited = 0 => nexts = <<>> /\ nextLineared = <<>>
  /\ drtaVisited > 0 => VisitedOK

SweepOK == pc = "idle" \/ (via \in DOMAIN nexts /\ Sweeping!IInv)

Making == Copied /\ StatesOK /\ MapOK /\ QueueOK /\ SweepOK

LEMMA SubsetsAre ==
  ASSUME StatesOK
  PROVE  /\ DOMAIN subsets = 1 .. Len(subsets) /\ Len(subsets) \in Nat
         /\ \A i \in DOMAIN subsets : subsets[i] \in StateOf
         /\ DOMAIN drtaCounter = DOMAIN subsets
<1> DEFINE S == StateOf  N == 0 .. BufferSize
<1>1. subsets \in Seq(S) /\ drtaCounter \in Seq(N) /\ Len(drtaCounter) = Len(subsets)
  BY DEF StatesOK
<1> HIDE DEF S, N
<1>2. /\ DOMAIN subsets = 1 .. Len(subsets) /\ Len(subsets) \in Nat
      /\ \A i \in DOMAIN subsets : subsets[i] \in S
      /\ DOMAIN drtaCounter = 1 .. Len(drtaCounter)
  BY <1>1
<1> QED
  BY <1>1, <1>2 DEF S

LEMMA StartMaking ==
  ASSUME Copied, Determinized!Start PROVE Making
<1>1. /\ subsets = <<>> /\ drtaStates = <<>> /\ drtaCounter = <<>> /\ nextMap = <<>>
      /\ drtaVisited = 0 /\ nexts = <<>> /\ nextLineared = <<>> /\ pc = "idle"
  BY DEF Determinized!Start
<1>2. Len(<<>>) = 0 /\ \A S : <<>> \in Seq(S) /\ DOMAIN <<>> = {}
  OBVIOUS
<1>3. StatesOK
  BY <1>1, <1>2 DEF StatesOK
<1>4. MapOK
  <2>1. 0 \in 0 .. Len(<<>>) /\ \A q : q \notin 1 .. 0 - 1
    BY <1>2
  <2> QED
    BY <1>1, <1>2, <2>1 DEF MapOK
<1>5. QueueOK /\ SweepOK
  BY <1>1, <1>2 DEF QueueOK, SweepOK
<1> QED
  BY <1>3, <1>4, <1>5 DEF Making

LEMMA VecsStay ==
  ASSUME Copied, UNCHANGED <<pattern, counterVars>>, NEW q, subsets'[q] = subsets[q]
  PROVE  Vecs(q)' = Vecs(q)
<1>1. counted' = counted
  BY DEF counterVars
<1> QED
  BY <1>1 DEF Vecs, Determinized!ConstructNexts

LEMMA CountersStay ==
  ASSUME Copied, UNCHANGED <<pattern, counterVars>>, NEW i, NEW b, subsets'[i] = b
  PROVE  Determinized!CounterOf(subsets[i])' = Determinized!CounterOf(b)
<1>1. counted' = counted
  BY DEF counterVars
<1> QED
  BY <1>1 DEF Determinized!CounterOf

(* addNewState.                                                            *)
LEMMA StatesAdded ==
  ASSUME Copied, UNCHANGED <<pattern, counterVars>>, StatesOK,
         NEW b \in StateOf, Determinized!AddNewState(b)
  PROVE  /\ StatesOK'
         /\ DOMAIN subsets' = 1 .. Len(subsets) + 1
         /\ Len(subsets') = Len(subsets) + 1
         /\ \A i \in DOMAIN subsets : i \in DOMAIN subsets' /\ subsets'[i] = subsets[i]
         /\ subsets'[Len(subsets) + 1] = b
<1> DEFINE n == Len(subsets)  S == StateOf  N == 0 .. BufferSize
           k == Determinized!CounterOf(b)
<1>1. /\ subsets \in Seq(S) /\ drtaCounter \in Seq(N) /\ Len(drtaCounter) = n
      /\ DOMAIN subsets = 1 .. n /\ n \in Nat
  BY SubsetsAre DEF StatesOK
<1>2. /\ subsets' = Append(subsets, b) /\ drtaCounter' = Append(drtaCounter, k)
      /\ drtaStates' = [x \in DOMAIN drtaStates \union {b} |->
                          IF x = b THEN n + 1 ELSE drtaStates[x]]
  BY DEF Determinized!AddNewState, Determinized!Fresh
<1>3. k \in N
  BY CounterShows
<1>4. b \in S
  OBVIOUS
<1>5. /\ subsets' \in Seq(S) /\ Len(subsets') = n + 1 /\ DOMAIN subsets' = 1 .. n + 1
      /\ \A i \in 1 .. n : subsets'[i] = subsets[i]
      /\ subsets'[n + 1] = b
  <2> HIDE DEF S
  <2> QED
    BY <1>1, <1>2, <1>4
<1>6. /\ drtaCounter' \in Seq(N) /\ Len(drtaCounter') = n + 1
      /\ \A i \in 1 .. n : drtaCounter'[i] = drtaCounter[i]
      /\ drtaCounter'[n + 1] = k
  <2> HIDE DEF N, k
  <2> QED
    BY <1>1, <1>2, <1>3
<1>7. StateOf' = StateOf
  BY CopiedStays
<1>8. \A i \in 1 .. n + 1 : i \in 1 .. n \/ i = n + 1
  BY <1>1
<1>9. ASSUME NEW i \in 1 .. n + 1
      PROVE  drtaCounter'[i] = Determinized!CounterOf(subsets[i])'
  <2>1. CASE i \in 1 .. n
    <3>1. drtaCounter[i] = Determinized!CounterOf(subsets[i])
      BY <1>1, <2>1 DEF StatesOK
    <3>2. drtaCounter'[i] = drtaCounter[i] /\ subsets'[i] = subsets[i]
      BY <1>5, <1>6, <2>1
    <3>3. Determinized!CounterOf(subsets[i])' = Determinized!CounterOf(subsets[i])
      BY <3>2, CountersStay
    <3> QED
      BY <3>1, <3>2, <3>3
  <2>2. CASE i = n + 1
    <3>1. drtaCounter'[i] = k /\ subsets'[i] = b
      BY <1>5, <1>6, <2>2
    <3>2. Determinized!CounterOf(subsets[i])' = Determinized!CounterOf(b)
      BY <3>1, CountersStay
    <3> QED
      BY <3>1, <3>2
  <2> QED
    BY <1>8, <2>1, <2>2
<1>10. ASSUME NEW x \in DOMAIN drtaStates'
       PROVE  drtaStates'[x] \in 1 .. n + 1 /\ subsets'[drtaStates'[x]] = x
  <2>1. CASE x = b
    <3>1. drtaStates'[x] = n + 1
      BY <1>2, <2>1
    <3>2. n + 1 \in 1 .. n + 1
      BY <1>1
    <3> QED
      BY <1>5, <2>1, <3>1, <3>2
  <2>2. CASE x # b
    <3>1. x \in DOMAIN drtaStates /\ drtaStates'[x] = drtaStates[x]
      BY <1>2, <2>2
    <3>2. drtaStates[x] \in 1 .. n /\ subsets[drtaStates[x]] = x
      BY <1>1, <3>1 DEF StatesOK
    <3>3. drtaStates[x] \in 1 .. n + 1
      BY <1>1, <3>2
    <3> QED
      BY <1>5, <3>1, <3>2, <3>3
  <2> QED
    BY <2>1, <2>2
<1>11. StatesOK'
  <2>2. \A i \in DOMAIN subsets' : drtaCounter'[i] = Determinized!CounterOf(subsets[i])'
    BY <1>5, <1>9
  <2>3. subsets' \in Seq(StateOf') /\ drtaCounter' \in Seq(0 .. BufferSize)
    BY <1>5, <1>6, <1>7
  <2> QED
    BY <1>5, <1>6, <1>10, <2>2, <2>3 DEF StatesOK
<1>12. \A i \in 1 .. n : i \in 1 .. n + 1
  BY <1>1
<1> QED
  BY <1>1, <1>5, <1>11, <1>12

LEMMA AddInitialMakes ==
  ASSUME Making, UNCHANGED <<pattern, counterVars>>, Determinized!AddInitial PROVE Making'
<1> DEFINE b == Determinized!Linear!SetToBag(Determinized!InitConfs)
<1>1. /\ Copied /\ StatesOK /\ MapOK /\ QueueOK /\ SweepOK
      /\ subsets = <<>> /\ Determinized!AddNewState(b)
      /\ UNCHANGED <<nextMap, drtaVisited, nexts, nextLineared, via, lowerVec, upperVec,
                     currentStates, pieces, pc>>
  BY DEF Making, Determinized!AddInitial, Determinized!linearVars
<1>2. b \in StateOf
  BY <1>1, OneOfEach, InitConfsAreConfs, StateOfIs
<1> HIDE DEF b
<1>3. StatesOK' /\ Len(subsets') = Len(subsets) + 1
  BY <1>1, <1>2, StatesAdded
<1>4. Len(subsets) = 0
  BY <1>1
<1>5. drtaVisited = 0
  BY <1>1, <1>4 DEF MapOK
<1>6. nexts = <<>> /\ nextLineared = <<>>
  BY <1>1, <1>5 DEF QueueOK
<1>7. DOMAIN nextMap = {}
  <2>1. \A q : q \notin 1 .. 0
    OBVIOUS
  <2> QED
    BY <1>1, <1>5, <2>1 DEF MapOK
<1>8. MapOK'
  <2>1. 0 \in 0 .. Len(subsets') /\ \A q : q \notin 1 .. 0 - 1
    BY <1>3, <1>4
  <2> QED
    BY <1>1, <1>5, <1>7, <2>1 DEF MapOK
<1>9. QueueOK'
  <2>1. <<>> \in Seq(Waiting')
    OBVIOUS
  <2> QED
    BY <1>1, <1>5, <1>6, <2>1 DEF QueueOK
<1>10. pc = "idle"
  BY <1>1, <1>6 DEF SweepOK
<1>11. SweepOK'
  BY <1>1, <1>10 DEF SweepOK
<1>12. Copied'
  BY <1>1, CopiedStays
<1> QED
  BY <1>3, <1>8, <1>9, <1>11, <1>12 DEF Making

(* What does not change.                                                   *)
LEMMA StatesStay ==
  ASSUME Copied, UNCHANGED <<pattern, counterVars>>, StatesOK,
         UNCHANGED <<subsets, drtaStates, drtaCounter>>
  PROVE  StatesOK'
<1>1. StateOf' = StateOf
  BY CopiedStays
<1>2. ASSUME NEW i \in DOMAIN subsets
      PROVE  Determinized!CounterOf(subsets[i])' = Determinized!CounterOf(subsets[i])
  BY CountersStay
<1> QED
  BY <1>1, <1>2 DEF StatesOK

LEMMA MapStays ==
  ASSUME Copied, UNCHANGED <<pattern, counterVars>>, MapOK,
         UNCHANGED <<subsets, nextMap, drtaVisited>>
  PROVE  MapOK'
<1>1. \A q : Vecs(q)' = Vecs(q)
  BY VecsStay
<1> QED
  BY <1>1 DEF MapOK, RowOf

LEMMA WaitingStays ==
  ASSUME Copied, UNCHANGED <<pattern, counterVars>> PROVE Waiting' = Waiting
BY CopiedStays DEF Waiting

LEMMA VisitMakes ==
  ASSUME Making, UNCHANGED <<pattern, counterVars>>, Determinized!Visit PROVE Making'
<1>0. PICK q, n : q = drtaVisited /\ n = Len(subsets)
  OBVIOUS
<1>1. /\ Copied /\ StatesOK /\ MapOK /\ QueueOK
      /\ nexts = <<>> /\ nextLineared = <<>> /\ pc = "idle" /\ q < n /\ drtaVisited' = q + 1
      /\ nexts' = Vecs(q + 1)
      /\ UNCHANGED <<subsets, drtaStates, drtaCounter, nextMap, nextLineared>> /\ pc' = pc
  BY <1>0 DEF Making, Determinized!Visit, Determinized!linearVars, Determinized!Idle, Vecs
<1>2. /\ n \in Nat /\ DOMAIN subsets = 1 .. n /\ q \in 0 .. n /\ q + 1 \in 1 .. n
  BY <1>0, <1>1, SubsetsAre DEF MapOK
<1>3. \A p : Vecs(p)' = Vecs(p)
  BY <1>1, VecsStay
<1>4. Copied' /\ StatesOK' /\ Waiting' = Waiting
  BY <1>1, CopiedStays, StatesStay, WaitingStays
<1>5. MapOK'
  <2>1. q + 1 \in 0 .. n
    BY <1>2
  <2>2. ASSUME NEW k \in DOMAIN nextMap
        PROVE  /\ k = <<k[1], k[2]>> /\ k[1] \in 1 .. q + 1
               /\ k[2] \in DOMAIN Vecs(k[1])
    <3>1. k = <<k[1], k[2]>> /\ k[1] \in 1 .. q /\ k[2] \in DOMAIN Vecs(k[1])
      BY <1>0, <1>1 DEF MapOK
    <3> QED
      BY <1>2, <3>1
  <2>3. ASSUME NEW p \in 1 .. (q + 1) - 1, NEW c \in DOMAIN Vecs(p)
        PROVE  Handled(Vecs(p)[c], RowOf(nextMap, p, c), <<>>, subsets, c)
    <3>1. CASE p = q
      <4>1. q > 0
        BY <1>2, <3>1
      <4>2. VisitedOK /\ DOMAIN nexts = {}
        BY <1>0, <1>1, <4>1 DEF QueueOK
      <4> QED
        BY <1>0, <1>1, <3>1, <4>2 DEF VisitedOK
    <3>2. CASE p # q
      <4>1. p \in 1 .. q - 1
        BY <1>2, <3>2
      <4> QED
        BY <1>0, <1>1, <4>1 DEF MapOK
    <3> QED
      BY <3>1, <3>2
  <2>4. /\ drtaVisited' \in 0 .. Len(subsets')
        /\ \A k \in DOMAIN nextMap' : /\ k = <<k[1], k[2]>> /\ k[1] \in 1 .. drtaVisited'
                                      /\ k[2] \in DOMAIN Vecs(k[1])'
        /\ \A p \in 1 .. drtaVisited' - 1 : \A c \in DOMAIN Vecs(p)' :
             Handled(Vecs(p)[c]', RowOf(nextMap', p, c), <<>>, subsets', c)
    BY <1>0, <1>1, <1>3, <2>1, <2>2, <2>3
  <2> QED
    BY <2>4 DEF MapOK
<1>6. QueueOK'
  <2>1. ASSUME NEW c \in DOMAIN Vecs(q + 1) PROVE RowOf(nextMap, q + 1, c) = <<>>
    <3>1. <<q + 1, c>> \notin DOMAIN nextMap
      <4>1. \A k \in DOMAIN nextMap : k[1] \in 1 .. q
        BY <1>0, <1>1 DEF MapOK
      <4>2. q + 1 \notin 1 .. q
        BY <1>2
      <4> QED
        BY <4>1, <4>2
    <3> QED
      BY <3>1 DEF RowOf
  <2>3. Vecs(drtaVisited)' = Vecs(q + 1)
    <3>1. counted' = counted /\ subsets' = subsets /\ drtaVisited' = q + 1
      BY <1>1 DEF counterVars
    <3> QED
      BY <3>1 DEF Vecs, Determinized!ConstructNexts
  <2>4. VisitedOK'
    <3> DEFINE vecs == Vecs(q + 1)
    <3>1. \A j : j \notin 1 .. Len(<<>>)
      OBVIOUS
    <3>2. nexts' = vecs /\ nextLineared' = <<>> /\ nextMap' = nextMap /\ Vecs(drtaVisited)' = vecs
          /\ drtaVisited' = q + 1
      BY <1>1, <2>3
    <3>3. \A c \in DOMAIN vecs : RowOf(nextMap, q + 1, c) = <<>>
      BY <2>1
    <3> HIDE DEF vecs
    <3> QED
      BY <3>1, <3>2, <3>3 DEF VisitedOK
  <2>5. drtaVisited' # 0
    BY <1>1, <1>2
  <2> QED
    BY <1>1, <1>4, <2>4, <2>5 DEF QueueOK
<1>7. SweepOK'
  BY <1>1 DEF SweepOK
<1> QED
  BY <1>4, <1>5, <1>6, <1>7 DEF Making

(* The sweep over a vector begins.                                         *)
LEMMA SweepStarts ==
  ASSUME via \in DOMAIN nexts, nexts[via] \in Seq(Range(nexts[via])),
         \A i \in DOMAIN nexts[via] :
           Determinized!Linear!IsElement(nexts[via][i]) /\ nexts[via][i].conf \notin Determinized!InitConfs,
         lowerVec = Determinized!Linear!LowerOrder(nexts[via]),
         upperVec = Determinized!Linear!UpperOrder(nexts[via]),
         currentStates = Determinized!Linear!SetToBag(Determinized!InitConfs),
         pieces = <<>>, pc = "zero"
  PROVE  Sweeping!IInv
<1>1. Vector = nexts[via]
  BY DEF Vector
<1>2. Sweeping!InputOK
  BY <1>1, SameVectors DEF Sweeping!InputOK, Sweeping!Places, Sweeping!Range, Range
<1>3. lowerVec \in Sweeping!LowerOrders(Vector) /\ upperVec \in Sweeping!UpperOrders(Vector)
  BY <1>1, <1>2, SameVectors, Sweeping!OrdersExist, InfinityAssumption
<1>4. currentStates = Sweeping!SetToBag(Determinized!InitConfs)
  BY SameFinite
<1> QED
  BY <1>2, <1>3, <1>4, Sweeping!StartOK, InfinityAssumption

LEMMA SweepStartsPrimed ==
  ASSUME (via \in DOMAIN nexts)', (nexts[via] \in Seq(Range(nexts[via])))',
         (\A i \in DOMAIN nexts[via] :
           Determinized!Linear!IsElement(nexts[via][i]) /\ nexts[via][i].conf \notin Determinized!InitConfs)',
         (lowerVec = Determinized!Linear!LowerOrder(nexts[via]))',
         (upperVec = Determinized!Linear!UpperOrder(nexts[via]))',
         (currentStates = Determinized!Linear!SetToBag(Determinized!InitConfs))',
         (pieces = <<>>)', (pc = "zero")'
  PROVE  Sweeping!IInv'
BY SweepStarts, PTL

LEMMA SweepGoes ==
  ASSUME Sweeping!IInv, [Sweeping!Next]_(Sweeping!vars) PROVE Sweeping!IInv'
BY Sweeping!StepOK, InfinityAssumption

(* What the vectors of a state are.                                        *)
LEMMA VecsAre ==
  ASSUME Copied, StatesOK, NEW q \in DOMAIN subsets
  PROVE  /\ DOMAIN Vecs(q) \subseteq Determinized!Characters
         /\ \A c \in DOMAIN Vecs(q) :
              /\ Vecs(q)[c] \in Seq(Range(Vecs(q)[c]))
              /\ IsFiniteSet(DOMAIN Vecs(q)[c])
              /\ \A i \in DOMAIN Vecs(q)[c] : Vecs(q)[c][i].conf \in Confs
<1>1. IsStateOf(subsets[q])
  BY SubsetsAre, StateOfIs
<1> DEFINE vecs == Vecs(q)
<1>2. /\ DOMAIN vecs \subseteq Determinized!Characters
      /\ \A c \in DOMAIN vecs : \E n \in Nat :
              /\ vecs[c] = [i \in 1 .. n |-> vecs[c][i]]
              /\ \A i \in 1 .. n : vecs[c][i].conf \in Confs
  BY <1>1, VectorLists DEF Vecs
<1> HIDE DEF vecs
<1>3. ASSUME NEW v, NEW n \in Nat, v = [i \in 1 .. n |-> v[i]]
      PROVE  v \in Seq(Range(v)) /\ IsFiniteSet(DOMAIN v) /\ DOMAIN v = 1 .. n
  <2>1. DOMAIN v = 1 .. n
    BY <1>3
  <2> DEFINE S == Range(v)
  <2>2. \A i \in 1 .. n : v[i] \in S
    BY <2>1 DEF Range
  <2> HIDE DEF S
  <2>3. v \in [1 .. n -> S]
    BY <1>3, <2>2
  <2>4. v \in Seq(S)
    BY <2>3
  <2>5. IsFiniteSet(1 .. n)
    BY FS_Interval
  <2> QED
    BY <2>1, <2>4, <2>5 DEF S
<1>4. ASSUME NEW c \in DOMAIN vecs
      PROVE  /\ vecs[c] \in Seq(Range(vecs[c]))
             /\ IsFiniteSet(DOMAIN vecs[c])
             /\ \A i \in DOMAIN vecs[c] : vecs[c][i].conf \in Confs
  <2>1. PICK n \in Nat : /\ vecs[c] = [i \in 1 .. n |-> vecs[c][i]]
                         /\ \A i \in 1 .. n : vecs[c][i].conf \in Confs
    BY <1>2
  <2> QED
    BY <1>3, <2>1
<1> QED
  BY <1>2, <1>4 DEF vecs

LEMMA QueueStays ==
  ASSUME Copied, UNCHANGED <<pattern, counterVars>>, QueueOK,
         UNCHANGED <<subsets, nextMap, drtaVisited, nexts, nextLineared>>
  PROVE  QueueOK'
<1>1. Waiting' = Waiting
  BY WaitingStays
<1>2. Vecs(drtaVisited)' = Vecs(drtaVisited)
  BY DEF Vecs, Determinized!ConstructNexts, counterVars
<1>3. VisitedOK => VisitedOK'
  BY <1>2 DEF VisitedOK, RowOf
<1> QED
  BY <1>1, <1>3 DEF QueueOK

(* Nothing is linearized before a state is visited.                        *)
LEMMA VisitedIs ==
  ASSUME StatesOK, MapOK, QueueOK, nexts # <<>> \/ nextLineared # <<>>
  PROVE  drtaVisited \in DOMAIN subsets /\ drtaVisited > 0 /\ VisitedOK
<1>1. drtaVisited \in 0 .. Len(subsets) /\ drtaVisited # 0
  BY DEF MapOK, QueueOK
<1>2. DOMAIN subsets = 1 .. Len(subsets) /\ Len(subsets) \in Nat
  BY SubsetsAre
<1>3. drtaVisited > 0
  BY <1>1, <1>2
<1> QED
  BY <1>1, <1>2, <1>3 DEF QueueOK

LEMMA LinearizeMakes ==
  ASSUME Making, SweepsIntervals, UNCHANGED <<pattern, counterVars>>, Determinized!Linearize
  PROVE  Making'
<1>1. PICK c \in DOMAIN nexts :
        /\ via' = c
        /\ lowerVec' = Determinized!Linear!LowerOrder(nexts[c])
        /\ upperVec' = Determinized!Linear!UpperOrder(nexts[c])
  BY DEF Determinized!Linearize
<1>2. /\ currentStates' = Determinized!Linear!SetToBag(Determinized!InitConfs)
      /\ pieces' = <<>> /\ pc' = "zero"
      /\ UNCHANGED <<subsets, drtaStates, drtaCounter, nextMap, drtaVisited, nexts, nextLineared>>
  BY DEF Determinized!Linearize, Determinized!machineVars
<1>3. Copied /\ StatesOK /\ MapOK /\ QueueOK
  BY DEF Making
<1>4. Copied' /\ StatesOK' /\ MapOK' /\ QueueOK'
  BY <1>2, <1>3, CopiedStays, StatesStay, MapStays, QueueStays
<1>5. nexts[c] = Vecs(drtaVisited)[c] /\ c \in DOMAIN Vecs(drtaVisited) /\ drtaVisited \in DOMAIN subsets
  <2>1. nexts # <<>>
    BY <1>1
  <2>2. drtaVisited \in DOMAIN subsets /\ VisitedOK
    BY <1>3, <2>1, VisitedIs
  <2> QED
    BY <1>1, <2>2 DEF VisitedOK
<1>6. nexts[c] \in Seq(Range(nexts[c]))
  BY <1>3, <1>5, VecsAre
<1>7. \A i \in DOMAIN nexts[c] :
        Determinized!Linear!IsElement(nexts[c][i]) /\ nexts[c][i].conf \notin Determinized!InitConfs
  BY <1>1 DEF SweepsIntervals, Determinized!VectorsAreIntervals
<1>8. Determinized!InitConfs' = Determinized!InitConfs
  BY <1>3, CopiedStays
<1>9. Sweeping!IInv'
  <2>1. nexts'[via'] = nexts[c] /\ via' \in DOMAIN nexts'
    BY <1>1, <1>2
  <2>2. (via \in DOMAIN nexts)' /\ (nexts[via] \in Seq(Range(nexts[via])))'
    BY <1>6, <2>1 DEF Range
  <2>3. (\A i \in DOMAIN nexts[via] :
           Determinized!Linear!IsElement(nexts[via][i]) /\ nexts[via][i].conf \notin Determinized!InitConfs)'
    BY <1>7, <1>8, <2>1
  <2>4. (lowerVec = Determinized!Linear!LowerOrder(nexts[via]))'
        /\ (upperVec = Determinized!Linear!UpperOrder(nexts[via]))'
    BY <1>1, <2>1
  <2>5. (currentStates = Determinized!Linear!SetToBag(Determinized!InitConfs))'
    BY <1>2, <1>8
  <2> QED
    BY <1>2, <2>2, <2>3, <2>4, <2>5, SweepStartsPrimed
<1>10. SweepOK'
  BY <1>1, <1>2, <1>9 DEF SweepOK
<1> QED
  BY <1>4, <1>10 DEF Making

LEMMA SweepMakes ==
  ASSUME Making, UNCHANGED <<pattern, counterVars>>, Determinized!Sweep PROVE Making'
<1>1. /\ UNCHANGED <<subsets, drtaStates, drtaCounter, nextMap, drtaVisited, nexts, nextLineared, via>>
      /\ pc # "idle" /\ Sweeping!Next
  BY SameSweep DEF Determinized!Sweep, Determinized!machineVars
<1>2. Copied /\ StatesOK /\ MapOK /\ QueueOK
  BY DEF Making
<1>3. Copied' /\ StatesOK' /\ MapOK' /\ QueueOK'
  BY <1>1, <1>2, CopiedStays, StatesStay, MapStays, QueueStays
<1>4. Sweeping!IInv /\ via \in DOMAIN nexts
  BY <1>1 DEF Making, SweepOK
<1>5. Sweeping!IInv'
  BY <1>1, <1>4, SweepGoes
<1> QED
  BY <1>1, <1>3, <1>4, <1>5 DEF Making, SweepOK

(* What the sweep leaves.                                                  *)
LEMMA SweptServes ==
  ASSUME Copied, Sweeping!IInv, pc = "done", NEW vec, vec = Vector,
         IsFiniteSet(DOMAIN vec), \A i \in DOMAIN vec : vec[i].conf \in Confs
  PROVE  \E L \in Nat \ {0} :
           /\ DOMAIN pieces = 1 .. L /\ Serves(pieces, L, vec)
           /\ \A k \in 1 .. L : pieces[k].states \in StateOf /\ pieces[k].bound \in UpperBounds
<1> DEFINE L == Len(pieces)
<1>1. /\ DOMAIN pieces = 1 .. L /\ L \in Nat \ {0}
      /\ pieces[L].bound[1] = Infinity
      /\ \A k \in 1 .. L : /\ pieces[k].bound \in Sweeping!UpperBounds
                          /\ Sweeping!IsStates(pieces[k].states)
                          /\ pieces[k].states =
                               [c \in DOMAIN pieces[k].states |-> pieces[k].states[c]]
                          /\ Determinized!InitConfs \subseteq DOMAIN pieces[k].states
      /\ \A k \in 1 .. L, half \in Nat \ {0} :
           /\ k = 1 \/ Sweeping!Below(pieces[k - 1].bound, half)
           /\ ~Sweeping!Below(pieces[k].bound, half)
           => \A i \in DOMAIN Vector :
                Sweeping!Within(Vector[i], half) => Vector[i].conf \in DOMAIN pieces[k].states
  BY Sweeping!PiecesServe, InfinityAssumption DEF Sweeping!Done
<1> HIDE DEF L
<1>2. \A i \in DOMAIN vec : Sweeping!IsElement(vec[i])
  BY DEF Sweeping!IInv, Sweeping!InputOK, Sweeping!Places
<1>3. Serves(pieces, L, vec)
  BY <1>1, <1>2 DEF Serves, UpperBounds
<1> DEFINE confs == {vec[i].conf : i \in DOMAIN vec}
<1>4. IsFiniteSet(confs)
  <2> DEFINE f == [i \in DOMAIN vec |-> vec[i].conf]
  <2>3. f = [i \in DOMAIN vec |-> f[i]] /\ IsFiniteSet(DOMAIN vec)
    OBVIOUS
  <2>1. IsFiniteSet({f[i] : i \in DOMAIN vec})
    <3> HIDE DEF f
    <3> QED
      BY <2>3, ImageIsFinite
  <2>2. {f[i] : i \in DOMAIN vec} = confs
    OBVIOUS
  <2> QED
    BY <2>1, <2>2
<1>5. Sweeping!AllConfs = Determinized!InitConfs \union confs
  BY DEF Sweeping!AllConfs
<1>6. IsFiniteSet(Sweeping!AllConfs) /\ Sweeping!AllConfs \subseteq Confs
  <2>1. confs \subseteq Confs
    OBVIOUS
  <2> HIDE DEF confs
  <2> QED
    BY <1>4, <1>5, <2>1, InitConfsAreConfs, FS_Union
<1>7. ASSUME NEW k \in 1 .. L
      PROVE  pieces[k].states \in StateOf /\ pieces[k].bound \in UpperBounds
  <2> DEFINE b == pieces[k].states
  <2>1. /\ DOMAIN b \subseteq Sweeping!AllConfs /\ \A c \in DOMAIN b : b[c] \in Nat \ {0}
        /\ b = [c \in DOMAIN b |-> b[c]] /\ Determinized!InitConfs \subseteq DOMAIN b
        /\ pieces[k].bound \in UpperBounds
    BY <1>1 DEF Sweeping!IsStates, UpperBounds
  <2> HIDE DEF b
  <2>2. IsFiniteSet(DOMAIN b) /\ DOMAIN b \subseteq Confs
    BY <1>6, <2>1, FS_Subset
  <2>3. IsStateOf(b)
    BY <2>1, <2>2 DEF IsStateOf
  <2> QED
    BY <2>1, <2>3, StateOfIs DEF b
<1> QED
  BY <1>1, <1>3, <1>7

LEMMA SweptMakes ==
  ASSUME Making, UNCHANGED <<pattern, counterVars>>, Determinized!Swept PROVE Making'
<1>0. PICK c, q : c = via /\ q = drtaVisited
  OBVIOUS
<1> DEFINE block == [i \in DOMAIN pieces |->
                       [via |-> c, states |-> pieces[i].states, bound |-> pieces[i].bound]]
           vecs == Vecs(q)
<1>1. /\ pc = "done" /\ nextLineared' = nextLineared \o block
      /\ nexts' = [x \in DOMAIN nexts \ {c} |-> nexts[x]]
      /\ pc' = "idle"
      /\ UNCHANGED <<subsets, drtaStates, drtaCounter, nextMap, drtaVisited>>
  BY <1>0 DEF Determinized!Swept, Determinized!machineVars
<1>2. Copied /\ StatesOK /\ MapOK /\ QueueOK /\ c \in DOMAIN nexts /\ Sweeping!IInv
  BY <1>0, <1>1 DEF Making, SweepOK
<1>3. Copied' /\ StatesOK' /\ MapOK' /\ Waiting' = Waiting
  BY <1>1, <1>2, CopiedStays, StatesStay, MapStays, WaitingStays
<1>4. /\ q \in DOMAIN subsets /\ q > 0
      /\ DOMAIN nexts \subseteq DOMAIN vecs
      /\ \A j \in 1 .. Len(nextLineared) : nextLineared[j].via \in DOMAIN vecs \ DOMAIN nexts
      /\ \A x \in DOMAIN nexts : nexts[x] = vecs[x] /\ RowOf(nextMap, q, x) = <<>>
      /\ \A x \in DOMAIN vecs \ DOMAIN nexts :
           Handled(vecs[x], RowOf(nextMap, q, x), nextLineared, subsets, x)
  <2>1. nexts # <<>>
    BY <1>2
  <2>2. drtaVisited \in DOMAIN subsets /\ drtaVisited > 0 /\ VisitedOK
    BY <1>2, <2>1, VisitedIs
  <2> QED
    BY <1>0, <2>2 DEF VisitedOK
<1>5. /\ DOMAIN vecs \subseteq Determinized!Characters
      /\ vecs[c] = Vector /\ c \in DOMAIN vecs
      /\ IsFiniteSet(DOMAIN vecs[c]) /\ \A i \in DOMAIN vecs[c] : vecs[c][i].conf \in Confs
  <2>1. vecs[c] = Vector /\ c \in DOMAIN vecs
    BY <1>0, <1>2, <1>4 DEF Vector
  <2> QED
    BY <1>2, <1>4, <2>1, VecsAre
<1> HIDE DEF vecs
<1>6. PICK L \in Nat \ {0} :
        /\ DOMAIN pieces = 1 .. L /\ Serves(pieces, L, vecs[c])
        /\ \A k \in 1 .. L : pieces[k].states \in StateOf /\ pieces[k].bound \in UpperBounds
  BY <1>1, <1>2, <1>5, SweptServes
<1>7. /\ block \in [1 .. L -> Waiting]
      /\ \A i \in 1 .. L : /\ block[i].via = c
                           /\ block[i].states = pieces[i].states /\ block[i].bound = pieces[i].bound
  BY <1>5, <1>6 DEF Waiting
<1> HIDE DEF block
<1>8. nextLineared \in Seq(Waiting)
  BY <1>2 DEF QueueOK
<1>9. /\ nextLineared' \in Seq(Waiting) /\ Len(nextLineared) \in Nat
      /\ Len(nextLineared') = Len(nextLineared) + L
      /\ \A j \in 1 .. Len(nextLineared) : nextLineared'[j] = nextLineared[j]
      /\ \A i \in 1 .. L : nextLineared'[Len(nextLineared) + i] = block[i]
  BY <1>1, <1>7, <1>8, QueueJoins
<1>10. ASSUME NEW j \in 1 .. Len(nextLineared')
       PROVE  nextLineared'[j].via \in DOMAIN vecs \ (DOMAIN nexts \ {c})
  <2> DEFINE n == Len(nextLineared)
  <2>0. n \in Nat /\ Len(nextLineared') = n + L
    BY <1>9
  <2>1. CASE j \in 1 .. n
    BY <1>4, <1>9, <2>1
  <2>2. CASE j \notin 1 .. n
    <3> HIDE DEF n
    <3>1. j - n \in 1 .. L /\ n + (j - n) = j
      BY <2>0, <2>2
    <3>2. nextLineared'[j] = block[j - n]
      BY <1>9, <3>1 DEF n
    <3> QED
      BY <1>5, <1>7, <3>1, <3>2
  <2> QED
    BY <2>1, <2>2
<1>11. ASSUME NEW x \in DOMAIN vecs \ (DOMAIN nexts \ {c})
       PROVE  Handled(vecs[x], RowOf(nextMap, q, x), nextLineared', subsets, x)
  <2>1. CASE x = c
    <3>1. RowOf(nextMap, q, x) = <<>>
      BY <1>2, <1>4, <2>1
    <3>2. \A j \in 1 .. Len(nextLineared) : nextLineared[j].via # c
      BY <1>2, <1>4
    <3>3. Handled(vecs[c], <<>>, nextLineared \o block, subsets, c)
      BY <1>6, <1>7, <1>8, <3>2, HandledQueues
    <3> QED
      BY <1>1, <2>1, <3>1, <3>3
  <2>2. CASE x # c
    <3>1. Handled(vecs[x], RowOf(nextMap, q, x), nextLineared, subsets, x)
      BY <1>4, <2>2
    <3>2. \A i \in 1 .. L : block[i].via # x
      BY <1>7, <2>2
    <3>3. Handled(vecs[x], RowOf(nextMap, q, x), nextLineared \o block, subsets, x)
      BY <1>7, <1>8, <3>1, <3>2, HandledStays
    <3> QED
      BY <1>1, <3>3
  <2> QED
    BY <2>1, <2>2
<1>12. Vecs(drtaVisited)' = vecs
  BY <1>0, <1>1 DEF Vecs, Determinized!ConstructNexts, counterVars, vecs
<1>13. VisitedOK'
  <2>1. /\ DOMAIN nexts' = DOMAIN nexts \ {c} /\ \A x \in DOMAIN nexts' : nexts'[x] = nexts[x]
        /\ drtaVisited' = q /\ nextMap' = nextMap /\ subsets' = subsets
    BY <1>0, <1>1
  <2>2. DOMAIN nexts' \subseteq DOMAIN vecs
    BY <1>4, <2>1
  <2>3. \A x \in DOMAIN nexts' : nexts'[x] = vecs[x] /\ RowOf(nextMap', q, x) = <<>>
    BY <1>4, <2>1
  <2> QED
    BY <1>10, <1>11, <1>12, <2>1, <2>2, <2>3 DEF VisitedOK
<1>14. drtaVisited' # 0
  <2>1. q # 0
    BY <1>4
  <2> QED
    BY <1>0, <1>1, <2>1
<1>15. QueueOK'
  BY <1>3, <1>9, <1>13, <1>14 DEF QueueOK
<1> QED
  BY <1>1, <1>3, <1>15 DEF Making, SweepOK

LEMMA AddTransitionMakes ==
  ASSUME Making, UNCHANGED <<pattern, counterVars>>, Determinized!AddTransition PROVE Making'
<1> DEFINE front == Head(nextLineared)
           key == Determinized!Key(front.states)
           found == key \in DOMAIN drtaStates
<1>0. PICK c, q, b, bound, target, n :
        /\ c = front.via /\ q = drtaVisited /\ b = front.states /\ bound = front.bound
        /\ target = (IF found THEN drtaStates[key] ELSE Len(subsets) + 1)
        /\ n = Len(nextLineared)
  OBVIOUS
<1> DEFINE here == <<q, c>>
           e == [bound |-> bound, target |-> target]
           vecs == Vecs(q)
<1>1. /\ pc = "idle" /\ nexts = <<>> /\ nextLineared # <<>>
      /\ IF found THEN UNCHANGED <<subsets, drtaStates, drtaCounter>>
                  ELSE Determinized!AddNewState(b)
      /\ nextMap' = [k \in DOMAIN nextMap \union {here} |->
                       IF k = here THEN Append(RowOf(nextMap, q, c), e) ELSE nextMap[k]]
      /\ nextLineared' = Tail(nextLineared)
      /\ UNCHANGED <<drtaVisited, nexts, pc>>
  BY <1>0 DEF Determinized!AddTransition, RowOf, Determinized!Fresh, Determinized!linearVars
<1>2. Copied /\ StatesOK /\ MapOK /\ QueueOK
  BY DEF Making
<1>3. Copied' /\ Waiting' = Waiting
  BY <1>2, CopiedStays, WaitingStays
<1>4. /\ q \in DOMAIN subsets /\ q > 0
      /\ \A j \in 1 .. Len(nextLineared) : nextLineared[j].via \in DOMAIN vecs
      /\ \A x \in DOMAIN vecs :
           Handled(vecs[x], RowOf(nextMap, q, x), nextLineared, subsets, x)
  <2>1. drtaVisited \in DOMAIN subsets /\ drtaVisited > 0 /\ VisitedOK
    BY <1>1, <1>2, VisitedIs
  <2>2. DOMAIN nexts = {}
    BY <1>1
  <2> QED
    BY <1>0, <2>1, <2>2 DEF VisitedOK
<1>5. /\ nextLineared \in Seq(Waiting)
      /\ n \in Nat \ {0} /\ front = nextLineared[1] /\ front \in Waiting
      /\ nextLineared' \in Seq(Waiting) /\ Len(nextLineared') = n - 1
      /\ \A j \in 1 .. n - 1 : nextLineared'[j] = nextLineared[j + 1]
  <2>1. nextLineared \in Seq(Waiting)
    BY <1>2 DEF QueueOK
  <2> QED
    BY <1>0, <1>1, <2>1, QueueTail
<1>6. b \in StateOf /\ c \in DOMAIN vecs
  <2>1. 1 \in 1 .. n
    BY <1>5
  <2> QED
    BY <1>0, <1>4, <1>5, <2>1 DEF Waiting
<1>7. DOMAIN key = DOMAIN b
  BY <1>0, SameFinite DEF Determinized!Key
<1>8. /\ StatesOK'
      /\ \A i \in DOMAIN subsets : i \in DOMAIN subsets' /\ subsets'[i] = subsets[i]
      /\ Len(subsets') \in Nat /\ Len(subsets) =< Len(subsets')
      /\ target \in Nat /\ target \in DOMAIN subsets' /\ DOMAIN b \subseteq DOMAIN subsets'[target]
  <2>0. DOMAIN subsets = 1 .. Len(subsets) /\ Len(subsets) \in Nat
    BY <1>2, SubsetsAre
  <2>1. CASE found
    <3>1. UNCHANGED <<subsets, drtaStates, drtaCounter>> /\ target = drtaStates[key]
      BY <1>0, <1>1, <2>1
    <3>2. StatesOK'
      BY <1>2, <3>1, StatesStay
    <3>3. target \in DOMAIN subsets /\ subsets[target] = key
      BY <1>2, <2>1, <3>1 DEF StatesOK
    <3>4. target \in Nat
      BY <2>0, <3>3
    <3> QED
      BY <1>7, <2>0, <3>1, <3>2, <3>3, <3>4
  <2>2. CASE ~found
    <3>1. Determinized!AddNewState(b) /\ target = Len(subsets) + 1
      BY <1>0, <1>1, <2>2
    <3> HIDE DEF found, key
    <3>2. /\ StatesOK'
          /\ DOMAIN subsets' = 1 .. Len(subsets) + 1
          /\ Len(subsets') = Len(subsets) + 1
          /\ \A i \in DOMAIN subsets : i \in DOMAIN subsets' /\ subsets'[i] = subsets[i]
          /\ subsets'[Len(subsets) + 1] = b
      BY <1>2, <1>6, <3>1, StatesAdded
    <3>3. Len(subsets) + 1 \in 1 .. Len(subsets) + 1 /\ Len(subsets) =< Len(subsets) + 1
      BY <2>0
    <3> QED
      BY <2>0, <3>1, <3>2, <3>3
  <2> QED
    BY <2>1, <2>2
<1>9. ASSUME NEW p \in DOMAIN subsets PROVE Vecs(p)' = Vecs(p)
  BY <1>2, <1>8, VecsStay
<1> HIDE DEF key, found, vecs, e
<1>10. /\ RowOf(nextMap', q, c) = Append(RowOf(nextMap, q, c), e)
       /\ \A p, x : <<p, x>> # here => RowOf(nextMap', p, x) = RowOf(nextMap, p, x)
       /\ DOMAIN nextMap' = DOMAIN nextMap \union {here}
  BY <1>1 DEF RowOf
<1>11. ASSUME NEW p \in DOMAIN subsets, NEW x \in DOMAIN Vecs(p), <<p, x>> # here,
              Handled(Vecs(p)[x], RowOf(nextMap, p, x), <<>>, subsets, x)
       PROVE  Handled(Vecs(p)[x], RowOf(nextMap', p, x), <<>>, subsets', x)
  BY <1>8, <1>10, <1>11, HandledGrows
<1>12. MapOK'
  <2>0. drtaVisited' = q /\ q \in 1 .. Len(subsets) /\ q \in 0 .. Len(subsets') /\ DOMAIN subsets = 1 .. Len(subsets)
    <3>1. DOMAIN subsets = 1 .. Len(subsets) /\ Len(subsets) \in Nat
      BY <1>2, SubsetsAre
    <3> QED
      BY <1>0, <1>1, <1>4, <1>8, <3>1
  <2>1. ASSUME NEW k \in DOMAIN nextMap'
        PROVE  /\ k = <<k[1], k[2]>> /\ k[1] \in 1 .. drtaVisited'
               /\ k[2] \in DOMAIN Vecs(k[1])'
    <3>1. CASE k = here
      <4>1. k = <<k[1], k[2]>> /\ k[1] = q /\ k[2] = c
        BY <3>1
      <4>2. Vecs(q)' = vecs /\ q \in 1 .. q
        BY <1>4, <1>9, <2>0 DEF vecs
      <4> QED
        BY <1>6, <2>0, <4>1, <4>2
    <3>2. CASE k # here
      <4>1. k \in DOMAIN nextMap
        BY <1>10, <3>2
      <4>2. k = <<k[1], k[2]>> /\ k[1] \in 1 .. q /\ k[2] \in DOMAIN Vecs(k[1])
        BY <1>0, <1>2, <4>1 DEF MapOK
      <4>3. k[1] \in DOMAIN subsets
        BY <2>0, <4>2
      <4> QED
        BY <1>9, <2>0, <4>2, <4>3
    <3> QED
      BY <3>1, <3>2
  <2>2. ASSUME NEW p \in 1 .. drtaVisited' - 1, NEW x \in DOMAIN Vecs(p)'
        PROVE  Handled(Vecs(p)[x]', RowOf(nextMap', p, x), <<>>, subsets', x)
    <3>1. p \in 1 .. drtaVisited - 1 /\ p # q /\ p \in DOMAIN subsets
      BY <1>0, <2>0
    <3>2. Vecs(p)' = Vecs(p)
      BY <1>9, <3>1
    <3>3. Handled(Vecs(p)[x], RowOf(nextMap, p, x), <<>>, subsets, x)
      BY <1>2, <3>1, <3>2 DEF MapOK
    <3>4. <<p, x>> # here
      BY <3>1
    <3> QED
      BY <1>11, <3>1, <3>2, <3>3, <3>4
  <2>3. drtaVisited' \in 0 .. Len(subsets')
    BY <2>0
  <2> QED
    BY <2>1, <2>2, <2>3 DEF MapOK
<1>13. Vecs(drtaVisited)' = vecs
  <2>1. drtaVisited' = q /\ subsets'[q] = subsets[q] /\ counted' = counted
    BY <1>0, <1>1, <1>4, <1>8 DEF counterVars
  <2> QED
    BY <2>1 DEF Vecs, Determinized!ConstructNexts, vecs
<1>14. ASSUME NEW x \in DOMAIN vecs
       PROVE  Handled(vecs[x], RowOf(nextMap', q, x), nextLineared', subsets', x)
  <2>1. Handled(vecs[x], RowOf(nextMap, q, x), nextLineared, subsets', x)
    BY <1>4, <1>8, HandledGrows
  <2>2. CASE x = c
    <3>1. Handled(vecs[c], Append(RowOf(nextMap, q, c), e), Tail(nextLineared), subsets', c)
      BY <1>0, <1>1, <1>5, <1>8, <2>1, <2>2, HandledEnters DEF e
    <3> QED
      BY <1>1, <1>10, <2>2, <3>1
  <2>3. CASE x # c
    <3>1. Handled(vecs[x], RowOf(nextMap, q, x), Tail(nextLineared), subsets', x)
      BY <1>0, <1>1, <1>5, <2>1, <2>3, HandledWaits
    <3>2. RowOf(nextMap', q, x) = RowOf(nextMap, q, x)
      BY <1>10, <2>3
    <3> QED
      BY <1>1, <3>1, <3>2
  <2> QED
    BY <2>2, <2>3
<1>15. VisitedOK'
  <2>1. DOMAIN nexts' = {} /\ drtaVisited' = q
    BY <1>0, <1>1
  <2>2. ASSUME NEW j \in 1 .. Len(nextLineared') PROVE nextLineared'[j].via \in DOMAIN vecs
    <3>1. j \in 1 .. n - 1 /\ j + 1 \in 1 .. n
      BY <1>5
    <3> QED
      BY <1>0, <1>4, <1>5, <3>1
  <2> QED
    BY <1>13, <1>14, <2>1, <2>2 DEF VisitedOK
<1>16. drtaVisited' # 0
  BY <1>0, <1>1, <1>4
<1>17. QueueOK'
  BY <1>3, <1>5, <1>15, <1>16 DEF QueueOK
<1>18. SweepOK'
  BY <1>1 DEF SweepOK
<1> QED
  BY <1>3, <1>8, <1>12, <1>17, <1>18 DEF Making

(* The construction keeps its invariant, as long as the vectors it makes   *)
(* are ones that linearlizeNexts is for.                                   *)
LEMMA StepMakes ==
  ASSUME Making, SweepsIntervals, UNCHANGED <<pattern, counterVars>>, Determinized!Next
  PROVE  Making'
BY AddInitialMakes, VisitMakes, LinearizeMakes, SweepMakes, SweptMakes, AddTransitionMakes
  DEF Determinized!Next

-----------------------------------------------------------------------------
(* The machine made.                                                       *)

Made == Making /\ Determinized!Done

LEMMA MadeComplete ==
  ASSUME Made
  PROVE  /\ 1 \in DOMAIN subsets
         /\ DOMAIN subsets = 1 .. Len(subsets) /\ Len(subsets) \in Nat
         /\ \A q \in DOMAIN subsets : \A c \in DOMAIN Vecs(q) :
              Handled(Vecs(q)[c], RowOf(nextMap, q, c), <<>>, subsets, c)
         /\ \A k \in DOMAIN nextMap : /\ k = <<k[1], k[2]>> /\ k[1] \in DOMAIN subsets
                                      /\ k[2] \in DOMAIN Vecs(k[1])
<1>1. /\ StatesOK /\ MapOK /\ QueueOK
      /\ subsets # <<>> /\ nexts = <<>> /\ nextLineared = <<>> /\ drtaVisited = Len(subsets)
  BY DEF Made, Making, Determinized!Done, Determinized!Idle
<1>2. PICK n : n = Len(subsets)
  OBVIOUS
<1>3. DOMAIN subsets = 1 .. n /\ n \in Nat
  BY <1>1, <1>2, SubsetsAre
<1>4. n > 0
  <2> DEFINE S == StateOf
  <2>1. subsets \in Seq(S)
    BY <1>1 DEF StatesOK
  <2> HIDE DEF S
  <2> QED
    BY <1>1, <1>2, <2>1
<1>5. 1 \in 1 .. n
  BY <1>3, <1>4
<1>6. VisitedOK
  BY <1>1, <1>2, <1>3, <1>4 DEF QueueOK
<1>7. ASSUME NEW q \in 1 .. n, NEW c \in DOMAIN Vecs(q)
      PROVE  Handled(Vecs(q)[c], RowOf(nextMap, q, c), <<>>, subsets, c)
  <2>1. CASE q = n
    <3>1. DOMAIN nexts = {} /\ q = drtaVisited
      BY <1>1, <1>2, <2>1
    <3> QED
      BY <1>1, <1>6, <3>1 DEF VisitedOK
  <2>2. CASE q # n
    <3>1. q \in 1 .. drtaVisited - 1
      BY <1>1, <1>2, <1>3, <2>2
    <3> QED
      BY <1>1, <3>1 DEF MapOK
  <2> QED
    BY <2>1, <2>2
<1>8. \A k \in DOMAIN nextMap : /\ k = <<k[1], k[2]>> /\ k[1] \in 1 .. n
                                /\ k[2] \in DOMAIN Vecs(k[1])
  BY <1>1, <1>2 DEF MapOK
<1> QED
  BY <1>2, <1>3, <1>5, <1>7, <1>8

LEMMA SuccessorIs ==
  ASSUME NEW q, NEW c, NEW d
  PROVE  Determinized!Successor(q, c, d) =
           IF <<q, c>> \notin DOMAIN nextMap THEN 1
           ELSE LET row == RowOf(nextMap, q, c)
                    found == {i \in DOMAIN row : ~Determinized!Below(row[i].bound, d)}
                IN  row[CHOOSE i \in found : \A j \in found : i =< j].target
BY DEF Determinized!Successor, RowOf

LEMMA SuccessorExists ==
  ASSUME Made, NEW q \in DOMAIN subsets, NEW c, NEW d \in Nat \ {0}
  PROVE  Determinized!Successor(q, c, d) \in DOMAIN subsets
<1>1. CASE <<q, c>> \notin DOMAIN nextMap
  BY <1>1, MadeComplete, SuccessorIs
<1>2. CASE <<q, c>> \in DOMAIN nextMap
  <2>1. c \in DOMAIN Vecs(q)
    BY <1>2, MadeComplete
  <2> DEFINE row == RowOf(nextMap, q, c)
             found == {i \in DOMAIN row : ~Determinized!Below(row[i].bound, d)}
             k == CHOOSE i \in found : \A j \in found : i =< j
  <2>2. Handled(Vecs(q)[c], row, <<>>, subsets, c)
    BY <2>1, MadeComplete
  <2>3. Determinized!Successor(q, c, d) = row[k].target
    BY <1>2, SuccessorIs
  <2> HIDE DEF row
  <2>4. row[k].target \in DOMAIN subsets
    BY <2>2, HandledServes
  <2> QED
    BY <2>3, <2>4
<1> QED
  BY <1>1, <1>2

(* A state that has the configuration of a run leads to one that has its   *)
(* next.                                                                   *)
LEMMA MachineLeads ==
  ASSUME Made, NEW q \in DOMAIN subsets, NEW conf \in DOMAIN subsets[q],
         NEW p \in Valuations, In(p, conf[2]), NEW d \in Nat \ {0},
         NEW t \in counted.trans, t.at = conf[1], Satisfies(After(p, d), t.guard),
         NEW target, target = Determinized!Successor(q, t.via, d)
  PROVE  Determinized!Covers(target, t.to, ResetPoint(After(p, d), t.resetVars))
<1>1. Copied /\ StatesOK
  BY DEF Made, Making
<1>2. IsStateOf(subsets[q]) /\ conf \in Confs
  <2>1. IsStateOf(subsets[q])
    BY <1>1, SubsetsAre, StateOfIs
  <2> QED
    BY <2>1 DEF IsStateOf
<1>3. PICK e : e = Determinized!NextConf(conf, t)
  OBVIOUS
<1>4. /\ IsSatisfiable(Clocks, Guarded(conf[2], t.guard))
      /\ Meets(-d, e.lower) /\ Meets(d, e.upper)
      /\ e.conf[1] = t.to /\ In(ResetPoint(After(p, d), t.resetVars), e.conf[2])
  BY <1>1, <1>2, <1>3, NextConfServes
<1> DEFINE vec == Vecs(q)[t.via]
<1>5. t.via \in DOMAIN Vecs(q) /\ \E i \in DOMAIN vec : vec[i] = e
  BY <1>1, <1>2, <1>3, <1>4, VectorLists DEF Vecs
<1>6. PICK i \in DOMAIN vec : vec[i] = e
  BY <1>5
<1> DEFINE row == RowOf(nextMap, q, t.via)
           found == {j \in DOMAIN row : ~Determinized!Below(row[j].bound, d)}
           k == CHOOSE j \in found : \A l \in found : j =< l
<1>7. Handled(vec, row, <<>>, subsets, t.via)
  BY <1>5, MadeComplete
<1>8. row = <<>> \/ target = row[k].target
  <2>1. CASE <<q, t.via>> \notin DOMAIN nextMap
    BY <2>1 DEF RowOf
  <2>2. CASE <<q, t.via>> \in DOMAIN nextMap
    BY <2>2, SuccessorIs
  <2> QED
    BY <2>1, <2>2
<1> HIDE DEF row, vec
<1>9. /\ row # <<>>
      /\ Sweeping!IsElement(vec[i])
      /\ Sweeping!Within(vec[i], Half(d)) => vec[i].conf \in DOMAIN subsets[row[k].target]
  BY <1>6, <1>7, HandledServes
<1>10. Sweeping!Within(e, Half(d))
  BY <1>4, <1>6, <1>9, WithinAtHalf
<1>11. e.conf \in DOMAIN subsets[target]
  BY <1>6, <1>8, <1>9, <1>10
<1> QED
  BY <1>4, <1>11, SameZones DEF Determinized!Covers

-----------------------------------------------------------------------------
(* What the machine depends on: the files fit the matrices, and no event   *)
(* has duration 0, at time 0 or at the time of the one before.             *)
InputsFit ==
  /\ MinDuration > 0
  /\ \A f \in Files : Fits(ConvTA(f))

(* The state of the machine covers the runs that are alive.                *)
Follows ==
  /\ currentState \in DOMAIN subsets
  /\ word \in Seq(Letters \X Durations) /\ drained \in Nat
  /\ \A r \in runs :
       /\ r[1] \in 1 .. Filter!Now
       /\ r[2][2] \in Valuations
       /\ \E i \in Members : /\ states[i] = [old |-> r[2][1], count |-> Count(r)]
                             /\ Determinized!Covers(currentState, i, r[2][2])

(***************************************************************************)
(* The inductive invariant.  Until the automaton with counters is complete *)
(* the second construction has not begun, until the machine is complete    *)
(* nothing was read, and from then on the machine follows the runs.        *)
(***************************************************************************)
IInv ==
  /\ Fits(pattern)
  /\ Copying!IInv /\ IsFiniteSet(next) /\ counted = Counted
  /\ Copying!Done => Making
  /\ ~Copying!Done => Determinized!Start
  /\ ~Built => Filter!Start /\ runs = {}
  /\ Built => filterMachine = Machine /\ Made /\ Follows

LEMMA MadeStays ==
  ASSUME Made, UNCHANGED <<pattern, counterVars, machineVars>>
  PROVE  Made' /\ Machine' = Machine
<1>1. /\ Copied /\ StatesOK /\ MapOK /\ QueueOK /\ SweepOK /\ pc = "idle"
  BY DEF Made, Making, Determinized!Done, Determinized!Idle
<1>2. UNCHANGED <<subsets, drtaStates, drtaCounter, nextMap, drtaVisited, nexts, nextLineared, pc>>
  BY DEF machineVars
<1>3. Copied' /\ StatesOK' /\ MapOK' /\ QueueOK'
  BY <1>1, <1>2, CopiedStays, StatesStay, MapStays, QueueStays
<1>4. SweepOK'
  BY <1>1, <1>2 DEF SweepOK
<1>5. Determinized!Done'
  BY <1>2 DEF Made, Determinized!Done, Determinized!Idle
<1>6. Machine' = Machine
  BY <1>2 DEF Machine, Determinized!Successor, Determinized!Below
<1> QED
  BY <1>3, <1>4, <1>5, <1>6 DEF Made, Making

LEMMA CopyingStops == ASSUME Copying!IInv, Copying!Done PROVE ~Copying!Next
BY DEF Copying!Done, Copying!Next, Copying!AddInitial, Copying!Visit,
  Copying!CopiesToVisit, Copying!Redirect, Copying!InitialCopied,
  Copying!IInv, Copying!TypeOK, Copying!Phases

LEMMA StartMakingPrimed == ASSUME Copied', Determinized!Start' PROVE Making'
BY StartMaking, PTL

LEMMA InitIInv == ASSUME InputsFit, Init PROVE IInv
<1>1. Fits(pattern) /\ counted = Counted /\ Determinized!Start
  BY DEF Init, InputsFit
<1>2. Copying!Start
  BY SameCopying DEF Init
<1>3. Copying!IInv /\ next = {}
  BY <1>2, BufferAssumption, Copying!StartIInv DEF Copying!Start
<1>4. IsFiniteSet(next)
  BY <1>3, FS_EmptySet
<1>5. Copying!Done => Making
  BY <1>1, <1>3, <1>4, StartMaking DEF Copied
<1>6. ~Built /\ Filter!Start /\ runs = {}
  BY DEF Init, Built
<1> QED
  BY <1>1, <1>3, <1>4, <1>5, <1>6 DEF IInv

LEMMA AddCounterKeeps == ASSUME IInv, AddCounter PROVE IInv'
<1>1. /\ Copying!Next /\ counted' = Counted'
      /\ UNCHANGED <<machineVars, filterMachine, filterVars, runs>>
  BY SameCopying DEF AddCounter
<1>2. pattern' = pattern
  BY <1>1 DEF Copying!Next, Copying!AddInitial, Copying!Visit, Copying!Redirect
<1>3. Copying!IInv'
  BY <1>1, BufferAssumption, Copying!StepIInv DEF IInv
<1>4. ~Copying!Done
  BY <1>1, CopyingStops DEF IInv
<1>5. ~Built /\ Determinized!Start /\ Filter!Start /\ runs = {}
  BY <1>4 DEF IInv, Made, Making, Copied
<1>6. Fits(pattern)'
  BY <1>2 DEF IInv, Fits, ClockSize
<1>7. IsFiniteSet(next')
  <2>1. next' = next \/ \E x : next' = next \union {x}
    BY <1>1 DEF Copying!Next, Copying!AddInitial, Copying!Visit, Copying!Redirect
  <2>2. IsFiniteSet(next)
    BY DEF IInv
  <2>3. \A x : IsFiniteSet(next \union {x})
    BY <2>2, FS_AddElement
  <2> QED
    BY <2>1, <2>2, <2>3
<1>8. Determinized!Start' /\ Filter!Start' /\ ~Built'
  BY <1>1, <1>5 DEF Determinized!Start, Filter!Start, Built, NoMachine, machineVars, filterVars
<1>9. Copying!Done' => Making'
  <2>1. SUFFICES ASSUME Copying!Done' PROVE Making'
    OBVIOUS
  <2>2. Copied'
    BY <1>1, <1>3, <1>6, <1>7, <2>1 DEF Copied
  <2> QED
    BY <1>8, <2>2, StartMakingPrimed
<1> QED
  BY <1>1, <1>3, <1>5, <1>6, <1>7, <1>8, <1>9 DEF IInv

LEMMA CopyingStays ==
  ASSUME IInv, UNCHANGED <<pattern, counterVars>>
  PROVE  /\ Fits(pattern)' /\ Copying!IInv' /\ IsFiniteSet(next)' /\ (counted = Counted)'
         /\ Copying!Done' <=> Copying!Done
<1>1. UNCHANGED Copying!vars /\ counted' = counted
  BY DEF Copying!vars, counterVars
<1>2. Copying!IInv'
  BY <1>1, BufferAssumption, Copying!StepIInv DEF IInv
<1>3. Copying!Done' <=> Copying!Done
  BY <1>1 DEF Copying!vars, Copying!Done, Copying!InitialCopied
<1>4. (counted = Counted)'
  BY <1>1 DEF Copying!vars, Counted, WithCounter!Result, IInv
<1>5. Fits(pattern)' /\ IsFiniteSet(next)'
  BY <1>1 DEF IInv, Fits, Copying!vars, ClockSize
<1> QED
  BY <1>2, <1>3, <1>4, <1>5

LEMMA MachineStarts ==
  ASSUME Made, filterMachine = Machine, currentState = 1, word = <<>>, drained = 0, runs = {}
  PROVE  Follows
<1>1. 1 \in DOMAIN subsets
  BY MadeComplete
<1> DEFINE S == Letters \X Durations
<1>2. <<>> \in Seq(S)
  OBVIOUS
<1> QED
  BY <1>1, <1>2 DEF Follows

LEMMA MachineStartsPrimed ==
  ASSUME Made', (filterMachine = Machine)', (currentState = 1)', (word = <<>>)',
         (drained = 0)', (runs = {})'
  PROVE  Follows'
BY MachineStarts, PTL

LEMMA ToTimedMooreMachineKeeps ==
  ASSUME SweepsIntervals, IInv, ToTimedMooreMachine PROVE IInv'
<1>1. /\ Copying!Done /\ ~Built /\ Making /\ Filter!Start /\ runs = {}
      /\ UNCHANGED <<pattern, counterVars, filterVars, runs>>
  BY SameCopying DEF ToTimedMooreMachine, IInv, Built
<1>2. /\ Fits(pattern)' /\ Copying!IInv' /\ IsFiniteSet(next)' /\ (counted = Counted)'
      /\ Copying!Done'
  BY <1>1, CopyingStays
<1>3. CASE Determinized!Done
  <2>1. filterMachine' = Machine /\ UNCHANGED machineVars
    BY <1>3 DEF ToTimedMooreMachine
  <2>2. Made' /\ Machine' = Machine
    BY <1>1, <1>3, <2>1, MadeStays DEF Made
  <2>3. currentState' = 1 /\ word' = <<>> /\ drained' = 0 /\ runs' = {}
    BY <1>1 DEF Filter!Start, filterVars, Built, NoMachine
  <2>4. (filterMachine = Machine)'
    BY <2>1, <2>2
  <2>5. Follows'
    BY <2>2, <2>3, <2>4, MachineStartsPrimed
  <2>6. Built'
    <3>1. Made /\ 1 \in DOMAIN drtaCounter
      BY <1>1, <1>3, MadeComplete, SubsetsAre DEF Made, Making
    <3>2. Machine.counter = drtaCounter /\ NoMachine.counter = <<>>
      BY DEF Machine, NoMachine
    <3>3. filterMachine' # NoMachine
      BY <2>1, <3>1, <3>2
    <3> QED
      BY <3>3 DEF Built, NoMachine
  <2>7. Making'
    BY <2>2 DEF Made
  <2> QED
    BY <1>2, <2>2, <2>4, <2>5, <2>6, <2>7 DEF IInv
<1>4. CASE ~Determinized!Done
  <2>1. Determinized!Next /\ filterMachine' = filterMachine
    BY <1>4 DEF ToTimedMooreMachine
  <2>2. Making'
    BY <1>1, <2>1, StepMakes
  <2>3. ~Built' /\ Filter!Start' /\ runs' = {}
    BY <1>1, <2>1 DEF Built, NoMachine, Filter!Start, filterVars
  <2> QED
    BY <1>2, <2>2, <2>3 DEF IInv
<1> QED
  BY <1>3, <1>4

-----------------------------------------------------------------------------
(* The program runs the machine it has made as the machine module does.    *)

Running == INSTANCE MooreMachineProofs WITH
  Alphabet <- Letters \X Durations, Machines <- {}, machine <- filterMachine

LEMMA SameFeed ==
  ASSUME NEW c PROVE Filter!Feed(c) <=> Running!Feed(c)
BY DEF Filter!Feed, Running!Feed, Filter!Successor, Running!Successor,
  Filter!Enable, Running!Enable, Filter!ShiftLeft, Running!ShiftLeft,
  Filter!EnabledBits, Running!EnabledBits, Filter!LowBits, Running!LowBits,
  Filter!Positions, Running!Positions, Filter!Now, Running!Now

LEMMA SameRunning ==
  /\ Filter!Now = Running!Now
  /\ Filter!Start <=> Running!Start
  /\ \A c : Filter!Fill(c) <=> Running!Fill(c)
  /\ \A c : Filter!Forward(c) <=> Running!Forward(c)
  /\ Filter!EndOfInput <=> Running!EndOfInput
  /\ Filter!Drain <=> Running!Drain
<1>1. Filter!Emitted = Running!Emitted
  BY DEF Filter!Emitted, Running!Emitted, Filter!OldestBit, Running!OldestBit
<1> QED
  BY <1>1, SameFeed DEF Filter!Now, Running!Now, Filter!Start, Running!Start,
    Filter!Fill, Running!Fill, Filter!Forward, Running!Forward,
    Filter!EndOfInput, Running!EndOfInput, Filter!ToFlush, Running!ToFlush,
    Filter!Drain, Running!Drain, Filter!Pad, Running!Pad, Filter!Flush, Running!Flush,
    Filter!MoreToFlush, Running!MoreToFlush

-----------------------------------------------------------------------------
(* The machine and the runs of the pattern.                                *)

(* The counter follows the length of a run, also when it begins anew.      *)
LEMMA CountOfNext ==
  ASSUME NEW now \in Nat, NEW first \in 1 .. now + 1
  PROVE  (((now + 1) - first) % BufferSize) + 1 =
           Copying!NextCount(IF first = now + 1 THEN 0
                             ELSE ((now - first) % BufferSize) + 1)
<1> BufferSize \in Nat \ {0}
  BY BufferAssumption
<1>1. CASE first = now + 1
  <2>1. 0 % BufferSize = 0
    OBVIOUS
  <2> QED
    BY <1>1, <2>1 DEF Copying!NextCount
<1>2. CASE first # now + 1
  <2> DEFINE a == now - first
  <2>1. a \in Nat /\ (now + 1) - first = a + 1
    BY <1>2
  <2>2. a % BufferSize \in 0 .. BufferSize - 1
    BY <2>1, RemainderInRange
  <2>3. (a + 1) % BufferSize =
          IF (a % BufferSize) + 1 = BufferSize THEN 0 ELSE (a % BufferSize) + 1
    BY <2>1, RemainderOfNext
  <2> QED
    BY <1>2, <2>1, <2>2, <2>3 DEF Copying!NextCount
<1> QED
  BY <1>1, <1>2

(* Where a run that reads e comes from.                                    *)
LEMMA RunsFollow ==
  ASSUME NEW e, Follow(e), NEW r \in runs'
  PROVE  \E x, t :
           /\ t \in pattern.trans /\ t.via.c = e[1]
           /\ x \in runs \/ (x[1] = Filter!Now + 1 /\ x[2] \in Started(pattern))
           /\ t.at = x[2][1] /\ Satisfies(After(x[2][2], e[2]), t.via.guard)
           /\ r[1] = x[1] /\ r[2][1] = t.to
           /\ r[2][2] = ResetPoint(After(x[2][2], e[2]), t.via.resetVars)
<1> DEFINE begun == {<<Filter!Now + 1, conf>> : conf \in Started(pattern)}
           extended == runs \union begun
           moved(x) == {<<x[1], conf>> : conf \in Moved(pattern, {x[2]}, e[1], e[2])}
<1>1. runs' = UNION {moved(x) : x \in extended}
  BY DEF Follow
<1>2. PICK x \in extended : r \in moved(x)
  <2> HIDE DEF extended, moved
  <2> QED
    BY <1>1
<1>3. PICK conf \in Moved(pattern, {x[2]}, e[1], e[2]) : r = <<x[1], conf>>
  BY <1>2
<1> HIDE DEF moved
<1>4. \E t \in pattern.trans :
        /\ t.at = x[2][1] /\ t.via.c = e[1] /\ Satisfies(After(x[2][2], e[2]), t.via.guard)
        /\ conf = <<t.to, ResetPoint(After(x[2][2], e[2]), t.via.resetVars)>>
  <2> DEFINE can == {q \in {x[2]} \X pattern.trans :
                       /\ q[2].at = q[1][1]
                       /\ q[2].via.c = e[1]
                       /\ Satisfies(After(q[1][2], e[2]), q[2].via.guard)}
             made(p) == <<p[2].to, ResetPoint(After(p[1][2], e[2]), p[2].via.resetVars)>>
  <2>1. Moved(pattern, {x[2]}, e[1], e[2]) = {made(p) : p \in can}
    BY DEF Moved
  <2>2. PICK p \in can : conf = made(p)
    <3> HIDE DEF can, made
    <3> QED
      BY <1>3, <2>1
  <2>3. p[1] = x[2] /\ p[2] \in pattern.trans
    OBVIOUS
  <2> QED
    BY <2>2, <2>3
<1>5. x \in runs \/ (x[1] = Filter!Now + 1 /\ x[2] \in Started(pattern))
  BY <1>2
<1> QED
  BY <1>3, <1>4, <1>5

LEMMA PointsMove ==
  ASSUME NEW p \in Valuations, NEW d \in Nat, NEW R
  PROVE  ResetPoint(After(p, d), R) \in Valuations
<1>1. \A x \in 1 .. Clocks : p[x] + d \in Nat
  BY DEF Valuations
<1> QED
  BY <1>1 DEF ResetPoint, After, Valuations

LEMMA CopyingUnfolds ==
  ASSUME Copied
  PROVE  /\ \A s \in pattern.initial : \E i \in initialStates : states[i].old = s
         /\ \A i \in initialStates : states[i].count = 0
         /\ \A i \in Members : \A t \in pattern.trans :
              t.at = states[i].old => \E u \in next : u.at = i /\ Copying!IsCopy(u, t)
         /\ initialStates \subseteq Members
         /\ \A u \in next : u.to \in Members
         /\ \A i \in Members : states[i] = [old |-> states[i].old, count |-> states[i].count]
<1>1. Copying!Unfolds
  BY BufferAssumption, Copying!IInvUnfolds DEF Copied
<1>2. /\ states \in Seq([old : Copying!Originals, count : 0 .. BufferSize])
      /\ initialStates \subseteq Members
  BY DEF Copied, Copying!IInv, Copying!TypeOK, Members
<1>3. \A i \in Members : states[i] \in [old : Copying!Originals, count : 0 .. BufferSize]
  <2> DEFINE R == [old : Copying!Originals, count : 0 .. BufferSize]
  <2>1. states \in Seq(R)
    BY <1>2
  <2> HIDE DEF R
  <2>2. \A i \in Members : states[i] \in R
    BY <2>1 DEF Members
  <2> QED
    BY <2>2 DEF R
<1>4. \A i \in Members : states[i] = [old |-> states[i].old, count |-> states[i].count]
  BY <1>3
<1>5. \A u \in next : u.to \in Members
  BY CountedIs
<1> QED
  BY <1>1, <1>2, <1>4, <1>5 DEF Copied, Copying!Done, Copying!InitialCopied, Copying!Unfolds, Members

(* A run that has read something goes on in the state after.               *)
LEMMA RunLeads ==
  ASSUME Made, NEW q \in DOMAIN subsets, NEW i \in Members, NEW p \in Valuations,
         Determinized!Covers(q, i, p), NEW d \in Nat \ {0},
         NEW t \in pattern.trans, t.at = states[i].old, Satisfies(After(p, d), t.via.guard),
         NEW target, target = Determinized!Successor(q, t.via.c, d)
  PROVE  \E j \in Members :
           /\ states[j] = [old |-> t.to, count |-> Copying!NextCount(states[i].count)]
           /\ Determinized!Covers(target, j, ResetPoint(After(p, d), t.via.resetVars))
<1>1. Copied
  BY DEF Made, Making
<1>2. PICK conf \in DOMAIN subsets[q] : conf[1] = i /\ In(p, conf[2])
  BY SameZones DEF Determinized!Covers
<1>3. PICK u \in next : u.at = i /\ Copying!IsCopy(u, t)
  BY <1>1, CopyingUnfolds
<1>4. /\ u.via = t.via /\ u.to \in Members
      /\ states[u.to] = [old |-> t.to, count |-> Copying!NextCount(states[i].count)]
  BY <1>1, <1>3, CopyingUnfolds DEF Copying!IsCopy
<1>5. PICK v : v = RecordOf(u)
  OBVIOUS
<1>6. /\ v \in counted.trans /\ v.at = conf[1] /\ v.via = t.via.c /\ v.guard = t.via.guard
      /\ v.resetVars = t.via.resetVars /\ v.to = u.to
  <2>1. v \in counted.trans
    BY <1>1, <1>5, CountedIs
  <2> QED
    BY <1>2, <1>3, <1>4, <1>5, <2>1 DEF RecordOf
<1>7. Determinized!Covers(target, v.to, ResetPoint(After(p, d), v.resetVars))
  BY <1>2, <1>6, MachineLeads
<1> QED
  BY <1>4, <1>6, <1>7

(* Every state covers a run that is about to begin.                        *)
LEMMA BegunCovered ==
  ASSUME Made, NEW q \in DOMAIN subsets, NEW conf \in Started(pattern)
  PROVE  /\ conf[2] \in Valuations
         /\ \E i \in Members : /\ states[i] = [old |-> conf[1], count |-> 0]
                               /\ Determinized!Covers(q, i, conf[2])
<1>1. Copied /\ StatesOK
  BY DEF Made, Making
<1>2. conf[1] \in pattern.initial /\ conf[2] = [x \in 1 .. Clocks |-> 0]
  <2>1. PICK s \in pattern.initial : conf = <<s, [x \in 1 .. Clocks |-> 0]>>
    BY DEF Started
  <2> QED
    BY <2>1
<1>3. PICK i \in initialStates : states[i].old = conf[1]
  BY <1>1, <1>2, CopyingUnfolds
<1>4. i \in Members /\ states[i] = [old |-> conf[1], count |-> 0]
  <2>1. i \in Members /\ states[i].count = 0
    BY <1>1, CopyingUnfolds
  <2>2. states[i] = [old |-> states[i].old, count |-> states[i].count]
    BY <1>1, <2>1, CopyingUnfolds
  <2> QED
    BY <1>3, <2>1, <2>2
<1>5. <<i, Zero(Clocks)>> \in DOMAIN subsets[q]
  <2>1. IsStateOf(subsets[q])
    BY <1>1, SubsetsAre, StateOfIs
  <2> QED
    BY <1>1, <2>1, InitConfsAreConfs DEF IsStateOf
<1>6. In(conf[2], Zero(Clocks))
  BY <1>2, ZeroIsDiagonal
<1>7. Determinized!Covers(q, i, conf[2])
  BY <1>5, <1>6, SameZones DEF Determinized!Covers
<1> QED
  BY <1>2, <1>4, <1>7 DEF Valuations

(* feed() and next() of the machine that was made.                         *)
LEMMA FedSuccessor ==
  ASSUME Made, filterMachine = Machine, currentState \in DOMAIN subsets, MinDuration > 0,
         NEW e, NEW q, q = Filter!Successor(e)
  PROVE  /\ q \in DOMAIN subsets
         /\ \A c : \A d \in Durations : e = <<c, d>> => q = Determinized!Successor(currentState, c, d)
<1>1. Durations \subseteq Nat \ {0}
  BY DurationsAssumption DEF Durations
<1> DEFINE dom == {<<k[1], <<k[2], d>>>> : k \in DOMAIN nextMap, d \in Durations}
           here == <<currentState, e>>
<1>2. /\ filterMachine.initial = 1
      /\ DOMAIN filterMachine.next = dom
      /\ \A qe \in dom : filterMachine.next[qe] = Determinized!Successor(qe[1], qe[2][1], qe[2][2])
  BY DEF Machine
<1>3. q = IF here \in dom THEN filterMachine.next[here] ELSE 1
  BY <1>2 DEF Filter!Successor
<1>4. \A k \in DOMAIN nextMap : k = <<k[1], k[2]>>
  BY MadeComplete
<1>5. 1 \in DOMAIN subsets
  BY MadeComplete
<1>6. CASE here \in dom
  <2>1. PICK k \in DOMAIN nextMap, d \in Durations : here = <<k[1], <<k[2], d>>>>
    BY <1>6
  <2>2. k[1] = currentState /\ e = <<k[2], d>> /\ e[1] = k[2] /\ e[2] = d
    BY <2>1
  <2>3. here[1] = currentState /\ here[2][1] = k[2] /\ here[2][2] = d
    BY <2>2
  <2>4. q = Determinized!Successor(currentState, k[2], d)
    <3> HIDE DEF dom, here
    <3> QED
      BY <1>2, <1>3, <1>6, <2>3
  <2>5. q \in DOMAIN subsets
    BY <1>1, <2>4, SuccessorExists
  <2> QED
    BY <2>2, <2>4, <2>5
<1>7. CASE here \notin dom
  <2>1. q = 1
    BY <1>3, <1>7
  <2>2. ASSUME NEW c, NEW d \in Durations, e = <<c, d>>
        PROVE  <<currentState, c>> \notin DOMAIN nextMap
    <3>1. SUFFICES ASSUME <<currentState, c>> \in DOMAIN nextMap PROVE here \in dom
      BY <1>7
    <3>2. here = <<<<currentState, c>>[1], <<<<currentState, c>>[2], d>>>>
      BY <2>2
    <3> QED
      BY <3>1, <3>2
  <2>3. ASSUME NEW c, NEW d \in Durations, e = <<c, d>>
        PROVE  q = Determinized!Successor(currentState, c, d)
    BY <2>1, <2>2, <2>3, SuccessorIs
  <2> QED
    BY <1>5, <2>1, <2>3
<1> QED
  BY <1>6, <1>7

(* One more event, fed to the machine and read by the runs.                *)
Advance(e) ==
  /\ Filter!Feed(e) /\ Follow(e)
  /\ Filter!Now \in Nat /\ Filter!Now' = Filter!Now + 1
  /\ states' = states /\ subsets' = subsets /\ pattern' = pattern

(* The mask is read by no edge, so that every run ends.                    *)
LEMMA MaskEndsRuns ==
  ASSUME Made, Follow(MaskChar) PROVE runs' = {}
<1>1. SUFFICES ASSUME NEW r \in runs' PROVE FALSE
  OBVIOUS
<1>2. PICK t \in pattern.trans : t.via.c = MaskChar[1]
  BY RunsFollow
<1> QED
  BY <1>2 DEF MaskChar, Made, Making, Copied, Fits

(* Where a run that is alive after the event is found in the machine.      *)
LEMMA RunsCovered ==
  ASSUME MinDuration > 0, Made, filterMachine = Machine, Follows,
         NEW e \in Letters \X Durations, Advance(e), NEW r \in runs'
  PROVE  /\ r[1] \in 1 .. Filter!Now + 1
         /\ r[2][2] \in Valuations
         /\ \E i \in Members :
              /\ states[i] = [old |-> r[2][1],
                              count |-> (((Filter!Now + 1) - r[1]) % BufferSize) + 1]
              /\ Determinized!Covers(currentState', i, r[2][2])
<1> DEFINE n == Filter!Now  q == currentState
           count(x) == (((n + 1) - x) % BufferSize) + 1
           before(x) == IF x = n + 1 THEN 0 ELSE ((n - x) % BufferSize) + 1
<1>1. n \in Nat
  BY DEF Advance
<1>2. PICK c, d : e = <<c, d>> /\ d \in Durations /\ e[1] = c /\ e[2] = d
  OBVIOUS
<1>3. d \in Nat \ {0}
  BY <1>2, DurationsAssumption DEF Durations
<1>4. q \in DOMAIN subsets
  BY DEF Follows
<1>5. currentState' = Determinized!Successor(q, c, d)
  <2>1. currentState' = Filter!Successor(e)
    BY DEF Advance, Filter!Feed
  <2> QED
    BY <1>2, <1>4, <2>1, FedSuccessor
<1>6. PICK x, t :
        /\ t \in pattern.trans /\ t.via.c = c
        /\ x \in runs \/ (x[1] = n + 1 /\ x[2] \in Started(pattern))
        /\ t.at = x[2][1] /\ Satisfies(After(x[2][2], d), t.via.guard)
        /\ r[1] = x[1] /\ r[2][1] = t.to
        /\ r[2][2] = ResetPoint(After(x[2][2], d), t.via.resetVars)
  BY <1>2, RunsFollow DEF Advance
<1> DEFINE p == x[2][2]
<1>7. /\ x[1] \in 1 .. n + 1 /\ p \in Valuations
      /\ \E i \in Members : /\ states[i] = [old |-> x[2][1], count |-> before(x[1])]
                            /\ Determinized!Covers(q, i, p)
  <2>1. CASE x \in runs
    <3>1. x[1] \in 1 .. n /\ p \in Valuations
      BY <2>1 DEF Follows
    <3>2. x[1] \in 1 .. n + 1 /\ before(x[1]) = Count(x)
      BY <1>1, <3>1 DEF Count
    <3>3. \E i \in Members : /\ states[i] = [old |-> x[2][1], count |-> Count(x)]
                             /\ Determinized!Covers(q, i, p)
      BY <2>1 DEF Follows
    <3> QED
      BY <3>1, <3>2, <3>3
  <2>2. CASE x[1] = n + 1 /\ x[2] \in Started(pattern)
    <3>1. x[1] \in 1 .. n + 1 /\ before(x[1]) = 0
      BY <1>1, <2>2
    <3> QED
      BY <1>4, <2>2, <3>1, BegunCovered
  <2> QED
    BY <1>6, <2>1, <2>2
<1>8. count(x[1]) = Copying!NextCount(before(x[1]))
  BY <1>1, <1>7, CountOfNext
<1> HIDE DEF n, q, count, before, p
<1>9. PICK i \in Members : /\ states[i] = [old |-> x[2][1], count |-> before(x[1])]
                           /\ Determinized!Covers(q, i, p)
  BY <1>7
<1>10. states[i].old = t.at /\ states[i].count = before(x[1])
  BY <1>6, <1>9
<1>11. Satisfies(After(p, d), t.via.guard) /\ r[2][2] = ResetPoint(After(p, d), t.via.resetVars)
  BY <1>6 DEF p
<1>12. q \in DOMAIN subsets /\ currentState' = Determinized!Successor(q, t.via.c, d)
  BY <1>4, <1>5, <1>6
<1>13. PICK j \in Members :
         /\ states[j] = [old |-> t.to, count |-> Copying!NextCount(states[i].count)]
         /\ Determinized!Covers(currentState', j, ResetPoint(After(p, d), t.via.resetVars))
  BY <1>3, <1>6, <1>7, <1>9, <1>10, <1>11, <1>12, RunLeads
<1>14. states[j] = [old |-> r[2][1], count |-> count(r[1])]
  BY <1>6, <1>8, <1>10, <1>13
<1>15. Determinized!Covers(currentState', j, r[2][2])
  BY <1>11, <1>13
<1>16. r[2][2] \in Valuations
  BY <1>3, <1>7, <1>11, PointsMove
<1>17. r[1] \in 1 .. n + 1
  BY <1>6, <1>7
<1> QED
  BY <1>14, <1>15, <1>16, <1>17 DEF n, count

LEMMA FeedingFollows ==
  ASSUME MinDuration > 0, Made, filterMachine = Machine, Follows, Same,
         NEW e, Advance(e), e \in Letters \X Durations \/ e = MaskChar,
         (word \in Seq(Letters \X Durations))', (drained \in Nat)'
  PROVE  Follows'
<1>1. currentState' \in DOMAIN subsets'
  <2>1. currentState' = Filter!Successor(e) /\ subsets' = subsets
    BY DEF Advance, Filter!Feed
  <2>2. currentState \in DOMAIN subsets
    BY DEF Follows
  <2> QED
    BY <2>1, <2>2, FedSuccessor
<1>2. ASSUME NEW r \in runs'
      PROVE  /\ (r[1] \in 1 .. Filter!Now)'
             /\ (r[2][2] \in Valuations)'
             /\ \E i \in Members' :
                  /\ (states[i] = [old |-> r[2][1], count |-> Count(r)])'
                  /\ Determinized!Covers(currentState, i, r[2][2])'
  <2>1. e \in Letters \X Durations
    BY MaskEndsRuns DEF Advance
  <2>2. r[1] \in 1 .. Filter!Now + 1 /\ r[2][2] \in Valuations
    BY <2>1, RunsCovered
  <2>3. PICK i \in Members :
          /\ states[i] = [old |-> r[2][1],
                          count |-> (((Filter!Now + 1) - r[1]) % BufferSize) + 1]
          /\ Determinized!Covers(currentState', i, r[2][2])
    BY <2>1, RunsCovered
  <2>4. Filter!Now' = Filter!Now + 1 /\ states' = states /\ subsets' = subsets
    BY DEF Advance
  <2>5. Count(r)' = (((Filter!Now + 1) - r[1]) % BufferSize) + 1
    BY <2>4 DEF Count
  <2>6. Members' = Members /\ Valuations' = Valuations
    BY <2>4 DEF Members, Valuations
  <2>7. Determinized!Covers(currentState, i, r[2][2])'
    BY <2>3, <2>4 DEF Determinized!Covers
  <2> QED
    BY <2>2, <2>3, <2>4, <2>5, <2>6, <2>7
<1> QED
  BY <1>1, <1>2 DEF Follows

LEMMA WordGrows ==
  ASSUME NEW X, word \in Seq(X), drained \in Nat,
         \/ \E e \in X : word' = Append(word, e) /\ drained' = drained
         \/ word' = word /\ drained' = drained + 1
  PROVE  /\ word' \in Seq(X) /\ drained' \in Nat
         /\ Filter!Now \in Nat /\ Filter!Now' = Filter!Now + 1
<1>1. Len(word) \in Nat
  OBVIOUS
<1>2. CASE \E e \in X : word' = Append(word, e) /\ drained' = drained
  <2>1. PICK e \in X : word' = Append(word, e) /\ drained' = drained
    BY <1>2
  <2>2. word' \in Seq(X) /\ Len(word') = Len(word) + 1
    BY <2>1
  <2> QED
    BY <1>1, <2>1, <2>2 DEF Filter!Now
<1>3. CASE word' = word /\ drained' = drained + 1
  BY <1>1, <1>3 DEF Filter!Now
<1> QED
  BY <1>2, <1>3

(* A step of filter().                                                     *)
LEMMA RunningKeeps ==
  ASSUME InputsFit, IInv, Read \/ EndOfInput \/ Drain PROVE IInv'
<1>1. Built /\ Same
  BY DEF Read, EndOfInput, Drain
<1>2. filterMachine = Machine /\ Made /\ Follows /\ Copying!Done /\ MinDuration > 0
  BY <1>1 DEF IInv, Made, Making, Copied, InputsFit
<1>3. UNCHANGED <<pattern, counterVars, machineVars>> /\ filterMachine' = filterMachine
  BY <1>1 DEF Same
<1>4. /\ Fits(pattern)' /\ Copying!IInv' /\ IsFiniteSet(next)' /\ (counted = Counted)'
      /\ Copying!Done'
  BY <1>2, <1>3, CopyingStays
<1>5. Made' /\ Machine' = Machine /\ Making'
  BY <1>2, <1>3, MadeStays DEF Made
<1>6. Built'
  BY <1>1, <1>3 DEF Built, NoMachine
<1> DEFINE S == Letters \X Durations
<1>7. word \in Seq(S) /\ drained \in Nat
  BY <1>2 DEF Follows
<1>8. states' = states /\ subsets' = subsets /\ pattern' = pattern
  BY <1>3 DEF counterVars, machineVars
<1>9. CASE Read
  <2>1. PICK e \in S : (Filter!Fill(e) \/ Filter!Forward(e)) /\ Follow(e)
    BY <1>9 DEF Read
  <2>2. Filter!Feed(e) /\ word' = Append(word, e) /\ drained' = drained
    BY <2>1 DEF Filter!Fill, Filter!Forward
  <2> HIDE DEF S
  <2>3. word' \in Seq(S) /\ drained' \in Nat /\ Filter!Now \in Nat /\ Filter!Now' = Filter!Now + 1
    BY <1>7, <2>2, WordGrows
  <2>4. Advance(e)
    BY <1>8, <2>1, <2>2, <2>3 DEF Advance
  <2>5. Follows'
    BY <1>1, <1>2, <2>3, <2>4, FeedingFollows DEF S
  <2> QED
    BY <1>2, <1>3, <1>4, <1>5, <1>6, <2>5 DEF IInv
<1>10. CASE Drain
  <2>1. Filter!Drain /\ Follow(MaskChar)
    BY <1>10 DEF Drain
  <2>2. Filter!Feed(MaskChar) /\ word' = word /\ drained' = drained + 1
    BY <2>1 DEF Filter!Drain, Filter!Pad, Filter!Flush
  <2> HIDE DEF S
  <2>3. word' \in Seq(S) /\ drained' \in Nat /\ Filter!Now \in Nat /\ Filter!Now' = Filter!Now + 1
    BY <1>7, <2>2, WordGrows
  <2>4. Advance(MaskChar)
    BY <1>8, <2>1, <2>2, <2>3 DEF Advance
  <2>5. Follows'
    BY <1>1, <1>2, <2>3, <2>4, FeedingFollows DEF S
  <2> QED
    BY <1>2, <1>3, <1>4, <1>5, <1>6, <2>5 DEF IInv
<1>11. CASE EndOfInput
  <2>1. /\ currentState' = currentState /\ word' = word /\ drained' = drained /\ runs' = runs
    BY <1>11 DEF EndOfInput, Filter!EndOfInput
  <2>2. Follows'
    BY <1>2, <1>8, <2>1 DEF Follows, Filter!Now, Count, Members, Determinized!Covers
  <2> QED
    BY <1>2, <1>3, <1>4, <1>5, <1>6, <2>2 DEF IInv
<1> QED
  BY <1>9, <1>10, <1>11

LEMMA StutterKeeps == ASSUME IInv, UNCHANGED vars PROVE IInv'
<1>1. UNCHANGED <<pattern, counterVars, machineVars, filterMachine, filterVars, runs>>
  BY DEF vars
<1>2. /\ Fits(pattern)' /\ Copying!IInv' /\ IsFiniteSet(next)' /\ (counted = Counted)'
      /\ Copying!Done' <=> Copying!Done
  BY <1>1, CopyingStays
<1>3. Built' <=> Built
  BY <1>1 DEF Built, NoMachine
<1>4. ~Copying!Done => Determinized!Start'
  BY <1>1 DEF IInv, Determinized!Start, machineVars
<1>5. Copying!Done => Making'
  <2>1. SUFFICES ASSUME Making PROVE Making'
    BY DEF IInv
  <2>2. Copied /\ StatesOK /\ MapOK /\ QueueOK /\ SweepOK
    BY <2>1 DEF Making
  <2>3. UNCHANGED <<subsets, drtaStates, drtaCounter, nextMap, drtaVisited, nexts, nextLineared,
                    via, lowerVec, upperVec, currentStates, pieces, pc>>
    BY <1>1 DEF machineVars
  <2>4. Copied' /\ StatesOK' /\ MapOK' /\ QueueOK' /\ Determinized!InitConfs' = Determinized!InitConfs
    BY <1>1, <2>2, <2>3, CopiedStays, StatesStay, MapStays, QueueStays
  <2>5. SweepOK'
    <3>1. CASE pc = "idle"
      BY <2>3, <3>1 DEF SweepOK
    <3>2. CASE pc # "idle"
      <4>1. via \in DOMAIN nexts /\ Sweeping!IInv
        BY <2>2, <3>2 DEF SweepOK
      <4>2. UNCHANGED Sweeping!vars
        BY <2>3, <2>4 DEF Sweeping!vars, Vector
      <4>3. Sweeping!IInv'
        BY <4>1, <4>2, SweepGoes
      <4> QED
        BY <2>3, <4>1, <4>3 DEF SweepOK
    <3> QED
      BY <3>1, <3>2
  <2> QED
    BY <2>4, <2>5 DEF Making
<1>6. ~Built => Filter!Start' /\ runs' = {}
  BY <1>1 DEF IInv, Filter!Start, filterVars
<1>7. Built => filterMachine' = Machine' /\ Made' /\ Follows'
  <2>1. SUFFICES ASSUME Built PROVE filterMachine' = Machine' /\ Made' /\ Follows'
    OBVIOUS
  <2>2. filterMachine = Machine /\ Made /\ Follows
    BY <2>1 DEF IInv
  <2>3. Made' /\ Machine' = Machine
    BY <1>1, <2>2, MadeStays
  <2>4. /\ currentState' = currentState /\ word' = word /\ drained' = drained /\ runs' = runs
        /\ states' = states /\ subsets' = subsets
    BY <1>1 DEF filterVars, counterVars, machineVars
  <2>5. Follows'
    BY <2>2, <2>4 DEF Follows, Filter!Now, Count, Members, Determinized!Covers
  <2> QED
    BY <1>1, <2>2, <2>3, <2>5
<1> QED
  BY <1>2, <1>3, <1>4, <1>5, <1>6, <1>7 DEF IInv

LEMMA InductiveInvariant == InputsFit => (Spec /\ []SweepsIntervals => []IInv)
<1>1. SUFFICES ASSUME InputsFit PROVE Spec /\ []SweepsIntervals => []IInv
  OBVIOUS
<1>2. Init => IInv
  BY <1>1, InitIInv
<1>3. IInv /\ SweepsIntervals /\ [Next]_vars => IInv'
  BY <1>1, AddCounterKeeps, ToTimedMooreMachineKeeps, RunningKeeps, StutterKeeps DEF Next
<1> QED
  BY <1>2, <1>3, PTL DEF Spec

(* The machine that was made is one that feed() can run.                   *)
LEMMA MadeIsMachine ==
  ASSUME InputsFit, IInv, Built PROVE Filter!IsMachine(filterMachine)
<1>1. Made /\ filterMachine = Machine /\ StatesOK
  BY DEF IInv, Made, Making
<1>2. filterMachine.counter = drtaCounter /\ filterMachine.initial = 1
  BY <1>1 DEF Machine
<1>3. drtaCounter \in [DOMAIN drtaCounter -> 0 .. BufferSize] /\ DOMAIN drtaCounter = DOMAIN subsets
  <2> DEFINE N == 0 .. BufferSize
  <2>1. drtaCounter \in Seq(N)
    BY <1>1 DEF StatesOK
  <2> HIDE DEF N
  <2>2. drtaCounter \in [DOMAIN drtaCounter -> N]
    BY <2>1
  <2> QED
    BY <1>1, <2>2, SubsetsAre DEF N
<1>4. ASSUME NEW qe \in DOMAIN filterMachine.next
      PROVE  filterMachine.next[qe] \in DOMAIN subsets
  <2>1. PICK k \in DOMAIN nextMap, d \in Durations : qe = <<k[1], <<k[2], d>>>>
    BY <1>1 DEF Machine
  <2>2. filterMachine.next[qe] = Determinized!Successor(qe[1], qe[2][1], qe[2][2])
    BY <1>1 DEF Machine
  <2>3. qe[1] = k[1] /\ qe[2][1] = k[2] /\ qe[2][2] = d
    BY <2>1
  <2>4. d \in Nat \ {0}
    BY DurationsAssumption DEF InputsFit, Durations
  <2>5. k[1] \in DOMAIN subsets
    BY <1>1, MadeComplete
  <2> QED
    BY <1>1, <2>2, <2>3, <2>4, <2>5, SuccessorExists
<1>5. 1 \in DOMAIN subsets
  BY <1>1, MadeComplete
<1> QED
  BY <1>2, <1>3, <1>4, <1>5 DEF Filter!IsMachine

(* The counter of the state of the machine is at least that of a run that  *)
(* matches or has filled the buffer.                                       *)
LEMMA CounterSuffices ==
  ASSUME IInv, Built, NEW r \in runs, r[2][1] \in pattern.match \/ Count(r) = BufferSize
  PROVE  filterMachine.counter[currentState] >= Count(r)
<1> DEFINE q == currentState
<1>1. Made /\ filterMachine = Machine /\ StatesOK /\ Copied /\ q \in DOMAIN subsets
  BY DEF IInv, Follows, Made, Making
<1>2. PICK i \in Members : /\ states[i] = [old |-> r[2][1], count |-> Count(r)]
                           /\ Determinized!Covers(q, i, r[2][2])
  BY DEF IInv, Follows
<1>3. PICK c \in DOMAIN subsets[q] : c[1] = i
  BY <1>2 DEF Determinized!Covers
<1>4. filterMachine.counter[q] = Determinized!CounterOf(subsets[q]) /\ subsets[q] \in StateOf
  BY <1>1, SubsetsAre DEF Machine, StatesOK
<1>5. counted.counter[i] = Count(r) /\ (i \in counted.match <=> r[2][1] \in pattern.match)
  BY <1>1, <1>2, CountedIs DEF Members
<1> QED
  BY <1>1, <1>3, <1>4, <1>5, CounterShows

-----------------------------------------------------------------------------
(* The theorems.                                                           *)

(* The files fit the matrices, and the machine that is made is one that    *)
(* feed() can run.                                                         *)
THEOREM TypeCorrect == InputsFit => (Spec /\ []SweepsIntervals => []TypeOK)
<1>1. ASSUME Making PROVE Determinized!TypeOK
  <2>1. Copied /\ StatesOK /\ MapOK /\ QueueOK
    BY <1>1 DEF Making
  <2>2. /\ DOMAIN subsets = 1 .. Len(subsets)
        /\ \A i \in DOMAIN subsets : subsets[i] \in StateOf
    BY <2>1, SubsetsAre
  <2>3. \A i \in DOMAIN subsets : \A c \in DOMAIN subsets[i] : c[1] \in Determinized!Members
    <3>1. \A i \in DOMAIN subsets : DOMAIN subsets[i] \subseteq Confs
      BY <2>2, StateOfIs DEF IsStateOf
    <3>2. \A c \in Confs : c[1] \in Members
      BY DEF Confs
    <3> QED
      BY <2>1, <3>1, <3>2, CountedTransitions DEF Determinized!Members
  <2>4. drtaCounter \in Seq(0 .. BufferSize) /\ Len(drtaCounter) = Len(subsets)
    BY <2>1 DEF StatesOK
  <2>5. \A k \in DOMAIN drtaStates : drtaStates[k] \in DOMAIN subsets
    BY <2>1 DEF StatesOK
  <2>6. drtaVisited \in 0 .. Len(subsets)
    BY <2>1 DEF MapOK
  <2>7. ASSUME NEW k \in DOMAIN nextMap
        PROVE  /\ k \in (1 .. drtaVisited) \X Determinized!Characters
               /\ k = <<k[1], k[2]>> /\ k[1] \in DOMAIN subsets /\ k[2] \in DOMAIN Vecs(k[1])
               /\ k[1] \in 1 .. drtaVisited
    <3>1. k = <<k[1], k[2]>> /\ k[1] \in 1 .. drtaVisited /\ k[2] \in DOMAIN Vecs(k[1])
      BY <2>1 DEF MapOK
    <3>2. k[1] \in DOMAIN subsets
      BY <2>1, <2>2, <2>6, <3>1, SubsetsAre
    <3>3. k[2] \in Determinized!Characters
      BY <2>1, <3>1, <3>2, VecsAre
    <3>4. k \in (1 .. drtaVisited) \X Determinized!Characters
      BY <3>1, <3>3
    <3> QED
      BY <3>1, <3>2, <3>4
  <2>8. ASSUME NEW k \in DOMAIN nextMap, NEW j \in DOMAIN nextMap[k]
        PROVE  nextMap[k][j].target \in DOMAIN subsets
    <3>1. nextMap[k] = RowOf(nextMap, k[1], k[2])
      BY <2>7 DEF RowOf
    <3>2. \/ nextMap[k] = <<>>
          \/ \E vec, queue : Handled(vec, nextMap[k], queue, subsets, k[2])
      <4>1. CASE k[1] = drtaVisited
        <5>1. VisitedOK
          BY <2>1, <2>6, <2>7, <4>1 DEF QueueOK
        <5> QED
          BY <2>7, <3>1, <4>1, <5>1 DEF VisitedOK
      <4>2. CASE k[1] # drtaVisited
        <5>1. k[1] \in 1 .. drtaVisited - 1
          BY <2>6, <2>7, <4>2
        <5> QED
          BY <2>1, <2>7, <3>1, <5>1 DEF MapOK
      <4> QED
        BY <4>1, <4>2
    <3>3. CASE nextMap[k] = <<>>
      BY <3>3
    <3>4. CASE \E vec, queue : Handled(vec, nextMap[k], queue, subsets, k[2])
      <4>1. PICK vec, queue : Handled(vec, nextMap[k], queue, subsets, k[2])
        BY <3>4
      <4>2. PICK P, n : Entered(nextMap[k], P, n, subsets)
        BY <4>1 DEF Handled
      <4>3. DOMAIN nextMap[k] = 1 .. n
        <5> DEFINE E == Entry
        <5>1. nextMap[k] \in Seq(E) /\ Len(nextMap[k]) = n
          BY <4>2 DEF Entered
        <5> HIDE DEF E
        <5> QED
          BY <5>1
      <4> QED
        BY <4>2, <4>3 DEF Entered
    <3> QED
      BY <3>2, <3>3, <3>4
  <2> QED
    BY <2>3, <2>4, <2>5, <2>6, <2>7, <2>8 DEF Determinized!TypeOK
<1>2. ASSUME Determinized!Start PROVE Determinized!TypeOK
  <2>1. Len(<<>>) = 0 /\ \A S : <<>> \in Seq(S) /\ DOMAIN <<>> = {}
    OBVIOUS
  <2> QED
    BY <1>2, <2>1 DEF Determinized!Start, Determinized!TypeOK
<1>3. ASSUME InputsFit, IInv PROVE TypeOK
  <2>1. Determinized!TypeOK
    BY <1>1, <1>2, <1>3 DEF IInv
  <2>2. Built => Filter!IsMachine(filterMachine) /\ currentState \in DOMAIN subsets
    BY <1>3, MadeIsMachine DEF IInv, Follows
  <2>3. \A r \in runs : r[1] \in 1 .. Filter!Now
    BY <1>3 DEF IInv, Follows
  <2> QED
    BY <1>3, <2>1, <2>2, <2>3 DEF TypeOK, IInv
<1>4. SUFFICES ASSUME InputsFit PROVE Spec /\ []SweepsIntervals => []TypeOK
  OBVIOUS
<1>5. IInv => TypeOK
  BY <1>3, <1>4
<1> QED
  BY <1>4, <1>5, InductiveInvariant, PTL

(* Neither the zones, nor the cuts of linearlizeNexts, nor the way that    *)
(* feed() falls back to the initial state lose a run.                      *)
THEOREM RunsAreCovered == InputsFit => (Spec /\ []SweepsIntervals => []StateCoversRuns)
<1>1. IInv => StateCoversRuns
  BY DEF IInv, Follows, StateCoversRuns, Members
<1> QED
  BY <1>1, InductiveInvariant, PTL

(* The counter of the state of the machine is enough for every run that    *)
(* matches or has filled the buffer.                                       *)
THEOREM RunsAreCounted == InputsFit => (Spec /\ []SweepsIntervals => []CountsRuns)
<1>1. IInv => CountsRuns
  BY CounterSuffices DEF CountsRuns
<1> QED
  BY <1>1, InductiveInvariant, PTL

-----------------------------------------------------------------------------
(* What isMember() computes.                                               *)

(* The configurations that a word of events leads to.                      *)
ConfsAfter(ta, w) ==
  LET confs[n \in 0 .. Len(w)] ==
        IF n = 0 THEN Started(ta) ELSE Moved(ta, confs[n - 1], w[n][1], w[n][2])
  IN  confs[Len(w)]

(* The sets of configurations.                                             *)
ConfSets(ta) == SUBSET ((ta.initial \union {t.to : t \in ta.trans}) \X [1 .. Clocks -> Int])

LEMMA ConfsMove ==
  ASSUME NEW ta
  PROVE  /\ Started(ta) \in ConfSets(ta)
         /\ \A confs \in ConfSets(ta) : \A c : \A d \in Int : Moved(ta, confs, c, d) \in ConfSets(ta)
<1>1. Started(ta) \in ConfSets(ta)
  BY DEF Started, ConfSets
<1>2. ASSUME NEW confs \in ConfSets(ta), NEW c, NEW d \in Int, NEW conf \in Moved(ta, confs, c, d)
      PROVE  conf \in (ta.initial \union {t.to : t \in ta.trans}) \X [1 .. Clocks -> Int]
  <2> DEFINE can == {q \in confs \X ta.trans :
                       /\ q[2].at = q[1][1]
                       /\ q[2].via.c = c
                       /\ Satisfies(After(q[1][2], d), q[2].via.guard)}
             made(p) == <<p[2].to, ResetPoint(After(p[1][2], d), p[2].via.resetVars)>>
  <2>1. Moved(ta, confs, c, d) = {made(p) : p \in can}
    BY DEF Moved
  <2>2. PICK p \in can : conf = made(p)
    <3> HIDE DEF can, made
    <3> QED
      BY <1>2, <2>1
  <2>3. p[1] \in confs /\ p[2] \in ta.trans
    OBVIOUS
  <2>4. p[1][2] \in [1 .. Clocks -> Int]
    BY <2>3 DEF ConfSets
  <2>5. ResetPoint(After(p[1][2], d), p[2].via.resetVars) \in [1 .. Clocks -> Int]
    <3> DEFINE v == p[1][2]  R == p[2].via.resetVars
    <3>1. v \in [1 .. Clocks -> Int]
      BY <2>4
    <3> HIDE DEF v, R, can, made
    <3>2. After(v, d) = [x \in 1 .. Clocks |-> v[x] + d]
      BY <3>1 DEF After
    <3>3. \A x \in 1 .. Clocks : v[x] \in Int /\ v[x] + d \in Int
      BY <1>2, <3>1
    <3>4. After(v, d) \in [1 .. Clocks -> Int]
      BY <3>2, <3>3
    <3>5. ResetPoint(After(v, d), R) \in [1 .. Clocks -> Int]
      BY <3>4 DEF ResetPoint
    <3> QED
      BY <3>5 DEF v, R
  <2> QED
    BY <2>2, <2>3, <2>5
<1>3. ASSUME NEW confs \in ConfSets(ta), NEW c, NEW d \in Int
      PROVE  Moved(ta, confs, c, d) \in ConfSets(ta)
  BY <1>2 DEF ConfSets
<1> QED
  BY <1>1, <1>3

LEMMA ConfsAfterIterates ==
  ASSUME NEW ta, NEW S, NEW w \in Seq(S), \A e \in S : e[2] \in Int
  PROVE  \E r : /\ r[0] = Started(ta)
                /\ \A n \in 1 .. Len(w) : r[n] = Moved(ta, r[n - 1], w[n][1], w[n][2])
                /\ ConfsAfter(ta, w) = r[Len(w)]
<1> DEFINE L == Len(w)
           T == ConfSets(ta)
           step(n, confs) == Moved(ta, confs, w[n][1], w[n][2])
           F == [n \in 1 .. L |-> [confs \in T |-> step(n, confs)]]
           Solves(r) == r = [n \in 0 .. L |->
                               IF n = 0 THEN Started(ta) ELSE step(n, r[n - 1])]
           reached == CHOOSE r : Solves(r)
<1>1. L \in Nat /\ \A n \in 1 .. L : w[n][2] \in Int
  <2>1. \A n \in 1 .. L : w[n] \in S
    OBVIOUS
  <2> QED
    BY <2>1
<1>2. \A n \in 1 .. L : \A confs \in T : step(n, confs) \in T
  <2> HIDE DEF T
  <2> QED
    BY <1>1, ConfsMove DEF T
<1>3. Started(ta) \in T
  BY ConfsMove
<1> HIDE DEF step, T
<1>4. PICK r \in [0 .. L -> T] : Iterates(r, Started(ta), F, L)
  <2>1. F \in [1 .. L -> [T -> T]]
    BY <1>2
  <2> HIDE DEF F, L
  <2> QED
    BY <1>1, <1>3, <2>1, IterationExists
<1> HIDE DEF L
<1>5. r[0] = Started(ta) /\ \A n \in 1 .. L : r[n] = step(n, r[n - 1])
  <2>1. \A n \in 1 .. L : n - 1 \in 0 .. L
    BY <1>1
  <2> QED
    BY <1>4, <2>1 DEF Iterates
<1>6. Solves(r)
  <2> HIDE DEF F
  <2>1. \A n \in 0 .. L : n # 0 => n \in 1 .. L
    BY <1>1
  <2>2. r = [n \in 0 .. L |-> r[n]]
    BY <1>4
  <2>3. \A n \in 0 .. L : r[n] = IF n = 0 THEN Started(ta) ELSE step(n, r[n - 1])
    BY <1>5, <2>1
  <2> QED
    BY <2>2, <2>3
<1>7. Solves(reached)
  BY <1>6
<1>8. ConfsAfter(ta, w) = reached[L]
  BY DEF ConfsAfter, L, step
<1>9. reached[0] = Started(ta) /\ \A n \in 1 .. L : reached[n] = step(n, reached[n - 1])
  <2> HIDE DEF reached
  <2>1. \A n \in 1 .. L : n \in 0 .. L /\ n # 0
    BY <1>1
  <2>2. 0 \in 0 .. L
    BY <1>1
  <2> QED
    BY <1>7, <2>1, <2>2
<1> QED
  BY <1>8, <1>9 DEF L, step

LEMMA ConfsAfterNothing == ASSUME NEW ta PROVE ConfsAfter(ta, <<>>) = Started(ta)
<1>1. <<>> \in Seq({}) /\ Len(<<>>) = 0 /\ \A e \in {} : e[2] \in Int
  OBVIOUS
<1>2. PICK r : r[0] = Started(ta) /\ ConfsAfter(ta, <<>>) = r[Len(<<>>)]
  <2>1. ASSUME NEW S, S = {}, NEW w \in Seq(S)
        PROVE  \E r : r[0] = Started(ta) /\ ConfsAfter(ta, w) = r[Len(w)]
    BY <2>1, ConfsAfterIterates
  <2> QED
    BY <1>1, <2>1, Zenon
<1> QED
  BY <1>1, <1>2

LEMMA ConfsAfterAppend ==
  ASSUME NEW ta, NEW S, NEW w \in Seq(S), NEW a \in S, \A e \in S : e[2] \in Int
  PROVE  ConfsAfter(ta, Append(w, a)) = Moved(ta, ConfsAfter(ta, w), a[1], a[2])
<1> DEFINE L == Len(w)  v == Append(w, a)
<1>1. /\ L \in Nat /\ v \in Seq(S) /\ Len(v) = L + 1 /\ v[L + 1] = a
      /\ \A n \in 1 .. L : v[n] = w[n]
  OBVIOUS
<1>2. PICK r : /\ r[0] = Started(ta)
               /\ \A n \in 1 .. L : r[n] = Moved(ta, r[n - 1], w[n][1], w[n][2])
               /\ ConfsAfter(ta, w) = r[L]
  BY ConfsAfterIterates
<1> HIDE DEF v
<1>3. PICK s : /\ s[0] = Started(ta)
               /\ \A n \in 1 .. Len(v) : s[n] = Moved(ta, s[n - 1], v[n][1], v[n][2])
               /\ ConfsAfter(ta, v) = s[Len(v)]
  BY <1>1, ConfsAfterIterates
<1> HIDE DEF L
<1> DEFINE D == {n \in 0 .. L : r[n] = s[n]}
<1>4. ASSUME NEW n \in 0 .. L - 1, n \in D PROVE n + 1 \in D
  <2>1. n + 1 \in 1 .. L /\ n + 1 \in 1 .. Len(v) /\ n + 1 \in 0 .. L /\ (n + 1) - 1 = n
    BY <1>1
  <2>2. r[n + 1] = Moved(ta, r[n], w[n + 1][1], w[n + 1][2])
    BY <1>2, <2>1
  <2>3. s[n + 1] = Moved(ta, s[n], v[n + 1][1], v[n + 1][2])
    BY <1>3, <2>1
  <2>4. v[n + 1] = w[n + 1]
    BY <1>1, <2>1
  <2>5. r[n] = s[n]
    BY <1>4
  <2> QED
    BY <2>1, <2>2, <2>3, <2>4, <2>5
<1>5. L \in D
  <2>1. 0 \in D
    BY <1>1, <1>2, <1>3
  <2> HIDE DEF D
  <2>2. \A n \in 0 .. L : n \in D
    BY <1>1, <1>4, <2>1, InductionToBound
  <2> QED
    BY <1>1, <2>2
<1>6. L + 1 \in 1 .. Len(v) /\ (L + 1) - 1 = L
  BY <1>1
<1> QED
  BY <1>1, <1>2, <1>3, <1>5, <1>6 DEF v

(* The time since the word began, after each event and before the first.   *)
TimeOf(w) ==
  LET time[n \in 0 .. Len(w)] == IF n = 0 THEN 0 ELSE time[n - 1] + w[n][2]
  IN  time

LEMMA TimeOfIs ==
  ASSUME NEW S, NEW w \in Seq(S), \A e \in S : e[2] \in Int
  PROVE  /\ TimeOf(w)[0] = 0
         /\ \A n \in 1 .. Len(w) : TimeOf(w)[n] = TimeOf(w)[n - 1] + w[n][2]
         /\ \A n \in 0 .. Len(w) : TimeOf(w)[n] \in Int
<1> DEFINE L == Len(w)
           F == [n \in 1 .. L |-> [x \in Int |-> x + w[n][2]]]
           Solves(r) == r = [n \in 0 .. L |-> IF n = 0 THEN 0 ELSE r[n - 1] + w[n][2]]
           upTo == CHOOSE r : Solves(r)
<1>1. L \in Nat /\ DOMAIN w = 1 .. L /\ \A n \in 1 .. L : w[n][2] \in Int
  <2>1. \A n \in 1 .. L : w[n] \in S
    OBVIOUS
  <2> QED
    BY <2>1
<1> HIDE DEF L
<1>2. PICK r \in [0 .. L -> Int] : Iterates(r, 0, F, L)
  <2>1. F \in [1 .. L -> [Int -> Int]] /\ 0 \in Int
    BY <1>1
  <2> HIDE DEF F
  <2> QED
    BY <1>1, <2>1, IterationExists
<1>3. r[0] = 0 /\ \A n \in 1 .. L : r[n] = r[n - 1] + w[n][2]
  <2>1. \A n \in 1 .. L : n - 1 \in 0 .. L
    BY <1>1
  <2> QED
    BY <1>2, <2>1 DEF Iterates
<1>4. Solves(r)
  <2> HIDE DEF F
  <2>1. \A n \in 0 .. L : n # 0 => n \in 1 .. L
    BY <1>1
  <2>2. r = [n \in 0 .. L |-> r[n]]
    BY <1>2
  <2> QED
    BY <1>3, <2>1, <2>2
<1>5. Solves(upTo)
  BY <1>4
<1>6. TimeOf(w) = upTo
  BY DEF TimeOf, L
<1> HIDE DEF upTo
<1>7. upTo[0] = 0 /\ \A n \in 1 .. L : upTo[n] = upTo[n - 1] + w[n][2]
  <2>1. \A n \in 1 .. L : n \in 0 .. L /\ n # 0
    BY <1>1
  <2>2. 0 \in 0 .. L
    BY <1>1
  <2> QED
    BY <1>5, <2>1, <2>2
<1> DEFINE D == {n \in 0 .. L : upTo[n] \in Int}
<1>8. ASSUME NEW n \in 0 .. L - 1, n \in D PROVE n + 1 \in D
  <2>1. n + 1 \in 1 .. L /\ n + 1 \in 0 .. L /\ (n + 1) - 1 = n
    BY <1>1
  <2>2. upTo[n + 1] = upTo[n] + w[n + 1][2]
    BY <1>7, <2>1
  <2>3. upTo[n] \in Int /\ w[n + 1][2] \in Int
    BY <1>1, <1>8, <2>1
  <2>4. upTo[n + 1] \in Int
    BY <2>2, <2>3
  <2> QED
    BY <2>1, <2>4
<1>9. \A n \in 0 .. L : n \in D
  <2>1. 0 \in D
    BY <1>1, <1>7
  <2> HIDE DEF D
  <2> QED
    BY <1>1, <1>8, <2>1, InductionToBound
<1> QED
  BY <1>6, <1>7, <1>9 DEF L

(* The times of the events, and the differences of neighbours.             *)
LEMMA TimesAre ==
  ASSUME NEW S, NEW w \in Seq(S), \A e \in S : e[2] \in Int
  PROVE  /\ Len(Times(w)) = Len(w)
         /\ \A i \in 1 .. Len(w) :
              /\ Times(w)[i][1] = w[i][1]
              /\ w[i][2] = IF i > 1 THEN Times(w)[i][2] - Times(w)[i - 1][2] ELSE Times(w)[i][2]
<1> DEFINE L == Len(w)  upTo == TimeOf(w)
<1>1. L \in Nat /\ DOMAIN w = 1 .. L /\ \A n \in 1 .. L : w[n][2] \in Int
  <2>1. \A n \in 1 .. L : w[n] \in S
    OBVIOUS
  <2> QED
    BY <2>1
<1>2. Times(w) = [i \in 1 .. L |-> <<w[i][1], upTo[i]>>]
  BY <1>1 DEF Times, TimeOf
<1> HIDE DEF upTo
<1>3. /\ upTo[0] = 0
      /\ \A n \in 1 .. L : upTo[n] = upTo[n - 1] + w[n][2]
      /\ \A n \in 0 .. L : upTo[n] \in Int
  BY TimeOfIs DEF upTo
<1> HIDE DEF L
<1>4. ASSUME NEW i \in 1 .. L
       PROVE  /\ Times(w)[i][1] = w[i][1]
              /\ w[i][2] = IF i > 1 THEN Times(w)[i][2] - Times(w)[i - 1][2] ELSE Times(w)[i][2]
  <2>1. Times(w)[i] = <<w[i][1], upTo[i]>>
    BY <1>2
  <2>2. i - 1 \in 0 .. L /\ i \in 0 .. L
    BY <1>1
  <2>3. upTo[i] = upTo[i - 1] + w[i][2] /\ upTo[i] \in Int /\ upTo[i - 1] \in Int /\ w[i][2] \in Int
    BY <1>1, <1>3, <2>2
  <2>4. CASE i > 1
    <3>1. i - 1 \in 1 .. L
      BY <1>1, <2>4
    <3>2. Times(w)[i - 1] = <<w[i - 1][1], upTo[i - 1]>>
      BY <1>2, <3>1
    <3> QED
      BY <2>1, <2>3, <2>4, <3>2
  <2>5. CASE ~(i > 1)
    <3>1. i = 1 /\ i - 1 = 0
      BY <1>1, <2>5
    <3> QED
      BY <1>3, <2>1, <2>3, <2>5, <3>1
  <2> QED
    BY <2>4, <2>5
<1>5. Len(Times(w)) = L
  BY <1>1, <1>2
<1> QED
  BY <1>4, <1>5 DEF L

(* isMember() of a word of events with the times that they have.           *)
LEMMA MemberIs ==
  ASSUME NEW ta, NEW S, NEW w \in Seq(S), \A e \in S : e[2] \in Int
  PROVE  IsMember(ta, Times(w)) <=> \E conf \in ConfsAfter(ta, w) : conf[1] \in ta.match
<1> DEFINE L == Len(w)  v == Times(w)
           since(i) == IF i > 1 THEN v[i][2] - v[i - 1][2] ELSE v[i][2]
           P(r) == r = [i \in 0 .. L |-> IF i = 0 THEN Started(ta)
                                         ELSE Moved(ta, r[i - 1], v[i][1], since(i))]
           Q(r) == r = [i \in 0 .. L |-> IF i = 0 THEN Started(ta)
                                         ELSE Moved(ta, r[i - 1], w[i][1], w[i][2])]
<1>1. L \in Nat /\ Len(v) = L /\ \A i \in 1 .. L : v[i][1] = w[i][1] /\ since(i) = w[i][2]
  BY TimesAre
<1> HIDE DEF since
<1>2. ASSUME NEW r PROVE P(r) <=> Q(r)
  <2>1. \A i \in 0 .. L : i # 0 => i \in 1 .. L
    BY <1>1
  <2> HIDE DEF v, L
  <2> QED
    BY <1>1, <2>1
<1>3. IsMember(ta, v) <=> \E conf \in (CHOOSE r : P(r))[L] : conf[1] \in ta.match
  BY <1>1 DEF IsMember, since
<1>4. ConfsAfter(ta, w) = (CHOOSE r : Q(r))[L]
  BY DEF ConfsAfter
<1> HIDE DEF P, Q
<1>5. (CHOOSE r : P(r)) = (CHOOSE r : Q(r))
  BY <1>2, Zenon
<1> QED
  BY <1>3, <1>4, <1>5

-----------------------------------------------------------------------------
(* The runs and the word.                                                  *)

(* Each configuration moves by itself.                                     *)
LEMMA MovedApart ==
  ASSUME NEW ta, NEW confs, NEW c, NEW d, NEW conf \in Moved(ta, confs, c, d)
  PROVE  \E before \in confs : conf \in Moved(ta, {before}, c, d)
<1> DEFINE can(X) == {q \in X \X ta.trans :
                        /\ q[2].at = q[1][1]
                        /\ q[2].via.c = c
                        /\ Satisfies(After(q[1][2], d), q[2].via.guard)}
           made(p) == <<p[2].to, ResetPoint(After(p[1][2], d), p[2].via.resetVars)>>
<1>1. \A X : Moved(ta, X, c, d) = {made(p) : p \in can(X)}
  BY DEF Moved
<1>2. PICK p \in can(confs) : conf = made(p)
  <2> HIDE DEF can, made
  <2> QED
    BY <1>1
<1>3. p[1] \in confs /\ p \in can({p[1]})
  OBVIOUS
<1>4. conf \in Moved(ta, {p[1]}, c, d)
  <2> HIDE DEF can, made
  <2> QED
    BY <1>1, <1>2, <1>3
<1> QED
  BY <1>3, <1>4

(* Every configuration that a run moves to is that of a run.               *)
LEMMA RunsMove ==
  ASSUME NEW e, Follow(e), NEW x,
         x \in runs \/ (\E conf \in Started(pattern) : x = <<Filter!Now + 1, conf>>),
         NEW conf \in Moved(pattern, {x[2]}, e[1], e[2])
  PROVE  <<x[1], conf>> \in runs'
<1> DEFINE begun == {<<Filter!Now + 1, q>> : q \in Started(pattern)}
           extended == runs \union begun
           moved(r) == {<<r[1], q>> : q \in Moved(pattern, {r[2]}, e[1], e[2])}
<1>1. runs' = UNION {moved(r) : r \in extended}
  BY DEF Follow
<1>2. x \in extended
  OBVIOUS
<1>3. <<x[1], conf>> \in moved(x)
  OBVIOUS
<1> HIDE DEF extended, moved
<1> QED
  BY <1>1, <1>2, <1>3

(* What a run read before its counter began anew is visible, and all of it *)
(* when it has just matched or filled the buffer.                          *)
RunsShown ==
  \A r \in runs :
    /\ r[1] .. (Filter!Now - Count(r)) \subseteq window
    /\ r[2][1] \in pattern.match \/ Count(r) = BufferSize
         => r[1] .. Filter!Now \subseteq window

(* While the word is read, every configuration that one of its suffixes    *)
(* leads to is that of a run.                                              *)
RunsAlive ==
  \A i \in 1 .. Len(word) + 1 :
    \A conf \in ConfsAfter(pattern, SubSeq(word, i, Len(word))) :
      IF i =< Len(word) THEN <<i, conf>> \in runs ELSE conf \in Started(pattern)

(* What leads to a state that matches is visible.                          *)
MatchesShown ==
  \A i \in 1 .. Len(word) : \A j \in i .. Len(word) :
    (\E conf \in ConfsAfter(pattern, SubSeq(word, i, j)) : conf[1] \in pattern.match)
      => i .. j \subseteq window

(***************************************************************************)
(* What the output needs beyond IInv: the runs that are alive follow the   *)
(* suffixes of the word, and the window follows the runs.                  *)
(***************************************************************************)
Shown ==
  Built => /\ Running!IInv
           /\ RunsShown /\ MatchesShown
           /\ phase = "reading" => RunsAlive

LEMMA CountInRange ==
  ASSUME NEW r, r[1] \in 1 .. Filter!Now, Filter!Now \in Nat
  PROVE  /\ Count(r) \in 1 .. BufferSize
         /\ Count(r) =< (Filter!Now - r[1]) + 1
<1> DEFINE a == Filter!Now - r[1]
<1> BufferSize \in Nat \ {0} /\ a \in Nat
  BY BufferAssumption
<1> Count(r) = (a % BufferSize) + 1
  BY DEF Count
<1> HIDE DEF a
<1>1. a % BufferSize \in 0 .. BufferSize - 1
  BY RemainderInRange
<1>2. a % BufferSize =< a
  BY RemainderAtMost
<1> QED
  BY <1>1, <1>2 DEF a

LEMMA CountInRangePrimed ==
  ASSUME NEW r, (r[1] \in 1 .. Filter!Now)', (Filter!Now \in Nat)'
  PROVE  Count(r)' \in 1 .. BufferSize /\ Count(r)' =< (Filter!Now' - r[1]) + 1
<1>1. (Count(r) \in 1 .. BufferSize /\ Count(r) =< (Filter!Now - r[1]) + 1)'
  BY CountInRange, PTL
<1> QED
  BY <1>1

LEMMA CounterSufficesPrimed ==
  ASSUME IInv', Built', NEW r, (r \in runs)', (r[2][1] \in pattern.match \/ Count(r) = BufferSize)'
  PROVE  (filterMachine.counter[currentState] >= Count(r))'
BY CounterSuffices, PTL

(* The state after e shows what the runs that are alive after it need.     *)
LEMMA RunsShownKept ==
  ASSUME IInv, Built, IInv', Built', RunsShown, filterMachine' = filterMachine,
         filterMachine.counter[currentState'] \in 0 .. BufferSize,
         NEW e, Advance(e)
  PROVE  RunsShown'
<1> DEFINE n == Filter!Now  m == filterMachine.counter[currentState']
<1> BufferSize \in Nat \ {0} /\ n \in Nat /\ Filter!Now' = n + 1 /\ m \in 0 .. BufferSize
  BY BufferAssumption DEF Advance
<1>1. window' = window \union ((n - m) + 2) .. (n + 1) /\ pattern' = pattern
  BY DEF Advance, Filter!Feed
<1>2. ASSUME NEW r \in runs'
      PROVE  /\ r[1] \in 1 .. n + 1
             /\ Count(r)' \in 1 .. BufferSize
             /\ Count(r)' =< ((n + 1) - r[1]) + 1
             /\ \/ r[1] = n + 1
                \/ \E x \in runs : /\ x[1] = r[1] /\ x[1] \in 1 .. n
                                   /\ Count(r)' = Copying!NextCount(Count(x))
  <2>1. (r[1] \in 1 .. Filter!Now)' /\ (Filter!Now \in Nat)'
    <3>1. Follows'
      BY DEF IInv
    <3>2. (r[1] \in 1 .. Filter!Now)'
      BY <3>1 DEF Follows
    <3> QED
      BY <3>2
  <2>2. Count(r)' \in 1 .. BufferSize /\ Count(r)' =< ((n + 1) - r[1]) + 1
    BY <2>1, CountInRangePrimed
  <2>3. ASSUME r[1] # n + 1
        PROVE  \E x \in runs : /\ x[1] = r[1] /\ x[1] \in 1 .. n
                               /\ Count(r)' = Copying!NextCount(Count(x))
    <3>1. PICK x \in runs : x[1] = r[1]
      BY <2>3, RunsFollow DEF Advance
    <3>2. x[1] \in 1 .. n /\ r[1] \in 1 .. n + 1
      BY <3>1 DEF IInv, Follows
    <3>3. Count(r)' = (((n + 1) - r[1]) % BufferSize) + 1
      BY DEF Count
    <3>4. Count(x) = ((n - r[1]) % BufferSize) + 1
      BY <3>1 DEF Count
    <3>5. (((n + 1) - r[1]) % BufferSize) + 1 =
             Copying!NextCount(((n - r[1]) % BufferSize) + 1)
      <4> HIDE DEF n
      <4> QED
        BY <2>3, <3>2, CountOfNext
    <3> QED
      BY <3>1, <3>2, <3>3, <3>4, <3>5
  <2> QED
    BY <2>1, <2>2, <2>3
<1> HIDE DEF m, n
<1>3. ASSUME NEW r \in runs' PROVE r[1] .. ((n + 1) - Count(r)') \subseteq window'
  <2>1. CASE r[1] = n + 1
    BY <1>2, <2>1
  <2>2. ASSUME NEW x \in runs, x[1] = r[1], x[1] \in 1 .. n,
               Count(r)' = Copying!NextCount(Count(x))
        PROVE  r[1] .. ((n + 1) - Count(r)') \subseteq window'
    <3>1. /\ x[1] .. (n - Count(x)) \subseteq window
          /\ Count(x) = BufferSize => x[1] .. n \subseteq window
      BY DEF RunsShown, n
    <3>2. Count(x) \in 1 .. BufferSize
      BY <2>2, CountInRange DEF n
    <3>3. CASE Count(x) = BufferSize
      BY <1>1, <2>2, <3>1, <3>3 DEF Copying!NextCount
    <3>4. CASE Count(x) # BufferSize
      <4>1. (n + 1) - Count(r)' = n - Count(x)
        BY <2>2, <3>2, <3>4 DEF Copying!NextCount
      <4> QED
        BY <1>1, <2>2, <3>1, <4>1
    <3> QED
      BY <3>3, <3>4
  <2> QED
    BY <1>2, <2>1, <2>2
<1>4. ASSUME NEW r \in runs', r[2][1] \in pattern.match \/ Count(r)' = BufferSize
      PROVE  r[1] .. (n + 1) \subseteq window'
  <2>1. m >= Count(r)'
    <3>1. (r[2][1] \in pattern.match \/ Count(r) = BufferSize)'
      BY <1>1, <1>4
    <3>2. (filterMachine.counter[currentState] >= Count(r))'
      BY <3>1, CounterSufficesPrimed
    <3> QED
      BY <3>2 DEF m
  <2>2. ASSUME NEW p \in r[1] .. (n + 1) PROVE p \in window'
    <3>1. p \in r[1] .. ((n + 1) - Count(r)') \/ p \in ((n - m) + 2) .. (n + 1)
      BY <1>2, <2>1
    <3> QED
      BY <1>1, <1>3, <3>1
  <2> QED
    BY <2>2
<1> QED
  BY <1>1, <1>3, <1>4 DEF RunsShown

LEMMA EventsAre == \A e \in Letters \X Durations : e[2] \in Int
BY DurationsAssumption DEF Durations

(* One more event e of the word.                                           *)
LEMMA RunsAliveKept ==
  ASSUME word \in Seq(Letters \X Durations), drained = 0, RunsAlive,
         NEW e \in Letters \X Durations, Follow(e), word' = Append(word, e), pattern' = pattern
  PROVE  RunsAlive'
<1> DEFINE S == Letters \X Durations
           L == Len(word)
           Before(i) == ConfsAfter(pattern, SubSeq(word, i, L))
           Since(i) == ConfsAfter(pattern, SubSeq(word', i, L + 1))
<1>1. L \in Nat /\ Len(word') = L + 1 /\ Filter!Now = L
  BY DEF Filter!Now
<1>2. word \in Seq(S) /\ e \in S /\ \A a \in S : a[2] \in Int
  BY EventsAre
<1> HIDE DEF S
<1>3. ASSUME NEW i \in 1 .. L + 1 PROVE Since(i) = Moved(pattern, Before(i), e[1], e[2])
  <2> DEFINE r == SubSeq(word, i, L)
  <2>1. r \in Seq(S) /\ SubSeq(word', i, L + 1) = Append(r, e)
    <3>1. i \in 1 .. Len(word) + 1
      OBVIOUS
    <3>2. /\ SubSeq(word, i, Len(word)) \in Seq(S)
          /\ SubSeq(Append(word, e), i, Len(word) + 1) = Append(SubSeq(word, i, Len(word)), e)
      BY <1>2, <3>1, SuffixOfAppend, SMTT(30)
    <3> QED
      BY <3>2
  <2> HIDE DEF r
  <2>2. ConfsAfter(pattern, Append(r, e)) = Moved(pattern, ConfsAfter(pattern, r), e[1], e[2])
    BY <1>2, <2>1, ConfsAfterAppend
  <2> QED
    BY <2>1, <2>2 DEF r
<1>4. ASSUME NEW i \in 1 .. L + 1, NEW conf \in Since(i) PROVE <<i, conf>> \in runs'
  <2>1. PICK before \in Before(i) : conf \in Moved(pattern, {before}, e[1], e[2])
    BY <1>3, <1>4, MovedApart, ZenonT(40)
  <2> DEFINE x == <<i, before>>
  <2>2. x[1] = i /\ x[2] = before
    OBVIOUS
  <2>3. x \in runs \/ (\E q \in Started(pattern) : x = <<Filter!Now + 1, q>>)
    <3>1. CASE i =< L
      BY <1>1, <2>1, <3>1 DEF RunsAlive
    <3>2. CASE ~(i =< L)
      <4>1. before \in Started(pattern)
        BY <1>1, <2>1, <3>2 DEF RunsAlive
      <4>2. i = L + 1
        BY <1>1, <3>2
      <4> QED
        BY <1>1, <4>1, <4>2
    <3> QED
      BY <3>1, <3>2
  <2> HIDE DEF x
  <2> QED
    BY <2>1, <2>2, <2>3, RunsMove
<1>5. ASSUME NEW i \in 1 .. L + 2, NEW conf \in Since(i)
      PROVE  IF i =< L + 1 THEN <<i, conf>> \in runs' ELSE conf \in Started(pattern)
  <2>1. CASE i \in 1 .. L + 1
    <3>1. i =< L + 1
      BY <1>1, <2>1
    <3>2. <<i, conf>> \in runs'
      BY <1>4, <1>5, <2>1
    <3> QED
      BY <3>1, <3>2
  <2>2. CASE i = L + 2
    <3>1. SubSeq(word', i, L + 1) = <<>>
      <4> HIDE DEF L
      <4> QED
        BY <1>1, <2>2
    <3>2. Since(i) = Started(pattern)
      BY <3>1, ConfsAfterNothing
    <3>3. ~(i =< L + 1)
      BY <1>1, <2>2
    <3> QED
      BY <1>5, <3>2, <3>3
  <2> QED
    BY <1>1, <2>1, <2>2
<1>6. Len(word') = L + 1 /\ Len(word') + 1 = L + 2
  BY <1>1
<1>7. Started(pattern)' = Started(pattern) /\ \A w : ConfsAfter(pattern, w)' = ConfsAfter(pattern, w)
  OBVIOUS
<1>8. SUFFICES ASSUME NEW i \in 1 .. Len(word') + 1,
                      NEW conf \in ConfsAfter(pattern', SubSeq(word', i, Len(word')))
               PROVE  IF i =< Len(word') THEN <<i, conf>> \in runs' ELSE conf \in Started(pattern')
  BY DEF RunsAlive
<1> HIDE DEF L
<1>9. i \in 1 .. L + 2 /\ conf \in Since(i)
  BY <1>6
<1> HIDE DEF Since
<1> QED
  BY <1>5, <1>6, <1>9

LEMMA MatchesShownKept ==
  ASSUME word \in Seq(Letters \X Durations), drained = 0, MatchesShown, window \subseteq window',
         NEW e \in Letters \X Durations, word' = Append(word, e), pattern' = pattern,
         drained' = drained, RunsAlive', RunsShown'
  PROVE  MatchesShown'
<1> DEFINE S == Letters \X Durations
           L == Len(word)
<1>1. L \in Nat /\ Len(word') = L + 1 /\ Filter!Now' = L + 1
  BY DEF Filter!Now
<1>2. word \in Seq(S) /\ e \in S
  OBVIOUS
<1> HIDE DEF S
<1>3. ASSUME NEW i \in 1 .. L + 1, NEW j \in i .. L + 1,
             NEW conf \in ConfsAfter(pattern, SubSeq(word', i, j)), conf[1] \in pattern.match
      PROVE  i .. j \subseteq window'
  <2>1. CASE j = L + 1
    <3>1. <<i, conf>> \in runs'
      <4>1. i \in 1 .. Len(word') + 1 /\ i =< Len(word')
        BY <1>1
      <4>2. conf \in ConfsAfter(pattern', SubSeq(word', i, Len(word')))
        BY <1>1, <1>3, <2>1
      <4> HIDE DEF L
      <4> QED
        BY <4>1, <4>2 DEF RunsAlive
    <3> DEFINE r == <<i, conf>>
    <3>2. r[1] = i /\ r[2] = conf
      OBVIOUS
    <3> HIDE DEF r
    <3>3. r \in runs' /\ r[2][1] \in pattern'.match
      BY <1>3, <3>1, <3>2 DEF r
    <3>4. r[1] .. Filter!Now' \subseteq window'
      BY <3>3 DEF RunsShown
    <3> QED
      BY <1>1, <2>1, <3>2, <3>4
  <2>2. CASE j # L + 1
    <3>1. i \in 1 .. L /\ j \in i .. L
      BY <1>1, <2>2
    <3>2. SubSeq(word', i, j) = SubSeq(word, i, j)
      BY <1>2, <3>1, InfixOfAppend
    <3>3. i .. j \subseteq window
      BY <1>3, <3>1, <3>2 DEF MatchesShown
    <3> QED
      BY <3>3
  <2> QED
    BY <2>1, <2>2
<1> HIDE DEF L
<1> QED
  BY <1>1, <1>3 DEF MatchesShown

-----------------------------------------------------------------------------

(* filter() begins.                                                        *)
LEMMA ShownStarts ==
  ASSUME InputsFit, IInv, Built, Filter!Start, runs = {} PROVE Shown
<1>1. Running!IInv
  <2>1. Running!IsMachine(filterMachine)
    BY MadeIsMachine DEF Filter!IsMachine, Running!IsMachine
  <2> QED
    BY <2>1, SameRunning, BufferAssumption, Running!StartIInv
<1>2. word = <<>> /\ Len(word) = 0
  BY DEF Filter!Start
<1>3. RunsShown /\ MatchesShown
  BY <1>2 DEF RunsShown, MatchesShown
<1>4. RunsAlive
  <2> SUFFICES ASSUME NEW i \in 1 .. Len(word) + 1,
                      NEW conf \in ConfsAfter(pattern, SubSeq(word, i, Len(word)))
               PROVE  i > Len(word) /\ conf \in Started(pattern)
    BY <1>2 DEF RunsAlive
  <2>1. i = 1
    BY <1>2
  <2> DEFINE suffix == SubSeq(word, i, Len(word))
  <2>2. suffix = <<>>
    BY <1>2, <2>1
  <2>3. conf \in ConfsAfter(pattern, suffix)
    OBVIOUS
  <2> HIDE DEF suffix
  <2>4. conf \in Started(pattern)
    BY <2>2, <2>3, ConfsAfterNothing
  <2> QED
    BY <1>2, <2>1, <2>4
<1> QED
  BY <1>1, <1>3, <1>4 DEF Shown

LEMMA ShownStartsPrimed ==
  ASSUME InputsFit, IInv', Built', Filter!Start', (runs = {})' PROVE Shown'
<1>1. InputsFit'
  BY DEF InputsFit, Fits, ClockSize, Row
<1> QED
  BY <1>1, ShownStarts, PTL

(* A construction that goes on, or returns the machine.                    *)
LEMMA ConstructionShows ==
  ASSUME InputsFit, IInv, IInv', AddCounter \/ ToTimedMooreMachine PROVE Shown'
<1>1. SUFFICES ASSUME Built' PROVE Shown'
  BY DEF Shown
<1>2. ~Built /\ UNCHANGED <<filterVars, runs>>
  <2>1. CASE AddCounter
    <3>1. Copying!Next /\ UNCHANGED <<filterMachine, filterVars, runs>>
      BY <2>1, SameCopying DEF AddCounter
    <3>2. ~Copying!Done
      BY <3>1, CopyingStops DEF IInv
    <3> QED
      BY <3>1, <3>2 DEF IInv, Made, Making, Copied
  <2>2. CASE ToTimedMooreMachine
    BY <2>2 DEF ToTimedMooreMachine, Built
  <2> QED
    BY <2>1, <2>2
<1>3. Filter!Start /\ runs = {} /\ filterMachine.initial = 1
  BY <1>2 DEF IInv, Built, NoMachine
<1>4. filterMachine'.initial = 1
  <2>1. filterMachine' = Machine'
    BY <1>1 DEF IInv
  <2> QED
    BY <2>1 DEF Machine
<1>5. Filter!Start' /\ (runs = {})'
  BY <1>2, <1>3, <1>4 DEF Filter!Start, filterVars
<1> QED
  BY <1>1, <1>5, ShownStartsPrimed

(* A step of filter().                                                     *)
LEMMA RunningShows ==
  ASSUME InputsFit, Running!NoOverflow, IInv, IInv', Shown, Read \/ EndOfInput \/ Drain
  PROVE  Shown'
<1>1. Built /\ Same
  BY DEF Read, EndOfInput, Drain
<1>2. /\ Running!IInv /\ RunsShown /\ MatchesShown
      /\ phase = "reading" => RunsAlive
  BY <1>1 DEF Shown
<1>3. filterMachine' = filterMachine /\ pattern' = pattern /\ states' = states /\ subsets' = subsets
  BY <1>1 DEF Same, counterVars, machineVars
<1>4. Built'
  BY <1>1, <1>3 DEF Built, NoMachine
<1>5. Running!IInv'
  <2>1. CASE Read
    <3>1. PICK e \in Letters \X Durations : Running!Fill(e) \/ Running!Forward(e)
      BY <2>1, SameRunning DEF Read
    <3>2. Running!Next
      BY <2>1, <3>1 DEF Read, Running!Next, Running!Read
    <3> QED
      BY <1>2, <3>2, BufferAssumption, Running!StepIInv
  <2>2. CASE EndOfInput
    <3>1. Running!Next
      BY <2>2, SameRunning DEF EndOfInput, Running!Next
    <3> QED
      BY <1>2, <3>1, BufferAssumption, Running!StepIInv
  <2>3. CASE Drain
    <3>1. Running!Next
      BY <2>3, SameRunning DEF Drain, Running!Next
    <3> QED
      BY <1>2, <3>1, BufferAssumption, Running!StepIInv
  <2> QED
    BY <2>1, <2>2, <2>3
<1>6. word \in Seq(Letters \X Durations) /\ drained \in Nat
  BY <1>1 DEF IInv, Follows
<1>7. ASSUME NEW e, Filter!Feed(e), Follow(e),
             \/ e \in Letters \X Durations /\ word' = Append(word, e) /\ drained' = drained
             \/ word' = word /\ drained' = drained + 1
      PROVE  RunsShown' /\ window \subseteq window'
  <2> DEFINE S == Letters \X Durations
  <2>1. Filter!Now \in Nat /\ Filter!Now' = Filter!Now + 1
    <3>1. word \in Seq(S)
      BY <1>6
    <3>2. \/ \E a \in S : word' = Append(word, a) /\ drained' = drained
          \/ word' = word /\ drained' = drained + 1
      BY <1>7
    <3> HIDE DEF S
    <3> QED
      BY <1>6, <3>1, <3>2, WordGrows
  <2>2. Advance(e)
    BY <1>3, <1>7, <2>1 DEF Advance
  <2>3. filterMachine.counter[currentState'] \in 0 .. BufferSize
    <3>1. Filter!IsMachine(filterMachine)
      BY <1>1, MadeIsMachine
    <3>2. currentState' \in DOMAIN filterMachine.counter
      BY <1>7, <3>1 DEF Filter!Feed, Filter!Successor, Filter!IsMachine
    <3> QED
      BY <3>1, <3>2 DEF Filter!IsMachine
  <2>4. RunsShown'
    BY <1>1, <1>2, <1>3, <1>4, <2>2, <2>3, RunsShownKept
  <2>5. window \subseteq window'
    BY <1>7 DEF Filter!Feed
  <2> QED
    BY <2>4, <2>5
<1>8. CASE Read
  <2>1. PICK e \in Letters \X Durations : (Filter!Fill(e) \/ Filter!Forward(e)) /\ Follow(e)
    BY <1>8 DEF Read
  <2>2. /\ Filter!Feed(e) /\ word' = Append(word, e) /\ drained' = drained
        /\ phase = "reading"
    BY <2>1 DEF Filter!Fill, Filter!Forward
  <2>3. drained = 0
    BY <1>2, <2>2 DEF Running!IInv, Running!Accounting
  <2>4. RunsShown' /\ window \subseteq window'
    BY <1>7, <2>1, <2>2
  <2>5. RunsAlive'
    BY <1>2, <1>3, <1>6, <2>1, <2>2, <2>3, RunsAliveKept
  <2>6. MatchesShown'
    BY <1>2, <1>3, <1>6, <2>2, <2>3, <2>4, <2>5, MatchesShownKept
  <2> QED
    BY <1>5, <2>4, <2>5, <2>6 DEF Shown
<1>9. CASE EndOfInput
  <2>1. /\ word' = word /\ drained' = drained /\ runs' = runs /\ window' = window
        /\ phase' = "draining"
    BY <1>9 DEF EndOfInput, Filter!EndOfInput
  <2>2. RunsShown' /\ MatchesShown'
    BY <1>2, <1>3, <2>1 DEF RunsShown, MatchesShown, Filter!Now, Count
  <2> QED
    BY <1>5, <2>1, <2>2 DEF Shown
<1>10. CASE Drain
  <2>1. Filter!Drain /\ Follow(MaskChar)
    BY <1>10 DEF Drain
  <2>2. /\ Filter!Feed(MaskChar) /\ word' = word /\ drained' = drained + 1
        /\ phase' = "draining"
    BY <2>1 DEF Filter!Drain, Filter!Pad, Filter!Flush
  <2>3. RunsShown' /\ window \subseteq window'
    BY <1>7, <2>1, <2>2
  <2>4. MatchesShown'
    BY <1>2, <1>3, <2>2, <2>3 DEF MatchesShown
  <2> QED
    BY <1>5, <2>2, <2>3, <2>4 DEF Shown
<1> QED
  BY <1>8, <1>9, <1>10

LEMMA StutterShows ==
  ASSUME Running!NoOverflow, Shown, UNCHANGED vars PROVE Shown'
<1>1. UNCHANGED <<pattern, filterMachine, filterVars, runs>>
  BY DEF vars
<1>2. Built' <=> Built
  BY <1>1 DEF Built, NoMachine
<1>3. SUFFICES ASSUME Built PROVE Shown'
  BY <1>2 DEF Shown
<1>4. Running!IInv'
  <2>1. UNCHANGED Running!vars
    BY <1>1 DEF Running!vars, Running!implVars, filterVars
  <2> QED
    BY <1>3, <2>1, BufferAssumption, Running!StepIInv DEF Shown
<1>5. RunsShown' /\ MatchesShown' /\ (RunsAlive => RunsAlive')
  BY <1>1, <1>3 DEF Shown, RunsShown, MatchesShown, RunsAlive, Filter!Now, Count, filterVars
<1>6. phase' = phase
  BY <1>1 DEF filterVars
<1> QED
  BY <1>3, <1>4, <1>5, <1>6 DEF Shown

LEMMA ShownInvariant ==
  InputsFit /\ Running!NoOverflow => (Spec /\ []SweepsIntervals => []Shown)
<1>1. SUFFICES ASSUME InputsFit, Running!NoOverflow
      PROVE  Spec /\ []SweepsIntervals => []Shown
  OBVIOUS
<1>2. Init => Shown
  <2>1. Init => ~Built
    BY DEF Init, Built
  <2> QED
    BY <2>1 DEF Shown
<1>3. IInv /\ IInv' /\ Shown /\ [Next]_vars => Shown'
  BY <1>1, ConstructionShows, RunningShows, StutterShows DEF Next
<1>4. Spec /\ []SweepsIntervals => []IInv
  BY <1>1, InductiveInvariant
<1> QED
  BY <1>2, <1>3, <1>4, PTL DEF Spec

(* However the zones are cut, and whatever the size of the buffer, no      *)
(* event of what isMember() accepts is masked.                             *)
THEOREM NoMatchIsLost ==
  InputsFit /\ Running!NoOverflow => (Spec /\ []SweepsIntervals => []NoMatchLost)
<1>1. ASSUME IInv, Shown PROVE NoMatchLost
  <2>1. SUFFICES ASSUME NEW i \in DOMAIN word, NEW j \in DOMAIN word, i =< j,
                        IsMember(pattern, Times(SubSeq(word, i, j))),
                        NEW p \in i .. j, p \in DOMAIN out
                 PROVE  out[p] = word[p]
    BY DEF NoMatchLost
  <2>2. CASE ~Built
    <3>1. word = <<>>
      BY <1>1, <2>2 DEF IInv, Filter!Start
    <3> QED
      BY <3>1
  <2>3. CASE Built
    <3> DEFINE S == Letters \X Durations
    <3>1. Running!FaithfulOutput /\ Running!TypeOK /\ MatchesShown
      BY <1>1, <2>3 DEF Shown, Running!IInv
    <3>2. word \in Seq(S) /\ \A e \in S : e[2] \in Int
      BY <1>1, <2>3, EventsAre DEF IInv, Follows
    <3> HIDE DEF S
    <3>3. i \in 1 .. Len(word) /\ j \in i .. Len(word)
      BY <2>1, <3>2
    <3>4. SubSeq(word, i, j) \in Seq(S)
      BY <3>2, <3>3
    <3>5. \E conf \in ConfsAfter(pattern, SubSeq(word, i, j)) : conf[1] \in pattern.match
      BY <2>1, <3>2, <3>4, MemberIs
    <3>6. p \in window
      BY <2>1, <3>1, <3>3, <3>5 DEF MatchesShown
    <3>7. p \in 1 .. Len(out)
      BY <2>1, <3>1 DEF Running!TypeOK
    <3> QED
      BY <3>1, <3>6, <3>7 DEF Running!FaithfulOutput
  <2> QED
    BY <2>2, <2>3
<1>2. SUFFICES ASSUME InputsFit, Running!NoOverflow
      PROVE  Spec /\ []SweepsIntervals => []NoMatchLost
  OBVIOUS
<1>3. IInv /\ Shown => NoMatchLost
  BY <1>1
<1> QED
  BY <1>2, <1>3, InductiveInvariant, ShownInvariant, PTL

-----------------------------------------------------------------------------
(* What a file means, and its timed automaton.                             *)

(* The numbers of the clocks of the files are not cut off.                 *)
ClocksFit ==
  \A f \in Files : \A e \in Range(f.edges) :
    /\ \A k \in DOMAIN e.reset : ClockNumber(e.reset[k]) = e.reset[k]
    /\ \A k \in DOMAIN e.guard : ClockNumber(e.guard[k].x) = e.guard[k].x

(* The last of the first i - 1 edges of path that resets x, or 0.          *)
ResetAt(path, x, i) == Max({0} \union {j \in 1 .. i - 1 : x \in Range(path[j].reset)})

LEMMA ResetAtIs ==
  ASSUME NEW path, NEW x
  PROVE  /\ ResetAt(path, x, 1) = 0
         /\ \A i \in Nat \ {0} :
              ResetAt(path, x, i + 1) = IF x \in Range(path[i].reset) THEN i ELSE ResetAt(path, x, i)
<1> DEFINE P(j) == x \in Range(path[j].reset)
           S(i) == {0} \union {j \in 1 .. i - 1 : P(j)}
<1>1. \A i : ResetAt(path, x, i) = CHOOSE m \in S(i) : \A y \in S(i) : m >= y
  BY DEF ResetAt, Max
<1>2. S(1) = {0}
  OBVIOUS
<1>3. ASSUME NEW i \in Nat \ {0}, ~P(i) PROVE S(i + 1) = S(i)
  <2>1. \A j : j \in 1 .. (i + 1) - 1 <=> j \in 1 .. i - 1 \/ j = i
    OBVIOUS
  <2> HIDE DEF P
  <2> QED
    BY <1>3, <2>1
<1>4. ASSUME NEW i \in Nat \ {0}, P(i) PROVE i \in S(i + 1) /\ \A y \in S(i + 1) : y \in Nat /\ i >= y
  <2> HIDE DEF P
  <2> QED
    BY <1>4
<1> HIDE DEF P, S
<1>5. ASSUME NEW i \in Nat \ {0}, P(i) PROVE ResetAt(path, x, i + 1) = i
  <2> DEFINE Greatest(m) == m \in S(i + 1) /\ \A y \in S(i + 1) : m >= y
  <2>1. Greatest(i)
    BY <1>4, <1>5
  <2>2. \A m : Greatest(m) => m = i
    BY <1>4, <1>5
  <2>3. ResetAt(path, x, i + 1) = CHOOSE m : Greatest(m)
    BY <1>1
  <2> HIDE DEF Greatest
  <2> QED
    BY <2>1, <2>2, <2>3
<1>6. ResetAt(path, x, 1) = 0
  <2> DEFINE Greatest(m) == m \in S(1) /\ \A y \in S(1) : m >= y
  <2>1. \A m : Greatest(m) <=> m = 0
    BY <1>2
  <2>2. ResetAt(path, x, 1) = CHOOSE m : Greatest(m)
    BY <1>1
  <2> HIDE DEF Greatest
  <2> QED
    BY <2>1, <2>2
<1> QED
  BY <1>1, <1>3, <1>5, <1>6 DEF P

(* The transition of an edge of a file.                                    *)
LEMMA EdgeIsTransition ==
  ASSUME ClocksFit, NEW f \in Files, Fits(ConvTA(f)), NEW e \in Range(f.edges)
  PROVE  \E t \in ConvTA(f).trans :
           /\ t.at = e.source /\ t.via.c = e.label /\ t.to = e.target
           /\ \A x \in 1 .. Clocks : x \in t.via.resetVars <=> x - 1 \in Range(e.reset)
           /\ \A k \in DOMAIN t.via.guard :
                /\ k \in DOMAIN e.guard
                /\ e.guard[k].x + 1 = t.via.guard[k].x
                /\ t.via.guard[k].x \in 1 .. Clocks
                /\ t.via.guard[k].order = e.guard[k].order
                /\ t.via.guard[k].c = e.guard[k].c
<1> DEFINE guard == [k \in DOMAIN ParsedGuard(e) |-> [ParsedGuard(e)[k] EXCEPT !.x = @ + 1]]
           resets == {x + 1 : x \in ParsedReset(e)}
           tr(i) == [at |-> f.edges[i].source,
                     via |-> [c |-> f.edges[i].label,
                              guard |-> [k \in DOMAIN ParsedGuard(f.edges[i]) |->
                                           [ParsedGuard(f.edges[i])[k] EXCEPT !.x = @ + 1]],
                              resetVars |-> {x + 1 : x \in ParsedReset(f.edges[i])},
                              edge |-> i],
                     to |-> f.edges[i].target]
<1>1. PICK i \in DOMAIN f.edges : f.edges[i] = e
  BY DEF Range
<1>2. ConvTA(f).trans = {tr(j) : j \in DOMAIN f.edges}
  BY DEF ConvTA
<1>3. tr(i) = [at |-> e.source,
               via |-> [c |-> e.label, guard |-> guard, resetVars |-> resets, edge |-> i],
               to |-> e.target]
  BY <1>1
<1>4. tr(i) \in ConvTA(f).trans
  <2> HIDE DEF tr
  <2> QED
    BY <1>1, <1>2
<1>5. /\ e.reset \in Seq(Nat)
      /\ e.guard \in Seq([x : Nat, order : {"lt", "le", "gt", "ge"}, c : Int])
      /\ \A k \in DOMAIN e.reset : ClockNumber(e.reset[k]) = e.reset[k]
      /\ \A k \in DOMAIN e.guard : ClockNumber(e.guard[k].x) = e.guard[k].x
  BY FilesAssumption DEF ClocksFit
<1>6. resets = {n + 1 : n \in Range(e.reset)} /\ Range(e.reset) \subseteq Nat
  <2>1. ParsedReset(e) = Range(e.reset)
    BY <1>5 DEF ParsedReset, Range
  <2>2. Range(e.reset) \subseteq Nat
    BY <1>5 DEF Range
  <2> QED
    BY <2>1, <2>2
<1>7. \A x \in 1 .. Clocks : x \in resets <=> x - 1 \in Range(e.reset)
  <2> HIDE DEF resets
  <2>1. \A x \in 1 .. Clocks : x \in resets => x - 1 \in Range(e.reset)
    BY <1>6, ClocksAssumption
  <2>2. \A x \in 1 .. Clocks : x - 1 \in Range(e.reset) => x \in resets
    <3> TAKE x \in 1 .. Clocks
    <3>1. (x - 1) + 1 = x
      BY ClocksAssumption
    <3> QED
      BY <1>6, <3>1
  <2> QED
    BY <2>1, <2>2
<1>8. ASSUME NEW k \in DOMAIN guard
      PROVE  /\ k \in DOMAIN e.guard
             /\ e.guard[k].x + 1 = guard[k].x
             /\ guard[k].order = e.guard[k].order
             /\ guard[k].c = e.guard[k].c
  <2>1. k \in DOMAIN e.guard /\ guard[k] = [ParsedGuard(e)[k] EXCEPT !.x = @ + 1]
    BY DEF ParsedGuard
  <2> DEFINE g == e.guard[k]
  <2>2. g \in [x : Nat, order : {"lt", "le", "gt", "ge"}, c : Int] /\ ClockNumber(g.x) = g.x
    <3> DEFINE R == [x : Nat, order : {"lt", "le", "gt", "ge"}, c : Int]
    <3>1. e.guard \in Seq(R)
      BY <1>5
    <3> HIDE DEF R
    <3>2. e.guard[k] \in R
      BY <2>1, <3>1
    <3> QED
      BY <1>5, <2>1, <3>2 DEF R
  <2>3. ParsedGuard(e)[k] = [g EXCEPT !.x = ClockNumber(@)]
    BY <2>1 DEF ParsedGuard
  <2> HIDE DEF g, guard
  <2>4. ParsedGuard(e)[k] = g
    BY <2>2, <2>3
  <2> QED
    BY <2>1, <2>2, <2>4 DEF g
<1>9. \A k \in DOMAIN guard : guard[k].x \in 1 .. Clocks
  <2>1. tr(i).via.guard \in Seq(Constraint)
    BY <1>4 DEF Fits
  <2>2. guard \in Seq(Constraint)
    <3> HIDE DEF guard, resets
    <3> QED
      BY <1>3, <2>1
  <2> HIDE DEF guard
  <2>3. \A k \in DOMAIN guard : guard[k] \in Constraint
    BY <2>2
  <2> QED
    BY <2>3 DEF Constraint
<1>10. /\ tr(i).at = e.source /\ tr(i).via.c = e.label /\ tr(i).to = e.target
       /\ tr(i).via.guard = guard /\ tr(i).via.resetVars = resets
  <2> HIDE DEF guard, resets
  <2> QED
    BY <1>3
<1> HIDE DEF tr, guard, resets
<1> QED
  BY <1>4, <1>7, <1>8, <1>9, <1>10

(* A word that the file matches leads the automaton to a state that        *)
(* matches: the time since a clock was reset is its value.                 *)
LEMMA MatchLeads ==
  ASSUME ClocksFit, NEW f \in Files, Fits(ConvTA(f)),
         NEW S, NEW w \in Seq(S), Len(w) > 0, \A a \in S : a[2] \in Int, Matches(f, w)
  PROVE  \E conf \in ConfsAfter(ConvTA(f), w) : conf[1] \in ConvTA(f).match
<1> DEFINE ta == ConvTA(f)  L == Len(w)  time == TimeOf(w)
           meets(v, g) == \/ g.order = "lt" /\ v < Parts * g.c
                          \/ g.order = "le" /\ v =< Parts * g.c
                          \/ g.order = "gt" /\ v > Parts * g.c
                          \/ g.order = "ge" /\ v >= Parts * g.c
<1>1. PICK path \in [DOMAIN w -> Range(f.edges)] :
        /\ \A i \in DOMAIN w : path[i].label = w[i][1]
        /\ f.vertices[path[1].source].init
        /\ f.vertices[path[Len(w)].target].match
        /\ \A i \in 1 .. Len(w) - 1 : path[i + 1].source = path[i].target
        /\ \A i \in DOMAIN w : \A g \in Range(path[i].guard) :
             meets(time[i] - time[ResetAt(path, g.x, i)], g)
  BY DEF Matches, TimeOf, ResetAt
<1>2. /\ L \in Nat /\ L > 0 /\ DOMAIN w = 1 .. L
      /\ \A i \in 1 .. L : path[i] \in Range(f.edges) /\ w[i][2] \in Int
  <2>1. \A i \in 1 .. L : w[i] \in S
    OBVIOUS
  <2> QED
    BY <2>1
<1>3. /\ time[0] = 0
      /\ \A n \in 1 .. L : time[n] = time[n - 1] + w[n][2]
      /\ \A n \in 0 .. L : time[n] \in Int
  BY TimeOfIs
<1>4. PICK r : /\ r[0] = Started(ta)
               /\ \A n \in 1 .. L : r[n] = Moved(ta, r[n - 1], w[n][1], w[n][2])
               /\ ConfsAfter(ta, w) = r[L]
  BY ConfsAfterIterates
<1>5. /\ path[1].source \in ta.initial /\ path[L].target \in ta.match
  <2>1. \A e \in Range(f.edges) : {e.source, e.target} \subseteq DOMAIN f.vertices
    BY FilesAssumption DEF IsGraph
  <2>2. path[1] \in Range(f.edges) /\ path[L] \in Range(f.edges)
    BY <1>2
  <2> QED
    BY <1>1, <2>1, <2>2 DEF ConvTA, Initial, Matching
<1> DEFINE since(n, x) == ResetAt(path, x - 1, n + 1)
           point(n) == [x \in 1 .. Clocks |-> time[n] - time[since(n, x)]]
           place(n) == IF n = 0 THEN path[1].source ELSE path[n].target
           D == {n \in 0 .. L : /\ <<place(n), point(n)>> \in r[n]
                                /\ \A x \in 1 .. Clocks : since(n, x) \in 0 .. n}
<1>6. 0 \in D
  <2>1. \A x : since(0, x) = 0
    BY ResetAtIs
  <2>2. point(0) = [x \in 1 .. Clocks |-> 0]
    <3> HIDE DEF time, since
    <3> QED
      BY <1>3, <2>1
  <2> HIDE DEF point, since
  <2>3. <<place(0), point(0)>> \in r[0]
    BY <1>4, <1>5, <2>2 DEF Started
  <2> QED
    BY <1>2, <2>1, <2>3
<1>7. ASSUME NEW n \in 0 .. L - 1, n \in D PROVE n + 1 \in D
  <2>1. n \in Nat /\ n + 1 \in 1 .. L /\ (n + 1) - 1 = n /\ n \in 0 .. L /\ n + 1 \in 0 .. L
    BY <1>2
  <2> DEFINE e == path[n + 1]  d == w[n + 1][2]
  <2>2. e \in Range(f.edges) /\ d \in Int
    BY <1>2, <2>1
  <2>3. PICK t \in ta.trans :
          /\ t.at = e.source /\ t.via.c = e.label /\ t.to = e.target
          /\ \A x \in 1 .. Clocks : x \in t.via.resetVars <=> x - 1 \in Range(e.reset)
          /\ \A k \in DOMAIN t.via.guard :
               /\ k \in DOMAIN e.guard
               /\ e.guard[k].x + 1 = t.via.guard[k].x
               /\ t.via.guard[k].x \in 1 .. Clocks
               /\ t.via.guard[k].order = e.guard[k].order
               /\ t.via.guard[k].c = e.guard[k].c
    BY <2>2, EdgeIsTransition
  <2>4. e.source = place(n)
    <3>1. n = 0 \/ n \in 1 .. L - 1
      BY <1>2, <2>1
    <3> QED
      BY <1>1, <3>1
  <2>5. time[n + 1] = time[n] + d /\ time[n] \in Int /\ time[n + 1] \in Int
    BY <1>3, <2>1
  <2>6. \A x \in 1 .. Clocks : since(n, x) \in 0 .. n /\ time[since(n, x)] \in Int
    <3> HIDE DEF since, time
    <3>1. \A x \in 1 .. Clocks : since(n, x) \in 0 .. n
      BY <1>7
    <3>2. 0 .. n \subseteq 0 .. L
      BY <2>1, <1>2
    <3> QED
      BY <1>3, <3>1, <3>2
  <2>7. \A x \in 1 .. Clocks :
          since(n + 1, x) = IF x \in t.via.resetVars THEN n + 1 ELSE since(n, x)
    <3> TAKE x \in 1 .. Clocks
    <3>1. since(n + 1, x) = IF x - 1 \in Range(e.reset) THEN n + 1 ELSE since(n, x)
      <4>1. n + 1 \in Nat \ {0}
        BY <2>1
      <4> QED
        BY <4>1, ResetAtIs
    <3> HIDE DEF since, e
    <3> QED
      BY <2>3, <3>1
  <2>8. After(point(n), d) = [x \in 1 .. Clocks |-> time[n + 1] - time[since(n, x)]]
    <3> HIDE DEF time, since, d
    <3>1. \A x \in 1 .. Clocks : point(n)[x] + d = time[n + 1] - time[since(n, x)]
      BY <2>2, <2>5, <2>6
    <3> HIDE DEF point
    <3> QED
      BY <3>1 DEF After
  <2>9. Satisfies(After(point(n), d), t.via.guard)
    <3> SUFFICES ASSUME NEW k \in DOMAIN t.via.guard
                 PROVE  meets(After(point(n), d)[t.via.guard[k].x], t.via.guard[k])
      BY DEF Satisfies
    <3> DEFINE g == e.guard[k]  x == t.via.guard[k].x
    <3>1. /\ g \in Range(e.guard) /\ x \in 1 .. Clocks /\ g.x + 1 = x
          /\ t.via.guard[k].order = g.order /\ t.via.guard[k].c = g.c
      BY <2>3 DEF Range
    <3>2. g.x = x - 1
      <4>1. g.x \in Int
        <5> DEFINE R == [x : Nat, order : {"lt", "le", "gt", "ge"}, c : Int]
        <5>1. e.guard \in Seq(R)
          BY <2>2, FilesAssumption
        <5> HIDE DEF R
        <5>2. g \in R
          BY <2>3, <5>1
        <5> QED
          BY <5>2 DEF R
      <4> HIDE DEF g, x
      <4> QED
        BY <3>1, <4>1
    <3>3. meets(time[n + 1] - time[ResetAt(path, g.x, n + 1)], g)
      <4> HIDE DEF g, time, meets
      <4>1. n + 1 \in DOMAIN w
        BY <1>2, <2>1
      <4>2. g \in Range(path[n + 1].guard)
        BY <3>1
      <4> QED
        BY <1>1, <4>1, <4>2
    <3>4. meets(time[n + 1] - time[since(n, x)], g)
      BY <3>2, <3>3
    <3>5. After(point(n), d)[x] = time[n + 1] - time[since(n, x)]
      <4> HIDE DEF x, point, time, since, d
      <4> QED
        BY <2>8, <3>1
    <3> HIDE DEF g, x, point, time, since, d
    <3>6. meets(After(point(n), d)[x], t.via.guard[k])
      BY <3>1, <3>4, <3>5
    <3> QED
      BY <3>6 DEF x
  <2>10. ResetPoint(After(point(n), d), t.via.resetVars) = point(n + 1)
    <3> DEFINE p == After(point(n), d)
    <3>1. \A x \in 1 .. Clocks : p[x] = time[n + 1] - time[since(n, x)]
      <4> HIDE DEF point, time, since, d
      <4> QED
        BY <2>8
    <3> HIDE DEF p, time, since
    <3>2. \A x \in 1 .. Clocks :
            (IF x \in t.via.resetVars THEN 0 ELSE p[x]) = time[n + 1] - time[since(n + 1, x)]
      BY <2>5, <2>7, <3>1
    <3>3. ResetPoint(p, t.via.resetVars) = point(n + 1)
      BY <3>2 DEF ResetPoint
    <3> QED
      BY <3>3 DEF p
  <2>11. <<place(n + 1), point(n + 1)>> \in r[n + 1]
    <3> DEFINE conf == <<place(n), point(n)>>
               can == {q \in r[n] \X ta.trans : /\ q[2].at = q[1][1]
                                                /\ q[2].via.c = w[n + 1][1]
                                                /\ Satisfies(After(q[1][2], d), q[2].via.guard)}
    <3>1. place(n + 1) = t.to
      BY <2>1, <2>3
    <3>2. conf \in r[n] /\ conf[1] = place(n) /\ conf[2] = point(n)
      BY <1>7
    <3>3. t.via.c = w[n + 1][1]
      BY <1>1, <1>2, <2>1, <2>3
    <3> HIDE DEF conf, place, point, time, e, d, ta
    <3>4. <<conf, t>> \in can
      BY <2>3, <2>4, <2>9, <3>2, <3>3
    <3>5. r[n + 1] = {<<q[2].to, ResetPoint(After(q[1][2], d), q[2].via.resetVars)>> : q \in can}
      <4>1. r[n + 1] = Moved(ta, r[n], w[n + 1][1], w[n + 1][2])
        BY <1>4, <2>1
      <4> QED
        BY <4>1 DEF Moved, d
    <3> HIDE DEF can
    <3> QED
      BY <2>10, <3>1, <3>2, <3>4, <3>5
  <2>12. \A x \in 1 .. Clocks : since(n + 1, x) \in 0 .. n + 1
    <3> HIDE DEF since
    <3> QED
      BY <2>1, <2>6, <2>7
  <2> HIDE DEF place, point, since
  <2> QED
    BY <2>1, <2>11, <2>12
<1>8. L \in D
  <2> HIDE DEF D
  <2>1. \A n \in 0 .. L : n \in D
    BY <1>2, <1>6, <1>7, InductionToBound
  <2> QED
    BY <1>2, <2>1
<1>9. <<path[L].target, point(L)>> \in ConfsAfter(ta, w)
  <2>1. <<place(L), point(L)>> \in r[L]
    <3> HIDE DEF place, point, since
    <3> QED
      BY <1>8
  <2>2. place(L) = path[L].target
    BY <1>2
  <2> HIDE DEF place, point
  <2> QED
    BY <1>4, <2>1, <2>2
<1> HIDE DEF point, ta
<1> QED
  BY <1>5, <1>9 DEF ta

-----------------------------------------------------------------------------
(* The program and what it promises.                                       *)

FileKept == file \in Files /\ pattern = ConvTA(file)

LEMMA FileStays == ASSUME IInv, FileKept, [Next]_vars PROVE FileKept' /\ file' = file
<1>1. UNCHANGED <<file, pattern>>
  <2>1. CASE AddCounter
    <3>1. Copying!Next /\ file' = file
      BY <2>1, SameCopying DEF AddCounter
    <3> QED
      BY <3>1 DEF Copying!Next, Copying!AddInitial, Copying!Visit, Copying!Redirect
  <2>2. CASE ToTimedMooreMachine
    BY <2>2 DEF ToTimedMooreMachine
  <2>3. CASE Read \/ EndOfInput \/ Drain
    BY <2>3 DEF Read, EndOfInput, Drain, Same
  <2>4. CASE UNCHANGED vars
    BY <2>4 DEF vars
  <2> QED
    BY <2>1, <2>2, <2>3, <2>4 DEF Next
<1> QED
  BY <1>1 DEF FileKept

(* The positions that a match of the file takes in the word are visible.   *)
LEMMA FileIsShown ==
  ASSUME InputsFit, ClocksFit, IInv, Shown, FileKept PROVE Promise!Shows(out, word)
<1>1. SUFFICES ASSUME NEW p \in DOMAIN out, p \in Promise!Matched(word) PROVE out[p] = word[p]
  BY DEF Promise!Shows
<1> DEFINE S == Letters \X Durations
<1>2. PICK ij \in (DOMAIN word) \X (DOMAIN word) :
        /\ ij[1] =< ij[2] /\ Matches(file, SubSeq(word, ij[1], ij[2]))
        /\ p \in ij[1] .. ij[2]
  BY <1>1 DEF Promise!Matched
<1>3. CASE ~Built
  <2>1. word = <<>>
    BY <1>3 DEF IInv, Filter!Start
  <2> QED
    BY <1>2, <2>1
<1>4. CASE Built
  <2>1. Running!FaithfulOutput /\ Running!TypeOK /\ MatchesShown
    BY <1>4 DEF Shown, Running!IInv
  <2>2. word \in Seq(S) /\ \A e \in S : e[2] \in Int
    BY <1>4, EventsAre DEF IInv, Follows
  <2> HIDE DEF S
  <2> DEFINE i == ij[1]  j == ij[2]  w == SubSeq(word, i, j)
  <2>3. i \in 1 .. Len(word) /\ j \in i .. Len(word)
    BY <1>2, <2>2
  <2> HIDE DEF i, j
  <2>4. w \in Seq(S) /\ Len(w) > 0
    BY <2>2, <2>3
  <2>5. Matches(file, w)
    BY <1>2 DEF i, j
  <2> HIDE DEF w
  <2>6. \E conf \in ConfsAfter(pattern, w) : conf[1] \in pattern.match
    <3>1. file \in Files /\ pattern = ConvTA(file) /\ Fits(ConvTA(file))
      BY DEF FileKept, InputsFit
    <3> QED
      BY <2>2, <2>4, <2>5, <3>1, MatchLeads
  <2>7. p \in window
    BY <1>2, <2>1, <2>3, <2>6 DEF MatchesShown, i, j, w
  <2>8. p \in 1 .. Len(out)
    BY <1>1, <2>1 DEF Running!TypeOK
  <2> QED
    BY <2>1, <2>7, <2>8 DEF Running!FaithfulOutput
<1> QED
  BY <1>3, <1>4

LEMMA FileIsShownPrimed ==
  ASSUME InputsFit, ClocksFit, IInv', Shown', FileKept' PROVE Promise!Shows(out, word)'
<1>1. InputsFit' /\ ClocksFit'
  BY DEF InputsFit, Fits, ClockSize, Row, ClocksFit
<1> QED
  BY <1>1, FileIsShown, PTL

(* A step of the program, seen by its user.                                *)
LEMMA StepDelays ==
  ASSUME IInv, Shown, FileKept, [Next]_vars PROVE [Promise!Next]_<<file, Promise!vars>>
<1>1. file' = file
  BY FileStays
<1>2. CASE AddCounter \/ ToTimedMooreMachine \/ UNCHANGED vars
  <2>1. UNCHANGED filterVars
    BY <1>2 DEF AddCounter, ToTimedMooreMachine, vars
  <2> QED
    BY <1>1, <2>1 DEF filterVars, Promise!vars
<1>3. CASE Read
  <2>1. PICK e \in Letters \X Durations : Running!Fill(e) \/ Running!Forward(e)
    BY <1>3, SameRunning DEF Read
  <2>2. Running!IInv
    BY <1>3 DEF Read, Shown
  <2>3. Running!Delay!Receive
    BY <2>1, <2>2, BufferAssumption, Running!FillReceives, Running!ForwardReceives
  <2>4. Promise!Receive
    BY <2>3 DEF Running!Delay!Receive, Running!Delay!Emit, Promise!Receive, Promise!Emit, MaskOf
  <2> QED
    BY <2>4 DEF Promise!Next
<1>4. CASE EndOfInput
  <2>1. Running!EndOfInput
    BY <1>4, SameRunning DEF EndOfInput
  <2>2. Promise!Close
    BY <2>1 DEF Promise!Close, Running!EndOfInput
  <2> QED
    BY <2>2 DEF Promise!Next
<1>5. CASE Drain
  <2>1. Running!Drain /\ Running!IInv
    BY <1>5, SameRunning DEF Drain, Shown
  <2>2. CASE Running!Pad
    BY <1>1, <2>2 DEF Running!Pad, Promise!vars
  <2>3. CASE Running!Flush
    <3>1. Running!Delay!Empty
      BY <2>1, <2>3, BufferAssumption, Running!FlushEmpties
    <3>2. Promise!Empty
      BY <3>1 DEF Running!Delay!Empty, Running!Delay!Emit, Promise!Empty, Promise!Emit, MaskOf
    <3> QED
      BY <3>2 DEF Promise!Next
  <2> QED
    BY <2>1, <2>2, <2>3 DEF Running!Drain
<1> QED
  BY <1>2, <1>3, <1>4, <1>5 DEF Next

(* For every file that fits the matrices, every size of the buffer and     *)
(* every word without events of duration 0, what the program does from     *)
(* reading the file to its last event is what PatternFilter promises: a    *)
(* masked copy of the word, in order, late by the buffer, in which no      *)
(* event of a match of the file is masked.                                 *)
THEOREM ImplementsPatternFilter ==
  InputsFit /\ ClocksFit /\ Running!NoOverflow =>
    (Spec /\ []SweepsIntervals =>
       Promise!FilterInit /\ [][Promise!FilterNext]_<<file, Promise!vars>>)
<1>1. SUFFICES ASSUME InputsFit, ClocksFit, Running!NoOverflow
      PROVE  Spec /\ []SweepsIntervals =>
               Promise!FilterInit /\ [][Promise!FilterNext]_<<file, Promise!vars>>
  OBVIOUS
<1>2. Init => FileKept /\ Promise!FilterInit
  <2> SUFFICES ASSUME Init PROVE FileKept /\ Promise!FilterInit
    OBVIOUS
  <2>1. file \in Files /\ word = <<>> /\ out = <<>> /\ phase = "reading"
    BY DEF Init, Filter!Start
  <2> QED
    BY <2>1 DEF Init, FileKept, Promise!FilterInit, Promise!Init
<1>3. IInv /\ Shown /\ FileKept /\ IInv' /\ Shown' /\ [Next]_vars =>
        FileKept' /\ [Promise!FilterNext]_<<file, Promise!vars>>
  <2> SUFFICES ASSUME IInv, Shown, FileKept, IInv', Shown', [Next]_vars
               PROVE  FileKept' /\ [Promise!FilterNext]_<<file, Promise!vars>>
    OBVIOUS
  <2>1. FileKept' /\ file' = file
    BY FileStays
  <2>2. [Promise!Next]_<<file, Promise!vars>>
    BY StepDelays
  <2>3. Promise!Shows(out, word)'
    BY <1>1, <2>1, FileIsShownPrimed
  <2>4. Promise!Shows(out', word')
    BY <2>1, <2>3 DEF Promise!Shows, Promise!Matched
  <2> QED
    BY <2>1, <2>2, <2>4 DEF Promise!FilterNext
<1>4. Spec /\ []SweepsIntervals => [](IInv /\ Shown)
  BY <1>1, InductiveInvariant, ShownInvariant, PTL
<1> QED
  BY <1>2, <1>3, <1>4, PTL DEF Spec

==============================================================================
