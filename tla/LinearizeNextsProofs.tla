------------------------ MODULE LinearizeNextsProofs ------------------------
(***************************************************************************)
(* Proofs about LinearizeNexts, for vectors of any length: the sweep cuts  *)
(* the time line as it should, however the intervals overlap and touch.    *)
(*                                                                         *)
(* In halves an interval has a first and a last one, and the sweep is at a *)
(* position, the last half that the pieces made so far cover.  What is     *)
(* left of the deques is what begins and what ends after the position.     *)
(***************************************************************************)
EXTENDS LinearizeNexts, BasicLemmas, FiniteSetTheorems

(* The last half that a piece or an interval with an upper bound has, and  *)
(* the first one of an interval with a lower bound.                        *)
EndOf(bound) == IF bound[2] THEN 2 * bound[1] ELSE 2 * bound[1] - 1
StartOf(bound) == IF bound[2] THEN 2 * bound[1] ELSE 2 * bound[1] + 1

Places == DOMAIN nexts
starts == [i \in Places |-> StartOf(lowers[i])]
ends == [i \in Places |-> EndOf(uppers[i])]

UpperBounds == ((0 .. Infinity - 1) \X BOOLEAN) \union {Unbounded}

(* The states that the configurations at the places in is stand for.       *)
States(is) == SetToBag(initConfs) (+) Confs(is)

(* The places of the intervals that contain a duration.                    *)
At(half) == {i \in Places : Within(nexts[i], half)}

-----------------------------------------------------------------------------
(* The inductive invariant.                                                *)

(* What VectorsAssumption says of the vectors, said of this one.           *)
InputOK ==
  /\ nexts \in Seq(Range(nexts))
  /\ \A i \in Places : IsElement(nexts[i]) /\ nexts[i].conf \notin initConfs

(* A deque has places in the order of their ends.                          *)
Ordered(o, f) ==
  /\ o \in Seq(Places)
  /\ \A i, j \in 1 .. Len(o) : i < j => o[i] # o[j] /\ f[o[i]] =< f[o[j]]

Ahead(o) == {o[i] : i \in 1 .. Len(o)}

(* The configurations at the sweep are those of the open intervals.        *)
CurrentOK == currentStates = States(Ahead(upperVec) \ Ahead(lowerVec))

Piece_ == [states : {States(is) : is \in SUBSET Places}, bound : UpperBounds]

(* The pieces are in order and have the configurations of their durations. *)
PiecesOK(p) ==
  /\ p \in Seq(Piece_)
  /\ \A i, j \in 1 .. Len(p) : i < j => EndOf(p[i].bound) =< EndOf(p[j].bound)
  /\ \A k \in 1 .. Len(p), half \in Nat \ {0} :
       /\ k = 1 \/ Below(p[k - 1].bound, half)
       /\ ~Below(p[k].bound, half)
       => p[k].states = States(At(half))

Position(p) == IF p = <<>> THEN 0 ELSE EndOf(p[Len(p)].bound)

(* What begins and what ends on which side of the position pos.  An end    *)
(* that is attained may be left at the position: the point has been cut    *)
(* for one that is not attained.                                           *)
SidesOK(pos, toBegin, toEnd) ==
  /\ \A i \in toBegin : starts[i] >= pos + 1
  /\ \A i \in Places \ toBegin : starts[i] =< pos + 1
  /\ \A i \in Places \ toEnd : ends[i] =< pos
  /\ \A i \in toEnd : \/ ends[i] >= pos + 1
                      \/ /\ ends[i] = pos /\ uppers[i][2]
                         /\ \A j \in toBegin : starts[j] >= pos + 2

PhaseOK ==
  \/ /\ pc = "zero"
     /\ nextLineared = <<>>
     /\ Ahead(upperVec) = Places
     /\ \A i \in Places \ Ahead(lowerVec) : starts[i] =< 1
  \/ /\ pc = "sweep"
     /\ SidesOK(Position(nextLineared), Ahead(lowerVec), Ahead(upperVec))
  \/ /\ pc = "done"
     /\ lowerVec = <<>>
     /\ nextLineared # <<>> /\ nextLineared[Len(nextLineared)].bound[1] = Infinity

IInv ==
  /\ InputOK
  /\ Ordered(lowerVec, starts) /\ Ordered(upperVec, ends)
  /\ CurrentOK
  /\ PiecesOK(nextLineared)
  /\ PhaseOK

-----------------------------------------------------------------------------
(* Halves.                                                                 *)

LEMMA InfinityIsPositive == Infinity \in Nat /\ Infinity >= 1
BY InfinityAssumption

LEMMA PartsOfBound ==
  ASSUME NEW bound \in UpperBounds
  PROVE  /\ bound = <<bound[1], bound[2]>>
         /\ bound[1] \in 0 .. Infinity /\ bound[2] \in BOOLEAN
         /\ bound[1] = Infinity => ~bound[2]
<1>1. CASE bound \in (0 .. Infinity - 1) \X BOOLEAN
  <2>1. PICK n \in 0 .. Infinity - 1, attained \in BOOLEAN : bound = <<n, attained>>
    BY <1>1
  <2> QED
    BY <2>1, InfinityIsPositive
<1>2. CASE bound = Unbounded
  BY <1>2, InfinityIsPositive DEF Unbounded
<1> QED
  BY <1>1, <1>2 DEF UpperBounds

(* A bound is below the halves after its last one, and an infinite one     *)
(* below none.                                                             *)
LEMMA BelowByEnd ==
  ASSUME NEW bound \in UpperBounds, NEW half \in Nat
  PROVE  /\ Below(bound, half) <=> (bound[1] # Infinity /\ EndOf(bound) < half)
         /\ EndOf(bound) \in Int /\ EndOf(bound) =< 2 * Infinity - 1
         /\ bound[1] = Infinity <=> EndOf(bound) = 2 * Infinity - 1
<1>1. /\ bound[1] \in 0 .. Infinity /\ bound[2] \in BOOLEAN
      /\ bound[1] = Infinity => ~bound[2]
  BY PartsOfBound
<1>2. CASE bound[2]
  BY <1>1, <1>2, InfinityIsPositive DEF Below, EndOf
<1>3. CASE ~bound[2]
  BY <1>1, <1>3, InfinityIsPositive DEF Below, EndOf
<1> QED
  BY <1>2, <1>3

(* Bounds with the same end are the same.                                  *)
LEMMA EndIsOfOneBound ==
  ASSUME NEW a \in UpperBounds, NEW b \in UpperBounds, EndOf(a) = EndOf(b)
  PROVE  a = b
<1>1. ASSUME NEW c \in UpperBounds PROVE c = <<c[1], c[2]>> /\ c[1] \in Nat /\ c[2] \in BOOLEAN
  BY PartsOfBound, InfinityIsPositive
<1>2. a[1] = b[1] /\ a[2] = b[2]
  BY <1>1 DEF EndOf
<1> QED
  BY <1>1, <1>2

LEMMA StartIsOfOneBound ==
  ASSUME NEW a \in Nat \X BOOLEAN, NEW b \in Nat \X BOOLEAN, StartOf(a) = StartOf(b)
  PROVE  a = b
<1>1. a[1] = b[1] /\ a[2] = b[2]
  BY DEF StartOf
<1> QED
  BY <1>1

(* What the vectors are like.                                              *)
LEMMA ElementsOK ==
  ASSUME InputOK
  PROVE  /\ nexts \in Seq(Range(nexts)) /\ IsFiniteSet(Places)
         /\ \A i \in Places : IsElement(nexts[i]) /\ nexts[i].conf \notin initConfs
<1>1. nexts \in Seq(Range(nexts))
  BY DEF InputOK
<1>2. Places = 1 .. Len(nexts) /\ Len(nexts) \in Nat
  <2> DEFINE S == Range(nexts)
  <2> HIDE DEF S
  <2> QED
    BY <1>1 DEF Places, S
<1>3. IsFiniteSet(Places)
  BY <1>2, FS_Interval
<1> QED
  BY <1>1, <1>3 DEF InputOK

LEMMA BoundsOK ==
  ASSUME InputOK, NEW i \in Places
  PROVE  /\ lowers[i] \in (0 .. Infinity - 1) \X BOOLEAN
         /\ uppers[i] \in UpperBounds
         /\ starts[i] \in 0 .. 2 * Infinity - 1
         /\ ends[i] \in 1 .. 2 * Infinity - 1
         /\ starts[i] =< ends[i]
         /\ starts[i] = StartOf(lowers[i]) /\ ends[i] = EndOf(uppers[i])
         /\ \A half \in Nat : /\ Within(nexts[i], half) <=>
                                   starts[i] =< half /\ ~Below(uppers[i], half)
<1> DEFINE e == nexts[i]
<1>1. IsElement(e)
  BY ElementsOK
<1>2. /\ lowers[i] = <<-e.lower[1], e.lower[2]>> /\ uppers[i] = e.upper
      /\ starts[i] = StartOf(lowers[i]) /\ ends[i] = EndOf(uppers[i])
  BY DEF lowers, uppers, starts, ends, Places, Negated
<1> HIDE DEF e
<1>3. lowers[i] \in (0 .. Infinity - 1) \X BOOLEAN /\ uppers[i] \in UpperBounds
  <2>1. PICK n \in 1 - Infinity .. 0, attained \in BOOLEAN : e.lower = <<n, attained>>
    BY <1>1 DEF IsElement
  <2>2. lowers[i] = <<-n, attained>> /\ -n \in 0 .. Infinity - 1
    BY <1>2, <2>1, InfinityIsPositive
  <2> QED
    BY <1>1, <1>2, <2>2 DEF IsElement, UpperBounds
<1>4. starts[i] \in 0 .. 2 * Infinity - 1
  BY <1>2, <1>3, InfinityIsPositive DEF StartOf
<1>5. PICK l \in Nat, attained \in BOOLEAN : lowers[i] = <<l, attained>> /\ l < Infinity
  BY <1>3, InfinityIsPositive
<1>6. e.lower[1] \in Int /\ e.lower[1] = -l /\ e.lower[2] = attained
  <2>1. e.lower[1] \in Int
    BY <1>1 DEF IsElement
  <2> QED
    BY <1>2, <1>5, <2>1
<1>7. ASSUME NEW half \in Nat
      PROVE  Within(e, half) <=> (starts[i] =< half /\ ~Below(uppers[i], half))
  <2>1. (-2 * e.lower[1] < half \/ (-2 * e.lower[1] = half /\ e.lower[2])) <=> starts[i] =< half
    <3>1. -2 * e.lower[1] = 2 * l
      BY <1>6
    <3>2. starts[i] = IF attained THEN 2 * l ELSE 2 * l + 1
      BY <1>2, <1>5 DEF StartOf
    <3> QED
      BY <1>6, <3>1, <3>2
  <2> QED
    BY <1>2, <2>1 DEF Within
<1>8. ends[i] \in 1 .. 2 * Infinity - 1 /\ starts[i] =< ends[i]
  <2>1. PICK half \in 1 .. 2 * Infinity : Within(e, half)
    BY <1>1 DEF IsElement
  <2>2. starts[i] =< half /\ (uppers[i][1] = Infinity \/ half =< ends[i])
    <3>1. half \in Nat
      BY InfinityIsPositive
    <3> QED
      BY <1>2, <1>3, <1>7, <2>1, <3>1, BelowByEnd
  <2>3. ends[i] \in Int /\ ends[i] =< 2 * Infinity - 1
        /\ (uppers[i][1] = Infinity <=> ends[i] = 2 * Infinity - 1)
    BY <1>2, <1>3, BelowByEnd
  <2> QED
    BY <1>4, <2>2, <2>3, InfinityIsPositive
<1> QED
  BY <1>2, <1>3, <1>4, <1>7, <1>8 DEF e

-----------------------------------------------------------------------------
(* Bags of configurations.                                                 *)

With(c, is) == {i \in is : nexts[i].conf = c}
ConfsAt(is) == {nexts[i].conf : i \in is}

LEMMA CountsOK ==
  ASSUME InputOK, NEW is \in SUBSET Places, NEW c
  PROVE  /\ IsFiniteSet(With(c, is)) /\ Cardinality(With(c, is)) \in Nat
         /\ c \in ConfsAt(is) <=> Cardinality(With(c, is)) > 0
<1>1. IsFiniteSet(With(c, is))
  BY ElementsOK, FS_Subset DEF With
<1>2. Cardinality(With(c, is)) \in Nat
  BY <1>1, FS_CardinalityType
<1>3. c \in ConfsAt(is) <=> With(c, is) # {}
  BY DEF ConfsAt, With
<1>4. With(c, is) # {} <=> Cardinality(With(c, is)) # 0
  BY <1>1, FS_EmptySet
<1> QED
  BY <1>1, <1>2, <1>3, <1>4

Initially(c) == IF c \in initConfs THEN 1 ELSE 0

LEMMA StatesByCount ==
  ASSUME InputOK, NEW is \in SUBSET Places
  PROVE  States(is) = [c \in initConfs \union ConfsAt(is) |->
                         Initially(c) + Cardinality(With(c, is))]
<1>1. ASSUME NEW c PROVE c \notin ConfsAt(is) => Cardinality(With(c, is)) = 0
  BY CountsOK
<1>2. SetToBag(initConfs) = [c \in initConfs |-> 1]
  BY DEF SetToBag
<1>3. Confs(is) = [c \in ConfsAt(is) |-> Cardinality(With(c, is))]
  BY DEF Confs, ConfsAt, With
<1>4. States(is) = [c \in initConfs \union ConfsAt(is) |->
         (IF c \in initConfs THEN 1 ELSE 0)
         + (IF c \in ConfsAt(is) THEN Cardinality(With(c, is)) ELSE 0)]
  BY <1>2, <1>3 DEF States, (+)
<1>5. ASSUME NEW c \in initConfs \union ConfsAt(is)
      PROVE  (IF c \in initConfs THEN 1 ELSE 0)
             + (IF c \in ConfsAt(is) THEN Cardinality(With(c, is)) ELSE 0)
             = Initially(c) + Cardinality(With(c, is))
  BY <1>1 DEF Initially
<1> QED
  BY <1>4, <1>5

LEMMA CountOfUnion ==
  ASSUME InputOK, NEW is \in SUBSET Places, NEW js \in SUBSET Places, is \intersect js = {}, NEW c
  PROVE  Cardinality(With(c, is \union js)) = Cardinality(With(c, is)) + Cardinality(With(c, js))
<1>1. IsFiniteSet(With(c, is)) /\ IsFiniteSet(With(c, js))
  BY CountsOK
<1>2. /\ With(c, is \union js) = With(c, is) \union With(c, js)
      /\ With(c, is) \intersect With(c, js) = {}
  BY DEF With
<1>3. Cardinality({}) = 0
  BY FS_EmptySet
<1>4. /\ Cardinality(With(c, is)) \in Nat /\ Cardinality(With(c, js)) \in Nat
  BY CountsOK
<1> DEFINE A == With(c, is)  B == With(c, js)
<1>5. Cardinality(A \union B) = Cardinality(A) + Cardinality(B) - Cardinality(A \intersect B)
  BY <1>1, FS_Union
<1> HIDE DEF A, B
<1>6. Cardinality(A \union B) = Cardinality(A) + Cardinality(B)
  <2>1. A \intersect B = {}
    BY <1>2 DEF A, B
  <2>2. Cardinality(A) \in Nat /\ Cardinality(B) \in Nat
    BY <1>4 DEF A, B
  <2>3. Cardinality(A \intersect B) = 0
    BY <1>3, <2>1
  <2>4. ASSUME NEW a \in Nat, NEW b \in Nat PROVE a + b - 0 = a + b
    OBVIOUS
  <2> QED
    BY <1>5, <2>2, <2>3, <2>4
<1> QED
  BY <1>2, <1>6 DEF A, B

(* A batch whose intervals begin adds its configurations.                  *)
LEMMA StatesAdded ==
  ASSUME InputOK, NEW is \in SUBSET Places, NEW js \in SUBSET Places, is \intersect js = {}
  PROVE  States(is) (+) Confs(js) = States(is \union js)
<1> DEFINE ks == is \union js
<1>1. States(is) = [c \in initConfs \union ConfsAt(is) |->
                         Initially(c) + Cardinality(With(c, is))]
  BY StatesByCount
<1>2. States(ks) = [c \in initConfs \union ConfsAt(ks) |->
                         Initially(c) + Cardinality(With(c, ks))]
  BY StatesByCount
<1>3. Confs(js) = [c \in ConfsAt(js) |-> Cardinality(With(c, js))]
  BY DEF Confs, ConfsAt, With
<1>4. ConfsAt(ks) = ConfsAt(is) \union ConfsAt(js)
  BY DEF ConfsAt
<1>5. ASSUME NEW c \in initConfs \union ConfsAt(ks)
      PROVE  (IF c \in initConfs \union ConfsAt(is)
                THEN Initially(c) + Cardinality(With(c, is)) ELSE 0)
             + (IF c \in ConfsAt(js) THEN Cardinality(With(c, js)) ELSE 0)
             = Initially(c) + Cardinality(With(c, ks))
  <2>1. /\ Cardinality(With(c, is)) \in Nat /\ Cardinality(With(c, js)) \in Nat
        /\ c \in ConfsAt(is) <=> Cardinality(With(c, is)) > 0
        /\ c \in ConfsAt(js) <=> Cardinality(With(c, js)) > 0
    BY CountsOK
  <2>2. Cardinality(With(c, ks)) = Cardinality(With(c, is)) + Cardinality(With(c, js))
    BY CountOfUnion
  <2> HIDE DEF ks
  <2> QED
    BY <2>1, <2>2 DEF Initially
<1>6. States(is) (+) Confs(js) =
        [c \in initConfs \union ConfsAt(ks) |->
           (IF c \in initConfs \union ConfsAt(is)
                THEN Initially(c) + Cardinality(With(c, is)) ELSE 0)
             + (IF c \in ConfsAt(js) THEN Cardinality(With(c, js)) ELSE 0)]
  <2> DEFINE B == States(is)  C == Confs(js)
  <2>1. DOMAIN B = initConfs \union ConfsAt(is) /\ DOMAIN C = ConfsAt(js)
    BY <1>1, <1>3
  <2>2. B (+) C = [c \in DOMAIN B \union DOMAIN C |->
          (IF c \in DOMAIN B THEN B[c] ELSE 0) + (IF c \in DOMAIN C THEN C[c] ELSE 0)]
    BY DEF (+)
  <2>3. DOMAIN B \union DOMAIN C = initConfs \union ConfsAt(ks)
    BY <2>1, <1>4
  <2>4. ASSUME NEW c \in initConfs \union ConfsAt(ks)
        PROVE  /\ c \in DOMAIN B => B[c] = Initially(c) + Cardinality(With(c, is))
               /\ c \in DOMAIN C => C[c] = Cardinality(With(c, js))
    BY <1>1, <1>3
  <2> HIDE DEF B, C, ks
  <2>5. B (+) C = [c \in initConfs \union ConfsAt(ks) |->
          (IF c \in DOMAIN B THEN B[c] ELSE 0) + (IF c \in DOMAIN C THEN C[c] ELSE 0)]
    BY <2>2, <2>3
  <2> QED
    BY <2>1, <2>4, <2>5 DEF B, C
<1> HIDE DEF ks
<1>7. States(is) (+) Confs(js) = States(ks)
  BY <1>2, <1>5, <1>6
<1> QED
  BY <1>7 DEF ks

(* A batch whose intervals end takes its configurations away.              *)
LEMMA StatesRemoved ==
  ASSUME InputOK, NEW is \in SUBSET Places, NEW js \in SUBSET is
  PROVE  States(is) (-) Confs(js) = States(is \ js)
<1> DEFINE ks == is \ js
           B == States(is)  C == Confs(js)  N == initConfs \union ConfsAt(is)
           F == [c \in DOMAIN B |-> IF c \in DOMAIN C THEN B[c] - C[c] ELSE B[c]]
<1>1. B = [c \in N |-> Initially(c) + Cardinality(With(c, is))]
  BY StatesByCount
<1>2. States(ks) = [c \in initConfs \union ConfsAt(ks) |->
                         Initially(c) + Cardinality(With(c, ks))]
  BY StatesByCount
<1>3. C = [c \in ConfsAt(js) |-> Cardinality(With(c, js))]
  BY DEF Confs, ConfsAt, With
<1>4. ASSUME NEW c
      PROVE  /\ Cardinality(With(c, ks)) \in Nat /\ Cardinality(With(c, js)) \in Nat
             /\ Cardinality(With(c, is)) = Cardinality(With(c, ks)) + Cardinality(With(c, js))
             /\ c \in ConfsAt(ks) <=> Cardinality(With(c, ks)) > 0
             /\ c \in ConfsAt(js) <=> Cardinality(With(c, js)) > 0
             /\ c \in ConfsAt(is) <=> Cardinality(With(c, is)) > 0
  <2>1. ks \in SUBSET Places /\ js \in SUBSET Places /\ ks \intersect js = {} /\ is = ks \union js
    OBVIOUS
  <2> HIDE DEF ks
  <2> QED
    BY <2>1, CountsOK, CountOfUnion
<1>5. F = [c \in N |-> Initially(c) + Cardinality(With(c, ks))]
  <2>1. ASSUME NEW c \in N
        PROVE  (IF c \in DOMAIN C THEN B[c] - C[c] ELSE B[c])
               = Initially(c) + Cardinality(With(c, ks))
    <3>1. B[c] = Initially(c) + Cardinality(With(c, is))
      BY <1>1
    <3>2. (c \in DOMAIN C <=> c \in ConfsAt(js)) /\ (c \in ConfsAt(js) => C[c] = Cardinality(With(c, js)))
      BY <1>3
    <3>3. Initially(c) \in Nat
      BY DEF Initially
    <3> HIDE DEF B, C, ks
    <3> QED
      BY <1>4, <3>1, <3>2, <3>3
  <2>2. DOMAIN B = N
    BY <1>1
  <2> HIDE DEF B, C, ks, N
  <2> QED
    BY <2>1, <2>2
<1>6. B (-) C = [c \in {d \in DOMAIN F : F[d] > 0} |-> F[c]]
  BY DEF (-)
<1>7. {d \in DOMAIN F : F[d] > 0} = initConfs \union ConfsAt(ks)
  <2>1. ASSUME NEW c \in N PROVE F[c] > 0 <=> c \in initConfs \union ConfsAt(ks)
    <3>1. F[c] = Initially(c) + Cardinality(With(c, ks))
      BY <1>5
    <3> HIDE DEF F, ks
    <3> QED
      BY <1>4, <3>1 DEF Initially
  <2>2. initConfs \union ConfsAt(ks) \subseteq N
    BY DEF ConfsAt
  <2>3. DOMAIN F = N
    BY <1>5
  <2> HIDE DEF F, ks, N
  <2> QED
    BY <2>1, <2>2, <2>3
<1>8. ASSUME NEW c \in initConfs \union ConfsAt(ks)
      PROVE  F[c] = Initially(c) + Cardinality(With(c, ks))
  <2>1. c \in N
    BY DEF ConfsAt
  <2> HIDE DEF F, ks, N
  <2> QED
    BY <1>5, <2>1
<1>9. B (-) C = States(ks)
  <2> HIDE DEF F, B, C, ks
  <2> QED
    BY <1>2, <1>6, <1>7, <1>8
<1> QED
  BY <1>9 DEF ks

-----------------------------------------------------------------------------
(* The deques.                                                             *)

(* The batch is what has the bound of the front, and it is followed by     *)
(* later bounds only.                                                      *)
LEMMA DequeUsed ==
  ASSUME InputOK, NEW f \in [Places -> Int], NEW bounds, NEW o, Ordered(o, f), o # <<>>,
         \A i, j \in Places : bounds[i] = bounds[j] <=> f[i] = f[j]
  PROVE  /\ Ordered(Rest(o, bounds), f)
         /\ Head(o) \in Ahead(o) /\ Ahead(o) \subseteq Places
         /\ \A i \in Ahead(o) : f[i] >= f[Head(o)]
         /\ \A i : /\ i \in Batch(o, bounds) <=> i \in Ahead(o) /\ f[i] = f[Head(o)]
                   /\ i \in Ahead(Rest(o, bounds)) <=> i \in Ahead(o) /\ f[i] > f[Head(o)]
<1> DEFINE L == Len(o)
           P(k) == \A i \in 1 .. k : /\ bounds[o[i]] = bounds[o[1]]
                                     /\ nexts[o[i]].conf \notin initConfs
           T == {k \in 0 .. L : P(k)}
           k == CHOOSE k \in T : \A l \in T : l =< k
<1>1. /\ o \in Seq(Places) /\ L \in Nat \ {0}
      /\ \A i \in 1 .. L : o[i] \in Places /\ f[o[i]] \in Int
      /\ \A i, j \in 1 .. L : i < j => o[i] # o[j] /\ f[o[i]] =< f[o[j]]
      /\ Head(o) = o[1] /\ 1 \in 1 .. L
  <2>1. o \in Seq(Places) /\ L \in Nat \ {0}
    BY DEF Ordered
  <2>2. \A i \in 1 .. L : o[i] \in Places
    <3> DEFINE S == Places
    <3> HIDE DEF S
    <3>1. o \in Seq(S)
      BY <2>1 DEF S
    <3>2. \A i \in 1 .. L : o[i] \in S
      BY <3>1
    <3> QED
      BY <3>2 DEF S
  <2> QED
    BY <2>1, <2>2 DEF Ordered
<1>2. ASSUME NEW i \in 1 .. L PROVE bounds[o[i]] = bounds[o[1]] <=> f[o[i]] = f[o[1]]
  BY <1>1
<1>3. ASSUME NEW i \in 1 .. L PROVE nexts[o[i]].conf \notin initConfs
  BY <1>1, ElementsOK
<1>4. k \in T /\ \A l \in T : l =< k
  <2>1. T \subseteq 0 .. L /\ 0 \in T
    BY <1>1
  <2> HIDE DEF T
  <2>2. \E n \in T : \A l \in T : l =< n
    BY <1>1, <2>1, GreatestExists
  <2> QED
    BY <2>2
<1>5. Taken(o, bounds) = k
  BY DEF Taken
<1>6. k \in 1 .. L
  <2>1. 1 \in T
    BY <1>1, <1>3
  <2> HIDE DEF k
  <2> QED
    BY <1>1, <1>4, <2>1
<1>7. \A i \in 1 .. k : f[o[i]] = f[o[1]]
  <2> HIDE DEF k
  <2> QED
    BY <1>1, <1>2, <1>4, <1>6
<1> HIDE DEF k
<1>8. \A i \in k + 1 .. L : f[o[i]] > f[o[1]]
  <2>1. ASSUME k + 1 \in 1 .. L PROVE f[o[k + 1]] # f[o[1]]
    <3>1. SUFFICES ASSUME f[o[k + 1]] = f[o[1]] PROVE FALSE
      OBVIOUS
    <3>2. bounds[o[k + 1]] = bounds[o[1]]
      BY <1>2, <2>1, <3>1
    <3>3. P(k + 1)
      <4>1. ASSUME NEW i \in 1 .. k + 1 PROVE i \in 1 .. k \/ i = k + 1
        BY <1>6
      <4> QED
        BY <1>3, <1>4, <2>1, <3>2, <4>1
    <3>4. k + 1 \in T
      BY <2>1, <3>3
    <3> HIDE DEF T
    <3> QED
      BY <1>4, <1>6, <3>4
  <2>2. ASSUME NEW i \in k + 1 .. L PROVE f[o[i]] > f[o[1]]
    <3>1. k + 1 \in 1 .. L /\ i \in 1 .. L /\ 1 < k + 1 /\ (i = k + 1 \/ k + 1 < i)
      BY <1>6
    <3>2. f[o[k + 1]] # f[o[1]] /\ f[o[1]] =< f[o[k + 1]]
      BY <1>1, <2>1, <3>1
    <3>3. f[o[k + 1]] =< f[o[i]]
      BY <1>1, <3>1
    <3>4. f[o[1]] \in Int /\ f[o[i]] \in Int /\ f[o[k + 1]] \in Int
      BY <1>1, <3>1
    <3> QED
      BY <3>2, <3>3, <3>4
  <2> QED
    BY <2>2
<1> HIDE DEF T
<1> DEFINE r == SubSeq(o, k + 1, L)
<1>9. Rest(o, bounds) = r
  BY <1>5 DEF Rest
<1>10. r \in Seq(Places) /\ Len(r) = L - k /\ \A n \in 1 .. L - k : r[n] = o[n + k]
  <2>1. r = [n \in 1 .. L - k |-> o[n + k]]
    <3>1. r = [n \in 1 .. L - (k + 1) + 1 |-> o[(k + 1) + n - 1]]
      BY <1>1, <1>6
    <3>2. L - (k + 1) + 1 = L - k /\ \A n \in 1 .. L - k : (k + 1) + n - 1 = n + k
      BY <1>1, <1>6
    <3> HIDE DEF r, L
    <3> QED
      BY <3>1, <3>2
  <2>2. L - k \in Nat /\ \A n \in 1 .. L - k : n + k \in 1 .. L
    BY <1>1, <1>6
  <2>3. r \in [1 .. L - k -> Places]
    <3> HIDE DEF r, L
    <3> QED
      BY <1>1, <2>1, <2>2
  <2> DEFINE m == L - k
  <2> HIDE DEF r, m
  <2>4. r \in Seq(Places) /\ Len(r) = m
    BY <2>2, <2>3 DEF m
  <2> QED
    BY <2>1, <2>4 DEF m
<1> HIDE DEF r
<1>11. Ordered(r, f)
  <2>1. ASSUME NEW i \in 1 .. Len(r), NEW j \in 1 .. Len(r), i < j
        PROVE  r[i] # r[j] /\ f[r[i]] =< f[r[j]]
    <3>1. i + k \in 1 .. L /\ j + k \in 1 .. L /\ i + k < j + k
      BY <1>1, <1>6, <1>10, <2>1
    <3>2. r[i] = o[i + k] /\ r[j] = o[j + k]
      BY <1>10
    <3>3. o[i + k] # o[j + k] /\ f[o[i + k]] =< f[o[j + k]]
      <4> HIDE DEF L
      <4> QED
        BY <1>1, <3>1
    <3> QED
      BY <3>2, <3>3
  <2> QED
    BY <1>10, <2>1 DEF Ordered
<1>12. Batch(o, bounds) = {i \in Ahead(o) : f[i] = f[Head(o)]}
  <2>1. Batch(o, bounds) = {o[i] : i \in 1 .. k}
    BY <1>5 DEF Batch
  <2>2. \A i \in 1 .. k : i \in 1 .. L
    BY <1>6
  <2>3. ASSUME NEW i \in 1 .. L, f[o[i]] = f[o[1]] PROVE i \in 1 .. k
    <3>1. ~(i \in k + 1 .. L)
      BY <1>1, <1>8, <2>3
    <3> QED
      BY <1>6, <3>1
  <2> QED
    BY <1>1, <1>7, <2>1, <2>2, <2>3 DEF Ahead
<1>13. Ahead(r) = {i \in Ahead(o) : f[i] > f[Head(o)]}
  <2>1. ASSUME NEW n \in 1 .. Len(r) PROVE n + k \in k + 1 .. L /\ n + k \in 1 .. L /\ r[n] = o[n + k]
    BY <1>1, <1>6, <1>10
  <2>2. ASSUME NEW i \in 1 .. L, f[o[i]] > f[o[1]] PROVE i - k \in 1 .. Len(r) /\ r[i - k] = o[i]
    <3>1. ~(i \in 1 .. k)
      BY <1>1, <1>7, <2>2
    <3>2. i - k \in 1 .. L - k /\ (i - k) + k = i
      BY <1>1, <1>6, <3>1
    <3> QED
      BY <1>10, <3>2
  <2>3. \A n \in 1 .. Len(r) : \E i \in 1 .. L : r[n] = o[i] /\ f[o[i]] > f[o[1]]
    BY <1>8, <2>1
  <2>4. ASSUME NEW i \in Ahead(r) PROVE i \in Ahead(o) /\ f[i] > f[Head(o)]
    <3>1. PICK n \in 1 .. Len(r) : i = r[n]
      BY DEF Ahead
    <3> QED
      BY <1>1, <2>3, <3>1 DEF Ahead
  <2>5. ASSUME NEW i \in Ahead(o), f[i] > f[Head(o)] PROVE i \in Ahead(r)
    <3>1. PICK n \in 1 .. L : i = o[n]
      BY DEF Ahead
    <3>2. n - k \in 1 .. Len(r) /\ r[n - k] = i
      BY <1>1, <2>2, <2>5, <3>1
    <3> QED
      BY <3>2 DEF Ahead
  <2> QED
    BY <2>4, <2>5
<1>14. ASSUME NEW i \in Ahead(o) PROVE f[i] >= f[Head(o)]
  <2>1. PICK n \in 1 .. L : i = o[n]
    BY DEF Ahead
  <2>2. n \in 1 .. k \/ n \in k + 1 .. L
    BY <1>6
  <2>3. f[o[n]] \in Int /\ f[o[1]] \in Int
    BY <1>1
  <2> QED
    BY <1>1, <1>7, <1>8, <2>1, <2>2, <2>3
<1>15. Head(o) \in Ahead(o) /\ Ahead(o) \subseteq Places
  BY <1>1 DEF Ahead
<1> QED
  BY <1>9, <1>11, <1>12, <1>13, <1>14, <1>15

(* The deques have elements with different bounds in different places.     *)
LEMMA LowersDiffer ==
  ASSUME InputOK
  PROVE  /\ starts \in [Places -> Int]
         /\ \A i, j \in Places : lowers[i] = lowers[j] <=> starts[i] = starts[j]
<1>1. \A i \in Places : /\ lowers[i] \in Nat \X BOOLEAN /\ starts[i] = StartOf(lowers[i])
                        /\ starts[i] \in Int
  BY BoundsOK
<1>2. starts \in [Places -> Int]
  BY <1>1 DEF starts
<1> QED
  BY <1>1, <1>2, StartIsOfOneBound

LEMMA UppersDiffer ==
  ASSUME InputOK
  PROVE  /\ ends \in [Places -> Int]
         /\ \A i, j \in Places : uppers[i] = uppers[j] <=> ends[i] = ends[j]
<1>1. \A i \in Places : /\ uppers[i] \in UpperBounds /\ ends[i] = EndOf(uppers[i])
                        /\ ends[i] \in Int
  BY BoundsOK
<1>2. ends \in [Places -> Int]
  BY <1>1 DEF ends
<1> QED
  BY <1>1, <1>2, EndIsOfOneBound

-----------------------------------------------------------------------------
(* The pieces.                                                             *)

(* A piece that continues where the last one ends and has the              *)
(* configurations of the durations up to its bound may be added.           *)
LEMMA PieceAdded ==
  ASSUME NEW p, PiecesOK(p), NEW is \in SUBSET Places, NEW bound \in UpperBounds,
         EndOf(bound) >= Position(p),
         \A half \in Nat \ {0} :
           Position(p) < half /\ ~Below(bound, half) => At(half) = is
  PROVE  LET q == Append(p, Piece(States(is), bound))
         IN  /\ PiecesOK(q) /\ Position(q) = EndOf(bound)
             /\ q # <<>> /\ q[Len(q)].bound = bound
<1> DEFINE L == Len(p)  piece == Piece(States(is), bound)  q == Append(p, piece)
<1>1. piece \in Piece_ /\ piece.states = States(is) /\ piece.bound = bound
  BY DEF Piece, Piece_
<1>2. /\ p \in Seq(Piece_) /\ L \in Nat
      /\ q \in Seq(Piece_) /\ Len(q) = L + 1 /\ q[L + 1] = piece
      /\ \A k \in 1 .. L : q[k] = p[k] /\ p[k] \in Piece_
  <2>1. p \in Seq(Piece_)
    BY DEF PiecesOK
  <2> DEFINE S == Piece_
  <2> HIDE DEF S, piece
  <2>2. p \in Seq(S) /\ piece \in S
    BY <1>1, <2>1 DEF S
  <2>3. /\ L \in Nat
        /\ q \in Seq(S) /\ Len(q) = L + 1 /\ q[L + 1] = piece
        /\ \A k \in 1 .. L : q[k] = p[k] /\ p[k] \in S
    BY <2>2
  <2> QED
    BY <2>1, <2>3 DEF S
<1>3. \A k \in 1 .. L : p[k].bound \in UpperBounds
  BY <1>2 DEF Piece_
<1>4. q # <<>>
  <2> HIDE DEF q
  <2> QED
    BY <1>2
<1>5. /\ p = <<>> => L = 0
      /\ L # 0 => Position(p) = EndOf(p[L].bound) /\ L \in 1 .. L
  BY <1>2 DEF Position
<1> HIDE DEF q, L, piece
<1>6. Position(q) = EndOf(bound)
  BY <1>1, <1>2, <1>4 DEF Position
<1>7. ASSUME NEW i \in 1 .. L + 1, NEW j \in 1 .. L + 1, i < j
      PROVE  EndOf(q[i].bound) =< EndOf(q[j].bound)
  <2>1. CASE j \in 1 .. L
    <3>1. i \in 1 .. L
      BY <1>2, <2>1, <1>7
    <3> QED
      BY <1>2, <1>7, <2>1, <3>1 DEF PiecesOK, L
  <2>2. CASE j = L + 1
    <3>1. i \in 1 .. L /\ L \in 1 .. L /\ L # 0
      BY <1>2, <2>2, <1>7
    <3>2. EndOf(p[i].bound) =< EndOf(p[L].bound)
      <4>1. EndOf(p[i].bound) \in Int
        BY <1>3, <3>1, BelowByEnd
      <4>2. CASE i = L
        BY <4>1, <4>2
      <4>3. CASE i < L
        BY <3>1, <4>3 DEF PiecesOK, L
      <4> QED
        BY <1>2, <3>1, <4>2, <4>3
    <3>3. EndOf(p[L].bound) =< EndOf(bound)
      BY <1>5, <3>1
    <3>4. EndOf(p[i].bound) \in Int /\ EndOf(p[L].bound) \in Int /\ EndOf(bound) \in Int
      BY <1>3, <3>1, BelowByEnd
    <3>5. EndOf(p[i].bound) =< EndOf(bound)
      BY <3>2, <3>3, <3>4
    <3> QED
      BY <1>1, <1>2, <2>2, <3>1, <3>5
  <2> QED
    BY <1>2, <2>1, <2>2
<1>8. ASSUME NEW k \in 1 .. L + 1, NEW half \in Nat \ {0},
             k = 1 \/ Below(q[k - 1].bound, half), ~Below(q[k].bound, half)
      PROVE  q[k].states = States(At(half))
  <2>1. CASE k \in 1 .. L
    <3>1. k = 1 \/ (k - 1 \in 1 .. L /\ q[k - 1] = p[k - 1])
      BY <1>2, <2>1
    <3> QED
      BY <1>2, <1>8, <2>1, <3>1 DEF PiecesOK, L
  <2>2. CASE k = L + 1
    <3>1. ~Below(bound, half)
      BY <1>1, <1>2, <1>8, <2>2
    <3>2. Position(p) < half
      <4>1. CASE L = 0
        <5>1. p = <<>>
          BY <1>2, <4>1 DEF L
        <5> QED
          BY <5>1 DEF Position
      <4>2. CASE L # 0
        <5>1. k - 1 = L /\ L \in 1 .. L /\ k # 1
          BY <1>2, <2>2, <4>2
        <5>2. Below(p[L].bound, half)
          BY <1>2, <1>8, <5>1
        <5> QED
          BY <1>3, <1>5, <5>1, <5>2, BelowByEnd
      <4> QED
        BY <4>1, <4>2
    <3> QED
      BY <1>1, <1>2, <2>2, <3>1, <3>2
  <2> QED
    BY <1>2, <2>1, <2>2
<1>9. PiecesOK(q)
  BY <1>2, <1>7, <1>8 DEF PiecesOK
<1> QED
  BY <1>1, <1>2, <1>4, <1>6, <1>9 DEF q, piece

(* What is open at a duration, by what is left of the deques there.        *)
LEMMA OpenAt ==
  ASSUME InputOK, NEW half \in Nat \ {0}, NEW toBegin \in SUBSET Places,
         NEW toEnd \in SUBSET Places,
         \A i \in toBegin : starts[i] > half,
         \A i \in Places \ toBegin : starts[i] =< half,
         \A i \in toEnd : uppers[i][1] = Infinity \/ ends[i] >= half,
         \A i \in Places \ toEnd : ends[i] < half /\ ends[i] # 2 * Infinity - 1
  PROVE  At(half) = toEnd \ toBegin
<1>1. ASSUME NEW i \in Places
      PROVE  i \in At(half) <=> starts[i] =< half /\ (uppers[i][1] = Infinity \/ half =< ends[i])
  <2>1. ~Below(uppers[i], half) <=> (uppers[i][1] = Infinity \/ half =< ends[i])
    BY BoundsOK, BelowByEnd
  <2> QED
    BY <2>1, BoundsOK DEF At
<1>2. ASSUME NEW i \in Places
      PROVE  /\ starts[i] \in Int /\ ends[i] \in Int
             /\ uppers[i][1] = Infinity <=> ends[i] = 2 * Infinity - 1
  BY BoundsOK, BelowByEnd
<1>3. ASSUME NEW i \in Places PROVE i \in At(half) <=> i \in toEnd \ toBegin
  BY <1>1, <1>2
<1> QED
  BY <1>3 DEF At

-----------------------------------------------------------------------------
(* The fronts.                                                             *)

LEMMA LowerFront ==
  ASSUME IInv, lowerVec # <<>>
  PROVE  LET s == starts[Head(lowerVec)]
         IN  /\ Head(lowerVec) \in Places /\ Ahead(lowerVec) \subseteq Places
             /\ lower \in (0 .. Infinity - 1) \X BOOLEAN /\ s = StartOf(lower)
             /\ \A i \in Ahead(lowerVec) : starts[i] >= s
             /\ Head(lowerVec) \in Ahead(lowerVec)
             /\ Ordered(Rest(lowerVec, lowers), starts)
             /\ Batch(lowerVec, lowers) = {i \in Ahead(lowerVec) : starts[i] = s}
             /\ Ahead(Rest(lowerVec, lowers)) = {i \in Ahead(lowerVec) : starts[i] > s}
<1>1. InputOK /\ Ordered(lowerVec, starts)
  BY DEF IInv
<1>2. /\ Ordered(Rest(lowerVec, lowers), starts)
      /\ Head(lowerVec) \in Ahead(lowerVec) /\ Ahead(lowerVec) \subseteq Places
      /\ \A i \in Ahead(lowerVec) : starts[i] >= starts[Head(lowerVec)]
      /\ \A i : /\ i \in Batch(lowerVec, lowers) <=>
                     i \in Ahead(lowerVec) /\ starts[i] = starts[Head(lowerVec)]
                /\ i \in Ahead(Rest(lowerVec, lowers)) <=>
                     i \in Ahead(lowerVec) /\ starts[i] > starts[Head(lowerVec)]
  BY <1>1, LowersDiffer, DequeUsed
<1>3. Head(lowerVec) \in Places
  BY <1>2
<1>4. lower \in (0 .. Infinity - 1) \X BOOLEAN /\ starts[Head(lowerVec)] = StartOf(lower)
  BY <1>1, <1>3, BoundsOK DEF lower
<1>5. /\ Batch(lowerVec, lowers) = {i \in Ahead(lowerVec) : starts[i] = starts[Head(lowerVec)]}
      /\ Ahead(Rest(lowerVec, lowers)) = {i \in Ahead(lowerVec) : starts[i] > starts[Head(lowerVec)]}
  <2> DEFINE A == Ahead(lowerVec)  B == Batch(lowerVec, lowers)  R == Ahead(Rest(lowerVec, lowers))
             f == starts[Head(lowerVec)]
  <2>1. ASSUME NEW i
        PROVE  /\ i \in B <=> i \in A /\ starts[i] = f
               /\ i \in R <=> i \in A /\ starts[i] > f
    BY <1>2
  <2> HIDE DEF A, B, R, f
  <2>2. B = {i \in A : starts[i] = f}
    BY <2>1
  <2>3. R = {i \in A : starts[i] > f}
    BY <2>1
  <2> QED
    BY <2>2, <2>3 DEF A, B, R, f
<1> QED
  BY <1>2, <1>3, <1>4, <1>5

LEMMA UpperFront ==
  ASSUME IInv, upperVec # <<>>
  PROVE  LET t == ends[Head(upperVec)]
         IN  /\ Head(upperVec) \in Places /\ Ahead(upperVec) \subseteq Places
             /\ upper \in UpperBounds /\ t = EndOf(upper)
             /\ \A i \in Ahead(upperVec) : ends[i] >= t
             /\ Head(upperVec) \in Ahead(upperVec)
             /\ Ordered(Rest(upperVec, uppers), ends)
             /\ Batch(upperVec, uppers) = {i \in Ahead(upperVec) : ends[i] = t}
             /\ Ahead(Rest(upperVec, uppers)) = {i \in Ahead(upperVec) : ends[i] > t}
<1>1. InputOK /\ Ordered(upperVec, ends)
  BY DEF IInv
<1>2. /\ Ordered(Rest(upperVec, uppers), ends)
      /\ Head(upperVec) \in Ahead(upperVec) /\ Ahead(upperVec) \subseteq Places
      /\ \A i \in Ahead(upperVec) : ends[i] >= ends[Head(upperVec)]
      /\ \A i : /\ i \in Batch(upperVec, uppers) <=>
                     i \in Ahead(upperVec) /\ ends[i] = ends[Head(upperVec)]
                /\ i \in Ahead(Rest(upperVec, uppers)) <=>
                     i \in Ahead(upperVec) /\ ends[i] > ends[Head(upperVec)]
  BY <1>1, UppersDiffer, DequeUsed
<1>3. Head(upperVec) \in Places
  BY <1>2
<1>4. upper \in UpperBounds /\ ends[Head(upperVec)] = EndOf(upper)
  BY <1>1, <1>3, BoundsOK DEF upper
<1>5. /\ Batch(upperVec, uppers) = {i \in Ahead(upperVec) : ends[i] = ends[Head(upperVec)]}
      /\ Ahead(Rest(upperVec, uppers)) = {i \in Ahead(upperVec) : ends[i] > ends[Head(upperVec)]}
  <2> DEFINE A == Ahead(upperVec)  B == Batch(upperVec, uppers)  R == Ahead(Rest(upperVec, uppers))
             f == ends[Head(upperVec)]
  <2>1. ASSUME NEW i
        PROVE  /\ i \in B <=> i \in A /\ ends[i] = f
               /\ i \in R <=> i \in A /\ ends[i] > f
    BY <1>2
  <2> HIDE DEF A, B, R, f
  <2>2. B = {i \in A : ends[i] = f}
    BY <2>1
  <2>3. R = {i \in A : ends[i] > f}
    BY <2>1
  <2> QED
    BY <2>2, <2>3 DEF A, B, R, f
<1> QED
  BY <1>2, <1>3, <1>4, <1>5

(* What is left of an ordered deque, or of an empty one, are places.       *)
LEMMA AheadArePlaces ==
  ASSUME NEW f, NEW o, Ordered(o, f)
  PROVE  /\ Ahead(o) \subseteq Places
         /\ o = <<>> <=> Ahead(o) = {}
<1> DEFINE S == Places
<1> HIDE DEF S
<1>1. o \in Seq(S)
  BY DEF Ordered, S
<1>2. \A i \in 1 .. Len(o) : o[i] \in S
  BY <1>1
<1>3. o = <<>> \/ (1 \in 1 .. Len(o) /\ o # <<>>)
  BY <1>1
<1>4. o = <<>> => 1 .. Len(o) = {}
  BY <1>1
<1> QED
  BY <1>2, <1>3, <1>4 DEF Ahead, S

LEMMA PositionOK ==
  ASSUME NEW p, PiecesOK(p)
  PROVE  /\ Position(p) \in Int /\ Position(p) =< 2 * Infinity - 1
         /\ p # <<>> => /\ p[Len(p)].bound \in UpperBounds
                        /\ Position(p) = EndOf(p[Len(p)].bound)
         /\ p = <<>> => Position(p) = 0
<1>1. CASE p = <<>>
  BY <1>1, InfinityIsPositive DEF Position
<1>2. CASE p # <<>>
  <2>1. p[Len(p)] \in Piece_
    <3> DEFINE S == Piece_
    <3> HIDE DEF S
    <3>1. p \in Seq(S)
      BY DEF PiecesOK, S
    <3>2. p[Len(p)] \in S
      BY <1>2, <3>1
    <3> QED
      BY <3>2 DEF S
  <2>2. p[Len(p)].bound \in UpperBounds
    BY <2>1 DEF Piece_
  <2> QED
    BY <1>2, <2>2, BelowByEnd DEF Position
<1> QED
  BY <1>1, <1>2

LEMMA PlacesOK ==
  ASSUME InputOK, NEW i \in Places
  PROVE  /\ starts[i] \in Int /\ ends[i] \in Int /\ starts[i] =< ends[i]
         /\ 0 =< starts[i] /\ 1 =< ends[i] /\ ends[i] =< 2 * Infinity - 1
         /\ uppers[i][1] = Infinity <=> ends[i] = 2 * Infinity - 1
         /\ \A n \in Int : ends[i] = 2 * n => uppers[i][2]
<1>1. /\ starts[i] \in 0 .. 2 * Infinity - 1 /\ ends[i] \in 1 .. 2 * Infinity - 1
      /\ starts[i] =< ends[i] /\ uppers[i] \in UpperBounds /\ ends[i] = EndOf(uppers[i])
  BY BoundsOK
<1>2. uppers[i][1] = Infinity <=> ends[i] = 2 * Infinity - 1
  BY <1>1, BelowByEnd
<1>3. ASSUME NEW n \in Int, ends[i] = 2 * n PROVE uppers[i][2]
  <2>1. uppers[i][1] \in Int /\ uppers[i][2] \in BOOLEAN
    BY <1>1, PartsOfBound, InfinityIsPositive
  <2> QED
    BY <1>1, <1>3, <2>1 DEF EndOf
<1> QED
  BY <1>1, <1>2, <1>3, InfinityIsPositive

(* What the elements of a vector give does not change.                     *)
LEMMA Frame ==
  ASSUME UNCHANGED <<nexts, initConfs>>
  PROVE  /\ Places' = Places /\ starts' = starts /\ ends' = ends /\ uppers' = uppers
         /\ \A is : States(is)' = States(is)
         /\ \A half : At(half)' = At(half)
<1>1. Places' = Places
  BY DEF Places
<1>2. lowers' = lowers /\ uppers' = uppers
  BY DEF lowers, uppers
<1>3. starts' = starts /\ ends' = ends
  BY <1>1, <1>2 DEF starts, ends
<1>4. \A is : States(is)' = States(is)
  BY DEF States, Confs
<1>5. \A half : At(half)' = At(half)
  BY <1>1 DEF At
<1> QED
  BY <1>1, <1>2, <1>3, <1>4, <1>5

LEMMA FramedParts ==
  ASSUME IInv, UNCHANGED <<nexts, initConfs>>,
         Ordered(lowerVec', starts), Ordered(upperVec', ends),
         currentStates' = States(Ahead(upperVec') \ Ahead(lowerVec')),
         PiecesOK(nextLineared')
  PROVE  /\ InputOK' /\ Ordered(lowerVec, starts)' /\ Ordered(upperVec, ends)'
         /\ CurrentOK' /\ PiecesOK(nextLineared)'
<1>1. /\ Places' = Places /\ starts' = starts /\ ends' = ends
      /\ \A is : States(is)' = States(is)
      /\ \A half : At(half)' = At(half)
  BY Frame
<1>2. InputOK'
  BY <1>1 DEF IInv, InputOK
<1>3. Ordered(lowerVec, starts)' /\ Ordered(upperVec, ends)'
  BY <1>1 DEF Ordered
<1>4. CurrentOK'
  BY <1>1 DEF CurrentOK, Ahead
<1>5. PiecesOK(nextLineared)'
  <2>1. Piece_' = Piece_
    BY <1>1 DEF Piece_, UpperBounds
  <2> QED
    BY <1>1, <2>1 DEF PiecesOK
<1> QED
  BY <1>2, <1>3, <1>4, <1>5

(* The invariant after a step of the sweep.                                *)
LEMMA SweepGoesOn ==
  ASSUME IInv, UNCHANGED <<nexts, initConfs, pc>>, pc = "sweep",
         Ordered(lowerVec', starts), Ordered(upperVec', ends),
         currentStates' = States(Ahead(upperVec') \ Ahead(lowerVec')),
         PiecesOK(nextLineared'),
         SidesOK(Position(nextLineared'), Ahead(lowerVec'), Ahead(upperVec'))
  PROVE  IInv'
<1>1. PhaseOK'
  <2>1. SidesOK(Position(nextLineared), Ahead(lowerVec), Ahead(upperVec))'
    <3>1. Places' = Places /\ starts' = starts /\ ends' = ends /\ uppers' = uppers
      BY Frame
    <3> QED
      BY <3>1 DEF SidesOK, Position, Ahead
  <2> QED
    BY <2>1 DEF PhaseOK
<1> QED
  BY <1>1, FramedParts DEF IInv

-----------------------------------------------------------------------------
(* The steps.                                                              *)

(* A batch that begins is added to what is open, if it has not ended.      *)
LEMMA Opened ==
  ASSUME InputOK, NEW toBegin, NEW toEnd \in SUBSET Places, NEW batch \in SUBSET Places,
         batch \subseteq toBegin, batch \subseteq toEnd
  PROVE  States(toEnd \ toBegin) (+) Confs(batch) = States(toEnd \ (toBegin \ batch))
<1> DEFINE is == toEnd \ toBegin
<1>1. is \in SUBSET Places /\ is \intersect batch = {}
  OBVIOUS
<1>2. is \union batch = toEnd \ (toBegin \ batch)
  OBVIOUS
<1> HIDE DEF is
<1>3. States(is) (+) Confs(batch) = States(is \union batch)
  BY <1>1, StatesAdded
<1> QED
  BY <1>2, <1>3 DEF is

(* A batch that ends is taken off what is open, if it has begun.           *)
LEMMA Closed ==
  ASSUME InputOK, NEW toBegin, NEW toEnd \in SUBSET Places, NEW batch \in SUBSET Places,
         batch \subseteq toEnd, batch \intersect toBegin = {}
  PROVE  States(toEnd \ toBegin) (-) Confs(batch) = States((toEnd \ batch) \ toBegin)
<1> DEFINE is == toEnd \ toBegin
<1>1. is \in SUBSET Places /\ batch \in SUBSET is
  OBVIOUS
<1>2. is \ batch = (toEnd \ batch) \ toBegin
  OBVIOUS
<1> HIDE DEF is
<1>3. States(is) (-) Confs(batch) = States(is \ batch)
  BY <1>1, StatesRemoved
<1> QED
  BY <1>2, <1>3 DEF is

LEMMA StatesOfNone ==
  ASSUME InputOK PROVE States({}) = SetToBag(initConfs)
<1>1. States({}) = [c \in initConfs \union ConfsAt({}) |->
                         Initially(c) + Cardinality(With(c, {}))]
  BY StatesByCount
<1>2. ConfsAt({}) = {}
  BY DEF ConfsAt
<1>3. \A c : With(c, {}) = {}
  BY DEF With
<1>4. Cardinality({}) = 0
  BY FS_EmptySet
<1> QED
  BY <1>1, <1>2, <1>3, <1>4 DEF SetToBag, Initially

(* What std::sort compares is the order of the first and the last halves.  *)
LEMMA ByIsOrder ==
  ASSUME InputOK, NEW i \in Places, NEW j \in Places
  PROVE  /\ ByLower(nexts, i, j) <=> starts[i] =< starts[j]
         /\ ByUpper(nexts, i, j) <=> ends[i] =< ends[j]
<1>1. ByLower(nexts, i, j) <=> starts[i] =< starts[j]
  <2>1. /\ starts[i] = StartOf(lowers[i]) /\ starts[j] = StartOf(lowers[j])
        /\ lowers[i] = <<-nexts[i].lower[1], nexts[i].lower[2]>>
        /\ lowers[j] = <<-nexts[j].lower[1], nexts[j].lower[2]>>
    BY BoundsOK DEF lowers, Places, Negated
  <2>2. IsElement(nexts[i]) /\ IsElement(nexts[j])
    BY ElementsOK
  <2>3. /\ nexts[i].lower[1] \in Int /\ nexts[i].lower[2] \in BOOLEAN
        /\ nexts[j].lower[1] \in Int /\ nexts[j].lower[2] \in BOOLEAN
    BY <2>2, InfinityIsPositive DEF IsElement
  <2> QED
    BY <2>1, <2>3 DEF ByLower, Less, StartOf
<1>2. ByUpper(nexts, i, j) <=> ends[i] =< ends[j]
  <2>1. /\ ends[i] = EndOf(nexts[i].upper) /\ ends[j] = EndOf(nexts[j].upper)
        /\ nexts[i].upper \in UpperBounds /\ nexts[j].upper \in UpperBounds
    BY BoundsOK DEF uppers, Places
  <2>2. /\ nexts[i].upper[1] \in Int /\ nexts[i].upper[2] \in BOOLEAN
        /\ nexts[j].upper[1] \in Int /\ nexts[j].upper[2] \in BOOLEAN
    BY <2>1, PartsOfBound, InfinityIsPositive
  <2> QED
    BY <2>1, <2>2 DEF ByUpper, Less, EndOf
<1> QED
  BY <1>1, <1>2

(* The places by rank, as LowerOrder and UpperOrder have them, are in order. *)
Ranks(n, f, before, o) ==
  /\ f \in [1 .. n -> Int] /\ before \in [1 .. n -> SUBSET (1 .. n)]
  /\ \A i, j \in 1 .. n : j \in before[i] <=> f[j] =< f[i] /\ (f[i] =< f[j] => j < i)
  /\ \A k \in 1 .. n :
       (\E i \in 1 .. n : Cardinality(before[i]) = k - 1)
         => o[k] \in 1 .. n /\ Cardinality(before[o[k]]) = k - 1

LEMMA RanksOrder ==
  ASSUME NEW n \in Nat, NEW f, NEW before, NEW o, Ranks(n, f, before, o)
  PROVE  /\ \A k \in 1 .. n : o[k] \in 1 .. n
         /\ \A i, j \in 1 .. n : o[i] = o[j] => i = j
         /\ \A i \in 1 .. n : \E k \in 1 .. n : o[k] = i
         /\ \A i, j \in 1 .. n : i < j => f[o[i]] =< f[o[j]]
<1> DEFINE N == 1 .. n
           rank == [i \in N |-> Cardinality(before[i])]
<1>1. IsFiniteSet(N) /\ Cardinality(N) = n
  BY FS_Interval
<1>2. /\ before \in [N -> SUBSET N] /\ \A i \in N : i \in Int /\ f[i] \in Int
  BY DEF Ranks
<1>3. \A i, j \in N : j \in before[i] <=> f[j] =< f[i] /\ (f[i] =< f[j] => j < i)
  BY DEF Ranks
<1>4. ASSUME NEW i \in N PROVE IsFiniteSet(before[i]) /\ rank[i] \in 0 .. n - 1
  <2>1. before[i] \subseteq N \ {i}
    <3> HIDE DEF N
    <3> QED
      BY <1>2, <1>3
  <2>2. IsFiniteSet(N \ {i}) /\ Cardinality(N \ {i}) = n - 1
    <3> HIDE DEF N
    <3> QED
      BY <1>1, FS_RemoveElement
  <2>3. IsFiniteSet(before[i]) /\ Cardinality(before[i]) =< n - 1 /\ Cardinality(before[i]) \in Nat
    <3> HIDE DEF N
    <3> QED
      BY <2>1, <2>2, FS_Subset, FS_CardinalityType
  <2>4. rank[i] = Cardinality(before[i])
    OBVIOUS
  <2> HIDE DEF rank
  <2> QED
    BY <2>3, <2>4
<1>5. ASSUME NEW i \in N, NEW j \in N, i \in before[j] PROVE rank[i] < rank[j]
  <2>1. before[i] \subseteq before[j] /\ i \notin before[i]
    <3> HIDE DEF N
    <3> QED
      BY <1>5, <1>2, <1>3
  <2>2. rank[i] = Cardinality(before[i]) /\ rank[j] = Cardinality(before[j])
    OBVIOUS
  <2> HIDE DEF rank
  <2>3. Cardinality(before[i]) =< Cardinality(before[j]) /\ Cardinality(before[i]) # Cardinality(before[j])
    BY <1>4, <1>5, <2>1, FS_Subset
  <2> QED
    BY <1>4, <2>2, <2>3
<1>6. \A i, j \in N : i # j => i \in before[j] \/ j \in before[i]
  <2> HIDE DEF N
  <2> QED
    BY <1>2, <1>3
<1>7. ASSUME NEW i \in N, NEW j \in N, rank[i] = rank[j] PROVE i = j
  <2> HIDE DEF rank, N
  <2>1. rank[i] \in Nat /\ rank[j] \in Nat
    BY <1>4
  <2> QED
    BY <1>5, <1>6, <1>7, <2>1
<1>8. ASSUME NEW k \in N PROVE \E i \in N : rank[i] = k - 1
  <2> SUFFICES ASSUME \A i \in N : rank[i] # k - 1 PROVE FALSE
    OBVIOUS
  <2> DEFINE R == 0 .. n - 1
             m == k - 1
             T == R \ {m}
  <2>1. IsFiniteSet(R) /\ Cardinality(R) = n /\ m \in R
    <3>1. ASSUME NEW b \in Nat PROVE IsFiniteSet(0 .. b) /\ Cardinality(0 .. b) = b + 1
      <4>1. 0 \in Int /\ b \in Int /\ ~(0 > b) /\ b - 0 + 1 = b + 1
        OBVIOUS
      <4> QED
        BY <4>1, FS_Interval
    <3>2. n - 1 \in Nat /\ (n - 1) + 1 = n /\ k - 1 \in R
      OBVIOUS
    <3> DEFINE b == n - 1
    <3> HIDE DEF b
    <3>3. b \in Nat /\ b + 1 = n
      BY <3>2 DEF b
    <3>4. R = 0 .. b
      BY DEF b
    <3> HIDE DEF R
    <3> QED
      BY <3>1, <3>2, <3>3, <3>4
  <2>2. IsFiniteSet(T) /\ Cardinality(T) = n - 1
    <3> HIDE DEF R, m
    <3> QED
      BY <2>1, FS_RemoveElement
  <2>3. \A i \in N : rank[i] \in R /\ rank[i] # m
    BY <1>4
  <2> HIDE DEF R, m
  <2>4. rank \in [N -> T]
    <3>1. \A i \in N : rank[i] \in T
      BY <2>3
    <3>2. rank = [i \in N |-> rank[i]]
      OBVIOUS
    <3> HIDE DEF rank, T, N
    <3> QED
      BY <3>1, <3>2
  <2> HIDE DEF rank, T, N
  <2>5. Cardinality(T) < Cardinality(N)
    BY <1>1, <2>2
  <2>6. \E i, j \in N : i # j /\ rank[i] = rank[j]
    BY <1>1, <2>2, <2>4, <2>5, FS_PigeonHole
  <2> QED
    BY <1>7, <2>6
<1>9. ASSUME NEW k \in N PROVE o[k] \in N /\ rank[o[k]] = k - 1
  <2>1. \A i \in N : rank[i] = Cardinality(before[i])
    OBVIOUS
  <2> HIDE DEF rank
  <2>2. \E i \in N : Cardinality(before[i]) = k - 1
    BY <1>8, <2>1
  <2>3. o[k] \in N /\ Cardinality(before[o[k]]) = k - 1
    BY <2>2 DEF Ranks, N
  <2> QED
    BY <2>1, <2>3
<1>10. \A i \in N : rank[i] \in Nat /\ rank[i] + 1 \in N /\ (rank[i] + 1) - 1 = rank[i]
  <2> HIDE DEF rank
  <2> SUFFICES ASSUME NEW i \in N PROVE rank[i] \in Nat /\ rank[i] + 1 \in N /\ (rank[i] + 1) - 1 = rank[i]
    OBVIOUS
  <2>1. rank[i] \in 0 .. n - 1
    BY <1>4
  <2> QED
    BY <2>1
<1> HIDE DEF rank, N
<1>11. ASSUME NEW i \in N, NEW j \in N, i < j PROVE f[o[i]] =< f[o[j]]
  <2>1. o[i] \in N /\ o[j] \in N /\ rank[o[i]] = i - 1 /\ rank[o[j]] = j - 1
    BY <1>9
  <2>2. ~(rank[o[j]] < rank[o[i]])
    BY <1>2, <1>11, <2>1
  <2>3. o[j] \notin before[o[i]]
    BY <1>5, <2>1, <2>2
  <2>4. ~(f[o[j]] =< f[o[i]] /\ (f[o[i]] =< f[o[j]] => o[j] < o[i]))
    BY <1>3, <2>1, <2>3
  <2> QED
    BY <1>2, <2>1, <2>4
<1>12. ASSUME NEW i \in N, NEW j \in N, o[i] = o[j] PROVE i = j
  <2>1. i - 1 = j - 1
    BY <1>9, <1>12
  <2> QED
    BY <1>2, <2>1
<1>13. ASSUME NEW i \in N PROVE \E k \in N : o[k] = i
  <2>1. o[rank[i] + 1] \in N /\ rank[o[rank[i] + 1]] = rank[i]
    BY <1>9, <1>10
  <2> QED
    BY <1>7, <1>10, <2>1
<1> QED
  BY <1>9, <1>11, <1>12, <1>13 DEF N

LEMMA OrdersExist ==
  ASSUME InputOK
  PROVE  LowerOrder(nexts) \in LowerOrders(nexts) /\ UpperOrder(nexts) \in UpperOrders(nexts)
<1> DEFINE n == Len(nexts)  N == 1 .. n
           lowerBefore(i) == {j \in DOMAIN nexts : ByLower(nexts, j, i) /\ (ByLower(nexts, i, j) => j < i)}
           upperBefore(i) == {j \in DOMAIN nexts : ByUpper(nexts, j, i) /\ (ByUpper(nexts, i, j) => j < i)}
           lowerSets == [i \in N |-> lowerBefore(i)]
           upperSets == [i \in N |-> upperBefore(i)]
           l == LowerOrder(nexts)  u == UpperOrder(nexts)
<1>1. Places = 1 .. n /\ n \in Nat
  <2> DEFINE S == Range(nexts)
  <2>1. nexts \in Seq(S)
    BY ElementsOK
  <2> HIDE DEF S
  <2>2. nexts \in Seq(S) => DOMAIN nexts = 1 .. Len(nexts) /\ Len(nexts) \in Nat
    OBVIOUS
  <2> QED
    BY <2>1, <2>2 DEF Places
<1>2. starts \in [1 .. n -> Int] /\ ends \in [1 .. n -> Int]
  BY <1>1, LowersDiffer, UppersDiffer
<1>3. \A i, j \in 1 .. n : /\ ByLower(nexts, i, j) <=> starts[i] =< starts[j]
                           /\ ByUpper(nexts, i, j) <=> ends[i] =< ends[j]
  BY <1>1, ByIsOrder
<1>4. DOMAIN nexts = 1 .. n
  BY <1>1 DEF Places
<1>5. l = [k \in DOMAIN nexts |-> CHOOSE i \in DOMAIN nexts : Cardinality(lowerBefore(i)) = k - 1]
  BY DEF LowerOrder
<1>6. u = [k \in DOMAIN nexts |-> CHOOSE i \in DOMAIN nexts : Cardinality(upperBefore(i)) = k - 1]
  BY DEF UpperOrder
<1>7. /\ lowerSets \in [1 .. n -> SUBSET (1 .. n)] /\ upperSets \in [1 .. n -> SUBSET (1 .. n)]
      /\ \A i \in 1 .. n : lowerSets[i] = lowerBefore(i) /\ upperSets[i] = upperBefore(i)
  BY <1>4
<1>8. \A i, j \in 1 .. n :
        j \in lowerSets[i] <=> starts[j] =< starts[i] /\ (starts[i] =< starts[j] => j < i)
  BY <1>3, <1>4
<1>9. \A i, j \in 1 .. n :
        j \in upperSets[i] <=> ends[j] =< ends[i] /\ (ends[i] =< ends[j] => j < i)
  BY <1>3, <1>4
<1> HIDE DEF n, lowerSets, upperSets, l, u
<1>10. /\ l = [k \in 1 .. n |-> l[k]]
      /\ \A k \in 1 .. n :
           (\E i \in 1 .. n : Cardinality(lowerSets[i]) = k - 1)
             => l[k] \in 1 .. n /\ Cardinality(lowerSets[l[k]]) = k - 1
  <2> HIDE DEF lowerBefore
  <2> QED
    BY <1>4, <1>5, <1>7
<1>11. /\ u = [k \in 1 .. n |-> u[k]]
       /\ \A k \in 1 .. n :
            (\E i \in 1 .. n : Cardinality(upperSets[i]) = k - 1)
              => u[k] \in 1 .. n /\ Cardinality(upperSets[u[k]]) = k - 1
  <2> HIDE DEF upperBefore
  <2> QED
    BY <1>4, <1>6, <1>7
<1>12. /\ l \in Bijection(1 .. n, 1 .. n)
       /\ \A i, j \in 1 .. n : i < j => starts[l[i]] =< starts[l[j]]
  <2>1. DOMAIN l = 1 .. n
    BY <1>10
  <2>2. /\ \A k \in 1 .. n : l[k] \in 1 .. n
        /\ \A i, j \in 1 .. n : l[i] = l[j] => i = j
        /\ \A i \in 1 .. n : \E k \in 1 .. n : l[k] = i
        /\ \A i, j \in 1 .. n : i < j => starts[l[i]] =< starts[l[j]]
    <3>1. Ranks(n, starts, lowerSets, l)
      BY <1>2, <1>7, <1>8, <1>10 DEF Ranks
    <3> QED
      BY <1>1, <3>1, RanksOrder
  <2> QED
    BY <1>10, <2>1, <2>2 DEF Bijection, Injection, Surjection, IsInjective
<1>13. /\ u \in Bijection(1 .. n, 1 .. n)
       /\ \A i, j \in 1 .. n : i < j => ends[u[i]] =< ends[u[j]]
  <2>1. DOMAIN u = 1 .. n
    BY <1>11
  <2>2. /\ \A k \in 1 .. n : u[k] \in 1 .. n
        /\ \A i, j \in 1 .. n : u[i] = u[j] => i = j
        /\ \A i \in 1 .. n : \E k \in 1 .. n : u[k] = i
        /\ \A i, j \in 1 .. n : i < j => ends[u[i]] =< ends[u[j]]
    <3>1. Ranks(n, ends, upperSets, u)
      BY <1>2, <1>7, <1>9, <1>11 DEF Ranks
    <3> QED
      BY <1>1, <3>1, RanksOrder
  <2> QED
    BY <1>11, <2>1, <2>2 DEF Bijection, Injection, Surjection, IsInjective
<1>14. \A o \in Bijection(1 .. n, 1 .. n) : \A i \in 1 .. n : o[i] \in 1 .. n
  BY DEF Bijection, Injection
<1> QED
  BY <1>3, <1>4, <1>12, <1>13, <1>14 DEF LowerOrders, UpperOrders, l, u

(* The call begins with a vector, and with orders of its ends.             *)
LEMMA StartOK ==
  ASSUME InputOK, lowerVec \in LowerOrders(nexts), upperVec \in UpperOrders(nexts),
         currentStates = SetToBag(initConfs), nextLineared = <<>>, pc = "zero"
  PROVE  IInv
<1>1. InputOK
  OBVIOUS
<1>2. PICK n \in Nat : Places = 1 .. n /\ nexts \in Seq(Range(nexts)) /\ Len(nexts) = n
  <2>1. nexts \in Seq(Range(nexts))
    BY <1>1, ElementsOK
  <2> DEFINE S == Range(nexts)
  <2> HIDE DEF S
  <2>2. DOMAIN nexts = 1 .. Len(nexts) /\ Len(nexts) \in Nat
    BY <2>1 DEF S
  <2> QED
    BY <2>1, <2>2 DEF Places
<1>3. ASSUME NEW o \in Bijection(Places, Places), NEW f,
             \A i, j \in 1 .. n : i < j => f[o[i]] =< f[o[j]]
      PROVE  Ordered(o, f) /\ Ahead(o) = Places
  <2>1. /\ o \in [Places -> Places]
        /\ \A i, j \in Places : o[i] = o[j] => i = j
        /\ \A i \in Places : \E j \in Places : o[j] = i
    BY DEF Bijection, Injection, Surjection, IsInjective
  <2>2. o \in Seq(Places) /\ Len(o) = n
    <3> DEFINE S == Places
    <3>1. o \in [1 .. n -> S]
      BY <1>2, <2>1
    <3> HIDE DEF S
    <3>2. o \in Seq(S) /\ Len(o) = n
      BY <3>1
    <3> QED
      BY <3>2 DEF S
  <2>3. \A i, j \in 1 .. n : i < j => o[i] # o[j]
    BY <1>2, <2>1
  <2>4. Ahead(o) = Places
    BY <1>2, <2>1, <2>2 DEF Ahead
  <2> QED
    BY <1>2, <1>3, <2>2, <2>3, <2>4 DEF Ordered
<1>4. Ordered(lowerVec, starts) /\ Ahead(lowerVec) = Places
  <2>1. /\ lowerVec \in Bijection(Places, Places)
        /\ \A i, j \in 1 .. n : i < j => ByLower(nexts, lowerVec[i], lowerVec[j])
    BY <1>2 DEF LowerOrders, Places
  <2>2. \A i, j \in Places : ByLower(nexts, i, j) => starts[i] =< starts[j]
    BY <1>1, ByIsOrder
  <2>3. \A i \in 1 .. n : lowerVec[i] \in Places
    BY <1>2, <2>1 DEF Bijection, Injection
  <2> QED
    BY <1>3, <2>1, <2>2, <2>3
<1>5. Ordered(upperVec, ends) /\ Ahead(upperVec) = Places
  <2>1. /\ upperVec \in Bijection(Places, Places)
        /\ \A i, j \in 1 .. n : i < j => ByUpper(nexts, upperVec[i], upperVec[j])
    BY <1>2 DEF UpperOrders, Places
  <2>2. \A i, j \in Places : ByUpper(nexts, i, j) => ends[i] =< ends[j]
    BY <1>1, ByIsOrder
  <2>3. \A i \in 1 .. n : upperVec[i] \in Places
    BY <1>2, <2>1 DEF Bijection, Injection
  <2> QED
    BY <1>3, <2>1, <2>2, <2>3
<1>6. CurrentOK
  <2>1. currentStates = States({})
    BY <1>1, StatesOfNone
  <2>2. Ahead(upperVec) \ Ahead(lowerVec) = {}
    BY <1>4, <1>5
  <2> QED
    BY <2>1, <2>2 DEF CurrentOK
<1>7. PiecesOK(nextLineared)
  <2>1. nextLineared = <<>>
    OBVIOUS
  <2> QED
    BY <2>1 DEF PiecesOK
<1>8. PhaseOK
  BY <1>4, <1>5 DEF PhaseOK
<1> QED
  BY <1>1, <1>4, <1>5, <1>6, <1>7, <1>8 DEF IInv

LEMMA InitOK ==
  ASSUME Init PROVE IInv
<1>1. InputOK
  <2>1. nexts \in Vectors /\ initConfs \in Initials
    BY DEF Init
  <2> QED
    BY <2>1, VectorsAssumption DEF InputOK, Places
<1> QED
  BY <1>1, StartOK DEF Init

LEMMA AtZeroOrLater ==
  ASSUME lower[1] \in Nat, lower[2] \in BOOLEAN, lower = <<lower[1], lower[2]>>
  PROVE  BeginsAtZero <=> lower[1] = 0
<1> DEFINE n == lower[1]  attained == lower[2]  zero == <<0, TRUE>>
<1>1. zero[1] = 0 /\ zero[2] = TRUE
  OBVIOUS
<1>2. BeginsAtZero <=> lower = zero \/ Less(lower, zero)
  BY DEF BeginsAtZero, AtMost
<1>3. Less(lower, zero) <=> n < 0 \/ (n = 0 /\ ~attained)
  BY <1>1 DEF Less
<1>4. lower = zero <=> n = 0 /\ attained
  <2>1. lower = zero => n = 0 /\ attained
    BY <1>1
  <2>2. n = 0 /\ attained => attained = TRUE
    OBVIOUS
  <2> HIDE DEF n, attained
  <2>3. n = 0 /\ attained => <<n, attained>> = <<0, TRUE>>
    BY <2>2
  <2> QED
    BY <2>1, <2>3 DEF n, attained
<1> HIDE DEF n, attained, zero
<1>5. n \in Nat /\ attained \in BOOLEAN
  BY DEF n, attained
<1>6. BeginsAtZero <=> n = 0
  BY <1>2, <1>3, <1>4, <1>5
<1> QED
  BY <1>6 DEF n

LEMMA ZeroOK ==
  ASSUME IInv, Zero PROVE IInv'
<1>1. /\ pc = "zero" /\ nextLineared = <<>> /\ Ahead(upperVec) = Places
      /\ \A i \in Places \ Ahead(lowerVec) : starts[i] =< 1
      /\ InputOK /\ Ordered(lowerVec, starts) /\ Ordered(upperVec, ends)
      /\ PiecesOK(nextLineared) /\ currentStates = States(Ahead(upperVec) \ Ahead(lowerVec))
  BY DEF IInv, PhaseOK, Zero, CurrentOK
<1>2. UNCHANGED <<nexts, initConfs, upperVec, nextLineared>>
  BY DEF Zero
<1>3. Places' = Places /\ starts' = starts /\ ends' = ends /\ uppers' = uppers
  BY <1>2, Frame
<1>4. CASE lowerVec # <<>> /\ BeginsAtZero
  <2> DEFINE s == starts[Head(lowerVec)]  B == Batch(lowerVec, lowers)
             R == Ahead(lowerVec)
  <2>1. /\ lowerVec' = Rest(lowerVec, lowers) /\ pc' = pc
        /\ currentStates' = currentStates (+) Confs(B)
    BY <1>4 DEF Zero, UseLower, AfterLower
  <2>2. /\ lower \in (0 .. Infinity - 1) \X BOOLEAN /\ s = StartOf(lower)
        /\ Ordered(lowerVec', starts) /\ B = {i \in R : starts[i] = s}
        /\ Ahead(lowerVec') = {i \in R : starts[i] > s} /\ R \subseteq Places
        /\ \A i \in R : starts[i] >= s
    BY <1>4, <2>1, LowerFront
  <2>3. s \in Int /\ s =< 1
    <3>1. lower[1] \in Nat /\ lower[2] \in BOOLEAN /\ lower = <<lower[1], lower[2]>>
      BY <2>2, InfinityIsPositive
    <3>2. lower[1] =< 0
      BY <1>4, <3>1, AtZeroOrLater
    <3> HIDE DEF s
    <3> QED
      BY <2>2, <3>1, <3>2 DEF StartOf
  <2>4. \A i \in Places : starts[i] \in Int
    BY <1>1, PlacesOK
  <2> HIDE DEF s, B, R
  <2>5. \A i \in Places \ Ahead(lowerVec') : starts[i] =< 1
    <3>1. ASSUME NEW i \in R, ~(starts[i] > s) PROVE starts[i] =< 1
      BY <2>2, <2>3, <2>4, <3>1
    <3> QED
      BY <1>1, <2>2, <3>1 DEF R
  <2>6. currentStates' = States(Ahead(upperVec) \ (R \ B))
    <3>1. B \subseteq R /\ B \in SUBSET Places /\ Ahead(upperVec) \ R \in SUBSET Places
          /\ B \subseteq Ahead(upperVec)
      BY <1>1, <2>2
    <3> DEFINE U == Ahead(upperVec)
    <3>2. States(U \ R) (+) Confs(B) = States(U \ (R \ B))
      <4>1. /\ InputOK /\ U \in SUBSET Places /\ B \in SUBSET Places
            /\ B \subseteq U /\ B \subseteq R
        BY <1>1, <3>1
      <4> HIDE DEF U
      <4> QED
        BY <4>1, Opened
    <3> QED
      BY <1>1, <2>1, <3>2 DEF R
  <2>7. R \ B = Ahead(lowerVec')
    BY <2>2, <2>3, <2>4
  <2>8. /\ InputOK' /\ Ordered(lowerVec, starts)' /\ Ordered(upperVec, ends)'
        /\ CurrentOK' /\ PiecesOK(nextLineared)'
    BY <1>1, <1>2, <2>2, <2>6, <2>7, FramedParts
  <2>9. PhaseOK'
    <3>1. \A i \in Places' \ Ahead(lowerVec)' : starts'[i] =< 1
      BY <1>3, <2>5 DEF Ahead
    <3>2. Ahead(upperVec)' = Places'
      BY <1>1, <1>2, <1>3 DEF Ahead
    <3> QED
      BY <1>1, <1>2, <2>1, <3>1, <3>2 DEF PhaseOK
  <2> QED
    BY <2>8, <2>9 DEF IInv
<1>5. CASE ~(lowerVec # <<>> /\ BeginsAtZero)
  <2>1. UNCHANGED <<lowerVec, currentStates>> /\ pc' = "sweep"
    BY <1>5 DEF Zero
  <2>2. SidesOK(0, Ahead(lowerVec), Ahead(upperVec))
    <3>1. ASSUME NEW i \in Ahead(lowerVec) PROVE starts[i] >= 1
      <4>1. lowerVec # <<>>
        BY <1>1, AheadArePlaces
      <4> DEFINE s == starts[Head(lowerVec)]
      <4>2. /\ lower \in (0 .. Infinity - 1) \X BOOLEAN /\ s = StartOf(lower)
            /\ \A j \in Ahead(lowerVec) : starts[j] >= s
            /\ Ahead(lowerVec) \subseteq Places
        BY <4>1, LowerFront
      <4> HIDE DEF s
      <4>3. lower[1] \in Nat /\ lower[2] \in BOOLEAN /\ lower = <<lower[1], lower[2]>>
        BY <4>2, InfinityIsPositive
      <4>4. lower[1] > 0
        BY <1>5, <4>1, <4>3, AtZeroOrLater
      <4>5. s >= 1 /\ s \in Int
        BY <4>2, <4>3, <4>4 DEF StartOf
      <4>6. starts[i] \in Int /\ starts[i] >= s
        BY <1>1, <4>2, PlacesOK
      <4> QED
        BY <4>5, <4>6
    <3>2. \A i \in Places : ends[i] >= 1
      BY <1>1, PlacesOK
    <3> QED
      BY <1>1, <3>1, <3>2 DEF SidesOK
  <2>3. PhaseOK'
    <3>1. Position(nextLineared)' = 0
      BY <1>1, <1>2 DEF Position
    <3>2. SidesOK(0, Ahead(lowerVec), Ahead(upperVec))'
      BY <1>2, <1>3, <2>1, <2>2 DEF SidesOK, Ahead
    <3> QED
      BY <2>1, <3>1, <3>2 DEF PhaseOK
  <2>4. /\ InputOK' /\ Ordered(lowerVec, starts)' /\ Ordered(upperVec, ends)'
        /\ CurrentOK' /\ PiecesOK(nextLineared)'
    BY <1>1, <1>2, <2>1, FramedParts
  <2> QED
    BY <2>3, <2>4 DEF IInv
<1> QED
  BY <1>4, <1>5

(* What a step of the sweep finds.                                         *)
LEMMA SweepFacts ==
  ASSUME IInv, pc = "sweep"
  PROVE  LET pos == Position(nextLineared)
         IN  /\ InputOK /\ Ordered(lowerVec, starts) /\ Ordered(upperVec, ends)
             /\ PiecesOK(nextLineared)
             /\ currentStates = States(Ahead(upperVec) \ Ahead(lowerVec))
             /\ SidesOK(pos, Ahead(lowerVec), Ahead(upperVec))
             /\ pos \in Int /\ pos =< 2 * Infinity - 1
             /\ \A i \in Places :
                  /\ starts[i] \in Int /\ ends[i] \in Int /\ starts[i] =< ends[i]
                  /\ ends[i] =< 2 * Infinity - 1
                  /\ uppers[i][1] = Infinity <=> ends[i] = 2 * Infinity - 1
<1>1. /\ InputOK /\ Ordered(lowerVec, starts) /\ Ordered(upperVec, ends)
      /\ PiecesOK(nextLineared)
      /\ currentStates = States(Ahead(upperVec) \ Ahead(lowerVec))
      /\ SidesOK(Position(nextLineared), Ahead(lowerVec), Ahead(upperVec))
  BY DEF IInv, PhaseOK, CurrentOK
<1> QED
  BY <1>1, PositionOK, PlacesOK

(* While an interval is to begin, it is to end.                            *)
LEMMA EndFollows ==
  ASSUME IInv, lowerVec # <<>>
  PROVE  /\ upperVec # <<>>
         /\ pc = "sweep" => Ahead(lowerVec) \subseteq Ahead(upperVec)
<1>1. InputOK /\ Ordered(lowerVec, starts) /\ Ordered(upperVec, ends)
  BY DEF IInv
<1>2. Ahead(lowerVec) \subseteq Places /\ Ahead(lowerVec) # {}
  BY <1>1, AheadArePlaces
<1>3. CASE pc = "zero"
  <2>1. Ahead(upperVec) # {}
    BY <1>2, <1>3 DEF IInv, PhaseOK
  <2> QED
    BY <1>1, <1>3, <2>1, AheadArePlaces
<1>4. CASE pc = "sweep"
  <2>1. ASSUME NEW i \in Ahead(lowerVec) PROVE i \in Ahead(upperVec)
    <3> DEFINE pos == Position(nextLineared)
    <3>1. pos \in Int /\ SidesOK(pos, Ahead(lowerVec), Ahead(upperVec))
      BY <1>4, SweepFacts
    <3>2. starts[i] \in Int /\ ends[i] \in Int /\ starts[i] =< ends[i] /\ i \in Places
      BY <1>2, <1>4, SweepFacts
    <3> HIDE DEF pos
    <3>3. starts[i] >= pos + 1
      BY <3>1 DEF SidesOK
    <3>4. i \notin Ahead(upperVec) => ends[i] =< pos
      BY <3>1, <3>2 DEF SidesOK
    <3> QED
      BY <3>1, <3>2, <3>3, <3>4
  <2> QED
    BY <1>1, <1>2, <1>4, <2>1, AheadArePlaces
<1>5. CASE pc = "done"
  BY <1>5 DEF IInv, PhaseOK
<1> QED
  BY <1>3, <1>4, <1>5 DEF IInv, PhaseOK

(* The two ends that a step of the sweep compares.                         *)
LEMMA Fronts ==
  ASSUME lower \in (0 .. Infinity - 1) \X BOOLEAN, upper \in UpperBounds
  PROVE  /\ lower[1] \in 0 .. Infinity - 1 /\ lower[2] \in BOOLEAN
         /\ upper[1] \in 0 .. Infinity /\ upper[2] \in BOOLEAN
         /\ upper[1] = Infinity => ~upper[2]
         /\ lower = <<lower[1], lower[2]>> /\ upper = <<upper[1], upper[2]>>
         /\ StartOf(lower) = IF lower[2] THEN 2 * lower[1] ELSE 2 * lower[1] + 1
         /\ EndOf(upper) = IF upper[2] THEN 2 * upper[1] ELSE 2 * upper[1] - 1
<1>1. lower[1] \in 0 .. Infinity - 1 /\ lower[2] \in BOOLEAN /\ lower = <<lower[1], lower[2]>>
  BY InfinityIsPositive
<1> QED
  BY <1>1, PartsOfBound DEF StartOf, EndOf

LEMMA CutBounds ==
  ASSUME NEW n \in 0 .. Infinity - 1, NEW attained \in BOOLEAN
  PROVE  /\ <<n, attained>> \in UpperBounds /\ <<n, attained>>[1] # Infinity
         /\ EndOf(<<n, attained>>) = IF attained THEN 2 * n ELSE 2 * n - 1
BY InfinityIsPositive DEF UpperBounds, EndOf

LEMMA AppendTwo ==
  ASSUME NEW S, NEW p \in Seq(S), NEW a, NEW b
  PROVE  p \o <<a, b>> = Append(Append(p, a), b)
<1> DEFINE T == S \union {a, b}
<1>1. p \in Seq(T) /\ a \in T /\ b \in T
  OBVIOUS
<1> HIDE DEF T
<1>2. /\ p \o <<a, b>> \in Seq(T) /\ Len(p \o <<a, b>>) = Len(p) + 2
      /\ \A n \in 1 .. Len(p) + 2 : (p \o <<a, b>>)[n] =
           IF n =< Len(p) THEN p[n] ELSE <<a, b>>[n - Len(p)]
  BY <1>1
<1>3. /\ Append(Append(p, a), b) \in Seq(T) /\ Len(Append(Append(p, a), b)) = Len(p) + 2
      /\ \A n \in 1 .. Len(p) + 2 : Append(Append(p, a), b)[n] =
           IF n =< Len(p) THEN p[n] ELSE IF n = Len(p) + 1 THEN a ELSE b
  BY <1>1
<1>4. \A n \in 1 .. Len(p) + 2 : (p \o <<a, b>>)[n] = Append(Append(p, a), b)[n]
  <2>1. \A n \in 1 .. Len(p) + 2 : n =< Len(p) \/ n = Len(p) + 1 \/ n = Len(p) + 2
    BY <1>1
  <2>2. <<a, b>>[1] = a /\ <<a, b>>[2] = b
    OBVIOUS
  <2> QED
    BY <1>1, <1>2, <1>3, <2>1, <2>2
<1> QED
  BY <1>2, <1>3, <1>4

LEMMA SweepLowerOK ==
  ASSUME IInv, SweepLower PROVE IInv'
<1> DEFINE s == starts[Head(lowerVec)]  t == ends[Head(upperVec)]
           R == Ahead(lowerVec)  U == Ahead(upperVec)
           B == Batch(lowerVec, lowers)
           pos == Position(nextLineared)
<1>1. /\ pc = "sweep" /\ lowerVec # <<>> /\ upperVec # <<>> /\ R \subseteq U
      /\ lower[1] < upper[1]
      /\ UNCHANGED <<nexts, initConfs, upperVec, pc>>
      /\ nextLineared' = Append(nextLineared, Piece(currentStates, BeforeLower))
      /\ lowerVec' = Rest(lowerVec, lowers)
      /\ currentStates' = currentStates (+) Confs(B)
  BY EndFollows DEF SweepLower, Sweeping, UseLower, AfterLower
<1>2. /\ lower \in (0 .. Infinity - 1) \X BOOLEAN /\ s = StartOf(lower)
      /\ Ordered(lowerVec', starts) /\ B = {i \in R : starts[i] = s}
      /\ Ahead(lowerVec') = {i \in R : starts[i] > s} /\ R \subseteq Places
      /\ \A i \in R : starts[i] >= s
      /\ Head(lowerVec) \in R
  BY <1>1, LowerFront
<1>3. /\ upper \in UpperBounds /\ t = EndOf(upper) /\ U \subseteq Places
      /\ \A i \in U : ends[i] >= t
      /\ Head(upperVec) \in U
  BY <1>1, UpperFront
<1>4. /\ InputOK /\ Ordered(lowerVec, starts) /\ Ordered(upperVec, ends)
      /\ PiecesOK(nextLineared) /\ currentStates = States(U \ R)
      /\ SidesOK(pos, R, U) /\ pos \in Int /\ pos =< 2 * Infinity - 1
      /\ \A i \in Places : /\ starts[i] \in Int /\ ends[i] \in Int
                           /\ starts[i] =< ends[i] /\ ends[i] =< 2 * Infinity - 1
  BY <1>1, SweepFacts
<1>5. s \in Int /\ t \in Int /\ s =< t /\ s >= pos + 1 /\ s =< 2 * Infinity - 1
  <2>1. s \in Int /\ t \in Int /\ s >= pos + 1 /\ s =< 2 * Infinity - 1
    <3>1. starts[Head(lowerVec)] >= pos + 1
      BY <1>2, <1>4 DEF SidesOK
    <3> QED
      BY <1>2, <1>3, <1>4, <3>1, InfinityIsPositive
  <2>2. s =< t
    BY <1>1, <1>2, <1>3, Fronts, InfinityIsPositive
  <2> QED
    BY <2>1, <2>2
<1>6. BeforeLower \in UpperBounds /\ EndOf(BeforeLower) = s - 1 /\ BeforeLower[1] # Infinity
  <2>1. BeforeLower = <<lower[1], ~lower[2]>>
    BY DEF BeforeLower
  <2>2. lower[1] \in 0 .. Infinity - 1 /\ lower[2] \in BOOLEAN
    BY <1>2, <1>3, Fronts
  <2>3. (~lower[2]) \in BOOLEAN
    BY <2>2
  <2>4. /\ BeforeLower \in UpperBounds /\ BeforeLower[1] # Infinity
        /\ EndOf(BeforeLower) = IF ~lower[2] THEN 2 * lower[1] ELSE 2 * lower[1] - 1
    BY <2>1, <2>2, <2>3, CutBounds
  <2>5. s = IF lower[2] THEN 2 * lower[1] ELSE 2 * lower[1] + 1
    BY <1>2, <1>3, Fronts
  <2> HIDE DEF s
  <2> QED
    BY <2>2, <2>4, <2>5
<1> HIDE DEF s, t, R, U, B, pos
<1>7. ASSUME NEW half \in Nat \ {0}, pos < half, ~Below(BeforeLower, half)
      PROVE  At(half) = U \ R
  <2>1. half =< s - 1
    BY <1>6, <1>7, BelowByEnd
  <2>2. \A i \in R : starts[i] > half
    BY <1>2, <1>4, <1>5, <2>1
  <2>3. \A i \in Places \ R : starts[i] =< half
    BY <1>4, <1>7 DEF SidesOK
  <2>4. \A i \in U : ends[i] >= half
    BY <1>3, <1>4, <1>5, <2>1
  <2>5. \A i \in Places \ U : ends[i] < half /\ ends[i] # 2 * Infinity - 1
    <3>1. \A i \in Places \ U : ends[i] =< pos
      BY <1>4 DEF SidesOK
    <3> QED
      BY <1>4, <1>5, <1>7, <2>1, <3>1, InfinityIsPositive
  <2> QED
    BY <1>2, <1>3, <1>4, <2>2, <2>3, <2>4, <2>5, OpenAt
<1>8. PiecesOK(nextLineared') /\ Position(nextLineared') = s - 1
  <2>1. EndOf(BeforeLower) >= pos /\ U \ R \in SUBSET Places
    BY <1>3, <1>4, <1>5, <1>6
  <2> QED
    BY <1>1, <1>4, <1>6, <1>7, <2>1, PieceAdded DEF pos
<1>9. SidesOK(s - 1, Ahead(lowerVec'), Ahead(upperVec'))
  <2>1. Ahead(upperVec') = U
    BY <1>1 DEF U
  <2>2. \A i \in Ahead(lowerVec') : starts[i] >= (s - 1) + 1
    BY <1>2, <1>4, <1>5
  <2>3. \A i \in Places \ Ahead(lowerVec') : starts[i] =< (s - 1) + 1
    <3>1. \A i \in Places \ R : starts[i] =< pos + 1
      BY <1>4 DEF SidesOK
    <3> QED
      BY <1>2, <1>4, <1>5, <3>1
  <2>4. \A i \in Places \ U : ends[i] =< s - 1
    <3>1. \A i \in Places \ U : ends[i] =< pos
      BY <1>4 DEF SidesOK
    <3> QED
      BY <1>4, <1>5, <3>1
  <2>5. \A i \in U : ends[i] >= (s - 1) + 1
    BY <1>3, <1>4, <1>5
  <2> QED
    BY <2>1, <2>2, <2>3, <2>4, <2>5 DEF SidesOK
<1>10. currentStates' = States(Ahead(upperVec') \ Ahead(lowerVec'))
  <2>1. B \subseteq R /\ B \in SUBSET Places /\ U \in SUBSET Places /\ B \subseteq U
    BY <1>1, <1>2, <1>3
  <2>2. States(U \ R) (+) Confs(B) = States(U \ (R \ B))
    BY <1>4, <2>1, Opened
  <2>3. R \ B = Ahead(lowerVec')
    BY <1>2, <1>4, <1>5
  <2> QED
    BY <1>1, <1>4, <2>2, <2>3 DEF U
<1>11. Ordered(upperVec', ends)
  BY <1>1, <1>4
<1> QED
  BY <1>1, <1>2, <1>8, <1>9, <1>10, <1>11, SweepGoesOn

LEMMA SweepUpperOK ==
  ASSUME IInv, SweepUpper PROVE IInv'
<1> DEFINE s == starts[Head(lowerVec)]  t == ends[Head(upperVec)]
           R == Ahead(lowerVec)  U == Ahead(upperVec)
           B == Batch(upperVec, uppers)
           pos == Position(nextLineared)
<1>1. /\ pc = "sweep" /\ lowerVec # <<>> /\ upperVec # <<>> /\ R \subseteq U
      /\ lower[1] > upper[1]
      /\ UNCHANGED <<nexts, initConfs, lowerVec, pc>>
      /\ nextLineared' = Append(nextLineared, Piece(currentStates, upper))
      /\ upperVec' = Rest(upperVec, uppers)
      /\ currentStates' = currentStates (-) Confs(B)
  BY EndFollows DEF SweepUpper, Sweeping, UseUpper, AfterUpper
<1>2. /\ lower \in (0 .. Infinity - 1) \X BOOLEAN /\ s = StartOf(lower)
      /\ R \subseteq Places /\ Head(lowerVec) \in R
      /\ \A i \in R : starts[i] >= s
  BY <1>1, LowerFront
<1>3. /\ upper \in UpperBounds /\ t = EndOf(upper) /\ U \subseteq Places
      /\ Ordered(upperVec', ends) /\ B = {i \in U : ends[i] = t}
      /\ Ahead(upperVec') = {i \in U : ends[i] > t}
      /\ \A i \in U : ends[i] >= t
      /\ Head(upperVec) \in U
  BY <1>1, UpperFront
<1>4. /\ InputOK /\ Ordered(lowerVec, starts) /\ Ordered(upperVec, ends)
      /\ PiecesOK(nextLineared) /\ currentStates = States(U \ R)
      /\ SidesOK(pos, R, U) /\ pos \in Int /\ pos =< 2 * Infinity - 1
      /\ \A i \in Places : /\ starts[i] \in Int /\ ends[i] \in Int
                           /\ starts[i] =< ends[i] /\ ends[i] =< 2 * Infinity - 1
  BY <1>1, SweepFacts
<1>5. s \in Int /\ t \in Int /\ t + 2 =< s /\ t >= pos /\ s =< 2 * Infinity - 1
  <2>1. s \in Int /\ t \in Int /\ t >= pos /\ s =< 2 * Infinity - 1
    <3>1. ends[Head(upperVec)] >= pos
      BY <1>3, <1>4 DEF SidesOK
    <3> QED
      BY <1>2, <1>3, <1>4, <3>1, InfinityIsPositive
  <2>2. t + 2 =< s
    BY <1>1, <1>2, <1>3, Fronts, InfinityIsPositive
  <2> QED
    BY <2>1, <2>2
<1>6. upper[1] # Infinity
  BY <1>1, <1>2, <1>3, Fronts, InfinityIsPositive
<1> HIDE DEF s, t, R, U, B, pos
<1>7. ASSUME NEW half \in Nat \ {0}, pos < half, ~Below(upper, half)
      PROVE  At(half) = U \ R
  <2>1. half =< t
    BY <1>3, <1>6, <1>7, BelowByEnd
  <2>2. \A i \in R : starts[i] > half
    BY <1>2, <1>4, <1>5, <2>1
  <2>3. \A i \in Places \ R : starts[i] =< half
    BY <1>4, <1>7 DEF SidesOK
  <2>4. \A i \in U : ends[i] >= half
    BY <1>3, <1>4, <1>5, <2>1
  <2>5. \A i \in Places \ U : ends[i] < half /\ ends[i] # 2 * Infinity - 1
    <3>1. \A i \in Places \ U : ends[i] =< pos
      BY <1>4 DEF SidesOK
    <3> QED
      BY <1>4, <1>5, <1>7, <2>1, <3>1, InfinityIsPositive
  <2> QED
    BY <1>2, <1>3, <1>4, <2>2, <2>3, <2>4, <2>5, OpenAt
<1>8. PiecesOK(nextLineared') /\ Position(nextLineared') = t
  <2>1. EndOf(upper) >= pos /\ U \ R \in SUBSET Places
    BY <1>3, <1>5
  <2> QED
    BY <1>1, <1>3, <1>4, <1>7, <2>1, PieceAdded DEF pos
<1>9. SidesOK(t, Ahead(lowerVec'), Ahead(upperVec'))
  <2>1. Ahead(lowerVec') = R
    BY <1>1 DEF R
  <2>2. \A i \in R : starts[i] >= t + 1
    BY <1>2, <1>4, <1>5
  <2>3. \A i \in Places \ R : starts[i] =< t + 1
    <3>1. \A i \in Places \ R : starts[i] =< pos + 1
      BY <1>4 DEF SidesOK
    <3> QED
      BY <1>4, <1>5, <3>1
  <2>4. \A i \in Places \ Ahead(upperVec') : ends[i] =< t
    <3>1. \A i \in Places \ U : ends[i] =< pos
      BY <1>4 DEF SidesOK
    <3> QED
      BY <1>3, <1>4, <1>5, <3>1
  <2>5. \A i \in Ahead(upperVec') : ends[i] >= t + 1
    BY <1>3, <1>4, <1>5
  <2> QED
    BY <2>1, <2>2, <2>3, <2>4, <2>5 DEF SidesOK
<1>10. currentStates' = States(Ahead(upperVec') \ Ahead(lowerVec'))
  <2>1. B \subseteq U /\ B \in SUBSET Places /\ U \in SUBSET Places
    BY <1>1, <1>2, <1>3
  <2>2. B \intersect R = {}
    BY <1>2, <1>3, <1>4, <1>5
  <2>3. States(U \ R) (-) Confs(B) = States((U \ B) \ R)
    BY <1>4, <2>1, <2>2, Closed
  <2>4. U \ B = Ahead(upperVec')
    BY <1>3, <1>4, <1>5
  <2> QED
    BY <1>1, <1>4, <2>3, <2>4 DEF R
<1>11. Ordered(lowerVec', starts)
  BY <1>1, <1>4
<1> QED
  BY <1>1, <1>3, <1>8, <1>9, <1>10, <1>11, SweepGoesOn

LEMMA SweepAdjacentOK ==
  ASSUME IInv, SweepAdjacent PROVE IInv'
<1> DEFINE s == starts[Head(lowerVec)]  t == ends[Head(upperVec)]
           R == Ahead(lowerVec)  U == Ahead(upperVec)
           A == Batch(lowerVec, lowers)  B == Batch(upperVec, uppers)
           pos == Position(nextLineared)
<1>1. /\ pc = "sweep" /\ lowerVec # <<>> /\ upperVec # <<>> /\ R \subseteq U
      /\ lower[1] = upper[1] /\ lower[2] # upper[2]
      /\ UNCHANGED <<nexts, initConfs, pc>>
      /\ nextLineared' = Append(nextLineared, Piece(currentStates, upper))
      /\ lowerVec' = Rest(lowerVec, lowers)
      /\ upperVec' = Rest(upperVec, uppers)
      /\ currentStates' = (currentStates (-) Confs(B)) (+) Confs(A)
  BY EndFollows DEF SweepAdjacent, Sweeping, UseUpper, AfterUpper, UseLower, AfterLower
<1>2. /\ lower \in (0 .. Infinity - 1) \X BOOLEAN /\ s = StartOf(lower)
      /\ Ordered(lowerVec', starts) /\ A = {i \in R : starts[i] = s}
      /\ Ahead(lowerVec') = {i \in R : starts[i] > s} /\ R \subseteq Places
      /\ \A i \in R : starts[i] >= s
      /\ Head(lowerVec) \in R
  BY <1>1, LowerFront
<1>3. /\ upper \in UpperBounds /\ t = EndOf(upper) /\ U \subseteq Places
      /\ Ordered(upperVec', ends) /\ B = {i \in U : ends[i] = t}
      /\ Ahead(upperVec') = {i \in U : ends[i] > t}
      /\ \A i \in U : ends[i] >= t
      /\ Head(upperVec) \in U
  BY <1>1, UpperFront
<1>4. /\ InputOK /\ Ordered(lowerVec, starts) /\ Ordered(upperVec, ends)
      /\ PiecesOK(nextLineared) /\ currentStates = States(U \ R)
      /\ SidesOK(pos, R, U) /\ pos \in Int /\ pos =< 2 * Infinity - 1
      /\ \A i \in Places : /\ starts[i] \in Int /\ ends[i] \in Int
                           /\ starts[i] =< ends[i] /\ ends[i] =< 2 * Infinity - 1
  BY <1>1, SweepFacts
<1>5. s \in Int /\ t \in Int /\ s = t + 1 /\ t >= pos /\ s =< 2 * Infinity - 1
  <2>1. s \in Int /\ t \in Int /\ t >= pos /\ s =< 2 * Infinity - 1
    <3>1. ends[Head(upperVec)] >= pos
      BY <1>3, <1>4 DEF SidesOK
    <3> QED
      BY <1>2, <1>3, <1>4, <3>1, InfinityIsPositive
  <2>2. s = t + 1
    BY <1>1, <1>2, <1>3, Fronts, InfinityIsPositive
  <2> QED
    BY <2>1, <2>2
<1>6. upper[1] # Infinity
  BY <1>1, <1>2, <1>3, Fronts, InfinityIsPositive
<1> HIDE DEF s, t, R, U, A, B, pos
<1>7. ASSUME NEW half \in Nat \ {0}, pos < half, ~Below(upper, half)
      PROVE  At(half) = U \ R
  <2>1. half =< t
    BY <1>3, <1>6, <1>7, BelowByEnd
  <2>2. \A i \in R : starts[i] > half
    BY <1>2, <1>4, <1>5, <2>1
  <2>3. \A i \in Places \ R : starts[i] =< half
    BY <1>4, <1>7 DEF SidesOK
  <2>4. \A i \in U : ends[i] >= half
    BY <1>3, <1>4, <1>5, <2>1
  <2>5. \A i \in Places \ U : ends[i] < half /\ ends[i] # 2 * Infinity - 1
    <3>1. \A i \in Places \ U : ends[i] =< pos
      BY <1>4 DEF SidesOK
    <3> QED
      BY <1>4, <1>5, <1>7, <2>1, <3>1, InfinityIsPositive
  <2> QED
    BY <1>2, <1>3, <1>4, <2>2, <2>3, <2>4, <2>5, OpenAt
<1>8. PiecesOK(nextLineared') /\ Position(nextLineared') = t
  <2>1. EndOf(upper) >= pos /\ U \ R \in SUBSET Places
    BY <1>3, <1>5
  <2> QED
    BY <1>1, <1>3, <1>4, <1>7, <2>1, PieceAdded DEF pos
<1>9. SidesOK(t, Ahead(lowerVec'), Ahead(upperVec'))
  <2>2. \A i \in Ahead(lowerVec') : starts[i] >= t + 1
    BY <1>2, <1>4, <1>5
  <2>3. \A i \in Places \ Ahead(lowerVec') : starts[i] =< t + 1
    <3>1. \A i \in Places \ R : starts[i] =< pos + 1
      BY <1>4 DEF SidesOK
    <3> QED
      BY <1>2, <1>4, <1>5, <3>1
  <2>4. \A i \in Places \ Ahead(upperVec') : ends[i] =< t
    <3>1. \A i \in Places \ U : ends[i] =< pos
      BY <1>4 DEF SidesOK
    <3> QED
      BY <1>3, <1>4, <1>5, <3>1
  <2>5. \A i \in Ahead(upperVec') : ends[i] >= t + 1
    BY <1>3, <1>4, <1>5
  <2> QED
    BY <2>2, <2>3, <2>4, <2>5 DEF SidesOK
<1>10. currentStates' = States(Ahead(upperVec') \ Ahead(lowerVec'))
  <2>1. /\ B \subseteq U /\ B \in SUBSET Places /\ U \in SUBSET Places
        /\ A \subseteq R /\ A \in SUBSET Places
    BY <1>1, <1>2, <1>3
  <2>2. B \intersect R = {} /\ A \subseteq U \ B
    BY <1>1, <1>2, <1>3, <1>4, <1>5
  <2>3. States(U \ R) (-) Confs(B) = States((U \ B) \ R)
    BY <1>4, <2>1, <2>2, Closed
  <2>4. U \ B = Ahead(upperVec') /\ R \ A = Ahead(lowerVec')
    BY <1>2, <1>3, <1>4, <1>5
  <2>5. States((U \ B) \ R) (+) Confs(A) = States((U \ B) \ (R \ A))
    <3> DEFINE V == U \ B
    <3>1. V \in SUBSET Places /\ A \subseteq V
      BY <2>1, <2>2
    <3> HIDE DEF V
    <3>2. States(V \ R) (+) Confs(A) = States(V \ (R \ A))
      BY <1>4, <2>1, <3>1, Opened
    <3> QED
      BY <3>2 DEF V
  <2> QED
    BY <1>1, <1>4, <2>3, <2>4, <2>5
<1> QED
  BY <1>1, <1>2, <1>3, <1>8, <1>9, <1>10, SweepGoesOn

(* A point that both intervals have.                                       *)
LEMMA SweepClosedPointOK ==
  ASSUME IInv, SweepPoint, lower[2] PROVE IInv'
<1> DEFINE s == starts[Head(lowerVec)]  t == ends[Head(upperVec)]
           R == Ahead(lowerVec)  U == Ahead(upperVec)
           A == Batch(lowerVec, lowers)  B == Batch(upperVec, uppers)
           pos == Position(nextLineared)
           before == <<lower[1], FALSE>>  at == <<lower[1], TRUE>>
<1>1. /\ pc = "sweep" /\ lowerVec # <<>> /\ upperVec # <<>> /\ R \subseteq U
      /\ lower = upper
      /\ UNCHANGED <<nexts, initConfs, pc>>
      /\ nextLineared' = nextLineared \o <<Piece(currentStates, before), Piece(currentStates (+) Confs(A), at)>>
      /\ lowerVec' = Rest(lowerVec, lowers)
      /\ upperVec' = Rest(upperVec, uppers)
      /\ currentStates' = (currentStates (+) Confs(A)) (-) Confs(B)
  BY EndFollows DEF SweepPoint, Sweeping, UseUpper, AfterUpper, UseLower, AfterLower
<1>2. /\ lower \in (0 .. Infinity - 1) \X BOOLEAN /\ s = StartOf(lower)
      /\ Ordered(lowerVec', starts) /\ A = {i \in R : starts[i] = s}
      /\ Ahead(lowerVec') = {i \in R : starts[i] > s} /\ R \subseteq Places
      /\ \A i \in R : starts[i] >= s
      /\ Head(lowerVec) \in R
  BY <1>1, LowerFront
<1>3. /\ upper \in UpperBounds /\ t = EndOf(upper) /\ U \subseteq Places
      /\ Ordered(upperVec', ends) /\ B = {i \in U : ends[i] = t}
      /\ Ahead(upperVec') = {i \in U : ends[i] > t}
      /\ \A i \in U : ends[i] >= t
      /\ Head(upperVec) \in U
  BY <1>1, UpperFront
<1>4. /\ InputOK /\ Ordered(lowerVec, starts) /\ Ordered(upperVec, ends)
      /\ PiecesOK(nextLineared) /\ currentStates = States(U \ R)
      /\ SidesOK(pos, R, U) /\ pos \in Int /\ pos =< 2 * Infinity - 1
      /\ \A i \in Places : /\ starts[i] \in Int /\ ends[i] \in Int
                           /\ starts[i] =< ends[i] /\ ends[i] =< 2 * Infinity - 1
  BY <1>1, SweepFacts
<1>5. /\ before \in UpperBounds /\ before[1] # Infinity /\ EndOf(before) = 2 * lower[1] - 1
      /\ at \in UpperBounds /\ at[1] # Infinity /\ EndOf(at) = 2 * lower[1]
      /\ lower[1] \in 0 .. Infinity - 1
  <2>1. lower[1] \in 0 .. Infinity - 1
    BY <1>2, <1>3, Fronts
  <2> QED
    BY <2>1, CutBounds
<1>6. s \in Int /\ t = s /\ s = 2 * lower[1] /\ s >= pos + 1
  <2>1. starts[Head(lowerVec)] >= pos + 1
    BY <1>2, <1>4 DEF SidesOK
  <2>2. s = 2 * lower[1] /\ t = 2 * lower[1]
    BY <1>1, <1>2, <1>3, <1>5, Fronts
  <2> QED
    BY <1>5, <2>1, <2>2, InfinityIsPositive
<1> HIDE DEF s, t, R, U, A, B, pos, before, at
<1>7. ASSUME NEW half \in Nat \ {0}, pos < half, ~Below(before, half)
      PROVE  At(half) = U \ R
  <2>1. half =< EndOf(before)
    BY <1>5, <1>7, BelowByEnd
  <2>2. \A i \in R : starts[i] > half
    BY <1>2, <1>4, <1>5, <1>6, <2>1
  <2>3. \A i \in Places \ R : starts[i] =< half
    BY <1>4, <1>7 DEF SidesOK
  <2>4. \A i \in U : ends[i] >= half
    BY <1>3, <1>4, <1>5, <1>6, <2>1
  <2>5. \A i \in Places \ U : ends[i] < half /\ ends[i] # 2 * Infinity - 1
    <3>1. \A i \in Places \ U : ends[i] =< pos
      BY <1>4 DEF SidesOK
    <3> QED
      BY <1>4, <1>5, <1>6, <1>7, <2>1, <3>1, InfinityIsPositive
  <2> QED
    BY <1>2, <1>3, <1>4, <2>2, <2>3, <2>4, <2>5, OpenAt
<1> DEFINE p == Append(nextLineared, Piece(currentStates, before))
<1>8. PiecesOK(p) /\ Position(p) = EndOf(before)
  <2>1. EndOf(before) >= pos /\ U \ R \in SUBSET Places
    BY <1>3, <1>4, <1>5, <1>6
  <2> QED
    BY <1>4, <1>5, <1>7, <2>1, PieceAdded DEF pos
<1> DEFINE V == U \ (R \ A)
<1>9. currentStates (+) Confs(A) = States(V) /\ V \in SUBSET Places /\ R \ A = Ahead(lowerVec')
  <2>1. A \subseteq R /\ A \in SUBSET Places /\ U \in SUBSET Places /\ A \subseteq U
    BY <1>1, <1>2, <1>3
  <2>2. States(U \ R) (+) Confs(A) = States(U \ (R \ A))
    BY <1>4, <2>1, Opened
  <2>3. R \ A = Ahead(lowerVec')
    BY <1>2, <1>4, <1>6
  <2> QED
    BY <1>4, <2>1, <2>2, <2>3
<1>10. ASSUME NEW half \in Nat \ {0}, EndOf(before) < half, ~Below(at, half)
       PROVE  At(half) = V
  <2>1. half = s
    <3>1. half =< EndOf(at)
      BY <1>5, <1>10, BelowByEnd
    <3> QED
      BY <1>5, <1>6, <1>10, <3>1
  <2>2. \A i \in R \ A : starts[i] > half
    BY <1>2, <1>4, <1>6, <2>1
  <2>3. \A i \in Places \ (R \ A) : starts[i] =< half
    <3>1. \A i \in Places \ R : starts[i] =< pos + 1
      BY <1>4 DEF SidesOK
    <3> QED
      BY <1>2, <1>4, <1>6, <2>1, <3>1
  <2>4. \A i \in U : ends[i] >= half
    BY <1>3, <1>4, <1>6, <2>1
  <2>5. \A i \in Places \ U : ends[i] < half /\ ends[i] # 2 * Infinity - 1
    <3>1. \A i \in Places \ U : ends[i] =< pos
      BY <1>4 DEF SidesOK
    <3> QED
      BY <1>4, <1>5, <1>6, <2>1, <3>1, InfinityIsPositive
  <2>6. (R \ A) \in SUBSET Places /\ U \in SUBSET Places
    BY <1>2, <1>3
  <2> DEFINE Q == R \ A
  <2> HIDE DEF Q
  <2>7. At(half) = U \ Q
    BY <1>4, <2>2, <2>3, <2>4, <2>5, <2>6, OpenAt DEF Q
  <2> QED
    BY <2>7 DEF Q
<1> DEFINE q == Append(p, Piece(States(V), at))
<1>11. PiecesOK(q) /\ Position(q) = EndOf(at) /\ nextLineared' = q
  <2>1. EndOf(at) >= Position(p)
    BY <1>5, <1>8
  <2>2. PiecesOK(q) /\ Position(q) = EndOf(at)
    <3> HIDE DEF p, V
    <3> QED
      BY <1>5, <1>8, <1>9, <1>10, <2>1, PieceAdded
  <2>3. nextLineared' = q
    <3> DEFINE a == Piece(currentStates, before)  b == Piece(States(V), at)  S == Piece_
    <3>1. nextLineared' = nextLineared \o <<a, b>>
      BY <1>1, <1>9
    <3>2. nextLineared \in Seq(S)
      BY <1>4 DEF PiecesOK
    <3> HIDE DEF a, b, S
    <3>3. nextLineared' = Append(Append(nextLineared, a), b)
      BY <3>1, <3>2, AppendTwo
    <3> QED
      BY <3>3 DEF a, b
  <2> QED
    BY <2>2, <2>3
<1>12. SidesOK(EndOf(at), Ahead(lowerVec'), Ahead(upperVec'))
  <2>1. \A i \in Ahead(lowerVec') : starts[i] >= EndOf(at) + 1
    BY <1>2, <1>4, <1>5, <1>6
  <2>2. \A i \in Places \ Ahead(lowerVec') : starts[i] =< EndOf(at) + 1
    <3>1. \A i \in Places \ R : starts[i] =< pos + 1
      BY <1>4 DEF SidesOK
    <3> QED
      BY <1>2, <1>4, <1>5, <1>6, <3>1
  <2>3. \A i \in Places \ Ahead(upperVec') : ends[i] =< EndOf(at)
    <3>1. \A i \in Places \ U : ends[i] =< pos
      BY <1>4 DEF SidesOK
    <3> QED
      BY <1>3, <1>4, <1>5, <1>6, <3>1
  <2>4. \A i \in Ahead(upperVec') : ends[i] >= EndOf(at) + 1
    BY <1>3, <1>4, <1>5, <1>6
  <2> QED
    BY <2>1, <2>2, <2>3, <2>4 DEF SidesOK
<1>13. currentStates' = States(Ahead(upperVec') \ Ahead(lowerVec'))
  <2>1. B \subseteq U /\ B \in SUBSET Places /\ U \in SUBSET Places
    BY <1>3
  <2>2. B \intersect (R \ A) = {}
    BY <1>2, <1>3, <1>4, <1>6
  <2>3. States(U \ (R \ A)) (-) Confs(B) = States((U \ B) \ (R \ A))
    <3> DEFINE Q == R \ A
    <3> HIDE DEF Q
    <3>1. States(U \ Q) (-) Confs(B) = States((U \ B) \ Q)
      BY <1>4, <2>1, <2>2, Closed DEF Q
    <3> QED
      BY <3>1 DEF Q
  <2>4. U \ B = Ahead(upperVec')
    BY <1>3, <1>4, <1>6
  <2> QED
    BY <1>1, <1>9, <2>3, <2>4
<1> HIDE DEF q
<1> QED
  BY <1>1, <1>2, <1>3, <1>11, <1>12, <1>13, SweepGoesOn

(* A point that neither interval has.                                      *)
LEMMA SweepOpenPointOK ==
  ASSUME IInv, SweepPoint, ~lower[2] PROVE IInv'
<1> DEFINE s == starts[Head(lowerVec)]  t == ends[Head(upperVec)]
           R == Ahead(lowerVec)  U == Ahead(upperVec)
           A == Batch(lowerVec, lowers)  B == Batch(upperVec, uppers)
           pos == Position(nextLineared)
           before == <<lower[1], FALSE>>  at == <<lower[1], TRUE>>
<1>1. /\ pc = "sweep" /\ lowerVec # <<>> /\ upperVec # <<>> /\ R \subseteq U
      /\ lower = upper
      /\ UNCHANGED <<nexts, initConfs, pc>>
      /\ nextLineared' = nextLineared \o <<Piece(currentStates, before), Piece(currentStates (-) Confs(B), at)>>
      /\ lowerVec' = Rest(lowerVec, lowers)
      /\ upperVec' = Rest(upperVec, uppers)
      /\ currentStates' = (currentStates (-) Confs(B)) (+) Confs(A)
  BY EndFollows DEF SweepPoint, Sweeping, UseUpper, AfterUpper, UseLower, AfterLower
<1>2. /\ lower \in (0 .. Infinity - 1) \X BOOLEAN /\ s = StartOf(lower)
      /\ Ordered(lowerVec', starts) /\ A = {i \in R : starts[i] = s}
      /\ Ahead(lowerVec') = {i \in R : starts[i] > s} /\ R \subseteq Places
      /\ \A i \in R : starts[i] >= s
      /\ Head(lowerVec) \in R
  BY <1>1, LowerFront
<1>3. /\ upper \in UpperBounds /\ t = EndOf(upper) /\ U \subseteq Places
      /\ Ordered(upperVec', ends) /\ B = {i \in U : ends[i] = t}
      /\ Ahead(upperVec') = {i \in U : ends[i] > t}
      /\ \A i \in U : ends[i] >= t
      /\ Head(upperVec) \in U
  BY <1>1, UpperFront
<1>4. /\ InputOK /\ Ordered(lowerVec, starts) /\ Ordered(upperVec, ends)
      /\ PiecesOK(nextLineared) /\ currentStates = States(U \ R)
      /\ SidesOK(pos, R, U) /\ pos \in Int /\ pos =< 2 * Infinity - 1
      /\ \A i \in Places : /\ starts[i] \in Int /\ ends[i] \in Int
                           /\ starts[i] =< ends[i] /\ ends[i] =< 2 * Infinity - 1
  BY <1>1, SweepFacts
<1>5. /\ before \in UpperBounds /\ before[1] # Infinity /\ EndOf(before) = 2 * lower[1] - 1
      /\ at \in UpperBounds /\ at[1] # Infinity /\ EndOf(at) = 2 * lower[1]
      /\ lower[1] \in 0 .. Infinity - 1
  <2>1. lower[1] \in 0 .. Infinity - 1
    BY <1>2, <1>3, Fronts
  <2> QED
    BY <2>1, CutBounds
<1>6. /\ s \in Int /\ t = 2 * lower[1] - 1 /\ s = 2 * lower[1] + 1
      /\ s >= pos + 1 /\ t >= pos + 1
  <2>1. starts[Head(lowerVec)] >= pos + 1
    BY <1>2, <1>4 DEF SidesOK
  <2>2. s = 2 * lower[1] + 1 /\ t = 2 * lower[1] - 1
    BY <1>1, <1>2, <1>3, <1>5, Fronts
  <2>3. ends[Head(upperVec)] >= pos + 1
    <3>1. ~uppers[Head(upperVec)][2]
      BY <1>1 DEF upper
    <3> QED
      BY <1>3, <1>4, <3>1 DEF SidesOK
  <2> QED
    BY <1>5, <2>1, <2>2, <2>3, InfinityIsPositive
<1> HIDE DEF s, t, R, U, A, B, pos, before, at
<1>7. ASSUME NEW half \in Nat \ {0}, pos < half, ~Below(before, half)
      PROVE  At(half) = U \ R
  <2>1. half =< EndOf(before)
    BY <1>5, <1>7, BelowByEnd
  <2>2. \A i \in R : starts[i] > half
    BY <1>2, <1>4, <1>5, <1>6, <2>1
  <2>3. \A i \in Places \ R : starts[i] =< half
    BY <1>4, <1>7 DEF SidesOK
  <2>4. \A i \in U : ends[i] >= half
    BY <1>3, <1>4, <1>5, <1>6, <2>1
  <2>5. \A i \in Places \ U : ends[i] < half /\ ends[i] # 2 * Infinity - 1
    <3>1. \A i \in Places \ U : ends[i] =< pos
      BY <1>4 DEF SidesOK
    <3> QED
      BY <1>4, <1>5, <1>6, <1>7, <2>1, <3>1, InfinityIsPositive
  <2> QED
    BY <1>2, <1>3, <1>4, <2>2, <2>3, <2>4, <2>5, OpenAt
<1> DEFINE p == Append(nextLineared, Piece(currentStates, before))
<1>8. PiecesOK(p) /\ Position(p) = EndOf(before)
  <2>1. EndOf(before) >= pos /\ U \ R \in SUBSET Places
    BY <1>3, <1>4, <1>5, <1>6
  <2> QED
    BY <1>4, <1>5, <1>7, <2>1, PieceAdded DEF pos
<1> DEFINE V == (U \ B) \ R
<1>9. currentStates (-) Confs(B) = States(V) /\ V \in SUBSET Places /\ U \ B = Ahead(upperVec')
  <2>1. B \subseteq U /\ B \in SUBSET Places /\ U \in SUBSET Places
    BY <1>3
  <2>2. B \intersect R = {}
    BY <1>2, <1>3, <1>4, <1>6
  <2>3. States(U \ R) (-) Confs(B) = States((U \ B) \ R)
    BY <1>4, <2>1, <2>2, Closed
  <2>4. U \ B = Ahead(upperVec')
    BY <1>3, <1>4, <1>6
  <2> QED
    BY <1>4, <2>1, <2>3, <2>4
<1>10. ASSUME NEW half \in Nat \ {0}, EndOf(before) < half, ~Below(at, half)
       PROVE  At(half) = V
  <2>1. half = 2 * lower[1]
    <3>1. half =< EndOf(at)
      BY <1>5, <1>10, BelowByEnd
    <3> QED
      BY <1>5, <1>6, <1>10, <3>1
  <2>2. \A i \in R : starts[i] > half
    BY <1>2, <1>4, <1>5, <1>6, <2>1
  <2>3. \A i \in Places \ R : starts[i] =< half
    <3>1. \A i \in Places \ R : starts[i] =< pos + 1
      BY <1>4 DEF SidesOK
    <3> QED
      BY <1>4, <1>5, <1>6, <2>1, <3>1
  <2>4. \A i \in U \ B : ends[i] >= half
    BY <1>3, <1>4, <1>5, <1>6, <2>1
  <2>5. \A i \in Places \ (U \ B) : ends[i] < half /\ ends[i] # 2 * Infinity - 1
    <3>1. \A i \in Places \ U : ends[i] =< pos
      BY <1>4 DEF SidesOK
    <3> QED
      BY <1>3, <1>4, <1>5, <1>6, <2>1, <3>1, InfinityIsPositive
  <2>6. R \in SUBSET Places /\ (U \ B) \in SUBSET Places
    BY <1>2, <1>3
  <2> DEFINE Q == U \ B
  <2> HIDE DEF Q
  <2>7. At(half) = Q \ R
    BY <1>4, <2>2, <2>3, <2>4, <2>5, <2>6, OpenAt DEF Q
  <2> QED
    BY <2>7 DEF Q
<1> DEFINE q == Append(p, Piece(States(V), at))
<1>11. PiecesOK(q) /\ Position(q) = EndOf(at) /\ nextLineared' = q
  <2>1. EndOf(at) >= Position(p)
    BY <1>5, <1>8
  <2>2. PiecesOK(q) /\ Position(q) = EndOf(at)
    <3> HIDE DEF p, V
    <3> QED
      BY <1>5, <1>8, <1>9, <1>10, <2>1, PieceAdded
  <2>3. nextLineared' = q
    <3> DEFINE a == Piece(currentStates, before)  b == Piece(States(V), at)  S == Piece_
    <3>1. nextLineared' = nextLineared \o <<a, b>>
      BY <1>1, <1>9
    <3>2. nextLineared \in Seq(S)
      BY <1>4 DEF PiecesOK
    <3> HIDE DEF a, b, S
    <3>3. nextLineared' = Append(Append(nextLineared, a), b)
      BY <3>1, <3>2, AppendTwo
    <3> QED
      BY <3>3 DEF a, b
  <2> QED
    BY <2>2, <2>3
<1>12. SidesOK(EndOf(at), Ahead(lowerVec'), Ahead(upperVec'))
  <2>1. \A i \in Ahead(lowerVec') : starts[i] >= EndOf(at) + 1
    BY <1>2, <1>4, <1>5, <1>6
  <2>2. \A i \in Places \ Ahead(lowerVec') : starts[i] =< EndOf(at) + 1
    <3>1. \A i \in Places \ R : starts[i] =< pos + 1
      BY <1>4 DEF SidesOK
    <3> QED
      BY <1>2, <1>4, <1>5, <1>6, <3>1
  <2>3. \A i \in Places \ Ahead(upperVec') : ends[i] =< EndOf(at)
    <3>1. \A i \in Places \ U : ends[i] =< pos
      BY <1>4 DEF SidesOK
    <3> QED
      BY <1>3, <1>4, <1>5, <1>6, <3>1
  <2>4. ASSUME NEW i \in Ahead(upperVec')
        PROVE  \/ ends[i] >= EndOf(at) + 1
               \/ /\ ends[i] = EndOf(at) /\ uppers[i][2]
                  /\ \A j \in Ahead(lowerVec') : starts[j] >= EndOf(at) + 2
    <3>1. ends[i] \in Int /\ ends[i] >= EndOf(at) /\ i \in Places
      BY <1>3, <1>4, <1>5, <1>6
    <3>2. ends[i] = EndOf(at) => uppers[i][2]
      BY <1>4, <1>5, <3>1, PlacesOK
    <3>3. \A j \in Ahead(lowerVec') : starts[j] >= EndOf(at) + 2
      BY <1>2, <1>4, <1>5, <1>6
    <3> QED
      BY <1>5, <3>1, <3>2, <3>3
  <2> QED
    BY <2>1, <2>2, <2>3, <2>4 DEF SidesOK
<1>13. currentStates' = States(Ahead(upperVec') \ Ahead(lowerVec'))
  <2>1. /\ A \subseteq R /\ A \in SUBSET Places /\ (U \ B) \in SUBSET Places
        /\ A \subseteq U \ B
    BY <1>1, <1>2, <1>3, <1>4, <1>6
  <2>2. States((U \ B) \ R) (+) Confs(A) = States((U \ B) \ (R \ A))
    <3> DEFINE Q == U \ B
    <3> HIDE DEF Q
    <3>1. States(Q \ R) (+) Confs(A) = States(Q \ (R \ A))
      BY <1>4, <2>1, Opened DEF Q
    <3> QED
      BY <3>1 DEF Q
  <2>3. R \ A = Ahead(lowerVec')
    BY <1>2, <1>4, <1>6
  <2> QED
    BY <1>1, <1>9, <2>2, <2>3
<1> HIDE DEF q
<1> QED
  BY <1>1, <1>2, <1>3, <1>11, <1>12, <1>13, SweepGoesOn

LEMMA SweepRestOK ==
  ASSUME IInv, SweepRest PROVE IInv'
<1> DEFINE t == ends[Head(upperVec)]
           U == Ahead(upperVec)
           B == Batch(upperVec, uppers)
           pos == Position(nextLineared)
<1>1. /\ pc = "sweep" /\ lowerVec = <<>> /\ upperVec # <<>>
      /\ UNCHANGED <<nexts, initConfs, lowerVec, pc>>
      /\ nextLineared' = Append(nextLineared, Piece(currentStates, upper))
      /\ upperVec' = Rest(upperVec, uppers)
      /\ currentStates' = currentStates (-) Confs(B)
  BY DEF SweepRest, UseUpper, AfterUpper
<1>2. Ahead(lowerVec) = {} /\ Ahead(lowerVec') = {}
  BY <1>1, AheadArePlaces DEF IInv
<1>3. /\ upper \in UpperBounds /\ t = EndOf(upper) /\ U \subseteq Places
      /\ Ordered(upperVec', ends) /\ B = {i \in U : ends[i] = t}
      /\ Ahead(upperVec') = {i \in U : ends[i] > t}
      /\ \A i \in U : ends[i] >= t
      /\ Head(upperVec) \in U
  BY <1>1, UpperFront
<1>4. /\ InputOK /\ Ordered(lowerVec, starts) /\ Ordered(upperVec, ends)
      /\ PiecesOK(nextLineared) /\ currentStates = States(U \ {})
      /\ SidesOK(pos, {}, U) /\ pos \in Int /\ pos =< 2 * Infinity - 1
      /\ \A i \in Places : /\ starts[i] \in Int /\ ends[i] \in Int
                           /\ starts[i] =< ends[i] /\ ends[i] =< 2 * Infinity - 1
                           /\ uppers[i][1] = Infinity <=> ends[i] = 2 * Infinity - 1
  BY <1>1, <1>2, SweepFacts
<1>5. t \in Int /\ t >= pos /\ t =< 2 * Infinity - 1 /\ pos # 2 * Infinity - 1
  <2> DEFINE h == Head(upperVec)
  <2>1. \/ ends[h] >= pos + 1
        \/ ends[h] = pos /\ uppers[h][2]
    BY <1>3, <1>4 DEF SidesOK
  <2>2. uppers[h][2] => uppers[h][1] # Infinity
    BY <1>3, PartsOfBound DEF upper
  <2>3. h \in Places /\ t = ends[h]
    BY <1>3
  <2> HIDE DEF h, t, pos
  <2> QED
    BY <1>4, <2>1, <2>2, <2>3, InfinityIsPositive
<1> HIDE DEF t, U, B, pos
<1>7. ASSUME NEW half \in Nat \ {0}, pos < half, ~Below(upper, half)
      PROVE  At(half) = U \ {}
  <2>1. half =< t \/ t = 2 * Infinity - 1
    BY <1>3, <1>7, BelowByEnd
  <2>3. \A i \in Places \ {} : starts[i] =< half
    BY <1>4, <1>7 DEF SidesOK
  <2>4. \A i \in U : uppers[i][1] = Infinity \/ ends[i] >= half
    BY <1>3, <1>4, <1>5, <2>1, InfinityIsPositive
  <2>5. \A i \in Places \ U : ends[i] < half /\ ends[i] # 2 * Infinity - 1
    <3>1. \A i \in Places \ U : ends[i] =< pos
      BY <1>4 DEF SidesOK
    <3> QED
      BY <1>4, <1>5, <1>7, <3>1, InfinityIsPositive
  <2>6. {} \in SUBSET Places /\ \A i \in {} : starts[i] > half
    OBVIOUS
  <2> QED
    BY <1>3, <1>4, <2>3, <2>4, <2>5, <2>6, OpenAt
<1>8. PiecesOK(nextLineared') /\ Position(nextLineared') = t
  <2>1. EndOf(upper) >= pos /\ U \ {} \in SUBSET Places
    BY <1>3, <1>5
  <2> QED
    BY <1>1, <1>3, <1>4, <1>7, <2>1, PieceAdded DEF pos
<1>9. SidesOK(t, Ahead(lowerVec'), Ahead(upperVec'))
  <2>3. \A i \in Places \ Ahead(lowerVec') : starts[i] =< t + 1
    <3>1. \A i \in Places : starts[i] =< pos + 1
      BY <1>4 DEF SidesOK
    <3> QED
      BY <1>4, <1>5, <3>1
  <2>4. \A i \in Places \ Ahead(upperVec') : ends[i] =< t
    <3>1. \A i \in Places \ U : ends[i] =< pos
      BY <1>4 DEF SidesOK
    <3> QED
      BY <1>3, <1>4, <1>5, <3>1
  <2>5. \A i \in Ahead(upperVec') : ends[i] >= t + 1
    BY <1>3, <1>4, <1>5
  <2> QED
    BY <1>2, <2>3, <2>4, <2>5 DEF SidesOK
<1>10. currentStates' = States(Ahead(upperVec') \ Ahead(lowerVec'))
  <2>1. B \subseteq U /\ B \in SUBSET Places /\ U \in SUBSET Places /\ B \intersect {} = {}
    BY <1>3
  <2>2. States(U \ {}) (-) Confs(B) = States((U \ B) \ {})
    BY <1>4, <2>1, Closed
  <2>3. U \ B = Ahead(upperVec')
    BY <1>3, <1>4, <1>5
  <2> QED
    BY <1>1, <1>2, <1>4, <2>2, <2>3
<1>11. Ordered(lowerVec', starts)
  BY <1>1, <1>4
<1> QED
  BY <1>1, <1>3, <1>8, <1>9, <1>10, <1>11, SweepGoesOn

LEMMA FinishOK ==
  ASSUME IInv, Finish PROVE IInv'
<1> DEFINE pos == Position(nextLineared)
<1>1. /\ pc = "sweep" /\ lowerVec = <<>> /\ upperVec = <<>> /\ pc' = "done"
      /\ UNCHANGED <<nexts, initConfs, lowerVec, upperVec, currentStates>>
      /\ nextLineared' = IF NeedsLast
           THEN Append(nextLineared, Piece(SetToBag(initConfs), Unbounded))
           ELSE nextLineared
  BY DEF Finish
<1>2. Ahead(lowerVec) = {} /\ Ahead(upperVec) = {}
  BY <1>1, AheadArePlaces DEF IInv
<1>3. /\ InputOK /\ Ordered(lowerVec, starts) /\ Ordered(upperVec, ends)
      /\ PiecesOK(nextLineared)
      /\ currentStates = States(Ahead(upperVec) \ Ahead(lowerVec))
      /\ SidesOK(pos, {}, {}) /\ pos \in Int /\ pos =< 2 * Infinity - 1
      /\ \A i \in Places : starts[i] \in Int /\ ends[i] \in Int
  BY <1>1, <1>2, SweepFacts
<1>4. /\ PiecesOK(nextLineared') /\ nextLineared' # <<>>
      /\ nextLineared'[Len(nextLineared')].bound[1] = Infinity
  <2>1. CASE NeedsLast
    <3>1. pos # 2 * Infinity - 1
      BY <1>3, <2>1, PositionOK, BelowByEnd, InfinityIsPositive DEF NeedsLast
    <3> HIDE DEF pos
    <3>2. /\ Unbounded \in UpperBounds /\ Unbounded[1] = Infinity
          /\ EndOf(Unbounded) = 2 * Infinity - 1
      <4>1. Unbounded \in UpperBounds /\ Unbounded[1] = Infinity
        BY DEF UpperBounds, Unbounded
      <4> QED
        BY <4>1, BelowByEnd, InfinityIsPositive
    <3>3. ASSUME NEW half \in Nat \ {0}, pos < half, ~Below(Unbounded, half)
          PROVE  At(half) = {}
      <4>1. \A i \in Places \ {} : starts[i] =< half
        BY <1>3, <3>3 DEF SidesOK
      <4>2. \A i \in Places \ {} : ends[i] < half /\ ends[i] # 2 * Infinity - 1
        <5>1. \A i \in Places : ends[i] =< pos
          BY <1>3 DEF SidesOK
        <5> QED
          BY <1>3, <3>1, <3>3, <5>1, InfinityIsPositive
      <4>3. At(half) = {} \ {}
        BY <1>3, <4>1, <4>2, OpenAt
      <4> QED
        BY <4>3
    <3>4. nextLineared' = Append(nextLineared, Piece(States({}), Unbounded))
      BY <1>1, <1>3, <2>1, StatesOfNone
    <3>5. {} \in SUBSET Places /\ EndOf(Unbounded) >= pos
      BY <1>3, <3>2, InfinityIsPositive
    <3> QED
      BY <1>3, <3>2, <3>3, <3>4, <3>5, PieceAdded DEF pos
  <2>2. CASE ~NeedsLast
    BY <1>1, <1>3, <2>2 DEF NeedsLast
  <2> QED
    BY <2>1, <2>2
<1>5. /\ InputOK' /\ Ordered(lowerVec, starts)' /\ Ordered(upperVec, ends)'
      /\ CurrentOK' /\ PiecesOK(nextLineared)'
  BY <1>1, <1>3, <1>4, FramedParts
<1>6. PhaseOK'
  BY <1>1, <1>4 DEF PhaseOK
<1> QED
  BY <1>5, <1>6 DEF IInv

LEMMA StepOK ==
  ASSUME IInv, [Next]_vars PROVE IInv'
<1>1. CASE Zero
  BY <1>1, ZeroOK
<1>2. CASE SweepLower
  BY <1>2, SweepLowerOK
<1>3. CASE SweepUpper
  BY <1>3, SweepUpperOK
<1>4. CASE SweepAdjacent
  BY <1>4, SweepAdjacentOK
<1>5. CASE SweepPoint
  BY <1>5, SweepClosedPointOK, SweepOpenPointOK
<1>6. CASE SweepRest
  BY <1>6, SweepRestOK
<1>7. CASE Finish
  BY <1>7, FinishOK
<1>8. CASE UNCHANGED vars
  <2>1. UNCHANGED <<nexts, initConfs, lowerVec, upperVec, currentStates, nextLineared, pc>>
    BY <1>8 DEF vars
  <2>2. /\ InputOK /\ Ordered(lowerVec, starts) /\ Ordered(upperVec, ends)
        /\ currentStates = States(Ahead(upperVec) \ Ahead(lowerVec))
        /\ PiecesOK(nextLineared) /\ PhaseOK
    BY DEF IInv, CurrentOK
  <2>3. /\ InputOK' /\ Ordered(lowerVec, starts)' /\ Ordered(upperVec, ends)'
        /\ CurrentOK' /\ PiecesOK(nextLineared)'
    BY <2>1, <2>2, FramedParts
  <2>4. PhaseOK'
    <3>1. Places' = Places /\ starts' = starts /\ ends' = ends /\ uppers' = uppers
      BY <2>1, Frame
    <3> QED
      BY <2>1, <2>2, <3>1 DEF PhaseOK, SidesOK, Position, Ahead
  <2> QED
    BY <2>3, <2>4 DEF IInv
<1> QED
  BY <1>1, <1>2, <1>3, <1>4, <1>5, <1>6, <1>7, <1>8 DEF Next

THEOREM Invariance == Spec => []IInv
<1>1. Init => IInv
  BY InitOK
<1>2. IInv /\ [Next]_vars => IInv'
  BY StepOK
<1> QED
  BY <1>1, <1>2, PTL DEF Spec

-----------------------------------------------------------------------------
(* What the invariant gives.                                               *)

LEMMA StatesAreStates ==
  ASSUME InputOK, NEW is \in SUBSET Places
  PROVE  /\ IsStates(States(is))
         /\ States(is) = [c \in DOMAIN States(is) |-> States(is)[c]]
<1>1. States(is) = [c \in initConfs \union ConfsAt(is) |->
                         Initially(c) + Cardinality(With(c, is))]
  BY StatesByCount
<1>2. DOMAIN States(is) \subseteq AllConfs
  BY <1>1 DEF AllConfs, ConfsAt, Places
<1>3. ASSUME NEW c \in initConfs \union ConfsAt(is)
      PROVE  Initially(c) + Cardinality(With(c, is)) \in Nat \ {0}
  <2>1. /\ Cardinality(With(c, is)) \in Nat
        /\ c \in ConfsAt(is) <=> Cardinality(With(c, is)) > 0
    BY CountsOK
  <2> QED
    BY <2>1 DEF Initially
<1> QED
  BY <1>1, <1>2, <1>3 DEF IsStates

LEMMA PiecesAre ==
  ASSUME PiecesOK(nextLineared), NEW i \in DOMAIN nextLineared
  PROVE  /\ DOMAIN nextLineared = 1 .. Len(nextLineared) /\ Len(nextLineared) \in Nat
         /\ nextLineared[i].bound \in UpperBounds
         /\ \E is \in SUBSET Places : nextLineared[i].states = States(is)
<1> DEFINE S == Piece_
<1>1. nextLineared \in Seq(S)
  BY DEF PiecesOK
<1>2. nextLineared[i] \in S /\ DOMAIN nextLineared = 1 .. Len(nextLineared) /\ Len(nextLineared) \in Nat
  <2> HIDE DEF S
  <2> QED
    BY <1>1
<1> QED
  BY <1>2 DEF Piece_

(* What the caller gets: pieces that cover every duration, each with the   *)
(* initial configurations and those whose intervals contain it.            *)
LEMMA PiecesServe ==
  ASSUME IInv, Done, NEW L, L = Len(nextLineared)
  PROVE  /\ DOMAIN nextLineared = 1 .. L /\ L \in Nat \ {0}
         /\ nextLineared[L].bound[1] = Infinity
         /\ \A k \in 1 .. L : /\ nextLineared[k].bound \in UpperBounds
                             /\ IsStates(nextLineared[k].states)
                             /\ nextLineared[k].states =
                                  [c \in DOMAIN nextLineared[k].states |-> nextLineared[k].states[c]]
                             /\ initConfs \subseteq DOMAIN nextLineared[k].states
         /\ \A k \in 1 .. L, half \in Nat \ {0} :
              /\ k = 1 \/ Below(nextLineared[k - 1].bound, half)
              /\ ~Below(nextLineared[k].bound, half)
              => \A i \in DOMAIN nexts :
                   Within(nexts[i], half) => nexts[i].conf \in DOMAIN nextLineared[k].states
<1>1. /\ PiecesOK(nextLineared) /\ InputOK
      /\ nextLineared # <<>> /\ nextLineared[L].bound[1] = Infinity
  BY DEF IInv, PhaseOK, Done
<1>2. DOMAIN nextLineared = 1 .. L /\ L \in Nat \ {0}
  <2> DEFINE S == Piece_
  <2>1. nextLineared \in Seq(S)
    BY <1>1 DEF PiecesOK
  <2> HIDE DEF S
  <2> QED
    BY <1>1, <2>1
<1>3. \A is \in SUBSET Places : DOMAIN States(is) = initConfs \union ConfsAt(is)
  BY <1>1, StatesByCount
<1>4. ASSUME NEW k \in 1 .. L
      PROVE  /\ nextLineared[k].bound \in UpperBounds
             /\ IsStates(nextLineared[k].states)
             /\ nextLineared[k].states =
                  [c \in DOMAIN nextLineared[k].states |-> nextLineared[k].states[c]]
             /\ initConfs \subseteq DOMAIN nextLineared[k].states
  <2>1. nextLineared[k].bound \in UpperBounds
    BY <1>1, <1>2, PiecesAre
  <2>2. PICK is \in SUBSET Places : nextLineared[k].states = States(is)
    BY <1>1, <1>2, PiecesAre
  <2> DEFINE b == States(is)
  <2>3. IsStates(b) /\ b = [c \in DOMAIN b |-> b[c]]
    BY <1>1, StatesAreStates
  <2>4. initConfs \subseteq DOMAIN b
    BY <1>3
  <2> HIDE DEF b
  <2>5. nextLineared[k].states = b
    BY <2>2 DEF b
  <2> QED
    BY <2>1, <2>3, <2>4, <2>5
<1>5. ASSUME NEW k \in 1 .. L, NEW half \in Nat \ {0},
             k = 1 \/ Below(nextLineared[k - 1].bound, half),
             ~Below(nextLineared[k].bound, half),
             NEW i \in DOMAIN nexts, Within(nexts[i], half)
      PROVE  nexts[i].conf \in DOMAIN nextLineared[k].states
  <2>1. nextLineared[k].states = States(At(half))
    BY <1>1, <1>5 DEF PiecesOK
  <2>2. i \in At(half) /\ At(half) \in SUBSET Places
    BY <1>5 DEF At, Places
  <2> QED
    BY <1>3, <2>1, <2>2 DEF ConfsAt
<1> QED
  BY <1>1, <1>2, <1>4, <1>5

(* The types of the sweep's variables: bounds are not negated any more and *)
(* the multisets are of the configurations given, for any vectors.         *)
THEOREM TypeCorrect == Spec => []TypeOK
<1>1. IInv => TypeOK
  <2> SUFFICES ASSUME IInv PROVE TypeOK
    OBVIOUS
  <2>1. lowerVec \in Seq(DOMAIN nexts) /\ upperVec \in Seq(DOMAIN nexts)
    BY DEF IInv, Ordered, Places
  <2>2. ASSUME NEW i \in DOMAIN nexts PROVE lowers[i] \in Nat \X BOOLEAN
    <3>1. lowers[i] \in (0 .. Infinity - 1) \X BOOLEAN
      BY BoundsOK DEF IInv, Places
    <3> QED
      BY <3>1, InfinityIsPositive
  <2>3. IsStates(currentStates)
    <3>1. Ahead(upperVec) \ Ahead(lowerVec) \in SUBSET Places
      BY AheadArePlaces DEF IInv
    <3> QED
      BY <3>1, StatesAreStates DEF IInv, CurrentOK
  <2>4. \A i \in DOMAIN nextLineared : IsStates(nextLineared[i].states)
    BY PiecesAre, StatesAreStates DEF IInv
  <2>5. pc \in {"zero", "sweep", "done"}
    BY DEF IInv, PhaseOK
  <2> QED
    BY <2>1, <2>2, <2>3, <2>4, <2>5 DEF TypeOK
<1> QED
  BY <1>1, Invariance, PTL

(* front() is never called on an empty deque: while an interval is to      *)
(* begin, one is to end.                                                   *)
THEOREM FrontsExist == Spec => []EndAhead
<1>1. IInv => EndAhead
  BY EndFollows DEF EndAhead
<1> QED
  BY <1>1, Invariance, PTL

(* The pieces are in the order that std::lower_bound requires.             *)
THEOREM PiecesAreSorted == Spec => []Sorted
<1>1. IInv => Sorted
  <2> SUFFICES ASSUME IInv, NEW i \in DOMAIN nextLineared, NEW j \in DOMAIN nextLineared, i < j
               PROVE  AtMost(nextLineared[i].bound, nextLineared[j].bound)
    BY DEF Sorted
  <2> DEFINE a == nextLineared[i].bound  b == nextLineared[j].bound
  <2>1. PiecesOK(nextLineared)
    BY DEF IInv
  <2>2. EndOf(a) =< EndOf(b) /\ a \in UpperBounds /\ b \in UpperBounds
    BY <2>1, PiecesAre DEF PiecesOK
  <2> HIDE DEF a, b
  <2>3. AtMost(a, b)
    <3>1. /\ a[1] \in Nat /\ a[2] \in BOOLEAN /\ b[1] \in Nat /\ b[2] \in BOOLEAN
      BY <2>2, PartsOfBound, InfinityIsPositive
    <3>2. CASE EndOf(a) = EndOf(b)
      BY <2>2, <3>2, EndIsOfOneBound DEF AtMost
    <3>3. CASE EndOf(a) # EndOf(b)
      <4>1. Less(a, b)
        BY <2>2, <3>1, <3>3 DEF Less, EndOf
      <4> QED
        BY <4>1 DEF AtMost
    <3> QED
      BY <3>2, <3>3
  <2> QED
    BY <2>3 DEF a, b
<1> QED
  BY <1>1, Invariance, PTL

(* Every duration is looked up to the configurations of exactly those      *)
(* intervals that contain it, with their multiplicity, and to the initial  *)
(* ones, for any number of intervals, however they overlap and touch.      *)
THEOREM DurationsAreLookedUp == Spec => []LooksUpIntervals
<1>1. IInv => LooksUpIntervals
  <2> SUFFICES ASSUME IInv, Done, NEW half \in Halves \ {0}
               PROVE  Lookup(half) = States(At(half))
    BY DEF LooksUpIntervals, States, At, Places
  <2> DEFINE found == {i \in DOMAIN nextLineared : ~Below(nextLineared[i].bound, half)}
             k == CHOOSE i \in found : \A j \in found : i =< j
             L == Len(nextLineared)
  <2>1. half \in Nat \ {0}
    BY DEF Halves
  <2>2. /\ PiecesOK(nextLineared) /\ nextLineared # <<>>
        /\ nextLineared[L].bound[1] = Infinity
    BY DEF IInv, PhaseOK, Done
  <2>3. DOMAIN nextLineared = 1 .. L /\ L \in Nat \ {0}
    <3> DEFINE S == Piece_
    <3>1. nextLineared \in Seq(S)
      BY <2>2 DEF PiecesOK
    <3> HIDE DEF S
    <3> QED
      BY <2>2, <3>1
  <2>4. L \in found
    BY <2>2, <2>3 DEF Below
  <2>5. k \in found /\ \A j \in found : k =< j
    <3>1. found \subseteq Nat
      BY <2>3
    <3> HIDE DEF found
    <3>2. \E i \in found : \A j \in found : i =< j
      BY <2>4, <3>1, LeastExists
    <3> QED
      BY <3>2
  <2> HIDE DEF k
  <2>6. k = 1 \/ Below(nextLineared[k - 1].bound, half)
    <3>1. CASE k # 1
      <4>1. k - 1 \in 1 .. L /\ ~(k =< k - 1)
        BY <2>3, <2>5, <3>1
      <4>2. k - 1 \notin found
        BY <2>5, <4>1
      <4> QED
        BY <2>3, <4>1, <4>2
    <3> QED
      BY <3>1
  <2>7. nextLineared[k].states = States(At(half))
    BY <2>1, <2>2, <2>3, <2>5, <2>6 DEF PiecesOK
  <2> QED
    BY <2>7 DEF Lookup, k
<1> QED
  BY <1>1, Invariance, PTL

=============================================================================
