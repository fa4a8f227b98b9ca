---------------------------- MODULE BasicLemmas -----------------------------
(***************************************************************************)
(* Facts that the proofs need about natural numbers, iterations and words. *)
(* A set of numbers has a least element and a bounded one a greatest,      *)
(* which follows from the well-foundedness of <.  Induction is stated for  *)
(* the set of the numbers that have a property, and iteration for a        *)
(* function on a set, not for an operator: these are what the provers can  *)
(* instantiate.                                                            *)
(***************************************************************************)
EXTENDS Words, WellFoundedInduction, TLAPS

LEMMA LeastExists ==
  ASSUME NEW S, S \subseteq Nat, S # {}
  PROVE  \E x \in S : \A y \in S : x =< y
<1> DEFINE R == {p \in Nat \X Nat : p[1] < p[2]}
<1>1. IsWellFoundedOn(R, Nat)
  <2>1. OpToRel(<, Nat) = R
    BY DEF OpToRel
  <2> QED
    BY <2>1, NatLessThanWellFounded
<1> HIDE DEF R
<1>2. PICK x \in S : \A y \in S : ~(<<y, x>> \in R)
  BY <1>1, WFMin
<1>3. ASSUME NEW y \in S PROVE x =< y
  <2>1. <<y, x>> \in Nat \X Nat
    OBVIOUS
  <2>2. ~(y < x)
    BY <1>2, <2>1 DEF R
  <2> QED
    BY <2>1, <2>2
<1> QED
  BY <1>3

LEMMA GreatestExists ==
  ASSUME NEW bound \in Nat, NEW S, S \subseteq 0 .. bound, S # {}
  PROVE  \E x \in S : \A y \in S : y =< x
<1> DEFINE D == {n \in 0 .. bound : bound - n \in S}
<1>1. ASSUME NEW y \in S PROVE bound - y \in D
  OBVIOUS
<1>2. D \subseteq Nat /\ D # {}
  <2>1. D \subseteq Nat
    OBVIOUS
  <2>2. PICK y \in S : TRUE
    OBVIOUS
  <2>3. bound - y \in D
    BY <1>1
  <2> QED
    BY <2>1, <2>3
<1>3. PICK m \in D : \A d \in D : m =< d
  <2> HIDE DEF D
  <2> QED
    BY <1>2, LeastExists
<1>4. ASSUME NEW y \in S PROVE y =< bound - m
  <2>1. m =< bound - y
    BY <1>1, <1>3
  <2> QED
    BY <2>1
<1> QED
  BY <1>4

LEMMA RemainderIsUnique ==
  ASSUME NEW b \in Nat \ {0}, NEW p \in Int, NEW q \in Int,
         NEW r \in 0 .. b - 1, NEW s \in 0 .. b - 1, b * p + r = b * q + s
  PROVE  r = s
<1>1. b * (p - q) = s - r
  OBVIOUS
<1>2. CASE p - q >= 1
  <2>1. b * (p - q) >= b
    BY <1>2
  <2> QED
    BY <1>1, <2>1
<1>3. CASE p - q =< -1
  <2>1. b * (p - q) =< -b
    BY <1>3
  <2> QED
    BY <1>1, <2>1
<1> QED
  BY <1>1, <1>2, <1>3

LEMMA RemainderInRange ==
  ASSUME NEW a \in Nat, NEW b \in Nat \ {0} PROVE a % b \in 0 .. b - 1
OBVIOUS

(* The remainder of the next number.                                       *)
LEMMA RemainderOfNext ==
  ASSUME NEW a \in Nat, NEW b \in Nat \ {0}
  PROVE  (a + 1) % b = IF (a % b) + 1 = b THEN 0 ELSE (a % b) + 1
<1> DEFINE p == a \div b  r == a % b  q == (a + 1) \div b  s == (a + 1) % b
<1>1. /\ p \in Int /\ q \in Int /\ r \in 0 .. b - 1 /\ s \in 0 .. b - 1
      /\ a = b * p + r /\ a + 1 = b * q + s
  OBVIOUS
<1> HIDE DEF p, q, r, s
<1>2. CASE r + 1 = b
  <2>1. b * (p + 1) + 0 = b * q + s
    BY <1>1, <1>2
  <2>2. p + 1 \in Int /\ 0 \in 0 .. b - 1
    BY <1>1
  <2>3. 0 = s
    BY <1>1, <2>1, <2>2, RemainderIsUnique
  <2> QED
    BY <1>1, <1>2, <2>3 DEF r, s
<1>3. CASE r + 1 # b
  <2>1. b * p + (r + 1) = b * q + s /\ r + 1 \in 0 .. b - 1
    BY <1>1, <1>3
  <2> QED
    BY <1>1, <1>3, <2>1, RemainderIsUnique DEF r, s
<1> QED
  BY <1>2, <1>3

(* A remainder is at most the number.                                      *)
LEMMA RemainderAtMost ==
  ASSUME NEW a \in Nat, NEW b \in Nat \ {0} PROVE a % b =< a
<1>1. CASE a < b
  <2>1. a % b \in 0 .. b - 1 /\ a \in 0 .. b - 1
    BY <1>1, RemainderInRange
  <2>2. a = b * (a \div b) + (a % b) /\ a \div b \in Int
    OBVIOUS
  <2>3. b * 0 + a = b * (a \div b) + (a % b)
    BY <2>2
  <2> QED
    BY <2>1, <2>2, <2>3, RemainderIsUnique
<1>2. CASE a >= b
  <2>1. a % b \in 0 .. b - 1
    BY RemainderInRange
  <2> QED
    BY <1>2, <2>1
<1> QED
  BY <1>1, <1>2

(* A set with 0 that has the next number of each of its own holds all.     *)
LEMMA InductionOnSet ==
  ASSUME NEW S, 0 \in S, \A n \in Nat : n \in S => n + 1 \in S
  PROVE  \A n \in Nat : n \in S
<1> DEFINE D == {n \in Nat : n \notin S}
<1> SUFFICES ASSUME D # {} PROVE FALSE
  OBVIOUS
<1>1. PICK m \in D : \A y \in D : m =< y
  <2>1. D \subseteq Nat
    OBVIOUS
  <2> HIDE DEF D
  <2> QED
    BY <2>1, LeastExists
<1>2. m - 1 \in Nat /\ m - 1 \notin D
  BY <1>1
<1> QED
  BY <1>1, <1>2

(* The same up to a bound.                                                 *)
LEMMA InductionToBound ==
  ASSUME NEW bound \in Nat, NEW S, 0 \in S, \A n \in 0 .. bound - 1 : n \in S => n + 1 \in S
  PROVE  \A n \in 0 .. bound : n \in S
<1> DEFINE D == S \union {n \in Nat : n > bound}
<1>1. \A n \in Nat : n \in D => n + 1 \in D
  OBVIOUS
<1>2. 0 \in D
  OBVIOUS
<1>3. \A n \in Nat : n \in D
  <2> HIDE DEF D
  <2> QED
    BY <1>1, <1>2, InductionOnSet
<1> QED
  BY <1>3

(* r is what F makes of start in bound steps.                              *)
Iterates(r, start, F, bound) ==
  r[0] = start /\ \A n \in 1 .. bound : r[n] = F[n][r[n - 1]]

LEMMA IterationExists ==
  ASSUME NEW bound \in Nat, NEW T, NEW start \in T, NEW F \in [1 .. bound -> [T -> T]]
  PROVE  \E r \in [0 .. bound -> T] : Iterates(r, start, F, bound)
<1> USE DEF Iterates
<1> DEFINE D == {k \in 0 .. bound : \E r \in [0 .. k -> T] : Iterates(r, start, F, k)}
<1>1. 0 \in D
  <2> DEFINE r == [n \in 0 .. 0 |-> start]
  <2>1. r \in [0 .. 0 -> T] /\ Iterates(r, start, F, 0)
    OBVIOUS
  <2> HIDE DEF r
  <2> QED
    BY <2>1
<1>2. ASSUME NEW k \in 0 .. bound - 1, k \in D PROVE k + 1 \in D
  <2>1. PICK r \in [0 .. k -> T] : Iterates(r, start, F, k)
    BY <1>2
  <2> DEFINE last == F[k + 1][r[k]]
             s == [n \in 0 .. k + 1 |-> IF n = k + 1 THEN last ELSE r[n]]
  <2>2. last \in T
    <3>1. k + 1 \in 1 .. bound /\ r[k] \in T
      BY <2>1
    <3>2. F[k + 1] \in [T -> T]
      BY <3>1
    <3> QED
      BY <3>1, <3>2
  <2>3. s \in [0 .. k + 1 -> T]
    <3>1. \A n \in 0 .. k + 1 : n # k + 1 => n \in 0 .. k
      OBVIOUS
    <3> HIDE DEF last
    <3> QED
      BY <2>1, <2>2, <3>1
  <2>4. ASSUME NEW n \in 1 .. k + 1 PROVE s[n] = F[n][s[n - 1]]
    <3>1. CASE n = k + 1
      <4>1. n - 1 = k /\ s[n - 1] = r[k] /\ s[n] = last
        BY <3>1
      <4> QED
        BY <3>1, <4>1
    <3>2. CASE n \in 1 .. k
      <4>1. s[n] = r[n] /\ s[n - 1] = r[n - 1]
        BY <3>2
      <4> QED
        BY <2>1, <3>2, <4>1
    <3> QED
      BY <3>1, <3>2
  <2>5. k + 1 \in 0 .. bound
    OBVIOUS
  <2>6. s[0] = start
    BY <2>1
  <2> HIDE DEF s
  <2> QED
    BY <2>3, <2>4, <2>5, <2>6
<1>3. bound \in D
  <2> HIDE DEF D
  <2>1. \A n \in 0 .. bound : n \in D
    BY <1>1, <1>2, InductionToBound
  <2> QED
    BY <2>1
<1> QED
  BY <1>3

-----------------------------------------------------------------------------
(* Words.                                                                  *)

LEMMA WordSplits ==
  ASSUME NEW S, NEW w \in Seq(S), Len(w) # 0
  PROVE  \E v \in Seq(S), a \in S : w = Append(v, a) /\ Len(w) = Len(v) + 1
<1> DEFINE L == Len(w)  v == [n \in 1 .. L - 1 |-> w[n]]
<1>1. L \in Nat \ {0} /\ L - 1 \in Nat /\ \A n \in 1 .. L : w[n] \in S
  OBVIOUS
<1>2. v \in Seq(S) /\ Len(v) = L - 1
  <2>1. v \in [1 .. L - 1 -> S]
    <3> HIDE DEF L
    <3> QED
      BY <1>1
  <2> HIDE DEF L, v
  <2> QED
    BY <1>1, <2>1
<1>3. w = Append(v, w[L])
  <2> DEFINE a == w[L]  u == Append(v, a)
  <2>1. /\ u \in Seq(S) /\ Len(u) = L /\ u[L] = a
        /\ \A n \in 1 .. L - 1 : u[n] = v[n]
    <3> a \in S
      BY <1>1
    <3> HIDE DEF v, a, L
    <3> QED
      BY <1>1, <1>2
  <2>2. \A n \in 1 .. L : u[n] = w[n]
    <3>1. \A n \in 1 .. L - 1 : v[n] = w[n]
      BY <1>1
    <3>2. \A n \in 1 .. L : n = L \/ n \in 1 .. L - 1
      BY <1>1
    <3> HIDE DEF u, v, L
    <3> QED
      BY <2>1, <3>1, <3>2
  <2> HIDE DEF u
  <2>3. u = w
    BY <2>1, <2>2
  <2> QED
    BY <2>3 DEF u
<1>4. w[L] \in S
  BY <1>1
<1> HIDE DEF v
<1> QED
  BY <1>1, <1>2, <1>3, <1>4

(* A set with the empty word that has each word of its own with one more   *)
(* character holds all words.                                              *)
LEMMA InductionOnWords ==
  ASSUME NEW S, NEW W, <<>> \in W, \A v \in Seq(S) : \A a \in S : v \in W => Append(v, a) \in W
  PROVE  \A w \in Seq(S) : w \in W
<1> DEFINE D == {n \in Nat : \A w \in Seq(S) : Len(w) = n => w \in W}
<1>1. 0 \in D
  <2>1. \A w \in Seq(S) : Len(w) = 0 => w = <<>>
    OBVIOUS
  <2> QED
    BY <2>1
<1>2. ASSUME NEW n \in Nat, n \in D PROVE n + 1 \in D
  <2>1. ASSUME NEW w \in Seq(S), Len(w) = n + 1 PROVE w \in W
    <3>1. PICK v \in Seq(S), a \in S : w = Append(v, a) /\ Len(w) = Len(v) + 1
      BY <2>1, WordSplits
    <3>2. Len(v) = n
      BY <2>1, <3>1
    <3> QED
      BY <1>2, <3>1, <3>2
  <2> QED
    BY <2>1
<1>3. \A n \in Nat : n \in D
  <2> HIDE DEF D
  <2> QED
    BY <1>1, <1>2, InductionOnSet
<1> QED
  BY <1>3

(* StatesAfter is computed character by character.                               *)
LEMMA StatesAfterIterates ==
  ASSUME NEW trans, NEW start, NEW S, NEW w \in Seq(S)
  PROVE  \E r : /\ r[0] = start
                /\ \A n \in 1 .. Len(w) : r[n] = Successors(trans, r[n - 1], w[n])
                /\ StatesAfter(trans, start, w) = r[Len(w)]
<1> DEFINE L == Len(w)
           T == SUBSET (start \union {t.to : t \in trans})
           F == [n \in 1 .. L |-> [qs \in T |-> Successors(trans, qs, w[n])]]
           Solves(r) == r = [n \in 0 .. L |->
                                IF n = 0 THEN start ELSE Successors(trans, r[n - 1], w[n])]
           reached == CHOOSE r : Solves(r)
<1>1. L \in Nat
  OBVIOUS
<1>2. PICK r \in [0 .. L -> T] : Iterates(r, start, F, L)
  <2>1. F \in [1 .. L -> [T -> T]]
    <3>1. \A qs, a : Successors(trans, qs, a) \in T
      BY DEF Successors
    <3> HIDE DEF L, T
    <3> QED
      BY <3>1
  <2>2. start \in T
    OBVIOUS
  <2> HIDE DEF L, T, F
  <2> QED
    BY <1>1, <2>1, <2>2, IterationExists
<1>3. r[0] = start /\ \A n \in 1 .. L : r[n] = Successors(trans, r[n - 1], w[n])
  <2> HIDE DEF L, T
  <2>1. \A n \in 1 .. L : n - 1 \in 0 .. L
    BY <1>1
  <2> QED
    BY <1>2, <2>1 DEF Iterates
<1>4. Solves(r)
  <2> HIDE DEF L, T, F
  <2>1. \A n \in 0 .. L : n # 0 => n \in 1 .. L
    BY <1>1
  <2>2. r = [n \in 0 .. L |-> r[n]]
    BY <1>2
  <2>3. \A n \in 0 .. L : r[n] = IF n = 0 THEN start ELSE Successors(trans, r[n - 1], w[n])
    BY <1>2, <1>3, <2>1
  <2> QED
    BY <2>2, <2>3
<1>5. Solves(reached)
  BY <1>4
<1>6. StatesAfter(trans, start, w) = reached[L]
  BY DEF StatesAfter
<1>7. reached[0] = start /\ \A n \in 1 .. L : reached[n] = Successors(trans, reached[n - 1], w[n])
  <2> HIDE DEF L, reached
  <2>1. \A n \in 1 .. L : n \in 0 .. L /\ n # 0
    BY <1>1
  <2>2. 0 \in 0 .. L
    BY <1>1
  <2> QED
    BY <1>5, <2>1, <2>2
<1> QED
  BY <1>6, <1>7

LEMMA StatesAfterNothing ==
  ASSUME NEW trans, NEW start PROVE StatesAfter(trans, start, <<>>) = start
<1>1. <<>> \in Seq({}) /\ Len(<<>>) = 0
  OBVIOUS
<1>2. \A S : \A w \in Seq(S) : \E r : r[0] = start /\ StatesAfter(trans, start, w) = r[Len(w)]
  BY StatesAfterIterates
<1>3. PICK r : r[0] = start /\ StatesAfter(trans, start, <<>>) = r[Len(<<>>)]
  BY <1>1, <1>2, Zenon
<1> QED
  BY <1>1, <1>3

LEMMA StatesAfterAppend ==
  ASSUME NEW trans, NEW start, NEW S, NEW w \in Seq(S), NEW a \in S
  PROVE  StatesAfter(trans, start, Append(w, a)) = Successors(trans, StatesAfter(trans, start, w), a)
<1> DEFINE L == Len(w)  v == Append(w, a)
<1>1. /\ L \in Nat /\ v \in Seq(S) /\ Len(v) = L + 1 /\ v[L + 1] = a
      /\ \A n \in 1 .. L : v[n] = w[n]
  OBVIOUS
<1>2. PICK r : /\ r[0] = start
               /\ \A n \in 1 .. L : r[n] = Successors(trans, r[n - 1], w[n])
               /\ StatesAfter(trans, start, w) = r[L]
  BY StatesAfterIterates
<1> HIDE DEF v
<1>3. PICK s : /\ s[0] = start
               /\ \A n \in 1 .. Len(v) : s[n] = Successors(trans, s[n - 1], v[n])
               /\ StatesAfter(trans, start, v) = s[Len(v)]
  BY <1>1, StatesAfterIterates
<1> HIDE DEF L
<1> DEFINE D == {n \in 0 .. L : r[n] = s[n]}
<1>4. ASSUME NEW n \in 0 .. L - 1, n \in D PROVE n + 1 \in D
  <2>1. n + 1 \in 1 .. L /\ n + 1 \in 1 .. Len(v) /\ n + 1 \in 0 .. L /\ (n + 1) - 1 = n
    BY <1>1
  <2> QED
    BY <1>1, <1>2, <1>3, <1>4, <2>1
<1>5. L \in D
  <2>1. 0 \in D
    BY <1>1, <1>2, <1>3
  <2> HIDE DEF D
  <2>2. \A n \in 0 .. L : n \in D
    BY <1>1, <1>4, <2>1, InductionToBound
  <2> QED
    BY <1>1, <2>2
<1>6. L + 1 \in 1 .. Len(v) /\ (L + 1) - 1 = L
  BY <1>1
<1> QED
  BY <1>1, <1>2, <1>3, <1>5, <1>6 DEF v

(* The suffixes of a word with one more character.                         *)
LEMMA SuffixOfAppend ==
  ASSUME NEW S, NEW v \in Seq(S), NEW a \in S, NEW i \in 1 .. Len(v) + 1
  PROVE  /\ SubSeq(v, i, Len(v)) \in Seq(S)
         /\ SubSeq(Append(v, a), i, Len(v) + 1) = Append(SubSeq(v, i, Len(v)), a)
<1> DEFINE L == Len(v)  w == Append(v, a)
           s == SubSeq(w, i, L + 1)  r == SubSeq(v, i, L)
<1>1. /\ L \in Nat /\ w \in Seq(S) /\ Len(w) = L + 1 /\ w[L + 1] = a
      /\ \A n \in 1 .. L : w[n] = v[n] /\ v[n] \in S
  OBVIOUS
<1>2. s = [n \in 1 .. (L + 1) - i + 1 |-> w[i + n - 1]]
  <2> HIDE DEF w
  <2> QED
    BY <1>1
<1>3. r = [n \in 1 .. L - i + 1 |-> v[i + n - 1]]
  BY <1>1
<1> DEFINE k == L - i + 1
<1>4. k \in Nat /\ i \in Nat
  BY <1>1
<1>5. r \in Seq(S) /\ Len(r) = k
  <2>1. \A n \in 1 .. k : v[i + n - 1] \in S
    BY <1>1, <1>4
  <2>2. r \in [1 .. k -> S]
    <3> HIDE DEF L, r
    <3> QED
      BY <1>3, <2>1
  <2> HIDE DEF r, k
  <2> QED
    BY <1>4, <2>2
<1>6. s \in Seq(S) /\ Len(s) = k + 1
  <2>1. \A n \in 1 .. k + 1 : w[i + n - 1] \in S
    <3> HIDE DEF w
    <3> QED
      BY <1>1, <1>4
  <2>2. s \in [1 .. k + 1 -> S]
    <3>1. (L + 1) - i + 1 = k + 1
      BY <1>1
    <3> HIDE DEF L, s, w, k
    <3> QED
      BY <1>2, <2>1, <3>1
  <2> HIDE DEF s, k
  <2> QED
    BY <1>4, <2>2
<1> DEFINE t == Append(r, a)
<1>7. t \in Seq(S) /\ Len(t) = k + 1 /\ t[k + 1] = a /\ \A n \in 1 .. k : t[n] = r[n]
  <2> HIDE DEF r, k
  <2> QED
    BY <1>4, <1>5
<1>8. \A n \in 1 .. k + 1 : s[n] = t[n]
  <2>1. s[k + 1] = t[k + 1]
    <3>1. i + (k + 1) - 1 = L + 1 /\ k + 1 \in 1 .. (L + 1) - i + 1
      BY <1>1
    <3> HIDE DEF s, t, k, w, L
    <3> QED
      BY <1>1, <1>2, <1>7, <3>1
  <2>2. ASSUME NEW n \in 1 .. k PROVE s[n] = t[n]
    <3>1. /\ n \in 1 .. (L + 1) - i + 1 /\ n \in 1 .. L - i + 1
          /\ i + n - 1 \in 1 .. L
      BY <1>1, <1>4
    <3>2. s[n] = w[i + n - 1] /\ r[n] = v[i + n - 1] /\ t[n] = r[n]
      <4> HIDE DEF s, r, t, k, w, L
      <4> QED
        BY <1>2, <1>3, <1>7, <3>1
    <3> HIDE DEF s, r, t, k, w, L
    <3> QED
      BY <1>1, <3>1, <3>2
  <2> HIDE DEF s, t, k
  <2> QED
    BY <1>4, <2>1, <2>2
<1> HIDE DEF s, t
<1>9. s = t
  BY <1>6, <1>7, <1>8
<1> QED
  BY <1>5, <1>9 DEF s, t

(* An infix that ends before the last character.                           *)
LEMMA InfixOfAppend ==
  ASSUME NEW S, NEW v \in Seq(S), NEW a \in S, NEW i \in 1 .. Len(v), NEW j \in i .. Len(v)
  PROVE  /\ SubSeq(Append(v, a), i, j) = SubSeq(v, i, j)
         /\ SubSeq(v, i, j) \in Seq(S)
<1> DEFINE L == Len(v)  w == Append(v, a)  k == j - i + 1
<1>1. /\ L \in Nat /\ w \in Seq(S) /\ Len(w) = L + 1
      /\ \A n \in 1 .. L : w[n] = v[n] /\ v[n] \in S
      /\ i \in Nat /\ j \in Nat /\ k \in Nat
  OBVIOUS
<1>2. SubSeq(w, i, j) = [n \in 1 .. k |-> w[i + n - 1]]
  <2> HIDE DEF w
  <2> QED
    BY <1>1
<1>3. SubSeq(v, i, j) = [n \in 1 .. k |-> v[i + n - 1]]
  BY <1>1
<1>4. \A n \in 1 .. k : i + n - 1 \in 1 .. L
  BY <1>1
<1>5. SubSeq(w, i, j) = SubSeq(v, i, j)
  <2> HIDE DEF w, k, L
  <2> QED
    BY <1>1, <1>2, <1>3, <1>4
<1>6. SubSeq(v, i, j) \in Seq(S)
  <2> DEFINE r == [n \in 1 .. k |-> v[i + n - 1]]
  <2>1. r \in [1 .. k -> S]
    <3> HIDE DEF k, L
    <3> QED
      BY <1>1, <1>4
  <2> HIDE DEF r, k, L
  <2>2. r \in Seq(S)
    BY <1>1, <2>1
  <2> QED
    BY <1>3, <2>2 DEF r
<1> QED
  BY <1>5, <1>6

==============================================================================
