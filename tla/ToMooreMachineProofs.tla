------------------------ MODULE ToMooreMachineProofs ------------------------
(***************************************************************************)
(* Theorems about ToMooreMachine, for every automaton and buffer size.     *)
(***************************************************************************)
EXTENDS ToMooreMachine, BasicLemmas

-----------------------------------------------------------------------------
(* The operators.                                                          *)

LEMMA MergedNextDomain ==
  ASSUME NEW s, NEW c
  PROVE  c \in DOMAIN MergedNext(s) <=> \E t \in from.trans : t.at \in s /\ t.via = c
BY DEF MergedNext

LEMMA MergedNextValue ==
  ASSUME NEW s, NEW c \in DOMAIN MergedNext(s)
  PROVE  MergedNext(s)[c] =
           {t.to : t \in {u \in from.trans : u.at \in s /\ u.via = c}} \union from.initial
BY DEF MergedNext

LEMMA MergedNextType ==
  ASSUME IsCounted(from), NEW s, NEW c \in DOMAIN MergedNext(s)
  PROVE  c \in Characters /\ MergedNext(s)[c] \subseteq Members
<1>1. c \in Characters
  BY MergedNextDomain DEF Characters
<1>2. from.initial \subseteq Members /\ \A t \in from.trans : t.to \in Members
  BY DEF IsCounted, Members
<1> QED
  BY <1>1, <1>2, MergedNextValue

(* The counter of a subset is one of the buffer, and not less than that of *)
(* a matching member; it is the buffer when that of some member is.        *)
LEMMA CounterOfBounds ==
  ASSUME IsCounted(from), NEW s, s \subseteq Members
  PROVE  /\ CounterOf(s) \in 0 .. BufferSize
         /\ \A q \in s \intersect from.match : from.counter[q] =< CounterOf(s)
         /\ \A q \in s : from.counter[q] = BufferSize => CounterOf(s) = BufferSize
         /\ \/ CounterOf(s) = 0
            \/ \E q \in s : /\ CounterOf(s) = from.counter[q]
                            /\ q \in from.match \/ from.counter[q] = BufferSize
<1> BufferSize \in Nat
  BY BufferSizeAssumption
<1> DEFINE shown == {from.counter[q] : q \in s \intersect from.match}
<1>1. \A q \in s : from.counter[q] \in 0 .. BufferSize
  BY DEF IsCounted, Members
<1>2. CASE \E q \in s : from.counter[q] = BufferSize
  BY <1>1, <1>2 DEF CounterOf
<1>3. CASE ~ \E q \in s : from.counter[q] = BufferSize
  <2>1. CounterOf(s) = CHOOSE n \in shown \union {0} : \A k \in shown : k =< n
    BY <1>3 DEF CounterOf
  <2>2. shown \union {0} \subseteq 0 .. BufferSize /\ shown \union {0} # {}
    BY <1>1
  <2>3. \A q \in s \intersect from.match : from.counter[q] \in shown
    OBVIOUS
  <2>4. \A k \in shown : \E q \in s \intersect from.match : k = from.counter[q]
    OBVIOUS
  <2> HIDE DEF shown
  <2>5. \E n \in shown \union {0} : \A k \in shown : k =< n
    BY <2>2, GreatestExists
  <2>6. CounterOf(s) \in shown \union {0} /\ \A k \in shown : k =< CounterOf(s)
    BY <2>1, <2>5
  <2> QED
    BY <1>3, <2>2, <2>3, <2>4, <2>6
<1> QED
  BY <1>2, <1>3

(* The counter of a subset only depends on the automaton.                  *)
LEMMA CounterOfFixed ==
  ASSUME from' = from PROVE \A s : CounterOf(s)' = CounterOf(s)
<1> DEFINE C(a, s) ==
      LET shown == {a.counter[q] : q \in s \intersect a.match}
      IN  IF \E q \in s : a.counter[q] = BufferSize
            THEN BufferSize
            ELSE CHOOSE n \in shown \union {0} : \A k \in shown : k =< n
<1>1. \A s : CounterOf(s) = C(from, s) /\ CounterOf(s)' = C(from', s)
  BY DEF CounterOf
<1> HIDE DEF C
<1> QED
  BY <1>1

LEMMA Element ==
  ASSUME NEW S, NEW seq \in Seq(S), NEW i \in DOMAIN seq PROVE seq[i] \in S
OBVIOUS

-----------------------------------------------------------------------------
(* The inductive invariant.                                                *)

(* The state j is the one of the subset to which c leads from the state i. *)
Leads(i, c, j) ==
  /\ c \in DOMAIN MergedNext(subsets[i])
  /\ subsets[j] = MergedNext(subsets[i])[c]

(* What is still to be added leaves the visited state, what was to be      *)
(* added is, and nothing else.                                             *)
Merges ==
  /\ Len(subsets) = 0 => cursor = 0
  /\ Len(subsets) > 0 => subsets[1] = from.initial
  /\ \A c \in DOMAIN mergedNext :
       /\ cursor \in DOMAIN subsets
       /\ c \in DOMAIN MergedNext(subsets[cursor])
       /\ mergedNext[c] = MergedNext(subsets[cursor])[c]
  /\ \A k \in DOMAIN nextMap : k[1] \in 1 .. cursor /\ Leads(k[1], k[2], nextMap[k])
  /\ \A i \in 1 .. cursor : \A c \in DOMAIN MergedNext(subsets[i]) :
       (i = cursor /\ c \in DOMAIN mergedNext) \/ <<i, c>> \in DOMAIN nextMap
  /\ \A i \in DOMAIN subsets : counter[i] = CounterOf(subsets[i])

IInv == TypeOK /\ OneStateEach /\ Merges

(* What is known of the states once one of the subset s has been added.    *)
Added(s) ==
  /\ Len(subsets) \in Nat
  /\ DOMAIN subsets = 1 .. Len(subsets)
  /\ Fresh = Len(subsets) + 1
  /\ DOMAIN subsets' = DOMAIN subsets \union {Fresh}
  /\ Len(subsets') = Len(subsets) + 1
  /\ subsets' \in Seq(SUBSET Members)
  /\ subsets'[Fresh] = s
  /\ \A i \in DOMAIN subsets : subsets'[i] = subsets[i] /\ i # Fresh
  /\ counter' \in Seq(0 .. BufferSize) /\ Len(counter') = Len(subsets')
  /\ counter'[Fresh] = CounterOf(s)
  /\ \A i \in DOMAIN subsets : counter'[i] = counter[i]
  /\ DOMAIN toNewState' = DOMAIN toNewState \union {s}
  /\ toNewState'[s] = Fresh
  /\ \A k \in DOMAIN toNewState : k # s => toNewState'[k] = toNewState[k]

(* A new state leaves the others where they are.                           *)
LEMMA AddNewStateEffect ==
  ASSUME TypeOK, NEW s, s \subseteq Members, AddNewState(s)
  PROVE  Added(s)
<1>1. CounterOf(s) \in 0 .. BufferSize
  BY CounterOfBounds DEF TypeOK
<1>2. /\ subsets \in Seq(SUBSET Members) /\ counter \in Seq(0 .. BufferSize)
      /\ Len(counter) = Len(subsets)
  BY DEF TypeOK
<1>3. subsets' = Append(subsets, s) /\ counter' = Append(counter, CounterOf(s))
  BY DEF AddNewState
<1> DEFINE n == CounterOf(s)
<1> HIDE DEF n
<1>4. /\ Len(subsets) \in Nat /\ DOMAIN subsets = 1 .. Len(subsets)
      /\ DOMAIN subsets' = 1 .. Len(subsets) + 1 /\ Len(subsets') = Len(subsets) + 1
      /\ subsets' \in Seq(SUBSET Members)
      /\ subsets'[Len(subsets) + 1] = s
      /\ \A i \in 1 .. Len(subsets) : subsets'[i] = subsets[i]
  BY <1>2, <1>3
<1>5. /\ counter' \in Seq(0 .. BufferSize) /\ Len(counter') = Len(subsets) + 1
      /\ counter'[Len(subsets) + 1] = n
      /\ \A i \in 1 .. Len(subsets) : counter'[i] = counter[i]
  BY <1>1, <1>2, <1>3 DEF n
<1>6. /\ DOMAIN toNewState' = DOMAIN toNewState \union {s}
      /\ toNewState'[s] = Fresh
      /\ \A k \in DOMAIN toNewState : k # s => toNewState'[k] = toNewState[k]
  BY DEF AddNewState
<1>7. /\ DOMAIN subsets' = DOMAIN subsets \union {Fresh}
      /\ \A i \in DOMAIN subsets : subsets'[i] = subsets[i] /\ i # Fresh
  BY <1>4 DEF Fresh
<1> QED
  BY <1>4, <1>5, <1>6, <1>7 DEF Fresh, Added, n

(* The map stays exact when the state of a new subset is recorded.         *)
LEMMA AddNewStateOnce ==
  ASSUME TypeOK, OneStateEach, NEW s, s \notin DOMAIN toNewState, Added(s)
  PROVE  /\ OneStateEach'
         /\ \A k \in DOMAIN toNewState' : toNewState'[k] \in DOMAIN subsets'
<1>1. DOMAIN toNewState' = Range(subsets')
  <2>1. Range(subsets') = Range(subsets) \union {s}
    BY DEF Added, Range
  <2> QED
    BY <2>1 DEF Added, OneStateEach
<1>2. ASSUME NEW i \in DOMAIN subsets' PROVE toNewState'[subsets'[i]] = i
  <2>1. CASE i = Fresh
    BY <2>1 DEF Added
  <2>2. CASE i \in DOMAIN subsets
    <3>1. subsets[i] \in DOMAIN toNewState
      BY <2>2 DEF OneStateEach, Range
    <3> QED
      BY <2>2, <3>1 DEF Added, OneStateEach
  <2> QED
    BY <2>1, <2>2 DEF Added
<1>3. ASSUME NEW k \in DOMAIN toNewState' PROVE toNewState'[k] \in DOMAIN subsets'
  <2>1. PICK i \in DOMAIN subsets' : subsets'[i] = k
    BY <1>1 DEF Range
  <2> QED
    BY <1>2, <2>1
<1> QED
  BY <1>1, <1>2, <1>3 DEF OneStateEach

(* A state keeps its transitions and its counter when others are added.    *)
LEMMA AddNewStateKeeps ==
  ASSUME TypeOK, Merges, NEW s, Added(s), from' = from
  PROVE  /\ \A i \in DOMAIN subsets : MergedNext(subsets[i])' = MergedNext(subsets[i])
         /\ \A i, j \in DOMAIN subsets : \A c : Leads(i, c, j) => Leads(i, c, j)'
         /\ \A i \in DOMAIN subsets' : counter'[i] = CounterOf(subsets[i])'
<1>1. ASSUME NEW i \in DOMAIN subsets
      PROVE  MergedNext(subsets[i])' = MergedNext(subsets[i])
  BY DEF Added, MergedNext
<1>2. ASSUME NEW i \in DOMAIN subsets, NEW j \in DOMAIN subsets, NEW c, Leads(i, c, j)
      PROVE  Leads(i, c, j)'
  BY <1>1, <1>2 DEF Leads, Added
<1>4. \A S : CounterOf(S)' = CounterOf(S)
  BY CounterOfFixed
<1>3. ASSUME NEW i \in DOMAIN subsets' PROVE counter'[i] = CounterOf(subsets[i])'
  <2>1. CASE i = Fresh
    <3>1. CounterOf(subsets[i])' = CounterOf(s)
      BY <2>1, <1>4 DEF Added
    <3> QED
      BY <2>1, <3>1 DEF Added
  <2>2. CASE i \in DOMAIN subsets
    <3>1. CounterOf(subsets[i])' = CounterOf(subsets[i])
      BY <2>2, <1>4 DEF Added
    <3> QED
      BY <2>2, <3>1 DEF Added, Merges
  <2> QED
    BY <2>1, <2>2 DEF Added
<1> QED
  BY <1>1, <1>2, <1>3

-----------------------------------------------------------------------------
(* The steps.                                                              *)

LEMMA AddInitialKeeps ==
  ASSUME IInv, AddInitial PROVE IInv'
<1> USE DEF IInv
<1>1. /\ subsets = <<>> /\ AddNewState(from.initial)
      /\ from' = from /\ nextMap' = nextMap /\ cursor' = cursor /\ mergedNext' = mergedNext
  BY DEF AddInitial
<1>2. from.initial \subseteq Members
  BY DEF TypeOK, IsCounted, Members
<1>3. Added(from.initial)
  BY <1>1, <1>2, AddNewStateEffect
<1>4. /\ Len(subsets) = 0 /\ DOMAIN subsets = {} /\ cursor = 0 /\ DOMAIN toNewState = {}
      /\ DOMAIN mergedNext = {} /\ DOMAIN nextMap = {}
  <2>1. Len(subsets) = 0 /\ DOMAIN subsets = {}
    BY <1>1
  <2>2. DOMAIN toNewState = {}
    BY <2>1 DEF OneStateEach, Range
  <2>3. DOMAIN mergedNext = {} /\ cursor = 0
    BY <2>1 DEF Merges
  <2>4. DOMAIN nextMap = {}
    <3>1. \A k \in DOMAIN nextMap : k[1] \in 1 .. 0
      BY <2>3 DEF Merges
    <3>2. 1 .. 0 = {}
      OBVIOUS
    <3> QED
      BY <3>1, <3>2
  <2> QED
    BY <2>1, <2>2, <2>3, <2>4
<1>5. /\ OneStateEach'
      /\ \A k \in DOMAIN toNewState' : toNewState'[k] \in DOMAIN subsets'
  BY <1>3, <1>4, AddNewStateOnce
<1>6. TypeOK'
  <2>1. IsCounted(from)' /\ Members' = Members /\ Characters' = Characters
    BY <1>1 DEF TypeOK, IsCounted, Members, Characters
  <2>2. DOMAIN toNewState' \subseteq SUBSET Members
    BY <1>2, <1>3 DEF Added, TypeOK
  <2>3. cursor' \in 0 .. Len(subsets')
    BY <1>1, <1>3, <1>4 DEF Added
  <2> QED
    BY <1>1, <1>3, <1>4, <1>5, <2>1, <2>2, <2>3 DEF Added, TypeOK
<1>7. Merges'
  <2>1. Len(subsets') = 1 /\ subsets'[1] = from'.initial
    BY <1>1, <1>3, <1>4 DEF Added
  <2>2. \A i \in DOMAIN subsets' : counter'[i] = CounterOf(subsets[i])'
    BY <1>1, <1>3, AddNewStateKeeps
  <2>3. DOMAIN mergedNext' = {} /\ DOMAIN nextMap' = {} /\ 1 .. cursor' = {}
    BY <1>1, <1>4
  <2> QED
    BY <2>1, <2>2, <2>3 DEF Merges
<1> QED
  BY <1>5, <1>6, <1>7

LEMMA VisitKeeps ==
  ASSUME IInv, Visit PROVE IInv'
<1> USE DEF IInv
<1>1. /\ from' = from /\ subsets' = subsets /\ toNewState' = toNewState
      /\ counter' = counter /\ nextMap' = nextMap
      /\ DOMAIN mergedNext = {} /\ cursor' = cursor + 1 /\ cursor < Len(subsets)
      /\ mergedNext' = MergedNext(subsets[cursor + 1])
  BY DEF Visit, StatesToVisit
<1>2. /\ cursor \in 0 .. Len(subsets) /\ Len(subsets) \in Nat
      /\ DOMAIN subsets = 1 .. Len(subsets)
  BY DEF TypeOK
<1>3. cursor' \in 1 .. Len(subsets) /\ cursor' \in DOMAIN subsets'
  BY <1>1, <1>2
<1>4. \A q : MergedNext(q)' = MergedNext(q)
  BY <1>1 DEF MergedNext
<1>5. \A q : CounterOf(q)' = CounterOf(q)
  BY <1>1, CounterOfFixed
<1>6. TypeOK'
  <2>1. IsCounted(from)' /\ Members' = Members /\ Characters' = Characters
    BY <1>1 DEF TypeOK, IsCounted, Members, Characters
  <2>2. ASSUME NEW c \in DOMAIN mergedNext'
        PROVE  c \in Characters /\ mergedNext'[c] \subseteq Members
    BY <1>1, MergedNextType DEF TypeOK
  <2> QED
    BY <1>1, <1>2, <1>3, <2>1, <2>2 DEF TypeOK
<1>7. OneStateEach'
  BY <1>1 DEF OneStateEach
<1>8. Merges'
  <2>1. \A c \in DOMAIN mergedNext' :
          /\ cursor' \in DOMAIN subsets'
          /\ c \in DOMAIN MergedNext(subsets[cursor])'
          /\ mergedNext'[c] = MergedNext(subsets[cursor])'[c]
    BY <1>1, <1>3, <1>4
  <2>2. ASSUME NEW k \in DOMAIN nextMap'
        PROVE  k[1] \in 1 .. cursor' /\ Leads(k[1], k[2], nextMap[k])'
    <3>1. k[1] \in 1 .. cursor /\ Leads(k[1], k[2], nextMap[k])
      BY <1>1 DEF Merges
    <3>2. Leads(k[1], k[2], nextMap[k])'
      BY <1>1, <1>4, <3>1 DEF Leads
    <3> QED
      BY <1>1, <1>2, <3>1, <3>2
  <2>3. ASSUME NEW i \in 1 .. cursor', NEW c \in DOMAIN MergedNext(subsets[i])'
        PROVE  (i = cursor' /\ c \in DOMAIN mergedNext') \/ <<i, c>> \in DOMAIN nextMap'
    <3>1. CASE i = cursor'
      BY <3>1, <1>1, <1>4
    <3>2. CASE i # cursor'
      <4>1. i \in 1 .. cursor /\ c \in DOMAIN MergedNext(subsets[i])
        BY <3>2, <1>1, <1>2, <1>4
      <4> QED
        BY <4>1, <1>1 DEF Merges
    <3> QED
      BY <3>1, <3>2
  <2>4. \A i \in DOMAIN subsets' : counter'[i] = CounterOf(subsets[i])'
    BY <1>1, <1>5 DEF Merges
  <2>5. (Len(subsets') = 0 => cursor' = 0) /\ (Len(subsets') > 0 => subsets'[1] = from'.initial)
    BY <1>1, <1>2 DEF Merges
  <2> QED
    BY <2>1, <2>2, <2>3, <2>4, <2>5 DEF Merges
<1> QED
  BY <1>6, <1>7, <1>8

(* Recording the target of the transition on c of the visited state.       *)
LEMMA AddOne ==
  ASSUME TypeOK, Merges, NEW c \in DOMAIN mergedNext, NEW target,
         DOMAIN subsets \subseteq DOMAIN subsets', target \in DOMAIN subsets',
         Len(subsets') >= Len(subsets),
         \A i \in DOMAIN subsets : subsets'[i] = subsets[i],
         subsets'[target] = mergedNext[c],
         \A i \in DOMAIN subsets : MergedNext(subsets[i])' = MergedNext(subsets[i]),
         \A i, j \in DOMAIN subsets : \A d : Leads(i, d, j) => Leads(i, d, j)',
         \A i \in DOMAIN subsets' : counter'[i] = CounterOf(subsets[i])',
         nextMap' = [k \in DOMAIN nextMap \union {<<cursor, c>>} |->
                       IF k = <<cursor, c>> THEN target ELSE nextMap[k]],
         mergedNext' = [d \in DOMAIN mergedNext \ {c} |-> mergedNext[d]],
         from' = from, cursor' = cursor
  PROVE  Merges'
<1>1. /\ cursor \in DOMAIN subsets /\ c \in DOMAIN MergedNext(subsets[cursor])
      /\ mergedNext[c] = MergedNext(subsets[cursor])[c]
  BY DEF Merges
<1>2. Len(subsets) \in Nat /\ DOMAIN subsets = 1 .. Len(subsets) /\ cursor \in 1 .. Len(subsets)
  <2>1. Len(subsets) \in Nat /\ DOMAIN subsets = 1 .. Len(subsets)
    BY DEF TypeOK
  <2> QED
    BY <1>1, <2>1
<1>3. Leads(cursor, c, target)'
  BY <1>1 DEF Leads
<1>4. \A d \in DOMAIN mergedNext' :
        /\ cursor' \in DOMAIN subsets'
        /\ d \in DOMAIN MergedNext(subsets[cursor])'
        /\ mergedNext'[d] = MergedNext(subsets[cursor])'[d]
  BY <1>1 DEF Merges
<1>5. ASSUME NEW k \in DOMAIN nextMap'
      PROVE  k[1] \in 1 .. cursor' /\ Leads(k[1], k[2], nextMap[k])'
  <2>1. CASE k = <<cursor, c>>
    <3>1. nextMap'[k] = target /\ k[1] = cursor /\ k[2] = c
      BY <2>1
    <3> QED
      BY <3>1, <1>2, <1>3
  <2>2. CASE k # <<cursor, c>>
    <3>1. k \in DOMAIN nextMap /\ nextMap'[k] = nextMap[k]
      BY <2>2
    <3>2. /\ k[1] \in 1 .. cursor /\ Leads(k[1], k[2], nextMap[k])
          /\ nextMap[k] \in DOMAIN subsets
      BY <3>1 DEF Merges, TypeOK
    <3>3. k[1] \in DOMAIN subsets
      BY <3>2, <1>2
    <3> QED
      BY <3>1, <3>2, <3>3
  <2> QED
    BY <2>1, <2>2
<1>6. ASSUME NEW i \in 1 .. cursor', NEW d \in DOMAIN MergedNext(subsets[i])'
      PROVE  (i = cursor' /\ d \in DOMAIN mergedNext') \/ <<i, d>> \in DOMAIN nextMap'
  <2>1. i \in 1 .. cursor /\ i \in DOMAIN subsets
    BY <1>2
  <2>2. d \in DOMAIN MergedNext(subsets[i])
    BY <2>1
  <2>3. (i = cursor /\ d \in DOMAIN mergedNext) \/ <<i, d>> \in DOMAIN nextMap
    BY <2>1, <2>2 DEF Merges
  <2>4. CASE i = cursor /\ d = c
    BY <2>4
  <2>5. CASE i = cursor /\ d \in DOMAIN mergedNext /\ d # c
    BY <2>5
  <2>6. CASE <<i, d>> \in DOMAIN nextMap
    BY <2>6
  <2> QED
    BY <2>3, <2>4, <2>5, <2>6
<1>7. (Len(subsets') = 0 => cursor' = 0) /\ (Len(subsets') > 0 => subsets'[1] = from'.initial)
  BY <1>2 DEF Merges
<1> QED
  BY <1>4, <1>5, <1>6, <1>7 DEF Merges

LEMMA AddTransitionKeeps ==
  ASSUME IInv, AddTransition PROVE IInv'
<1> USE DEF IInv
<1>1. PICK c \in DOMAIN mergedNext :
        LET s == mergedNext[c]
            found == s \in DOMAIN toNewState
            target == IF found THEN toNewState[s] ELSE Fresh
            here == <<cursor, c>>
        IN  /\ IF found THEN UNCHANGED <<subsets, toNewState, counter>>
                        ELSE AddNewState(s)
            /\ nextMap' = [k \in DOMAIN nextMap \union {here} |->
                             IF k = here THEN target ELSE nextMap[k]]
            /\ mergedNext' = [d \in DOMAIN mergedNext \ {c} |-> mergedNext[d]]
            /\ UNCHANGED <<from, cursor>>
  BY DEF AddTransition
<1>2. PICK target : target = IF mergedNext[c] \in DOMAIN toNewState
                               THEN toNewState[mergedNext[c]] ELSE Fresh
  OBVIOUS
<1>3. /\ nextMap' = [k \in DOMAIN nextMap \union {<<cursor, c>>} |->
                       IF k = <<cursor, c>> THEN target ELSE nextMap[k]]
      /\ mergedNext' = [d \in DOMAIN mergedNext \ {c} |-> mergedNext[d]]
      /\ from' = from /\ cursor' = cursor
  BY <1>1, <1>2
<1>4. mergedNext[c] \subseteq Members /\ c \in Characters
  BY DEF TypeOK
<1>5. IsCounted(from)' /\ Members' = Members /\ Characters' = Characters
  BY <1>3 DEF TypeOK, IsCounted, Members, Characters
<1>6. cursor \in DOMAIN subsets
  BY DEF Merges
<1>7. ASSUME DOMAIN subsets \subseteq DOMAIN subsets', target \in DOMAIN subsets'
      PROVE  /\ DOMAIN nextMap' \subseteq (DOMAIN subsets') \X Characters
             /\ \A k \in DOMAIN nextMap' : nextMap'[k] \in DOMAIN subsets'
             /\ DOMAIN mergedNext' \subseteq Characters
             /\ \A d \in DOMAIN mergedNext' : mergedNext'[d] \subseteq Members
  <2>1. <<cursor, c>> \in (DOMAIN subsets') \X Characters
    BY <1>4, <1>6, <1>7
  <2>2. DOMAIN nextMap' = DOMAIN nextMap \union {<<cursor, c>>}
    BY <1>3
  <2>3. DOMAIN nextMap \subseteq (DOMAIN subsets') \X Characters
    BY <1>7 DEF TypeOK
  <2>4. ASSUME NEW k \in DOMAIN nextMap' PROVE nextMap'[k] \in DOMAIN subsets'
    BY <1>3, <1>7 DEF TypeOK
  <2>5. /\ DOMAIN mergedNext' \subseteq Characters
        /\ \A d \in DOMAIN mergedNext' : mergedNext'[d] \subseteq Members
    BY <1>3 DEF TypeOK
  <2> QED
    BY <2>1, <2>2, <2>3, <2>4, <2>5
<1>8. CASE mergedNext[c] \in DOMAIN toNewState
  <2>1. subsets' = subsets /\ toNewState' = toNewState /\ counter' = counter
    BY <1>1, <1>8
  <2>2. target \in DOMAIN subsets /\ subsets[target] = mergedNext[c]
    <3>1. PICK i \in DOMAIN subsets : subsets[i] = mergedNext[c]
      BY <1>8 DEF OneStateEach, Range
    <3>2. target = i
      BY <1>2, <1>8, <3>1 DEF OneStateEach
    <3> QED
      BY <3>1, <3>2
  <2>3. TypeOK'
    BY <1>3, <1>5, <1>7, <2>1, <2>2 DEF TypeOK
  <2>4. OneStateEach'
    BY <2>1 DEF OneStateEach
  <2>5. \A q : MergedNext(q)' = MergedNext(q)
    BY <1>3 DEF MergedNext
  <2>6. \A i : MergedNext(subsets[i])' = MergedNext(subsets[i])
    BY <2>1, <2>5
  <2>7. \A i, j, d : Leads(i, d, j) => Leads(i, d, j)'
    BY <2>1, <2>6 DEF Leads
  <2>8. \A i \in DOMAIN subsets' : counter'[i] = CounterOf(subsets[i])'
    BY <1>3, <2>1, CounterOfFixed DEF Merges
  <2>9. Len(subsets') >= Len(subsets)
    BY <2>1 DEF TypeOK
  <2>10. Merges'
    BY <1>3, <2>1, <2>2, <2>6, <2>7, <2>8, <2>9, AddOne
  <2> QED
    BY <2>3, <2>4, <2>10
<1>9. CASE mergedNext[c] \notin DOMAIN toNewState
  <2>1. AddNewState(mergedNext[c]) /\ target = Fresh
    BY <1>1, <1>2, <1>9
  <2>2. Added(mergedNext[c])
    BY <1>4, <2>1, AddNewStateEffect
  <2>3. /\ OneStateEach'
        /\ \A k \in DOMAIN toNewState' : toNewState'[k] \in DOMAIN subsets'
    BY <1>9, <2>2, AddNewStateOnce
  <2>4. /\ DOMAIN subsets \subseteq DOMAIN subsets' /\ target \in DOMAIN subsets'
        /\ Len(subsets') >= Len(subsets) /\ subsets'[target] = mergedNext[c]
        /\ \A i \in DOMAIN subsets : subsets'[i] = subsets[i]
    BY <2>1, <2>2 DEF Added
  <2>5. TypeOK'
    <3>1. DOMAIN toNewState' \subseteq SUBSET Members
      BY <1>4, <2>2 DEF Added, TypeOK
    <3>2. cursor' \in 0 .. Len(subsets')
      BY <1>3, <2>2 DEF Added, TypeOK
    <3> QED
      BY <1>5, <1>7, <2>2, <2>3, <2>4, <3>1, <3>2 DEF Added, TypeOK
  <2>6. Merges'
    BY <1>3, <2>2, <2>4, AddNewStateKeeps, AddOne
  <2> QED
    BY <2>3, <2>5, <2>6
<1> QED
  BY <1>8, <1>9

LEMMA StartIInv == ASSUME IsCounted(from), Start PROVE IInv
<1> USE BufferSizeAssumption DEF Start
<1>1. TypeOK
  BY DEF TypeOK
<1>2. OneStateEach
  BY DEF OneStateEach, Range
<1>3. Merges
  BY DEF Merges
<1> QED
  BY <1>1, <1>2, <1>3 DEF IInv

LEMMA StepIInv == ASSUME IInv, [Next]_vars PROVE IInv'
<1>1. CASE UNCHANGED vars
  <2> USE <1>1 DEF vars, IInv
  <2>1. TypeOK'
    BY DEF TypeOK, IsCounted, Members, Characters
  <2>2. OneStateEach'
    BY DEF OneStateEach
  <2>3. Merges'
    <3>1. \A q : MergedNext(q)' = MergedNext(q)
      BY DEF MergedNext
    <3>2. \A i : MergedNext(subsets[i])' = MergedNext(subsets[i])
      BY <3>1
    <3>3. \A q : CounterOf(q)' = CounterOf(q)
      BY CounterOfFixed
    <3>4. \A i, c, j : Leads(i, c, j) <=> Leads(i, c, j)'
      BY <3>2 DEF Leads
    <3> QED
      BY <3>2, <3>3, <3>4 DEF Merges
  <2> QED
    BY <2>1, <2>2, <2>3
<1> QED
  BY <1>1, AddInitialKeeps, VisitKeeps, AddTransitionKeeps DEF Next

LEMMA InductiveInvariant == Spec => []IInv
<1>1. Init => IInv
  BY CountedAssumption, StartIInv DEF Init
<1>2. IInv /\ [Next]_vars => IInv'
  BY StepIInv
<1> QED
  BY <1>1, <1>2, PTL DEF Spec

-----------------------------------------------------------------------------

(* The states are subsets of the copies, each with a counter up to the     *)
(* size of the buffer, and every transition leads to a state.              *)
THEOREM TypeCorrect == Spec => []TypeOK
<1>1. IInv => TypeOK
  BY DEF IInv
<1> QED
  BY <1>1, InductiveInvariant, PTL

(* Equal subsets are one state.                                            *)
THEOREM StatesAreUnique == Spec => []OneStateEach
<1>1. IInv => OneStateEach
  BY DEF IInv
<1> QED
  BY <1>1, InductiveInvariant, PTL

LEMMA IInvDeterminizes == ASSUME IInv PROVE Determinizes
<1> SUFFICES ASSUME Done PROVE Determinizes
  BY DEF Determinizes
<1> USE DEF IInv
<1>1. /\ subsets # <<>> /\ DOMAIN mergedNext = {} /\ cursor = Len(subsets)
      /\ Len(subsets) \in Nat /\ DOMAIN subsets = 1 .. cursor
      /\ subsets \in Seq(SUBSET Members)
  BY DEF Done, TypeOK
<1>2. subsets[1] = from.initial
  <2>1. Len(subsets) # 0
    BY <1>1
  <2> QED
    BY <1>1, <2>1 DEF Merges
<1>3. ASSUME NEW i \in DOMAIN subsets, NEW c
      PROVE  /\ <<i, c>> \in DOMAIN nextMap <=> c \in DOMAIN MergedNext(subsets[i])
             /\ <<i, c>> \in DOMAIN nextMap =>
                  subsets[nextMap[<<i, c>>]] = MergedNext(subsets[i])[c]
  <2>1. ASSUME <<i, c>> \in DOMAIN nextMap PROVE Leads(i, c, nextMap[<<i, c>>])
    BY <2>1 DEF Merges
  <2>2. ASSUME c \in DOMAIN MergedNext(subsets[i]) PROVE <<i, c>> \in DOMAIN nextMap
    BY <1>1, <2>2 DEF Merges
  <2> QED
    BY <2>1, <2>2 DEF Leads
<1> QED
  BY <1>2, <1>3 DEF Determinizes, Merges

(* When the construction returns, the machine has the transitions of its   *)
(* subsets and their counters.                                             *)
THEOREM TransitionsAreMerged == Spec => []Determinizes
<1>1. IInv => Determinizes
  BY IInvDeterminizes
<1> QED
  BY <1>1, InductiveInvariant, PTL

-----------------------------------------------------------------------------
(* The machine and the runs of the automaton.                              *)

(* StateAfter is computed character by character.                          *)
LEMMA StateAfterIterates ==
  ASSUME NEW S, NEW w \in Seq(S)
  PROVE  \E r : /\ r[0] = 1
                /\ \A n \in 1 .. Len(w) : r[n] = Reads(r[n - 1], w[n])
                /\ StateAfter(w) = r[Len(w)]
<1> DEFINE L == Len(w)
           T == {1} \union {nextMap[k] : k \in DOMAIN nextMap}
           F == [n \in 1 .. L |-> [q \in T |-> Reads(q, w[n])]]
           Solves(r) == r = [n \in 0 .. L |-> IF n = 0 THEN 1 ELSE Reads(r[n - 1], w[n])]
           state == CHOOSE r : Solves(r)
<1>1. L \in Nat
  OBVIOUS
<1>2. PICK r \in [0 .. L -> T] : Iterates(r, 1, F, L)
  <2>1. F \in [1 .. L -> [T -> T]]
    <3>1. \A q, c : Reads(q, c) \in T
      BY DEF Reads
    <3> HIDE DEF L, T
    <3> QED
      BY <3>1
  <2>2. 1 \in T
    OBVIOUS
  <2> HIDE DEF L, T, F
  <2> QED
    BY <1>1, <2>1, <2>2, IterationExists
<1>3. r[0] = 1 /\ \A n \in 1 .. L : r[n] = Reads(r[n - 1], w[n])
  <2> HIDE DEF L, T
  <2>1. \A n \in 1 .. L : n - 1 \in 0 .. L
    BY <1>1
  <2> QED
    BY <1>2, <2>1 DEF Iterates
<1>4. Solves(r)
  <2> HIDE DEF L, T, F
  <2>1. \A n \in 0 .. L : n # 0 => n \in 1 .. L
    BY <1>1
  <2>2. r = [n \in 0 .. L |-> r[n]]
    BY <1>2
  <2>3. \A n \in 0 .. L : r[n] = IF n = 0 THEN 1 ELSE Reads(r[n - 1], w[n])
    BY <1>3, <2>1
  <2> QED
    BY <2>2, <2>3
<1>5. Solves(state)
  BY <1>4
<1>6. StateAfter(w) = state[L]
  BY DEF StateAfter
<1>7. state[0] = 1 /\ \A n \in 1 .. L : state[n] = Reads(state[n - 1], w[n])
  <2> HIDE DEF L, state
  <2>1. \A n \in 1 .. L : n \in 0 .. L /\ n # 0
    BY <1>1
  <2>2. 0 \in 0 .. L
    BY <1>1
  <2> QED
    BY <1>5, <2>1, <2>2
<1> QED
  BY <1>6, <1>7

LEMMA StateAfterNothing == StateAfter(<<>>) = 1
<1>1. <<>> \in Seq({}) /\ Len(<<>>) = 0
  OBVIOUS
<1>2. \A S : \A w \in Seq(S) : \E r : r[0] = 1 /\ StateAfter(w) = r[Len(w)]
  BY StateAfterIterates
<1>3. PICK r : r[0] = 1 /\ StateAfter(<<>>) = r[Len(<<>>)]
  BY <1>1, <1>2, Zenon
<1> QED
  BY <1>1, <1>3

LEMMA StateAfterAppend ==
  ASSUME NEW S, NEW w \in Seq(S), NEW a \in S
  PROVE  StateAfter(Append(w, a)) = Reads(StateAfter(w), a)
<1> DEFINE L == Len(w)  v == Append(w, a)
<1>1. /\ L \in Nat /\ v \in Seq(S) /\ Len(v) = L + 1 /\ v[L + 1] = a
      /\ \A n \in 1 .. L : v[n] = w[n]
  OBVIOUS
<1>2. PICK r : /\ r[0] = 1
               /\ \A n \in 1 .. L : r[n] = Reads(r[n - 1], w[n])
               /\ StateAfter(w) = r[L]
  BY StateAfterIterates
<1> HIDE DEF v
<1>3. PICK s : /\ s[0] = 1
               /\ \A n \in 1 .. Len(v) : s[n] = Reads(s[n - 1], v[n])
               /\ StateAfter(v) = s[Len(v)]
  BY <1>1, StateAfterIterates
<1> HIDE DEF L
<1> DEFINE D == {n \in 0 .. L : r[n] = s[n]}
<1>4. ASSUME NEW n \in 0 .. L - 1, n \in D PROVE n + 1 \in D
  <2>1. n + 1 \in 1 .. L /\ n + 1 \in 1 .. Len(v) /\ n + 1 \in 0 .. L /\ (n + 1) - 1 = n
    BY <1>1
  <2> QED
    BY <1>1, <1>2, <1>3, <1>4, <2>1
<1>5. L \in D
  <2>1. 0 \in D
    BY <1>1, <1>2, <1>3
  <2> HIDE DEF D
  <2>2. \A n \in 0 .. L : n \in D
    BY <1>1, <1>4, <2>1, InductionToBound
  <2> QED
    BY <1>1, <2>2
<1>6. L + 1 \in 1 .. Len(v) /\ (L + 1) - 1 = L
  BY <1>1
<1> QED
  BY <1>1, <1>2, <1>3, <1>5, <1>6 DEF v

(* One step of feed(), seen in the subsets.                                *)
LEMMA ReadsSuccessors ==
  ASSUME IInv, Done, NEW q \in DOMAIN subsets, NEW c
  PROVE  /\ Reads(q, c) \in DOMAIN subsets
         /\ subsets[Reads(q, c)] = Successors(from.trans, subsets[q], c) \union from.initial
<1>1. Determinizes
  BY IInvDeterminizes
<1>2. CASE <<q, c>> \in DOMAIN nextMap
  <2>1. c \in Characters /\ nextMap[<<q, c>>] \in DOMAIN subsets
    BY <1>2 DEF IInv, TypeOK
  <2>2. /\ c \in DOMAIN MergedNext(subsets[q])
        /\ subsets[nextMap[<<q, c>>]] = MergedNext(subsets[q])[c]
    BY <1>1, <1>2, <2>1 DEF Determinizes
  <2> QED
    BY <1>2, <2>1, <2>2, MergedNextValue DEF Reads, Successors
<1>3. CASE <<q, c>> \notin DOMAIN nextMap
  <2>1. 1 \in DOMAIN subsets
    <3>1. subsets \in Seq(SUBSET Members) /\ subsets # <<>>
      BY DEF IInv, TypeOK, Done
    <3> QED
      BY <3>1
  <2>2. subsets[1] = from.initial
    BY <1>1 DEF Determinizes
  <2>3. Successors(from.trans, subsets[q], c) = {}
    <3> SUFFICES ASSUME NEW t \in from.trans, t.at \in subsets[q], t.via = c PROVE FALSE
      BY DEF Successors
    <3>1. c \in Characters /\ c \in DOMAIN MergedNext(subsets[q])
      BY MergedNextDomain DEF Characters
    <3> QED
      BY <1>1, <1>3, <3>1 DEF Determinizes
  <2> QED
    BY <1>3, <2>1, <2>2, <2>3 DEF Reads
<1> QED
  BY <1>2, <1>3

(* The runs that began anywhere in w and are alive.                        *)
SuffixAfter(w, i) == StatesAfter(from.trans, from.initial, SubSeq(w, i, Len(w)))
Alive(w) == UNION {SuffixAfter(w, i) : i \in 1 .. Len(w) + 1}

(* Each goes on, and one begins.                                           *)
LEMMA AliveAppend ==
  ASSUME NEW S, NEW v \in Seq(S), NEW a \in S
  PROVE  Alive(Append(v, a)) = Successors(from.trans, Alive(v), a) \union from.initial
<1> DEFINE w == Append(v, a)
<1>1. Len(v) \in Nat /\ Len(w) = Len(v) + 1 /\ w \in Seq(S)
  OBVIOUS
<1>2. ASSUME NEW i \in 1 .. Len(v) + 1
      PROVE  SuffixAfter(w, i) = Successors(from.trans, SuffixAfter(v, i), a)
  <2> DEFINE r == SubSeq(v, i, Len(v))
  <2>1. r \in Seq(S) /\ SubSeq(w, i, Len(w)) = Append(r, a)
    BY <1>1, SuffixOfAppend
  <2>2. SuffixAfter(v, i) = StatesAfter(from.trans, from.initial, r)
    BY DEF SuffixAfter
  <2>3. SuffixAfter(w, i) = StatesAfter(from.trans, from.initial, Append(r, a))
    BY <2>1 DEF SuffixAfter
  <2> HIDE DEF r
  <2>4. StatesAfter(from.trans, from.initial, Append(r, a)) =
          Successors(from.trans, StatesAfter(from.trans, from.initial, r), a)
    BY <2>1, StatesAfterAppend
  <2> QED
    BY <2>2, <2>3, <2>4
<1>3. SuffixAfter(w, Len(v) + 2) = from.initial
  <2> HIDE DEF w
  <2>1. SubSeq(w, Len(v) + 2, Len(w)) = <<>>
    BY <1>1
  <2> QED
    BY <2>1, StatesAfterNothing DEF SuffixAfter
<1> HIDE DEF w
<1>4. ASSUME NEW q \in Alive(w)
      PROVE  q \in Successors(from.trans, Alive(v), a) \union from.initial
  <2>1. PICK i \in 1 .. Len(v) + 2 : q \in SuffixAfter(w, i)
    BY <1>1 DEF Alive
  <2>2. CASE i = Len(v) + 2
    BY <1>3, <2>1, <2>2
  <2>3. CASE i \in 1 .. Len(v) + 1
    <3>1. q \in Successors(from.trans, SuffixAfter(v, i), a)
      BY <1>2, <2>1, <2>3
    <3> QED
      BY <2>3, <3>1 DEF Successors, Alive
  <2> QED
    BY <1>1, <2>2, <2>3
<1>5. from.initial \subseteq Alive(w)
  <2>1. Len(v) + 2 \in 1 .. Len(w) + 1
    BY <1>1
  <2> QED
    BY <1>3, <2>1 DEF Alive
<1>6. ASSUME NEW q \in Successors(from.trans, Alive(v), a) PROVE q \in Alive(w)
  <2>1. PICK t \in from.trans : t.at \in Alive(v) /\ t.via = a /\ t.to = q
    BY <1>6 DEF Successors
  <2>2. PICK i \in 1 .. Len(v) + 1 : t.at \in SuffixAfter(v, i)
    BY <2>1 DEF Alive
  <2>3. q \in SuffixAfter(w, i)
    BY <1>2, <2>1, <2>2 DEF Successors
  <2>4. i \in 1 .. Len(w) + 1
    BY <1>1, <2>2
  <2> QED
    BY <2>3, <2>4 DEF Alive
<1> QED
  BY <1>4, <1>5, <1>6 DEF w

LEMMA EveryWordRead ==
  ASSUME IInv, Done, NEW S
  PROVE  \A w \in Seq(S) : StateAfter(w) \in DOMAIN subsets /\ subsets[StateAfter(w)] = Alive(w)
<1> DEFINE W == {w \in Seq(S) : StateAfter(w) \in DOMAIN subsets
                                  /\ subsets[StateAfter(w)] = Alive(w)}
<1>1. <<>> \in W
  <2>1. 1 \in DOMAIN subsets /\ subsets[1] = from.initial
    <3>1. subsets \in Seq(SUBSET Members) /\ subsets # <<>>
      BY DEF IInv, TypeOK, Done
    <3>2. subsets[1] = from.initial
      BY IInvDeterminizes DEF Determinizes
    <3> QED
      BY <3>1, <3>2
  <2>2. Alive(<<>>) = from.initial
    <3>1. Len(<<>>) = 0 /\ SubSeq(<<>>, 1, 0) = <<>> /\ 1 .. 0 + 1 = {1}
      OBVIOUS
    <3>2. SuffixAfter(<<>>, 1) = from.initial
      BY <3>1, StatesAfterNothing DEF SuffixAfter
    <3> QED
      BY <3>1, <3>2 DEF Alive
  <2> QED
    BY <2>1, <2>2, StateAfterNothing
<1>2. ASSUME NEW v \in Seq(S), NEW a \in S, v \in W PROVE Append(v, a) \in W
  <2>1. StateAfter(Append(v, a)) = Reads(StateAfter(v), a)
    BY StateAfterAppend
  <2>2. /\ Reads(StateAfter(v), a) \in DOMAIN subsets
        /\ subsets[Reads(StateAfter(v), a)] =
             Successors(from.trans, Alive(v), a) \union from.initial
    BY <1>2, ReadsSuccessors
  <2>3. Append(v, a) \in Seq(S)
    OBVIOUS
  <2>4. Alive(Append(v, a)) = Successors(from.trans, Alive(v), a) \union from.initial
    BY AliveAppend
  <2> QED
    BY <2>1, <2>2, <2>3, <2>4
<1> HIDE DEF W
<1>3. \A w \in Seq(S) : w \in W
  BY <1>1, <1>2, InductionOnWords
<1> QED
  BY <1>3 DEF W

LEMMA IInvReadsSuffixes == ASSUME IInv PROVE ReadsSuffixes
<1> SUFFICES ASSUME Done, NEW w \in Words PROVE subsets[StateAfter(w)] = Alive(w)
  BY DEF ReadsSuffixes, Alive, SuffixAfter
<1>1. w \in Seq(Characters)
  <2>1. PICK n \in 0 .. WordLength : w \in [1 .. n -> Characters]
    BY DEF Words
  <2>2. n \in Nat
    BY BufferSizeAssumption
  <2> QED
    BY <2>1, <2>2
<1> QED
  BY <1>1, EveryWordRead

(* When the construction returns, the machine is after every word, of any  *)
(* length, in the state of the runs of all its suffixes: no run is lost    *)
(* where feed() falls back to the initial state.                           *)
THEOREM SuffixesAreRead == Spec => []ReadsSuffixes
<1>1. IInv => ReadsSuffixes
  BY IInvReadsSuffixes
<1> QED
  BY <1>1, InductiveInvariant, PTL

==============================================================================
