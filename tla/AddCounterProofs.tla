-------------------------- MODULE AddCounterProofs --------------------------
(***************************************************************************)
(* Theorems about AddCounter, for every automaton and buffer size.         *)
(***************************************************************************)
EXTENDS AddCounter, BasicLemmas

(* Before the loop there are only initial copies; in it, the copy whose    *)
(* transitions are being redirected exists.                                *)
Phases ==
  /\ cursor = 0 => initialStates = DOMAIN states /\ todo = {}
  /\ todo # {} => cursor \in DOMAIN states

(* The copies with counter 0 are the initial ones, what is to be           *)
(* redirected leaves the visited copy, and what was to be redirected is.   *)
Redirects ==
  /\ \A i \in DOMAIN states : i \in initialStates <=> states[i].count = 0
  /\ \A i \in initialStates : states[i].old \in from.initial
  /\ \A t \in todo : t.at = states[cursor].old
  /\ \A u \in next : \E t \in from.trans : IsCopy(u, t)
  /\ \A i \in 1 .. cursor : \A t \in from.trans :
       t.at = states[i].old =>
         (i = cursor /\ t \in todo) \/ (\E u \in next : u.at = i /\ IsCopy(u, t))

IInv == TypeOK /\ Phases /\ OneCopyEach /\ NeverBackToZero /\ Redirects

(* What is known of the copies once one of s with counter c has been added *)
Added(s, c) ==
  /\ Len(states) \in Nat
  /\ DOMAIN states = 1 .. Len(states)
  /\ DOMAIN states' = DOMAIN states \union {Fresh}
  /\ Len(states') = Len(states) + 1
  /\ states' \in Seq([old : Originals, count : 0 .. BufferSize])
  /\ states'[Fresh] = [old |-> s, count |-> c]
  /\ \A i \in DOMAIN states : states'[i] = states[i] /\ i # Fresh
  /\ DOMAIN toNewState' = DOMAIN toNewState \union {<<s, c>>}
  /\ toNewState'[<<s, c>>] = Fresh
  /\ \A k \in DOMAIN toNewState : k # <<s, c>> => toNewState'[k] = toNewState[k]

(* A new copy leaves the others where they are.                            *)
LEMMA AddNewStateEffect ==
  ASSUME TypeOK, NEW s \in Originals, NEW c \in 0 .. BufferSize, AddNewState(s, c)
  PROVE  Added(s, c)
<1> BufferSize \in Nat \ {0}
  BY BufferSizeAssumption
<1> DEFINE new == [old |-> s, count |-> c]
<1>1. new \in [old : Originals, count : 0 .. BufferSize]
  OBVIOUS
<1>2. states \in Seq([old : Originals, count : 0 .. BufferSize])
  BY DEF TypeOK
<1>3. states' = Append(states, new)
  BY DEF AddNewState
<1> HIDE DEF new
<1>4. /\ Len(states) \in Nat /\ DOMAIN states = 1 .. Len(states)
      /\ DOMAIN states' = 1 .. Len(states) + 1 /\ Len(states') = Len(states) + 1
      /\ states' \in Seq([old : Originals, count : 0 .. BufferSize])
      /\ states'[Len(states) + 1] = new
      /\ \A i \in 1 .. Len(states) : states'[i] = states[i]
  BY <1>1, <1>2, <1>3
<1>5. DOMAIN states' = DOMAIN states \union {Fresh}
  BY <1>4 DEF Fresh
<1>6. \A i \in DOMAIN states : states'[i] = states[i] /\ i # Fresh
  BY <1>4 DEF Fresh
<1>7. /\ DOMAIN toNewState' = DOMAIN toNewState \union {<<s, c>>}
      /\ toNewState'[<<s, c>>] = Fresh
      /\ \A k \in DOMAIN toNewState : k # <<s, c>> => toNewState'[k] = toNewState[k]
  BY DEF AddNewState
<1> QED
  BY <1>4, <1>5, <1>6, <1>7 DEF Fresh, new, Added

LEMMA AddNewStateMapType ==
  ASSUME TypeOK, NEW s \in Originals, NEW c \in 0 .. BufferSize, Added(s, c)
  PROVE  /\ DOMAIN toNewState' \subseteq Originals \X (0 .. BufferSize)
         /\ \A k \in DOMAIN toNewState' : toNewState'[k] \in DOMAIN states'
<1>1. <<s, c>> \in Originals \X (0 .. BufferSize)
  OBVIOUS
<1>2. DOMAIN toNewState' \subseteq Originals \X (0 .. BufferSize)
  BY <1>1 DEF Added, TypeOK
<1>3. ASSUME NEW k \in DOMAIN toNewState' PROVE toNewState'[k] \in DOMAIN states'
  <2>1. CASE k = <<s, c>>
    BY <2>1 DEF Added
  <2>2. CASE k # <<s, c>>
    <3>1. k \in DOMAIN toNewState /\ toNewState'[k] = toNewState[k]
      BY <2>2 DEF Added
    <3>2. toNewState[k] \in DOMAIN states
      BY <3>1 DEF TypeOK
    <3> QED
      BY <3>1, <3>2 DEF Added
  <2> QED
    BY <2>1, <2>2
<1> QED
  BY <1>2, <1>3

LEMMA Element ==
  ASSUME NEW S, NEW seq \in Seq(S), NEW i \in DOMAIN seq PROVE seq[i] \in S
OBVIOUS

(* The map stays exact when the copy of a new pair is recorded.            *)
LEMMA AddNewStateOnce ==
  ASSUME TypeOK, OneCopyEach, NEW s \in Originals, NEW c \in 0 .. BufferSize,
         <<s, c>> \notin DOMAIN toNewState, AddNewState(s, c)
  PROVE  OneCopyEach'
<1>0. Added(s, c)
  BY AddNewStateEffect
<1>1. DOMAIN toNewState' = {<<q.old, q.count>> : q \in Range(states')}
  <2>1. Range(states') = Range(states) \union {[old |-> s, count |-> c]}
    BY <1>0 DEF Added, Range
  <2> QED
    BY <1>0, <2>1 DEF Added, OneCopyEach
<1>2. ASSUME NEW k \in DOMAIN toNewState', NEW i \in DOMAIN states'
      PROVE  <<states'[i].old, states'[i].count>> = k <=> toNewState'[k] = i
  <2>1. CASE k \in DOMAIN toNewState /\ i \in DOMAIN states
    BY <1>0, <2>1 DEF Added, OneCopyEach
  <2>2. CASE k \in DOMAIN toNewState /\ i = Fresh
    <3>1. toNewState'[k] \in DOMAIN states
      BY <1>0, <2>2 DEF Added, TypeOK
    <3>2. <<states'[i].old, states'[i].count>> = <<s, c>>
      BY <1>0, <2>2 DEF Added
    <3> QED
      BY <1>0, <2>2, <3>1, <3>2 DEF Added
  <2>3. CASE k = <<s, c>> /\ i \in DOMAIN states
    <3>1. <<states[i].old, states[i].count>> \in DOMAIN toNewState
      BY <2>3 DEF OneCopyEach, Range
    <3> QED
      BY <1>0, <2>3, <3>1 DEF Added
  <2>4. CASE k = <<s, c>> /\ i = Fresh
    BY <1>0, <2>4 DEF Added
  <2> QED
    BY <1>0, <2>1, <2>2, <2>3, <2>4 DEF Added
<1> QED
  BY <1>1, <1>2 DEF OneCopyEach

(* Copies of transitions remain what they are.                             *)
LEMMA AddNewStateKeepsCopies ==
  ASSUME TypeOK, NEW s, NEW c, Added(s, c), NEW u \in next, NEW t, IsCopy(u, t)
  PROVE  IsCopy(u, t)'
<1>1. u.at \in DOMAIN states /\ u.to \in DOMAIN states
  BY DEF TypeOK
<1>2. states'[u.at] = states[u.at] /\ states'[u.to] = states[u.to]
  BY <1>1 DEF Added
<1> QED
  BY <1>2 DEF IsCopy

LEMMA NextCountPositive ==
  ASSUME NEW n \in 0 .. BufferSize PROVE NextCount(n) \in 1 .. BufferSize
BY BufferSizeAssumption DEF NextCount

(***************************************************************************)
(* The three parts of a step.                                              *)
(***************************************************************************)
LEMMA AddInitialKeeps ==
  ASSUME IInv, AddInitial PROVE IInv'
<1> BufferSize \in Nat \ {0}
  BY BufferSizeAssumption
<1> USE DEF IInv
<1>1. PICK s \in from.initial :
        /\ \A i \in initialStates : states[i].old # s
        /\ AddNewState(s, 0)
        /\ initialStates' = initialStates \union {Fresh}
  BY DEF AddInitial
<1>2. /\ cursor = 0 /\ cursor' = cursor /\ from' = from /\ next' = next
      /\ todo' = todo /\ s \in Originals /\ 0 \in 0 .. BufferSize
  BY DEF AddInitial, Originals
<1>10. Added(s, 0)
  BY <1>1, <1>2, AddNewStateEffect
<1>3. <<s, 0>> \notin DOMAIN toNewState
  BY <1>1, <1>2 DEF Phases, OneCopyEach, Range
<1>4. OneCopyEach'
  BY <1>1, <1>2, <1>3, AddNewStateOnce
<1>5. TypeOK'
  <2>1. Originals' = Originals /\ Vias' = Vias
    BY <1>2 DEF Originals, Vias
  <2>2. initialStates' \subseteq DOMAIN states'
    BY <1>10, <1>1, <1>2 DEF Added, TypeOK
  <2>3. /\ DOMAIN toNewState' \subseteq Originals \X (0 .. BufferSize)
        /\ \A k \in DOMAIN toNewState' : toNewState'[k] \in DOMAIN states'
    BY <1>10, <1>2, AddNewStateMapType
  <2>4. next \subseteq [at : DOMAIN states', via : Vias, to : DOMAIN states']
    BY <1>10, <1>1, <1>2 DEF Added, TypeOK
  <2>5. cursor' \in 0 .. Len(states')
    BY <1>10, <1>1, <1>2 DEF Added, TypeOK
  <2> QED
    BY <1>10, <1>1, <1>2, <2>1, <2>2, <2>3, <2>4, <2>5 DEF Added, TypeOK
<1>6. Phases'
  BY <1>10, <1>1, <1>2 DEF Added, Phases
<1>7. NeverBackToZero'
  BY <1>10, <1>1, <1>2 DEF Added, TypeOK, NeverBackToZero
<1>8. Redirects'
  <2>1. ASSUME NEW i \in DOMAIN states'
        PROVE  i \in initialStates' <=> states'[i].count = 0
    <3>1. CASE i = Fresh
      BY <3>1, <1>1, <1>10 DEF Added
    <3>2. CASE i # Fresh
      BY <3>2, <1>1, <1>10 DEF Added, Redirects
    <3> QED
      BY <3>1, <3>2
  <2>2. ASSUME NEW i \in initialStates' PROVE states'[i].old \in from'.initial
    <3>1. CASE i = Fresh
      BY <3>1, <1>2, <1>10 DEF Added
    <3>2. CASE i # Fresh
      BY <3>2, <1>1, <1>2, <1>10 DEF Added, Redirects, TypeOK
    <3> QED
      BY <3>1, <3>2
  <2>3. \A t \in todo' : t.at = states'[cursor'].old
    BY <1>2 DEF Phases
  <2>4. \A u \in next' : \E t \in from'.trans : IsCopy(u, t)'
    BY <1>2, <1>10, AddNewStateKeepsCopies DEF Redirects
  <2>5. 1 .. cursor' = {}
    BY <1>2
  <2> QED
    BY <2>1, <2>2, <2>3, <2>4, <2>5 DEF Redirects
<1> QED
  BY <1>4, <1>5, <1>6, <1>7, <1>8

LEMMA VisitKeeps ==
  ASSUME IInv, Visit PROVE IInv'
<1> USE DEF IInv
<1>1. /\ from' = from /\ states' = states /\ initialStates' = initialStates
      /\ toNewState' = toNewState /\ next' = next
      /\ cursor' = cursor + 1 /\ cursor < Len(states)
      /\ todo' = {t \in from.trans : t.at = states[cursor + 1].old} /\ todo = {}
  BY DEF Visit, CopiesToVisit
<1>2. cursor \in 0 .. Len(states) /\ Len(states) \in Nat /\ DOMAIN states = 1 .. Len(states)
  BY DEF TypeOK
<1>3. cursor' \in 1 .. Len(states)
  BY <1>1, <1>2
<1>4. TypeOK'
  BY <1>1, <1>2, <1>3 DEF TypeOK, Originals, Vias
<1>5. Phases'
  BY <1>1, <1>2, <1>3 DEF Phases
<1>6. Redirects'
  <2>1. \A u, t : IsCopy(u, t)' <=> IsCopy(u, t)
    BY <1>1 DEF IsCopy
  <2>2. ASSUME NEW i \in 1 .. cursor', NEW t \in from'.trans, t.at = states'[i].old
        PROVE  (i = cursor' /\ t \in todo') \/ (\E u \in next' : u.at = i /\ IsCopy(u, t)')
    <3>1. CASE i = cursor + 1
      BY <3>1, <1>1, <2>2
    <3>2. CASE i \in 1 .. cursor
      BY <3>2, <1>1, <2>1, <2>2 DEF Redirects
    <3> QED
      BY <3>1, <3>2, <1>1, <1>2
  <2>3. \A t \in todo' : t.at = states'[cursor'].old
    BY <1>1
  <2>4. \A u \in next' : \E t \in from'.trans : IsCopy(u, t)'
    BY <1>1, <2>1 DEF Redirects
  <2> QED
    BY <1>1, <2>2, <2>3, <2>4 DEF Redirects
<1> QED
  BY <1>1, <1>4, <1>5, <1>6 DEF OneCopyEach, NeverBackToZero

(* A copy is what the map says.                                            *)
LEMMA CopyOf ==
  ASSUME TypeOK, OneCopyEach, NEW s, NEW c, <<s, c>> \in DOMAIN toNewState
  PROVE  states[toNewState[<<s, c>>]] = [old |-> s, count |-> c]
<1> DEFINE i == toNewState[<<s, c>>]
<1>1. i \in DOMAIN states
  BY DEF TypeOK
<1>2. states[i] \in [old : Originals, count : 0 .. BufferSize]
  BY <1>1, Element DEF TypeOK
<1>3. states[i].old = s /\ states[i].count = c
  BY <1>1 DEF OneCopyEach
<1> HIDE DEF i
<1>4. states[i] = [old |-> s, count |-> c]
  BY <1>2, <1>3
<1> QED
  BY <1>4 DEF i

(* Redirecting one transition t of the visited copy to the state target.   *)
LEMMA RedirectOne ==
  ASSUME TypeOK, Redirects, NEW t \in todo, NEW target,
         cursor \in DOMAIN states, t \in from.trans,
         DOMAIN states \subseteq DOMAIN states',
         \A i \in DOMAIN states : states'[i] = states[i],
         states'[target] = [old |-> t.to, count |-> NextCount(states[cursor].count)],
         \A i \in DOMAIN states' : i \in initialStates' <=> states'[i].count = 0,
         \A u \in next : \A v : IsCopy(u, v) => IsCopy(u, v)',
         next' = next \union {[at |-> cursor, via |-> t.via, to |-> target]},
         todo' = todo \ {t}, from' = from, initialStates' = initialStates, cursor' = cursor
  PROVE  Redirects'
<1>0. PICK new : new = [at |-> cursor, via |-> t.via, to |-> target]
  OBVIOUS
<1>1. IsCopy(new, t)'
  BY <1>0 DEF IsCopy, Redirects
<1>2. new \in next' /\ new.at = cursor /\ next \subseteq next'
  BY <1>0
<1>3. \A i \in initialStates' : states'[i].old \in from'.initial
  BY DEF Redirects, TypeOK
<1>4. \A v \in todo' : v.at = states'[cursor'].old
  BY DEF Redirects
<1>5. \A u \in next' : \E v \in from'.trans : IsCopy(u, v)'
  BY <1>0, <1>1 DEF Redirects
<1>6. ASSUME NEW i \in 1 .. cursor', NEW v \in from'.trans, v.at = states'[i].old
      PROVE  (i = cursor' /\ v \in todo') \/ (\E u \in next' : u.at = i /\ IsCopy(u, v)')
  <2>1. i \in 1 .. cursor /\ i \in DOMAIN states
    <3>1. DOMAIN states = 1 .. Len(states) /\ Len(states) \in Nat
      BY DEF TypeOK
    <3> QED
      BY <3>1
  <2>2. CASE i = cursor /\ v = t
    <3>1. new \in next' /\ new.at = i /\ IsCopy(new, v)'
      BY <2>2, <1>1, <1>2
    <3> QED
      BY <3>1
  <2>3. CASE ~(i = cursor /\ v = t)
    <3>1. (i = cursor /\ v \in todo) \/ (\E u \in next : u.at = i /\ IsCopy(u, v))
      BY <2>1, <1>6 DEF Redirects
    <3> QED
      BY <2>3, <3>1, <1>2
  <2> QED
    BY <2>2, <2>3
<1> QED
  BY <1>3, <1>4, <1>5, <1>6 DEF Redirects

LEMMA RedirectKeeps ==
  ASSUME IInv, Redirect PROVE IInv'
<1> BufferSize \in Nat \ {0}
  BY BufferSizeAssumption
<1> USE DEF IInv
<1>1. PICK t \in todo :
        LET key == <<t.to, NextCount(states[cursor].count)>>
            found == key \in DOMAIN toNewState
            target == IF found THEN toNewState[key] ELSE Fresh
        IN  /\ IF found THEN UNCHANGED <<states, toNewState>>
                        ELSE AddNewState(key[1], key[2])
            /\ next' = next \union {[at |-> cursor, via |-> t.via, to |-> target]}
            /\ todo' = todo \ {t}
            /\ UNCHANGED <<from, initialStates, cursor>>
  BY DEF Redirect
<1> DEFINE n == NextCount(states[cursor].count)
           key == <<t.to, n>>
           target == IF key \in DOMAIN toNewState THEN toNewState[key] ELSE Fresh
<1>2. /\ next' = next \union {[at |-> cursor, via |-> t.via, to |-> target]}
      /\ todo' = todo \ {t} /\ from' = from /\ initialStates' = initialStates
      /\ cursor' = cursor
  BY <1>1
<1>3. t \in from.trans /\ t.to \in Originals /\ t.via \in Vias
  BY <1>1 DEF TypeOK, Originals, Vias
<1>4. cursor \in DOMAIN states /\ cursor # 0
  BY <1>1 DEF Phases
<1>5. n \in 1 .. BufferSize
  <2>1. states[cursor].count \in 0 .. BufferSize
    <3>1. states[cursor] \in [old : Originals, count : 0 .. BufferSize]
      BY <1>4, Element DEF TypeOK
    <3> QED
      BY <3>1
  <2> QED
    BY <2>1, NextCountPositive
<1> HIDE DEF n
<1>6. n \in 0 .. BufferSize /\ n > 0
  BY <1>5
<1>7. Originals' = Originals /\ Vias' = Vias
  BY <1>2 DEF Originals, Vias
<1>8. CASE key \in DOMAIN toNewState
  <2>1. states' = states /\ toNewState' = toNewState /\ target = toNewState[key]
    BY <1>1, <1>8 DEF n
  <2>2. target \in DOMAIN states /\ states[target].count = n
    BY <1>8, <2>1 DEF TypeOK, OneCopyEach
  <2> HIDE DEF target
  <2>3. TypeOK'
    BY <1>2, <1>3, <1>4, <1>7, <2>1, <2>2 DEF TypeOK
  <2>4. Phases'
    BY <1>2, <1>4, <2>1 DEF Phases
  <2>5. OneCopyEach'
    BY <2>1 DEF OneCopyEach
  <2>6. NeverBackToZero'
    BY <1>2, <1>6, <2>1, <2>2 DEF NeverBackToZero
  <2>7. states[target] = [old |-> t.to, count |-> n]
    BY <1>8, <2>1, <2>2, CopyOf
  <2>8. \A i \in DOMAIN states' : i \in initialStates' <=> states'[i].count = 0
    BY <1>2, <2>1 DEF Redirects
  <2>9. \A u \in next : \A v : IsCopy(u, v) => IsCopy(u, v)'
    BY <2>1 DEF IsCopy
  <2>10. Redirects'
    BY <1>2, <1>3, <1>4, <2>1, <2>7, <2>8, <2>9, RedirectOne DEF n
  <2> QED
    BY <2>3, <2>4, <2>5, <2>6, <2>10
<1>9. CASE key \notin DOMAIN toNewState
  <2>1. AddNewState(t.to, n) /\ target = Fresh
    BY <1>1, <1>9 DEF n
  <2>10. Added(t.to, n)
    BY <1>3, <1>6, <2>1, AddNewStateEffect
  <2>2. OneCopyEach'
    BY <1>3, <1>6, <1>9, <2>1, AddNewStateOnce
  <2>3. /\ target \in DOMAIN states' /\ states'[target].count = n
        /\ DOMAIN states \subseteq DOMAIN states'
        /\ \A i \in DOMAIN states : states'[i] = states[i]
    BY <2>1, <2>10 DEF Added
  <2> HIDE DEF target
  <2>4. TypeOK'
    <3>1. next' \subseteq [at : DOMAIN states', via : Vias, to : DOMAIN states']
      BY <1>2, <1>3, <1>4, <2>3 DEF TypeOK
    <3>2. /\ DOMAIN toNewState' \subseteq Originals \X (0 .. BufferSize)
          /\ \A k \in DOMAIN toNewState' : toNewState'[k] \in DOMAIN states'
      BY <1>3, <1>6, <2>10, AddNewStateMapType
    <3>3. states' \in Seq([old : Originals, count : 0 .. BufferSize])
      BY <2>10 DEF Added
    <3>4. cursor' \in 0 .. Len(states')
      BY <1>2, <2>10 DEF Added, TypeOK
    <3>5. initialStates' \subseteq DOMAIN states' /\ todo' \subseteq from.trans
      BY <1>2, <2>3 DEF TypeOK
    <3> QED
      BY <1>2, <1>7, <3>1, <3>2, <3>3, <3>4, <3>5 DEF TypeOK
  <2>5. Phases'
    BY <1>2, <1>4, <2>3 DEF Phases
  <2>6. NeverBackToZero'
    BY <1>2, <1>6, <2>3 DEF NeverBackToZero, TypeOK
  <2>7. states'[target] = [old |-> t.to, count |-> n]
    BY <2>1, <2>10 DEF Added, target
  <2>8. \A i \in DOMAIN states' : i \in initialStates' <=> states'[i].count = 0
    BY <1>2, <1>6, <2>10 DEF Added, Redirects, TypeOK
  <2>9. \A u \in next : \A v : IsCopy(u, v) => IsCopy(u, v)'
    BY <2>10, AddNewStateKeepsCopies
  <2>11. Redirects'
    BY <1>2, <1>3, <1>4, <2>3, <2>7, <2>8, <2>9, RedirectOne DEF n
  <2> QED
    BY <2>2, <2>4, <2>5, <2>6, <2>11
<1> QED
  BY <1>8, <1>9

LEMMA StartIInv == ASSUME Start PROVE IInv
<1> USE BufferSizeAssumption DEF Start
<1>1. TypeOK
  BY DEF TypeOK
<1>2. Phases
  BY DEF Phases
<1>3. OneCopyEach
  BY DEF OneCopyEach, Range
<1>4. NeverBackToZero
  BY DEF NeverBackToZero
<1>5. Redirects
  BY DEF Redirects
<1> QED
  BY <1>1, <1>2, <1>3, <1>4, <1>5 DEF IInv

LEMMA StepIInv == ASSUME IInv, [Next]_vars PROVE IInv'
<1>1. CASE UNCHANGED vars
  <2> USE <1>1 DEF vars, IInv
  <2>1. TypeOK'
    BY DEF TypeOK, Originals, Vias
  <2>2. Phases'
    BY DEF Phases
  <2>3. OneCopyEach'
    BY DEF OneCopyEach
  <2>4. NeverBackToZero'
    BY DEF NeverBackToZero
  <2>5. Redirects'
    <3>1. \A u, t : IsCopy(u, t) <=> IsCopy(u, t)'
      BY DEF IsCopy, NextCount
    <3> QED
      BY <3>1 DEF Redirects
  <2> QED
    BY <2>1, <2>2, <2>3, <2>4, <2>5
<1> QED
  BY <1>1, AddInitialKeeps, VisitKeeps, RedirectKeeps DEF Next

LEMMA InductiveInvariant == Spec => []IInv
<1>1. Init => IInv
  BY StartIInv DEF Init
<1>2. IInv /\ [Next]_vars => IInv'
  BY StepIInv
<1> QED
  BY <1>1, <1>2, PTL DEF Spec

-----------------------------------------------------------------------------

(* Every copy is one of a state of the automaton with a counter up to the  *)
(* buffer size, and every transition of a copy leads to a copy.            *)
THEOREM TypeCorrect == Spec => []TypeOK
<1>1. IInv => TypeOK
  BY DEF IInv
<1> QED
  BY <1>1, InductiveInvariant, PTL

(* A state is copied once for each counter with which it is reached.       *)
THEOREM CopiesAreUnique == Spec => []OneCopyEach
<1>1. IInv => OneCopyEach
  BY DEF IInv
<1> QED
  BY <1>1, InductiveInvariant, PTL

(* No transition leads back to a copy with counter 0: what the timed       *)
(* construction relies on when it drops these configurations from its keys *)
THEOREM ZeroIsInitialOnly == Spec => []NeverBackToZero
<1>1. IInv => NeverBackToZero
  BY DEF IInv
<1> QED
  BY <1>1, InductiveInvariant, PTL

LEMMA IInvUnfolds == ASSUME IInv PROVE Unfolds
<1> SUFFICES ASSUME Done PROVE Unfolds
  BY DEF Unfolds
<1>1. DOMAIN states = 1 .. cursor /\ initialStates \subseteq DOMAIN states /\ todo = {}
  BY DEF Done, IInv, TypeOK
<1> QED
  BY <1>1 DEF Unfolds, IInv, Redirects

(* When the construction returns, the automaton with counters has for each *)
(* transition of the pattern its copies, and no other transitions.         *)
THEOREM TransitionsAreCopied == Spec => []Unfolds
<1>1. IInv => Unfolds
  BY IInvUnfolds
<1> QED
  BY <1>1, InductiveInvariant, PTL

-----------------------------------------------------------------------------
(* The unfolding and the runs of the automaton.                            *)

(* The counter of a run that has read n characters.                        *)
Cyclic(n) == IF n = 0 THEN 0 ELSE ((n - 1) % BufferSize) + 1

LEMMA CyclicCounts ==
  ASSUME NEW n \in Nat PROVE Cyclic(n + 1) = NextCount(Cyclic(n))
<1> BufferSize \in Nat \ {0}
  BY BufferSizeAssumption
<1>1. CASE n = 0
  <2>1. 0 % BufferSize = 0
    OBVIOUS
  <2> QED
    BY <1>1, <2>1 DEF Cyclic, NextCount
<1>2. CASE n # 0
  <2> DEFINE k == n - 1
  <2>1. k \in Nat /\ n = k + 1
    BY <1>2
  <2> HIDE DEF k
  <2>2. (k + 1) % BufferSize = IF (k % BufferSize) + 1 = BufferSize THEN 0 ELSE (k % BufferSize) + 1
    BY <2>1, RemainderOfNext
  <2>3. k % BufferSize \in 0 .. BufferSize - 1
    BY <2>1, RemainderInRange
  <2>4. Cyclic(n) = (k % BufferSize) + 1 /\ Cyclic(n + 1) = ((k + 1) % BufferSize) + 1
    BY <1>2, <2>1 DEF Cyclic
  <2> QED
    BY <2>2, <2>3, <2>4 DEF NextCount
<1> QED
  BY <1>1, <1>2

(* The copies and the states that w leads to.                              *)
CopiesAfter(w) == StatesAfter(next, initialStates, w)
OriginalsAfter(w) == StatesAfter(from.trans, from.initial, w)

Followed(w) ==
  /\ CopiesAfter(w) \subseteq DOMAIN states
  /\ \A i \in CopiesAfter(w) :
       states[i].old \in OriginalsAfter(w) /\ states[i].count = Cyclic(Len(w))
  /\ \A s \in OriginalsAfter(w) : \E i \in CopiesAfter(w) : states[i].old = s

LEMMA NothingFollowed == ASSUME IInv, Done PROVE Followed(<<>>)
<1>1. CopiesAfter(<<>>) = initialStates /\ OriginalsAfter(<<>>) = from.initial
  BY StatesAfterNothing DEF CopiesAfter, OriginalsAfter
<1>2. initialStates \subseteq DOMAIN states
  BY DEF IInv, TypeOK
<1>3. \A i \in initialStates : states[i].old \in from.initial /\ states[i].count = 0
  BY IInvUnfolds DEF Unfolds
<1>4. Cyclic(Len(<<>>)) = 0
  BY DEF Cyclic
<1> QED
  BY <1>1, <1>2, <1>3, <1>4 DEF Followed, Done, InitialCopied

LEMMA NextFollowed ==
  ASSUME IInv, Done, NEW v \in Seq(Vias), NEW a \in Vias, Followed(v)
  PROVE  Followed(Append(v, a))
<1> DEFINE w == Append(v, a)
<1>1. /\ CopiesAfter(w) = Successors(next, CopiesAfter(v), a)
      /\ OriginalsAfter(w) = Successors(from.trans, OriginalsAfter(v), a)
  BY StatesAfterAppend DEF CopiesAfter, OriginalsAfter
<1>2. Cyclic(Len(w)) = NextCount(Cyclic(Len(v)))
  <2>1. Len(v) \in Nat /\ Len(w) = Len(v) + 1
    OBVIOUS
  <2> QED
    BY <2>1, CyclicCounts
<1>3. /\ \A u \in next : \E t \in from.trans : IsCopy(u, t)
      /\ \A i \in DOMAIN states : \A t \in from.trans :
           t.at = states[i].old => \E u \in next : u.at = i /\ IsCopy(u, t)
  BY IInvUnfolds DEF Unfolds
<1>4. \A u \in next : u.to \in DOMAIN states
  BY DEF IInv, TypeOK
<1> HIDE DEF w
<1>5. ASSUME NEW j \in CopiesAfter(w)
      PROVE  /\ j \in DOMAIN states /\ states[j].old \in OriginalsAfter(w)
             /\ states[j].count = Cyclic(Len(w))
  <2>1. PICK u \in next : u.at \in CopiesAfter(v) /\ u.via = a /\ u.to = j
    BY <1>1 DEF Successors
  <2>2. PICK t \in from.trans : IsCopy(u, t)
    BY <1>3
  <2>3. t.at \in OriginalsAfter(v) /\ t.via = a /\ states[u.at].count = Cyclic(Len(v))
    BY <2>1, <2>2 DEF Followed, IsCopy
  <2>4. t.to \in OriginalsAfter(w)
    BY <1>1, <2>3 DEF Successors
  <2> QED
    BY <1>2, <1>4, <2>1, <2>2, <2>3, <2>4 DEF IsCopy
<1>6. ASSUME NEW s \in OriginalsAfter(w) PROVE \E j \in CopiesAfter(w) : states[j].old = s
  <2>1. PICK t \in from.trans : t.at \in OriginalsAfter(v) /\ t.via = a /\ t.to = s
    BY <1>1 DEF Successors
  <2>2. PICK i \in CopiesAfter(v) : states[i].old = t.at
    BY <2>1 DEF Followed
  <2>3. PICK u \in next : u.at = i /\ IsCopy(u, t)
    BY <1>3, <2>2 DEF Followed
  <2>4. u.to \in CopiesAfter(w)
    BY <1>1, <2>1, <2>2, <2>3 DEF Successors, IsCopy
  <2> QED
    BY <2>1, <2>3, <2>4 DEF IsCopy
<1> QED
  BY <1>5, <1>6 DEF Followed, w

LEMMA EveryWordFollowed ==
  ASSUME IInv, Done PROVE \A w \in Seq(Vias) : Followed(w)
<1> DEFINE W == {w \in Seq(Vias) : Followed(w)}
<1>1. <<>> \in W
  BY NothingFollowed
<1>2. ASSUME NEW v \in Seq(Vias), NEW a \in Vias, v \in W PROVE Append(v, a) \in W
  BY <1>2, NextFollowed
<1> HIDE DEF W
<1>3. \A w \in Seq(Vias) : w \in W
  BY <1>1, <1>2, InductionOnWords
<1> QED
  BY <1>3 DEF W

LEMMA IInvFollowsRuns == ASSUME IInv PROVE FollowsRuns
<1> SUFFICES ASSUME Done, NEW w \in Words
             PROVE  {<<states[i].old, states[i].count>> : i \in CopiesAfter(w)}
                      = OriginalsAfter(w) \X {Cyclic(Len(w))}
  BY DEF FollowsRuns, CopiesAfter, OriginalsAfter, Cyclic
<1>1. w \in Seq(Vias)
  <2>1. PICK n \in 0 .. WordLength : w \in [1 .. n -> Vias]
    BY DEF Words
  <2>2. n \in Nat
    BY BufferSizeAssumption
  <2> QED
    BY <2>1, <2>2
<1>2. Followed(w)
  BY <1>1, EveryWordFollowed
<1> QED
  BY <1>2 DEF Followed

(* When the construction returns, every word, of any length, leads to the  *)
(* copies of exactly the states it leads to in the pattern, and the        *)
(* counter of these copies is its length, taken in 1..BufferSize.          *)
THEOREM RunsAreFollowed == Spec => []FollowsRuns
<1>1. IInv => FollowsRuns
  BY IInvFollowsRuns
<1> QED
  BY <1>1, InductiveInvariant, PTL

==============================================================================
