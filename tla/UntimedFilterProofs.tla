------------------------- MODULE UntimedFilterProofs -------------------------
(***************************************************************************)
(* Theorems about UntimedFilter: for every pattern, every size of the      *)
(* buffer whose shifts do not overflow and every word, the untimed filter  *)
(* masks no character of a match.                                          *)
(*                                                                         *)
(* The three parts are instantiated here with their proofs, on the         *)
(* variables on which UntimedFilter instantiates the parts alone.          *)
(***************************************************************************)
EXTENDS UntimedFilter, BasicLemmas

Copying == INSTANCE AddCounterProofs WITH
  Automata <- {}, WordLength <- MaxLength,
  from <- pattern, toNewState <- copies, cursor <- visited

Merging == INSTANCE ToMooreMachineProofs WITH
  Counted <- {}, WordLength <- MaxLength,
  from <- counted, toNewState <- dfaStates, counter <- dfaCounter,
  cursor <- dfaVisited

Running == INSTANCE MooreMachineProofs WITH
  Machines <- {}, MaskOf <- LAMBDA c : MaskChar,
  machine <- filterMachine

-----------------------------------------------------------------------------
(* They are the same parts.                                                *)

LEMMA SameCopying ==
  /\ WithCounter!Start <=> Copying!Start
  /\ WithCounter!Next <=> Copying!Next
  /\ WithCounter!Done <=> Copying!Done
  /\ WithCounter!Result = Copying!Result
BY DEF WithCounter!Start, Copying!Start, WithCounter!Next, Copying!Next,
  WithCounter!AddInitial, Copying!AddInitial, WithCounter!Visit, Copying!Visit,
  WithCounter!Redirect, Copying!Redirect, WithCounter!AddNewState, Copying!AddNewState,
  WithCounter!NextCount, Copying!NextCount, WithCounter!Fresh, Copying!Fresh,
  WithCounter!CopiesToVisit, Copying!CopiesToVisit,
  WithCounter!InitialCopied, Copying!InitialCopied,
  WithCounter!Done, Copying!Done, WithCounter!Result, Copying!Result

LEMMA SameMerging ==
  /\ Determinized!Start <=> Merging!Start
  /\ Determinized!Next <=> Merging!Next
  /\ Determinized!Done <=> Merging!Done
  /\ Determinized!Result = Merging!Result
BY DEF Determinized!Start, Merging!Start, Determinized!Next, Merging!Next,
  Determinized!AddInitial, Merging!AddInitial, Determinized!Visit, Merging!Visit,
  Determinized!AddTransition, Merging!AddTransition,
  Determinized!AddNewState, Merging!AddNewState,
  Determinized!CounterOf, Merging!CounterOf, Determinized!Fresh, Merging!Fresh,
  Determinized!MergedNext, Merging!MergedNext,
  Determinized!StatesToVisit, Merging!StatesToVisit,
  Determinized!Done, Merging!Done, Determinized!Result, Merging!Result

LEMMA SameFeed ==
  ASSUME NEW c PROVE Filter!Feed(c) <=> Running!Feed(c)
BY DEF Filter!Feed, Running!Feed, Filter!Successor, Running!Successor,
  Filter!Enable, Running!Enable, Filter!ShiftLeft, Running!ShiftLeft,
  Filter!EnabledBits, Running!EnabledBits, Filter!LowBits, Running!LowBits,
  Filter!Positions, Running!Positions, Filter!Now, Running!Now

LEMMA SameRunning ==
  /\ Filter!Now = Running!Now
  /\ Filter!Start <=> Running!Start
  /\ \A c : Filter!Fill(c) <=> Running!Fill(c)
  /\ \A c : Filter!Forward(c) <=> Running!Forward(c)
  /\ Filter!EndOfInput <=> Running!EndOfInput
  /\ Filter!Drain <=> Running!Drain
<1>1. Filter!Emitted = Running!Emitted
  BY DEF Filter!Emitted, Running!Emitted, Filter!OldestBit, Running!OldestBit
<1> QED
  BY <1>1, SameFeed DEF Filter!Now, Running!Now, Filter!Start, Running!Start,
    Filter!Fill, Running!Fill, Filter!Forward, Running!Forward,
    Filter!EndOfInput, Running!EndOfInput, Filter!ToFlush, Running!ToFlush,
    Filter!Drain, Running!Drain, Filter!Pad, Running!Pad, Filter!Flush, Running!Flush,
    Filter!MoreToFlush, Running!MoreToFlush

-----------------------------------------------------------------------------
(* The machine that has been built.                                        *)

(* The counter of a run, its length in 1..BufferSize.                      *)
Count(r) == ((Running!Now - r[1]) % BufferSize) + 1

(* What the constructions leave.                                           *)
Construction ==
  /\ Copying!IInv /\ Copying!Done /\ counted = Copying!Result
  /\ Merging!IInv /\ Merging!Done /\ filterMachine = Merging!Result

LEMMA CopyingUnfolds ==
  ASSUME Construction
  PROVE  /\ \A s \in pattern.initial : \E i \in initialStates : states[i].old = s
         /\ \A i \in initialStates : states[i].old \in pattern.initial /\ states[i].count = 0
         /\ \A u \in next : \E t \in pattern.trans : Copying!IsCopy(u, t)
         /\ \A i \in DOMAIN states : \A t \in pattern.trans :
              t.at = states[i].old => \E u \in next : u.at = i /\ Copying!IsCopy(u, t)
<1>1. Copying!Unfolds
  BY BufferAssumption, Copying!IInvUnfolds DEF Construction
<1> QED
  BY <1>1 DEF Construction, Copying!Done, Copying!InitialCopied, Copying!Unfolds

LEMMA MergingDeterminizes ==
  ASSUME Construction
  PROVE  /\ 1 \in DOMAIN subsets
         /\ subsets[1] = initialStates
         /\ \A i \in DOMAIN subsets : subsets[i] \subseteq DOMAIN states
         /\ \A i \in DOMAIN subsets : dfaCounter[i] = Merging!CounterOf(subsets[i])
         /\ DOMAIN dfaCounter = DOMAIN subsets
         /\ \A k \in DOMAIN nextMap : nextMap[k] \in DOMAIN subsets
<1>1. Merging!Determinizes
  BY BufferAssumption, Merging!IInvDeterminizes DEF Construction
<1>2. counted.initial = initialStates /\ DOMAIN counted.counter = DOMAIN states
  BY DEF Construction, Copying!Result
<1>3. Merging!TypeOK
  BY DEF Construction, Merging!IInv
<1>4. \A i \in DOMAIN subsets : subsets[i] \subseteq DOMAIN states
  BY <1>2, <1>3, Merging!Element DEF Merging!TypeOK, Merging!Members
<1>5. 1 \in DOMAIN subsets
  <2>1. subsets # <<>> /\ subsets \in Seq(SUBSET Merging!Members)
    BY <1>3 DEF Construction, Merging!Done, Merging!TypeOK
  <2> QED
    BY <2>1
<1>6. DOMAIN dfaCounter = DOMAIN subsets
  BY <1>3 DEF Merging!TypeOK
<1>7. \A k \in DOMAIN nextMap : nextMap[k] \in DOMAIN subsets
  BY <1>3 DEF Merging!TypeOK
<1> QED
  BY <1>1, <1>2, <1>4, <1>5, <1>6, <1>7 DEF Construction, Merging!Determinizes

(* The state after a character is the subset of all that its members lead  *)
(* to and of the initial states, also where feed() has no transition.      *)
LEMMA SuccessorSubset ==
  ASSUME Construction, currentState \in DOMAIN subsets, NEW c, NEW q,
         q = Running!Successor(c)
  PROVE  /\ q \in DOMAIN subsets
         /\ subsets[q] =
              {u.to : u \in {v \in next : v.at \in subsets[currentState] /\ v.via = c}}
                \union initialStates
<1> DEFINE here == <<currentState, c>>
           reached == {u.to : u \in {v \in next : v.at \in subsets[currentState] /\ v.via = c}}
<1>1. /\ filterMachine.next = nextMap /\ filterMachine.initial = 1
      /\ counted.trans = next /\ counted.initial = initialStates
  BY DEF Construction, Merging!Result, Copying!Result
<1>2. q = IF here \in DOMAIN nextMap THEN nextMap[here] ELSE 1
  BY <1>1 DEF Running!Successor
<1>3. CASE here \in DOMAIN nextMap
  <2>1. Merging!Leads(currentState, c, nextMap[here])
    BY <1>3 DEF Construction, Merging!IInv, Merging!Merges
  <2>2. c \in DOMAIN Merging!MergedNext(subsets[currentState])
    BY <2>1 DEF Merging!Leads
  <2>3. subsets[q] = Merging!MergedNext(subsets[currentState])[c]
    BY <1>2, <1>3, <2>1 DEF Merging!Leads
  <2>4. Merging!MergedNext(subsets[currentState])[c] = reached \union initialStates
    BY <1>1, <2>2 DEF Merging!MergedNext
  <2> QED
    BY <1>2, <1>3, <2>3, <2>4, MergingDeterminizes
<1>4. CASE here \notin DOMAIN nextMap
  <2>1. DOMAIN subsets = 1 .. dfaVisited /\ DOMAIN mergedNext = {}
    <3>1. subsets \in Seq(SUBSET Merging!Members) /\ dfaVisited = Len(subsets)
      BY DEF Construction, Merging!Done, Merging!IInv, Merging!TypeOK
    <3> QED
      BY <3>1 DEF Construction, Merging!Done
  <2>2. c \notin DOMAIN Merging!MergedNext(subsets[currentState])
    BY <1>4, <2>1 DEF Construction, Merging!IInv, Merging!Merges
  <2>3. reached = {}
    BY <1>1, <2>2 DEF Merging!MergedNext
  <2> QED
    BY <1>2, <1>4, <2>3, MergingDeterminizes
<1> QED
  BY <1>3, <1>4

(* What the counter of a state shows.                                      *)
LEMMA CounterShows ==
  ASSUME Construction, NEW q \in DOMAIN subsets, NEW n, n = filterMachine.counter[q]
  PROVE  /\ n \in 0 .. BufferSize
         /\ \A i \in subsets[q] :
              /\ states[i].old \in pattern.match => states[i].count =< n
              /\ states[i].count = BufferSize => n = BufferSize
         /\ n = 0 \/ \E i \in subsets[q] :
                       /\ n = states[i].count
                       /\ states[i].old \in pattern.match \/ n = BufferSize
<1>1. /\ filterMachine.counter = dfaCounter
      /\ counted.match = {i \in DOMAIN states : states[i].old \in pattern.match}
      /\ counted.counter = [i \in DOMAIN states |-> states[i].count]
  BY DEF Construction, Merging!Result, Copying!Result
<1>2. n = Merging!CounterOf(subsets[q]) /\ subsets[q] \subseteq DOMAIN states
  BY <1>1, MergingDeterminizes
<1>3. Merging!IsCounted(counted) /\ subsets[q] \subseteq Merging!Members
  BY <1>1, <1>2 DEF Construction, Merging!IInv, Merging!TypeOK, Merging!Members
<1>4. /\ n \in 0 .. BufferSize
      /\ \A i \in subsets[q] \intersect counted.match : counted.counter[i] =< n
      /\ \A i \in subsets[q] : counted.counter[i] = BufferSize => n = BufferSize
      /\ \/ n = 0
         \/ \E i \in subsets[q] : /\ n = counted.counter[i]
                                  /\ i \in counted.match \/ counted.counter[i] = BufferSize
  BY <1>2, <1>3, BufferAssumption, Merging!CounterOfBounds
<1>5. \A i \in subsets[q] : /\ counted.counter[i] = states[i].count
                            /\ i \in counted.match <=> states[i].old \in pattern.match
  BY <1>1, <1>2
<1> QED
  BY <1>4, <1>5

-----------------------------------------------------------------------------
(* The machine and the runs of the pattern.                                *)

(* The members of the current state are the runs that are alive, with      *)
(* their counters, and the initial states.                                 *)
Represents ==
  /\ \A r \in runs : r[1] \in 1 .. Running!Now
  /\ \A r \in runs : \E i \in subsets[currentState] :
       states[i].old = r[2] /\ states[i].count = Count(r)
  /\ \A i \in subsets[currentState] :
       \/ \E r \in runs : states[i].old = r[2] /\ states[i].count = Count(r)
       \/ states[i].old \in pattern.initial /\ states[i].count = 0
  /\ \A s \in pattern.initial : \E i \in subsets[currentState] :
       states[i].old = s /\ states[i].count = 0

(* What a run read before its counter began anew is visible, and all of it *)
(* when it has just matched or filled the buffer.                          *)
RunsShown ==
  \A r \in runs :
    /\ r[1] .. (Running!Now - Count(r)) \subseteq window
    /\ r[2] \in pattern.match \/ Count(r) = BufferSize
         => r[1] .. Running!Now \subseteq window

Bookkeeping ==
  /\ needed \subseteq window
  /\ window \subseteq suspected
  /\ suspected \subseteq 1 .. Running!Now

Follows == currentState \in DOMAIN subsets /\ Represents /\ RunsShown /\ Bookkeeping

(* The counter follows the length of a run, also when it begins anew.      *)
LEMMA CountOfNext ==
  ASSUME NEW now \in Nat, NEW first \in 1 .. now + 1
  PROVE  (((now + 1) - first) % BufferSize) + 1 =
           Copying!NextCount(IF first = now + 1 THEN 0
                             ELSE ((now - first) % BufferSize) + 1)
<1> BufferSize \in Nat \ {0}
  BY BufferAssumption
<1>1. CASE first = now + 1
  <2>1. 0 % BufferSize = 0
    OBVIOUS
  <2> QED
    BY <1>1, <2>1 DEF Copying!NextCount
<1>2. CASE first # now + 1
  <2> DEFINE a == now - first
  <2>1. a \in Nat /\ (now + 1) - first = a + 1
    BY <1>2
  <2>2. a % BufferSize \in 0 .. BufferSize - 1
    BY <2>1, RemainderInRange
  <2>3. (a + 1) % BufferSize =
          IF (a % BufferSize) + 1 = BufferSize THEN 0 ELSE (a % BufferSize) + 1
    BY <2>1, RemainderOfNext
  <2> QED
    BY <1>2, <2>1, <2>2, <2>3 DEF Copying!NextCount
<1> QED
  BY <1>1, <1>2

(* What Follow(c) does, run by run.                                        *)
LEMMA RunsFollow ==
  ASSUME NEW c, Follow(c), Running!Now \in Nat
  PROVE  /\ \A r \in runs' : \E t \in pattern.trans :
              /\ t.via = c /\ r[2] = t.to
              /\ \/ \E x \in runs : x[1] = r[1] /\ x[2] = t.at
                 \/ r[1] = Running!Now + 1 /\ t.at \in pattern.initial
         /\ \A x \in runs : \A t \in pattern.trans :
              t.via = c /\ t.at = x[2] => <<x[1], t.to>> \in runs'
         /\ \A t \in pattern.trans :
              t.via = c /\ t.at \in pattern.initial => <<Running!Now + 1, t.to>> \in runs'
<1> DEFINE n == Running!Now + 1
           extended == runs \union ({n} \X pattern.initial)
<1>1. runs' = {<<s[1][1], s[2].to>> :
                 s \in {x \in extended \X pattern.trans :
                          x[2].at = x[1][2] /\ x[2].via = c}}
  BY SameRunning DEF Follow
<1>2. ASSUME NEW x \in extended, NEW t \in pattern.trans, t.at = x[2], t.via = c
      PROVE  <<x[1], t.to>> \in runs'
  <2>1. <<x, t>> \in {y \in extended \X pattern.trans : y[2].at = y[1][2] /\ y[2].via = c}
    BY <1>2
  <2> HIDE DEF extended
  <2> QED
    BY <1>1, <2>1
<1>3. ASSUME NEW r \in runs'
      PROVE  \E x \in extended, t \in pattern.trans :
               t.at = x[2] /\ t.via = c /\ r = <<x[1], t.to>>
  <2> HIDE DEF extended
  <2> QED
    BY <1>1
<1>4. ASSUME NEW r \in runs'
      PROVE  \E t \in pattern.trans :
              /\ t.via = c /\ r[2] = t.to
              /\ \/ \E x \in runs : x[1] = r[1] /\ x[2] = t.at
                 \/ r[1] = n /\ t.at \in pattern.initial
  <2>1. PICK x \in extended, t \in pattern.trans :
               t.at = x[2] /\ t.via = c /\ r = <<x[1], t.to>>
    BY <1>3
  <2>2. CASE x \in runs
    BY <2>1, <2>2
  <2>3. CASE x \in {n} \X pattern.initial
    BY <2>1, <2>3
  <2> QED
    BY <2>2, <2>3
<1>5. ASSUME NEW t \in pattern.trans, t.via = c, t.at \in pattern.initial
      PROVE  <<n, t.to>> \in runs'
  <2>1. <<n, t.at>> \in extended
    BY <1>5
  <2> QED
    BY <1>2, <1>5, <2>1
<1> QED
  BY <1>2, <1>4, <1>5

(* One more character, fed to the machine and read by the runs.            *)
Advance(c) ==
  /\ Running!Feed(c) /\ Follow(c)
  /\ Running!Now \in Nat /\ Running!Now' = Running!Now + 1
  /\ states' = states /\ subsets' = subsets /\ pattern' = pattern

(* How a run of the pattern that is alive after c is found in the machine. *)
LEMMA RepresentsKept ==
  ASSUME Construction, Follows, NEW c, Advance(c)
  PROVE  currentState' \in DOMAIN subsets /\ Represents'
<1> DEFINE n == Running!Now  q == Running!Successor(c)
           here == subsets[currentState]
           count(x) == (((n + 1) - x) % BufferSize) + 1
<1> BufferSize \in Nat \ {0} /\ n \in Nat /\ Running!Now' = n + 1
  BY BufferAssumption DEF Advance
<1>1. currentState' = q /\ q \in DOMAIN subsets
  BY SuccessorSubset DEF Advance, Running!Feed, Follows
<1>2. subsets[q] = {u.to : u \in {v \in next : v.at \in here /\ v.via = c}} \union initialStates
  BY SuccessorSubset DEF Follows
<1>3. here \subseteq DOMAIN states
  BY MergingDeterminizes DEF Follows
<1>4. ASSUME NEW r PROVE Count(r)' = count(r[1])
  BY DEF Count, Advance
<1>12. \A x \in 1 .. n + 1 :
        count(x) = Copying!NextCount(IF x = n + 1 THEN 0 ELSE ((n - x) % BufferSize) + 1)
  BY CountOfNext
<1>5. ASSUME NEW r \in runs
      PROVE  r[1] \in 1 .. n /\ count(r[1]) = Copying!NextCount(Count(r))
  <2>1. r[1] \in 1 .. n
    BY DEF Follows, Represents
  <2>2. r[1] \in 1 .. n + 1 /\ r[1] # n + 1
    BY <2>1
  <2>3. count(r[1]) = Copying!NextCount(((n - r[1]) % BufferSize) + 1)
    <3> HIDE DEF count
    <3> QED
      BY <1>12, <2>2
  <2> QED
    BY <2>1, <2>3 DEF Count
<1>6. count(n + 1) = Copying!NextCount(0)
  <2>1. n + 1 \in 1 .. n + 1
    OBVIOUS
  <2> HIDE DEF count
  <2> QED
    BY <1>12, <2>1
<1> HIDE DEF n, q, here, count
<1>7. ASSUME NEW i \in here, NEW t \in pattern.trans, t.at = states[i].old, t.via = c
      PROVE  \E j \in subsets[q] :
               states[j] = [old |-> t.to, count |-> Copying!NextCount(states[i].count)]
  <2>1. PICK u \in next : u.at = i /\ Copying!IsCopy(u, t)
    BY <1>3, <1>7, CopyingUnfolds
  <2> QED
    BY <1>2, <1>7, <2>1 DEF Copying!IsCopy
<1>8. ASSUME NEW r \in runs'
      PROVE  /\ r[1] \in 1 .. n + 1
             /\ \E j \in subsets[q] : states[j].old = r[2] /\ states[j].count = count(r[1])
  <2>1. PICK t \in pattern.trans :
          /\ t.via = c /\ r[2] = t.to
          /\ \/ \E x \in runs : x[1] = r[1] /\ x[2] = t.at
             \/ r[1] = n + 1 /\ t.at \in pattern.initial
    BY <1>8, RunsFollow DEF Advance, n
  <2>2. CASE \E x \in runs : x[1] = r[1] /\ x[2] = t.at
    <3>1. PICK x \in runs : x[1] = r[1] /\ x[2] = t.at
      BY <2>2
    <3>2. PICK i \in here : states[i].old = t.at /\ states[i].count = Count(x)
      BY <3>1 DEF Follows, Represents, here
    <3>3. PICK j \in subsets[q] :
            states[j] = [old |-> t.to, count |-> Copying!NextCount(states[i].count)]
      BY <1>7, <2>1, <3>2
    <3> QED
      BY <1>5, <2>1, <3>1, <3>2, <3>3
  <2>3. CASE r[1] = n + 1 /\ t.at \in pattern.initial
    <3>1. PICK i \in here : states[i].old = t.at /\ states[i].count = 0
      BY <2>3 DEF Follows, Represents, here
    <3>2. PICK j \in subsets[q] :
            states[j] = [old |-> t.to, count |-> Copying!NextCount(states[i].count)]
      BY <1>7, <2>1, <3>1
    <3> QED
      BY <1>6, <2>1, <2>3, <3>1, <3>2
  <2> QED
    BY <2>1, <2>2, <2>3
<1>9. ASSUME NEW j \in subsets[q]
      PROVE  \/ \E r \in runs' : states[j].old = r[2] /\ states[j].count = count(r[1])
             \/ states[j].old \in pattern.initial /\ states[j].count = 0
  <2>1. CASE j \in initialStates
    BY <2>1, CopyingUnfolds
  <2>2. CASE \E u \in next : u.at \in here /\ u.via = c /\ j = u.to
    <3>1. PICK u \in next : u.at \in here /\ u.via = c /\ j = u.to
      BY <2>2
    <3>2. PICK t \in pattern.trans : Copying!IsCopy(u, t)
      BY CopyingUnfolds
    <3>3. /\ t.via = c /\ states[u.at].old = t.at
          /\ states[j].old = t.to
          /\ states[j].count = Copying!NextCount(states[u.at].count)
      BY <3>1, <3>2 DEF Copying!IsCopy
    <3>4. CASE \E x \in runs : states[u.at].old = x[2] /\ states[u.at].count = Count(x)
      <4>1. PICK x \in runs : states[u.at].old = x[2] /\ states[u.at].count = Count(x)
        BY <3>4
      <4>2. <<x[1], t.to>> \in runs'
        BY <3>3, <4>1, RunsFollow DEF Advance
      <4> QED
        BY <1>5, <3>3, <4>1, <4>2
    <3>5. CASE states[u.at].old \in pattern.initial /\ states[u.at].count = 0
      <4>1. <<n + 1, t.to>> \in runs'
        BY <3>3, <3>5, RunsFollow DEF Advance, n
      <4> QED
        BY <1>6, <3>3, <3>5, <4>1
    <3> QED
      BY <3>1, <3>4, <3>5 DEF Follows, Represents, here
  <2> QED
    BY <1>2, <2>1, <2>2
<1>10. \A s \in pattern.initial : \E j \in subsets[q] :
         states[j].old = s /\ states[j].count = 0
  BY <1>2, CopyingUnfolds
<1>11. states' = states /\ subsets' = subsets /\ pattern' = pattern
  BY DEF Advance
<1> QED
  BY <1>1, <1>4, <1>8, <1>9, <1>10, <1>11 DEF Represents

LEMMA CountInRange ==
  ASSUME NEW r, r[1] \in 1 .. Running!Now, Running!Now \in Nat
  PROVE  /\ Count(r) \in 1 .. BufferSize
         /\ Count(r) =< (Running!Now - r[1]) + 1
         /\ Count(r) = BufferSize <=> ((Running!Now - r[1]) + 1) % BufferSize = 0
<1> DEFINE a == Running!Now - r[1]
<1> BufferSize \in Nat \ {0} /\ a \in Nat
  BY BufferAssumption
<1> Count(r) = (a % BufferSize) + 1
  BY DEF Count
<1> HIDE DEF a
<1>1. a % BufferSize \in 0 .. BufferSize - 1
  BY RemainderInRange
<1>2. a % BufferSize =< a
  BY RemainderAtMost
<1>3. (a + 1) % BufferSize = IF (a % BufferSize) + 1 = BufferSize THEN 0 ELSE (a % BufferSize) + 1
  BY RemainderOfNext
<1> QED
  BY <1>1, <1>2, <1>3 DEF a

LEMMA CountInRangePrimed ==
  ASSUME NEW r, (r[1] \in 1 .. Running!Now)', (Running!Now \in Nat)'
  PROVE  (/\ Count(r) \in 1 .. BufferSize
          /\ Count(r) =< (Running!Now - r[1]) + 1
          /\ Count(r) = BufferSize <=> ((Running!Now - r[1]) + 1) % BufferSize = 0)'
BY CountInRange, PTL

(* The same for the runs after c, and what became of the counters.         *)
LEMMA CountOfAdvance ==
  ASSUME Construction, Follows, NEW c, Advance(c), NEW r \in runs'
  PROVE  /\ r[1] \in 1 .. Running!Now + 1
         /\ Count(r)' \in 1 .. BufferSize
         /\ Count(r)' =< ((Running!Now + 1) - r[1]) + 1
         /\ Count(r)' = BufferSize <=> (((Running!Now + 1) - r[1]) + 1) % BufferSize = 0
         /\ \/ r[1] = Running!Now + 1
            \/ \E x \in runs : /\ x[1] = r[1]
                               /\ Count(r)' = Copying!NextCount(Count(x))
<1> DEFINE n == Running!Now
<1> BufferSize \in Nat \ {0} /\ n \in Nat /\ Running!Now' = n + 1
  BY BufferAssumption DEF Advance
<1>1. r[1] \in 1 .. n + 1
  <2>1. (r[1] \in 1 .. Running!Now)'
    BY RepresentsKept DEF Represents
  <2> QED
    BY <2>1
<1>2. /\ Count(r)' \in 1 .. BufferSize
      /\ Count(r)' =< ((n + 1) - r[1]) + 1
      /\ Count(r)' = BufferSize <=> (((n + 1) - r[1]) + 1) % BufferSize = 0
  <2>1. (Running!Now \in Nat)'
    OBVIOUS
  <2>2. (r[1] \in 1 .. Running!Now)'
    BY <1>1
  <2>3. (/\ Count(r) \in 1 .. BufferSize
         /\ Count(r) =< (Running!Now - r[1]) + 1
         /\ Count(r) = BufferSize <=> ((Running!Now - r[1]) + 1) % BufferSize = 0)'
    BY <2>1, <2>2, CountInRangePrimed
  <2> QED
    BY <2>3
<1>3. ASSUME r[1] # n + 1
      PROVE  \E x \in runs : x[1] = r[1] /\ Count(r)' = Copying!NextCount(Count(x))
  <2>1. PICK x \in runs : x[1] = r[1]
    BY <1>3, RunsFollow DEF Advance
  <2>2. Count(r)' = (((n + 1) - r[1]) % BufferSize) + 1
    BY DEF Count
  <2>3. Count(x) = ((n - r[1]) % BufferSize) + 1
    BY <2>1 DEF Count
  <2>4. (((n + 1) - r[1]) % BufferSize) + 1 =
           Copying!NextCount(((n - r[1]) % BufferSize) + 1)
    <3> HIDE DEF n
    <3> QED
      BY <1>1, <1>3, CountOfNext
  <2>5. Count(r)' = Copying!NextCount(Count(x))
    BY <2>2, <2>3, <2>4
  <2> QED
    BY <2>1, <2>5
<1> QED
  BY <1>1, <1>2, <1>3

(* The state after c shows what the runs that are alive after it need, and *)
(* shows nothing else.                                                     *)
LEMMA ShownKept ==
  ASSUME Construction, Follows, NEW c, Advance(c)
  PROVE  RunsShown' /\ Bookkeeping'
<1> DEFINE n == Running!Now  q == Running!Successor(c)  m == filterMachine.counter[q]
<1> BufferSize \in Nat \ {0} /\ n \in Nat /\ Running!Now' = n + 1
  BY BufferAssumption DEF Advance
<1>1. /\ window' = window \union ((n - m) + 2) .. (n + 1)
      /\ currentState' = q /\ pattern' = pattern /\ states' = states /\ subsets' = subsets
  BY DEF Advance, Running!Feed
<1>2. q \in DOMAIN subsets /\ Represents'
  BY <1>1, RepresentsKept
<1>3. /\ m \in 0 .. BufferSize
      /\ \A i \in subsets[q] :
           /\ states[i].old \in pattern.match => states[i].count =< m
           /\ states[i].count = BufferSize => m = BufferSize
      /\ m = 0 \/ \E i \in subsets[q] :
                    /\ m = states[i].count
                    /\ states[i].old \in pattern.match \/ m = BufferSize
  BY <1>2, CounterShows
<1> HIDE DEF q, m, n
<1>4. ASSUME NEW r \in runs'
      PROVE  /\ r[1] \in 1 .. n + 1
             /\ Count(r)' \in 1 .. BufferSize
             /\ Count(r)' =< ((n + 1) - r[1]) + 1
             /\ Count(r)' = BufferSize <=> (((n + 1) - r[1]) + 1) % BufferSize = 0
             /\ \/ r[1] = n + 1
                \/ \E x \in runs : x[1] = r[1] /\ Count(r)' = Copying!NextCount(Count(x))
  BY <1>4, CountOfAdvance DEF n
<1>5. ASSUME NEW r \in runs' PROVE r[1] .. ((n + 1) - Count(r)') \subseteq window'
  <2>1. CASE r[1] = n + 1
    BY <1>4, <2>1
  <2>2. ASSUME NEW x \in runs, x[1] = r[1], Count(r)' = Copying!NextCount(Count(x))
        PROVE  r[1] .. ((n + 1) - Count(r)') \subseteq window'
    <3>1. /\ x[1] .. (n - Count(x)) \subseteq window
          /\ Count(x) = BufferSize => x[1] .. n \subseteq window
      BY DEF Follows, RunsShown, n
    <3>2. Count(x) \in 1 .. BufferSize
      BY CountInRange DEF Follows, Represents, n
    <3>3. CASE Count(x) = BufferSize
      BY <1>1, <2>2, <3>1, <3>3 DEF Copying!NextCount
    <3>4. CASE Count(x) # BufferSize
      <4>1. (n + 1) - Count(r)' = n - Count(x)
        BY <2>2, <3>2, <3>4 DEF Copying!NextCount
      <4> QED
        BY <1>1, <2>2, <3>1, <4>1
    <3> QED
      BY <3>3, <3>4
  <2> QED
    BY <1>4, <2>1, <2>2
<1>6. ASSUME NEW r \in runs', r[2] \in pattern.match \/ Count(r)' = BufferSize
      PROVE  r[1] .. (n + 1) \subseteq window'
  <2>1. PICK i \in subsets[q] : states[i].old = r[2] /\ states[i].count = Count(r)'
    BY <1>1, <1>2 DEF Represents
  <2>2. Count(r)' =< m
    BY <1>3, <1>4, <1>6, <2>1
  <2>3. ASSUME NEW p \in r[1] .. (n + 1) PROVE p \in window'
    <3>1. p \in r[1] .. ((n + 1) - Count(r)') \/ p \in ((n - m) + 2) .. (n + 1)
      BY <1>3, <1>4, <2>2
    <3> QED
      BY <1>1, <1>5, <3>1
  <2> QED
    BY <2>3
<1>7. RunsShown'
  BY <1>1, <1>5, <1>6 DEF RunsShown
<1>8. /\ needed' = needed \union UNION {r[1] .. (n + 1) : r \in {x \in runs' : x[2] \in pattern.match}}
      /\ suspected' = suspected \union
           UNION {r[1] .. (n + 1) : r \in {x \in runs' :
             \/ x[2] \in pattern.match
             \/ (((n + 1) - x[1]) + 1) % BufferSize = 0}}
  BY SameRunning DEF Advance, Follow, n
<1>9. needed' \subseteq window'
  <2>1. needed \subseteq window'
    BY <1>1 DEF Follows, Bookkeeping
  <2>2. ASSUME NEW r \in runs', r[2] \in pattern.match PROVE r[1] .. (n + 1) \subseteq window'
    BY <1>6, <2>2
  <2> QED
    BY <1>8, <2>1, <2>2
<1>10. window' \subseteq suspected'
  <2>1. window \subseteq suspected'
    BY <1>8 DEF Follows, Bookkeeping
  <2>2. ASSUME NEW p \in ((n - m) + 2) .. (n + 1) PROVE p \in suspected'
    <3>1. PICK i \in subsets[q] : /\ m = states[i].count
                                  /\ states[i].old \in pattern.match \/ m = BufferSize
      BY <1>3, <2>2
    <3>2. m # 0
      BY <2>2
    <3>3. PICK r \in runs' : states[i].old = r[2] /\ states[i].count = Count(r)'
      BY <1>1, <1>2, <3>1, <3>2 DEF Represents
    <3>4. p \in r[1] .. (n + 1)
      BY <1>3, <1>4, <2>2, <3>1, <3>3
    <3>5. r[2] \in pattern.match \/ (((n + 1) - r[1]) + 1) % BufferSize = 0
      BY <1>4, <3>1, <3>3
    <3> QED
      BY <1>8, <3>4, <3>5
  <2> QED
    BY <1>1, <2>1, <2>2
<1>11. suspected' \subseteq 1 .. (n + 1)
  <2>1. suspected \subseteq 1 .. (n + 1)
    BY DEF Follows, Bookkeeping, n
  <2>2. ASSUME NEW r \in runs' PROVE r[1] .. (n + 1) \subseteq 1 .. (n + 1)
    BY <1>4
  <2> QED
    BY <1>8, <2>1, <2>2
<1> QED
  BY <1>7, <1>9, <1>10, <1>11 DEF Bookkeeping

LEMMA FollowsKept ==
  ASSUME Construction, Follows, NEW c, Advance(c) PROVE Follows'
<1>1. subsets' = subsets
  BY DEF Advance
<1> QED
  BY <1>1, RepresentsKept, ShownKept DEF Follows

-----------------------------------------------------------------------------
(* The program, from the pattern on.                                       *)

Idle == Running!Start /\ runs = {} /\ needed = {} /\ suspected = {}

Ready == Copying!Done /\ Merging!Done

(***************************************************************************)
(* The inductive invariant.  Until the automaton with counters is complete *)
(* the second construction has not begun, until the machine is complete    *)
(* nothing was read, and from then on machine and runs follow each other.  *)
(***************************************************************************)
IInv ==
  /\ Copying!IInv /\ counted = Copying!Result
  /\ Merging!IInv /\ filterMachine = Merging!Result
  /\ ~Copying!Done => Merging!Start
  /\ ~Ready => Idle
  /\ Ready => Running!IInv /\ Follows

(* A construction that has returned does nothing more.                     *)
LEMMA CopyingStops == ASSUME Copying!IInv, Copying!Done PROVE ~Copying!Next
BY DEF Copying!Done, Copying!Next, Copying!AddInitial, Copying!Visit,
  Copying!CopiesToVisit, Copying!Redirect, Copying!InitialCopied,
  Copying!IInv, Copying!TypeOK, Copying!Phases

LEMMA MergingStops == ASSUME Merging!IInv, Merging!Done PROVE ~Merging!Next
BY DEF Merging!Done, Merging!Next, Merging!AddInitial, Merging!Visit,
  Merging!StatesToVisit, Merging!AddTransition, Merging!IInv, Merging!TypeOK

(* What the first construction makes is what the second one takes.         *)
LEMMA CountedIsCounted ==
  ASSUME Copying!IInv, counted = Copying!Result PROVE Merging!IsCounted(counted)
<1>1. ASSUME NEW i \in DOMAIN states PROVE states[i].count \in 0 .. BufferSize
  <2> DEFINE S == [old : Copying!Originals, count : 0 .. BufferSize]
  <2>1. states \in Seq(S)
    BY DEF Copying!IInv, Copying!TypeOK
  <2> HIDE DEF S
  <2>2. states[i] \in S
    BY <2>1
  <2> QED
    BY <2>2 DEF S
<1>2. initialStates \subseteq DOMAIN states
  BY DEF Copying!IInv, Copying!TypeOK
<1>3. ASSUME NEW u \in next PROVE u.at \in DOMAIN states /\ u.to \in DOMAIN states
  <2>1. next \subseteq [at : DOMAIN states, via : Copying!Vias, to : DOMAIN states]
    BY DEF Copying!IInv, Copying!TypeOK
  <2> QED
    BY <2>1
<1>4. /\ counted.counter = [i \in DOMAIN states |-> states[i].count]
      /\ counted.initial = initialStates /\ counted.trans = next
      /\ counted.match \subseteq DOMAIN states
  BY DEF Copying!Result
<1> QED
  BY <1>1, <1>2, <1>3, <1>4 DEF Merging!IsCounted

(* The machine that was made is one that feed() can run.                   *)
LEMMA MadeIsMachine ==
  ASSUME Construction PROVE Running!IsMachine(filterMachine)
<1>1. /\ filterMachine.counter = dfaCounter /\ filterMachine.initial = 1
      /\ filterMachine.next = nextMap
  BY DEF Construction, Merging!Result
<1>2. /\ dfaCounter \in Seq(0 .. BufferSize)
      /\ DOMAIN dfaCounter = DOMAIN subsets /\ 1 \in DOMAIN subsets
      /\ \A k \in DOMAIN nextMap : nextMap[k] \in DOMAIN subsets
  BY MergingDeterminizes DEF Construction, Merging!IInv, Merging!TypeOK
<1>3. dfaCounter \in [DOMAIN dfaCounter -> 0 .. BufferSize]
  <2> HIDE <1>2
  <2> DEFINE S == 0 .. BufferSize
  <2>1. dfaCounter \in Seq(S)
    BY <1>2
  <2> HIDE DEF S
  <2>2. dfaCounter \in [DOMAIN dfaCounter -> S]
    BY <2>1
  <2> QED
    BY <2>2 DEF S
<1> QED
  BY <1>1, <1>2, <1>3 DEF Running!IsMachine

(* Before anything is read, the machine stands in its initial state, and   *)
(* there is no run.                                                        *)
LEMMA BuiltStart ==
  ASSUME Construction, Idle PROVE Running!IInv /\ Follows
<1>1. Running!IInv
  BY BufferAssumption, MadeIsMachine, Running!StartIInv DEF Idle
<1>2. /\ currentState = 1 /\ window = {} /\ runs = {} /\ needed = {} /\ suspected = {}
  BY DEF Idle, Running!Start, Construction, Merging!Result
<1>3. 1 \in DOMAIN subsets /\ subsets[1] = initialStates
  BY MergingDeterminizes
<1>4. Represents
  BY <1>2, <1>3, CopyingUnfolds DEF Represents
<1>5. RunsShown /\ Bookkeeping
  BY <1>2 DEF RunsShown, Bookkeeping
<1> QED
  BY <1>1, <1>2, <1>3, <1>4, <1>5 DEF Follows

LEMMA BuiltStartPrimed ==
  ASSUME Construction', Idle' PROVE Running!IInv' /\ Follows'
BY BuiltStart, PTL

LEMMA CountedIsCountedPrimed ==
  ASSUME Copying!IInv', (counted = Copying!Result)' PROVE Merging!IsCounted(counted)'
BY CountedIsCounted, PTL

LEMMA MergingStart ==
  ASSUME Merging!IsCounted(counted), Merging!Start PROVE Merging!IInv
BY BufferAssumption, Merging!StartIInv

LEMMA MergingStartPrimed ==
  ASSUME Merging!IsCounted(counted)', Merging!Start' PROVE Merging!IInv'
BY MergingStart, PTL

LEMMA NotStartedNotDone == ASSUME Merging!Start PROVE ~Merging!Done
BY DEF Merging!Start, Merging!Done

LEMMA InitIInv == ASSUME Init PROVE IInv
<1>1. Copying!IInv /\ counted = Copying!Result
  BY BufferAssumption, SameCopying, Copying!StartIInv DEF Init
<1>2. Merging!Start /\ filterMachine = Merging!Result /\ Idle
  BY SameMerging, SameRunning DEF Init, Idle
<1>3. Merging!IInv
  BY <1>1, <1>2, CountedIsCounted, MergingStart
<1>4. ~Ready
  BY <1>2, NotStartedNotDone DEF Ready
<1> QED
  BY <1>1, <1>2, <1>3, <1>4 DEF IInv

LEMMA SameResultsPrimed ==
  (WithCounter!Result = Copying!Result /\ Determinized!Result = Merging!Result)'
<1>1. WithCounter!Result = Copying!Result /\ Determinized!Result = Merging!Result
  BY SameCopying, SameMerging
<1> QED
  BY <1>1, PTL

(* A step of the first construction.                                       *)
LEMMA AddCounterKeeps ==
  ASSUME IInv, AddCounter PROVE IInv'
<1>1. /\ Copying!Next /\ counted' = Copying!Result'
      /\ UNCHANGED <<machineVars, filterVars, history>>
  BY SameCopying, SameResultsPrimed DEF AddCounter
<1>2. Merging!Start /\ Idle /\ filterMachine = Merging!Result
  <2>1. ~Copying!Done
    BY <1>1, CopyingStops DEF IInv
  <2> QED
    BY <2>1 DEF IInv, Ready
<1>3. Copying!IInv'
  BY <1>1, BufferAssumption, Copying!StepIInv DEF IInv
<1>4. Merging!Start' /\ ~Merging!Done' /\ filterMachine' = Merging!Result'
  BY <1>1, <1>2 DEF Merging!Start, Merging!Done, Merging!Result, machineVars
<1>5. Merging!IInv'
  BY <1>1, <1>3, <1>4, CountedIsCountedPrimed, MergingStartPrimed
<1>6. Idle'
  BY <1>1, <1>2 DEF Idle, Running!Start, machineVars, filterVars, history
<1>7. ~Ready'
  BY <1>4 DEF Ready
<1> QED
  BY <1>1, <1>3, <1>4, <1>5, <1>6, <1>7 DEF IInv

(* A step of the second.  After the last one the machine is complete, and  *)
(* it has not moved.                                                       *)
LEMMA ToMooreMachineKeeps ==
  ASSUME IInv, ToMooreMachine PROVE IInv'
<1>1. /\ Copying!Done /\ Merging!Next /\ filterMachine' = Merging!Result'
      /\ UNCHANGED <<pattern, counterVars, filterVars, history>>
  BY SameCopying, SameMerging, SameResultsPrimed DEF ToMooreMachine
<1>2. Idle
  <2>1. ~Merging!Done
    BY <1>1, MergingStops DEF IInv
  <2> QED
    BY <2>1 DEF IInv, Ready
<1>3. Copying!IInv' /\ Copying!Done' /\ counted' = Copying!Result'
  <2>1. UNCHANGED Copying!vars
    BY <1>1 DEF Copying!vars, counterVars
  <2>2. Copying!IInv'
    BY <2>1, BufferAssumption, Copying!StepIInv DEF IInv
  <2>3. Copying!Done'
    BY <1>1, <2>1 DEF Copying!vars, Copying!Done, Copying!InitialCopied
  <2>4. counted' = Copying!Result'
    BY <1>1, <2>1 DEF Copying!vars, Copying!Result, IInv, counterVars
  <2> QED
    BY <2>2, <2>3, <2>4
<1>4. Merging!IInv'
  BY <1>1, BufferAssumption, Merging!StepIInv DEF IInv
<1>5. Idle'
  <2>1. filterMachine.initial = 1 /\ filterMachine'.initial = 1
    BY <1>1 DEF IInv, Merging!Result
  <2> QED
    BY <1>1, <1>2, <2>1 DEF Idle, Running!Start, filterVars, history
<1>6. Ready' => Running!IInv' /\ Follows'
  BY <1>1, <1>3, <1>4, <1>5, BuiltStartPrimed DEF Ready, Construction
<1> QED
  BY <1>1, <1>3, <1>4, <1>5, <1>6 DEF IInv

(* What the constructions left stays as it is.                             *)
LEMMA ConstructionStays ==
  ASSUME IInv, UNCHANGED <<pattern, counterVars, machineVars>>
  PROVE  /\ Copying!IInv' /\ counted' = Copying!Result'
         /\ Merging!IInv' /\ filterMachine' = Merging!Result'
         /\ Copying!Done' <=> Copying!Done
         /\ Merging!Done' <=> Merging!Done
         /\ Merging!Start' <=> Merging!Start
<1>1. UNCHANGED Copying!vars /\ UNCHANGED Merging!vars
  BY DEF Copying!vars, Merging!vars, counterVars, machineVars
<1>2. Copying!IInv'
  BY <1>1, BufferAssumption, Copying!StepIInv DEF IInv
<1>3. Merging!IInv'
  BY <1>1, BufferAssumption, Merging!StepIInv DEF IInv
<1>4. Copying!Done' <=> Copying!Done
  BY <1>1 DEF Copying!vars, Copying!Done, Copying!InitialCopied
<1>5. (Merging!Done' <=> Merging!Done) /\ (Merging!Start' <=> Merging!Start)
  BY <1>1 DEF Merging!vars, Merging!Done, Merging!Start
<1>6. counted' = Copying!Result'
  BY <1>1 DEF Copying!vars, Copying!Result, IInv, counterVars
<1>7. filterMachine' = Merging!Result'
  BY <1>1 DEF Merging!vars, Merging!Result, IInv, machineVars
<1> QED
  BY <1>2, <1>3, <1>4, <1>5, <1>6, <1>7

(* A character that is fed, from the input or to drain the buffer.         *)
LEMMA FeedingFollows ==
  ASSUME IInv, Ready, Same, Running!TypeOK, NEW c, Running!Feed(c), Follow(c),
         \/ \E d : word' = Append(word, d) /\ drained' = drained
         \/ word' = word /\ drained' = drained + 1
  PROVE  Follows'
<1>1. Construction /\ Follows
  BY DEF IInv, Ready, Construction
<1>2. Running!Now \in Nat /\ Running!Now' = Running!Now + 1
  <2>1. word \in Seq(Alphabet) /\ drained \in Nat
    BY DEF Running!TypeOK
  <2>2. Len(word) \in Nat
    BY <2>1
  <2>3. CASE \E d : word' = Append(word, d) /\ drained' = drained
    <3>1. Len(word') = Len(word) + 1
      BY <2>1, <2>3
    <3> QED
      BY <2>1, <2>2, <2>3, <3>1 DEF Running!Now
  <2>4. CASE word' = word /\ drained' = drained + 1
    BY <2>1, <2>2, <2>4 DEF Running!Now
  <2> QED
    BY <2>3, <2>4
<1>3. Advance(c)
  BY <1>2 DEF Advance, Same, counterVars, machineVars
<1> QED
  BY <1>1, <1>3, FollowsKept

(* A step of filter().                                                     *)
LEMMA RunningKeeps ==
  ASSUME Running!NoOverflow, IInv, Read \/ EndOfInput \/ Drain PROVE IInv'
<1>1. Ready /\ Same
  BY SameCopying, SameMerging DEF Read, EndOfInput, Drain, Built, Ready
<1>2. Running!IInv /\ Follows /\ Running!TypeOK
  BY <1>1 DEF IInv, Running!IInv
<1>3. /\ Copying!IInv' /\ counted' = Copying!Result'
      /\ Merging!IInv' /\ filterMachine' = Merging!Result'
      /\ Copying!Done' /\ Merging!Done'
  BY <1>1, ConstructionStays DEF Ready, Same
<1>4. CASE Read
  <2>1. PICK c \in Alphabet : (Running!Fill(c) \/ Running!Forward(c)) /\ Follow(c)
    BY <1>4, SameRunning DEF Read
  <2>2. Running!Next
    BY <1>4, <2>1 DEF Read, Running!Next, Running!Read
  <2>3. Running!IInv'
    BY <1>2, <2>2, BufferAssumption, Running!StepIInv
  <2>4. Running!Feed(c) /\ word' = Append(word, c) /\ drained' = drained
    BY <2>1 DEF Running!Fill, Running!Forward
  <2>5. Follows'
    BY <1>1, <1>2, <2>1, <2>4, FeedingFollows
  <2> QED
    BY <1>3, <2>3, <2>5 DEF IInv, Ready
<1>5. CASE EndOfInput
  <2>1. Running!EndOfInput /\ UNCHANGED history
    BY <1>5, SameRunning DEF EndOfInput
  <2>2. Running!IInv'
    BY <1>2, <2>1, BufferAssumption, Running!StepIInv DEF Running!Next
  <2>3. Follows'
    <3>1. /\ currentState' = currentState /\ word' = word /\ drained' = drained
          /\ window' = window /\ runs' = runs /\ needed' = needed
          /\ suspected' = suspected /\ states' = states /\ subsets' = subsets
          /\ pattern' = pattern
      BY <1>1, <2>1 DEF Running!EndOfInput, history, Same, counterVars, machineVars
    <3>2. Running!Now' = Running!Now /\ \A r : Count(r)' = Count(r)
      BY <3>1 DEF Running!Now, Count
    <3> QED
      BY <1>2, <3>1, <3>2 DEF Follows, Represents, RunsShown, Bookkeeping
  <2> QED
    BY <1>3, <2>2, <2>3 DEF IInv, Ready
<1>6. CASE Drain
  <2>1. Running!Drain /\ Follow(MaskChar)
    BY <1>6, SameRunning DEF Drain
  <2>2. Running!IInv'
    BY <1>2, <2>1, BufferAssumption, Running!StepIInv DEF Running!Next
  <2>3. Running!Feed(MaskChar) /\ word' = word /\ drained' = drained + 1
    BY <2>1 DEF Running!Drain, Running!Pad, Running!Flush
  <2>4. Follows'
    BY <1>1, <1>2, <2>1, <2>3, FeedingFollows
  <2> QED
    BY <1>3, <2>2, <2>4 DEF IInv, Ready
<1> QED
  BY <1>4, <1>5, <1>6

LEMMA StutterKeeps ==
  ASSUME Running!NoOverflow, IInv, UNCHANGED vars PROVE IInv'
<1>1. UNCHANGED <<pattern, counterVars, machineVars, filterVars, history>>
  BY DEF vars
<1>2. /\ Copying!IInv' /\ counted' = Copying!Result'
      /\ Merging!IInv' /\ filterMachine' = Merging!Result'
      /\ (Copying!Done' <=> Copying!Done) /\ (Merging!Done' <=> Merging!Done)
      /\ (Merging!Start' <=> Merging!Start)
  BY <1>1, ConstructionStays
<1>3. Ready' <=> Ready
  BY <1>2 DEF Ready
<1>4. Idle => Idle'
  BY <1>1 DEF Idle, Running!Start, machineVars, filterVars, history
<1>5. Running!IInv => Running!IInv'
  <2>1. UNCHANGED Running!vars
    BY <1>1 DEF Running!vars, Running!implVars, machineVars, filterVars
  <2> QED
    BY <2>1, BufferAssumption, Running!StepIInv
<1>6. Follows => Follows'
  <2>1. Running!Now' = Running!Now /\ \A r : Count(r)' = Count(r)
    BY <1>1 DEF Running!Now, Count, filterVars
  <2> QED
    BY <1>1, <2>1 DEF Follows, Represents, RunsShown, Bookkeeping,
      counterVars, machineVars, filterVars, history
<1> QED
  BY <1>2, <1>3, <1>4, <1>5, <1>6 DEF IInv

LEMMA InductiveInvariant == Running!NoOverflow => (Spec => []IInv)
<1>1. SUFFICES ASSUME Running!NoOverflow PROVE Spec => []IInv
  OBVIOUS
<1>2. Init => IInv
  BY InitIInv
<1>3. IInv /\ [Next]_vars => IInv'
  BY <1>1, AddCounterKeeps, ToMooreMachineKeeps, RunningKeeps, StutterKeeps DEF Next
<1> QED
  BY <1>2, <1>3, PTL DEF Spec

-----------------------------------------------------------------------------
(* The theorems.                                                           *)

LEMMA BuiltIsReady == Built <=> Ready
BY SameCopying, SameMerging DEF Built, Ready

(* What is printed, with what the runs say of it.                          *)
LEMMA Printed ==
  ASSUME IInv
  PROVE  /\ needed \subseteq window /\ window \subseteq suspected
         /\ suspected \subseteq 1 .. Running!Now
         /\ \A p \in DOMAIN out :
              /\ out[p] = IF p \in window THEN word[p] ELSE MaskChar
              /\ word[p] \in Alphabet
<1>1. CASE Ready
  <2>1. Bookkeeping /\ Running!FaithfulOutput /\ Running!TypeOK
    BY <1>1 DEF IInv, Follows, Running!IInv
  <2>2. ASSUME NEW p \in DOMAIN out PROVE p \in 1 .. Len(out) /\ p \in DOMAIN word
    BY <2>1 DEF Running!TypeOK, Running!FaithfulOutput
  <2>3. ASSUME NEW p \in DOMAIN out PROVE word[p] \in Alphabet
    BY <2>1, <2>2 DEF Running!TypeOK
  <2> QED
    BY <2>1, <2>2, <2>3 DEF Bookkeeping, Running!FaithfulOutput
<1>2. CASE ~Ready
  BY <1>2 DEF IInv, Idle, Running!Start
<1> QED
  BY <1>1, <1>2

(* The machine that was made is one that feed() can run, and the runs that *)
(* are followed began at characters that were fed.                         *)
THEOREM TypeCorrect == Running!NoOverflow => (Spec => []TypeOK)
<1>1. ASSUME IInv PROVE TypeOK
  <2>1. Built => Filter!IsMachine(filterMachine) /\ currentState \in DOMAIN subsets
    <3>1. SUFFICES ASSUME Built PROVE Filter!IsMachine(filterMachine) /\ currentState \in DOMAIN subsets
      OBVIOUS
    <3>2. Construction /\ Follows
      BY <1>1, <3>1, BuiltIsReady DEF IInv, Ready, Construction
    <3>3. Running!IsMachine(filterMachine)
      BY <3>2, MadeIsMachine
    <3> QED
      BY <3>2, <3>3 DEF Running!IsMachine, Filter!IsMachine, Follows
  <2>2. \A r \in runs : r[1] \in 1 .. Filter!Now
    BY <1>1, SameRunning DEF IInv, Idle, Follows, Represents
  <2>3. needed \subseteq suspected /\ suspected \subseteq 1 .. Filter!Now
    BY <1>1, Printed, SameRunning
  <2> QED
    BY <2>1, <2>2, <2>3 DEF TypeOK
<1> QED
  BY <1>1, InductiveInvariant, PTL

(* The state of the machine is the set of the runs that are alive.         *)
THEOREM StateFollowsRuns == Running!NoOverflow => (Spec => []StateIsRuns)
<1>1. ASSUME IInv, Built
      PROVE  {<<states[i].old, states[i].count>> : i \in subsets[currentState]} =
               {<<r[2], Count(r)>> : r \in runs} \union (pattern.initial \X {0})
  <2>1. Represents
    BY <1>1, BuiltIsReady DEF IInv, Follows
  <2>2. ASSUME NEW i \in subsets[currentState]
        PROVE  <<states[i].old, states[i].count>> \in
                 {<<r[2], Count(r)>> : r \in runs} \union (pattern.initial \X {0})
    BY <2>1 DEF Represents
  <2>3. ASSUME NEW r \in runs
        PROVE  <<r[2], Count(r)>> \in
                 {<<states[i].old, states[i].count>> : i \in subsets[currentState]}
    BY <2>1 DEF Represents
  <2>4. ASSUME NEW s \in pattern.initial
        PROVE  <<s, 0>> \in
                 {<<states[i].old, states[i].count>> : i \in subsets[currentState]}
    BY <2>1 DEF Represents
  <2> QED
    BY <2>2, <2>3, <2>4
<1>2. IInv => StateIsRuns
  BY <1>1, SameRunning DEF StateIsRuns, Count
<1> QED
  BY <1>2, InductiveInvariant, PTL

(* However long the match, and whatever the size of the buffer, none of    *)
(* its characters is masked.                                               *)
THEOREM NoMatchIsLost == Running!NoOverflow => (Spec => []NoMatchLost)
<1>1. IInv => NoMatchLost
  BY Printed DEF NoMatchLost
<1> QED
  BY <1>1, InductiveInvariant, PTL

(* When the mask character cannot be read, what is shown is in a run that  *)
(* matched or filled the buffer.                                           *)
THEOREM OnlyRunsAreShown ==
  Running!NoOverflow /\ MaskChar \notin Alphabet => (Spec => []ShownForARun)
<1>1. SUFFICES ASSUME Running!NoOverflow, MaskChar \notin Alphabet
      PROVE  Spec => []ShownForARun
  OBVIOUS
<1>2. IInv => ShownForARun
  BY <1>1, Printed DEF ShownForARun
<1>3. Spec => []IInv
  BY <1>1, InductiveInvariant
<1> QED
  BY <1>2, <1>3, PTL

-----------------------------------------------------------------------------
(* What PatternFilter promises of the file.                                *)

(* The edges of a file are the transitions of its pattern.                 *)
LEMMA MatchesReaches ==
  ASSUME NEW f \in Files, NEW S, NEW w \in Seq(S), Matches(f, w)
  PROVE  \E v \in StatesAfter(ConvNFA(f).trans, ConvNFA(f).initial, w) :
           v \in ConvNFA(f).match
<1> DEFINE L == Len(w)
           edges == Range(f.edges)
           trans == ConvNFA(f).trans
           initial == ConvNFA(f).initial
           along(vs, a) == {e.target : e \in {d \in edges : d.label = a /\ d.source \in vs}}
           Solves(r) == r = [n \in 0 .. L |->
                               IF n = 0 THEN {v \in DOMAIN f.vertices : f.vertices[v].init}
                               ELSE along(r[n - 1], w[n])]
           reached == CHOOSE r : Solves(r)
<1>1. /\ trans = {[at |-> e.source, via |-> e.label, to |-> e.target] : e \in edges}
      /\ initial = {v \in DOMAIN f.vertices : f.vertices[v].init}
      /\ ConvNFA(f).match = {v \in DOMAIN f.vertices : f.vertices[v].match}
  BY DEF ConvNFA, Initial, Matching
<1>2. \A vs, a : along(vs, a) = Successors(trans, vs, a)
  <2> SUFFICES ASSUME NEW vs, NEW a PROVE along(vs, a) = Successors(trans, vs, a)
    OBVIOUS
  <2>1. ASSUME NEW e \in edges, e.label = a, e.source \in vs
        PROVE  e.target \in Successors(trans, vs, a)
    <3>1. [at |-> e.source, via |-> e.label, to |-> e.target] \in trans
      BY <1>1
    <3> HIDE DEF trans, edges
    <3> QED
      BY <2>1, <3>1 DEF Successors
  <2>2. ASSUME NEW t \in trans, t.at \in vs, t.via = a PROVE t.to \in along(vs, a)
    BY <1>1, <2>2
  <2> HIDE DEF trans, edges
  <2> QED
    BY <2>1, <2>2 DEF Successors
<1>3. \E v \in reached[L] : f.vertices[v].match
  BY DEF Matches
<1>4. L \in Nat
  OBVIOUS
<1> HIDE DEF L, edges, trans, initial, along
<1>5. PICK r : /\ r[0] = initial
               /\ \A n \in 1 .. L : r[n] = Successors(trans, r[n - 1], w[n])
               /\ StatesAfter(trans, initial, w) = r[L]
  BY StatesAfterIterates DEF L
<1>6. Solves(reached)
  <2> DEFINE q == [n \in 0 .. L |-> r[n]]
  <2>1. \A n \in 0 .. L : q[n] = IF n = 0 THEN initial ELSE along(q[n - 1], w[n])
    <3>1. ASSUME NEW n \in 1 .. L PROVE q[n] = along(q[n - 1], w[n])
      <4>1. n - 1 \in 0 .. L /\ n \in 0 .. L
        BY <1>4
      <4> QED
        BY <1>2, <1>5, <4>1
    <3>2. q[0] = initial
      BY <1>4, <1>5
    <3>3. \A n \in 0 .. L : n = 0 \/ n \in 1 .. L
      BY <1>4
    <3> HIDE DEF q
    <3> QED
      BY <1>4, <3>1, <3>2, <3>3
  <2>2. q = [n \in 0 .. L |-> q[n]]
    OBVIOUS
  <2> HIDE DEF q
  <2>3. Solves(q)
    BY <1>1, <2>1, <2>2
  <2> HIDE DEF Solves
  <2> QED
    BY <2>3
<1>7. reached[0] = initial /\ \A n \in 1 .. L : reached[n] = Successors(trans, reached[n - 1], w[n])
  <2> HIDE DEF reached
  <2>1. \A n \in 1 .. L : n \in 0 .. L /\ n # 0
    BY <1>4
  <2>2. 0 \in 0 .. L
    BY <1>4
  <2> QED
    BY <1>1, <1>2, <1>6, <2>1, <2>2
<1> HIDE DEF reached
<1> DEFINE D == {n \in 0 .. L : reached[n] = r[n]}
<1>8. L \in D
  <2>1. 0 \in D
    BY <1>4, <1>5, <1>7
  <2>2. ASSUME NEW n \in 0 .. L - 1, n \in D PROVE n + 1 \in D
    <3>1. n + 1 \in 1 .. L /\ n + 1 \in 0 .. L /\ (n + 1) - 1 = n
      BY <1>4
    <3> QED
      BY <1>5, <1>7, <2>2, <3>1
  <2> HIDE DEF D
  <2>3. \A n \in 0 .. L : n \in D
    BY <1>4, <2>1, <2>2, InductionToBound
  <2> QED
    BY <1>4, <2>3
<1>9. \A n \in 0 .. L : r[n] \subseteq DOMAIN f.vertices
  <2> DEFINE V == {n \in 0 .. L : r[n] \subseteq DOMAIN f.vertices}
  <2>1. 0 \in V
    BY <1>1, <1>4, <1>5
  <2>2. \A t \in trans : t.to \in DOMAIN f.vertices
    BY <1>1, FilesAssumption DEF IsGraph, edges
  <2>3. ASSUME NEW n \in 0 .. L - 1, n \in V PROVE n + 1 \in V
    <3>1. n + 1 \in 1 .. L /\ n + 1 \in 0 .. L
      BY <1>4
    <3> QED
      BY <1>5, <2>2, <3>1 DEF Successors
  <2> HIDE DEF V
  <2>4. \A n \in 0 .. L : n \in V
    BY <1>4, <2>1, <2>3, InductionToBound
  <2> QED
    BY <2>4 DEF V
<1>10. PICK v \in r[L] : f.vertices[v].match
  BY <1>3, <1>8
<1>11. v \in DOMAIN f.vertices
  BY <1>4, <1>9
<1> QED
  BY <1>1, <1>5, <1>10, <1>11 DEF trans, initial

(* While the word is read, every state that one of its suffixes leads to   *)
(* is that of a run.                                                       *)
RunsCover ==
  \A i \in 1 .. Len(word) + 1 :
    \A s \in StatesAfter(pattern.trans, pattern.initial, SubSeq(word, i, Len(word))) :
      IF i =< Len(word) THEN <<i, s>> \in runs ELSE s \in pattern.initial

(***************************************************************************)
(* What the promise needs beyond IInv: the positions that a match of the   *)
(* file takes in the word so far are among those the runs ask for, also    *)
(* when the buffer is drained and the runs have read more than the word.   *)
(***************************************************************************)
Keeps ==
  /\ file \in Files /\ pattern = ConvNFA(file)
  /\ phase = "reading" => RunsCover
  /\ Promise!Matched(word) \subseteq needed

LEMMA InitKeeps == ASSUME Init PROVE Keeps
<1>1. word = <<>>
  BY DEF Init, Filter!Start
<1>2. RunsCover
  <2> SUFFICES ASSUME NEW i \in 1 .. Len(word) + 1,
                      NEW s \in StatesAfter(pattern.trans, pattern.initial, SubSeq(word, i, Len(word)))
               PROVE  i > Len(word) /\ s \in pattern.initial
    BY <1>1 DEF RunsCover
  <2>1. Len(word) = 0 /\ i = 1
    BY <1>1
  <2> DEFINE suffix == SubSeq(word, i, Len(word))
  <2>2. suffix = <<>>
    BY <1>1, <2>1
  <2>3. StatesAfter(pattern.trans, pattern.initial, <<>>) = pattern.initial
    BY StatesAfterNothing
  <2>4. s \in StatesAfter(pattern.trans, pattern.initial, suffix)
    OBVIOUS
  <2> HIDE DEF suffix
  <2>5. s \in pattern.initial
    BY <2>2, <2>3, <2>4
  <2> QED
    BY <2>1, <2>5
<1>3. Promise!Matched(word) = {}
  BY <1>1 DEF Promise!Matched
<1> QED
  BY <1>2, <1>3 DEF Init, Keeps

(* One more character c of the word.                                       *)
LEMMA ReadKeeps ==
  ASSUME Keeps, phase = "reading", drained = 0, word \in Seq(Alphabet),
         NEW c \in Alphabet, Follow(c), word' = Append(word, c),
         UNCHANGED <<file, pattern, phase>>
  PROVE  Keeps'
<1> DEFINE L == Len(word)
           After(i) == StatesAfter(pattern.trans, pattern.initial, SubSeq(word, i, L))
           Later(i) == StatesAfter(pattern.trans, pattern.initial, SubSeq(word', i, L + 1))
<1>1. L \in Nat /\ Len(word') = L + 1 /\ word' \in Seq(Alphabet) /\ Running!Now = L
  BY DEF Running!Now
<1>2. ASSUME NEW i \in 1 .. L + 1 PROVE Later(i) = Successors(pattern.trans, After(i), c)
  <2> DEFINE r == SubSeq(word, i, L)
  <2>1. r \in Seq(Alphabet) /\ SubSeq(word', i, L + 1) = Append(r, c)
    BY SuffixOfAppend
  <2> HIDE DEF r
  <2>2. StatesAfter(pattern.trans, pattern.initial, Append(r, c)) =
          Successors(pattern.trans, StatesAfter(pattern.trans, pattern.initial, r), c)
    BY <2>1, StatesAfterAppend
  <2> QED
    BY <2>1, <2>2 DEF r
<1>3. ASSUME NEW i \in 1 .. L + 1, NEW s \in Later(i) PROVE <<i, s>> \in runs'
  <2>1. PICK t \in pattern.trans : t.at \in After(i) /\ t.via = c /\ t.to = s
    BY <1>2, <1>3 DEF Successors
  <2>2. CASE i =< L
    <3>1. <<i, t.at>> \in runs
      BY <2>1, <2>2 DEF Keeps, RunsCover
    <3>2. \A x \in runs : t.at = x[2] => <<x[1], t.to>> \in runs'
      BY <1>1, <2>1, RunsFollow
    <3> QED
      BY <2>1, <3>1, <3>2
  <2>3. CASE i = L + 1
    <3>1. t.at \in pattern.initial
      <4>1. i \in 1 .. Len(word) + 1 /\ ~(i =< Len(word))
        BY <1>1, <2>3
      <4> QED
        BY <2>1, <4>1 DEF Keeps, RunsCover
    <3> QED
      BY <1>1, <2>1, <2>3, <3>1, RunsFollow
  <2> QED
    BY <1>1, <2>2, <2>3
<1> HIDE DEF After, Later
<1>4. RunsCover'
  <2> SUFFICES ASSUME NEW i \in 1 .. L + 2,
                      NEW s \in StatesAfter(pattern.trans, pattern.initial, SubSeq(word', i, L + 1))
               PROVE  IF i =< L + 1 THEN <<i, s>> \in runs' ELSE s \in pattern.initial
    <3>1. Len(word') = L + 1 /\ Len(word') + 1 = L + 2
      BY <1>1
    <3> HIDE DEF L
    <3> QED
      BY <3>1 DEF RunsCover
  <2>1. CASE i \in 1 .. L + 1
    BY <1>1, <1>3, <2>1 DEF Later
  <2>2. CASE i = L + 2
    <3>1. SubSeq(word', i, L + 1) = <<>>
      <4> HIDE DEF L
      <4> QED
        BY <1>1, <2>2
    <3>2. StatesAfter(pattern.trans, pattern.initial, <<>>) = pattern.initial
      BY StatesAfterNothing
    <3>3. ~(i =< L + 1)
      BY <1>1, <2>2
    <3> QED
      BY <3>1, <3>2, <3>3
  <2> QED
    BY <1>1, <2>1, <2>2
<1>5. needed' = needed \union UNION {r[1] .. (L + 1) : r \in {x \in runs' : x[2] \in pattern.match}}
  BY <1>1, SameRunning DEF Follow
<1>6. ASSUME NEW i \in 1 .. L + 1, NEW j \in i .. L + 1, Matches(file, SubSeq(word', i, j))
      PROVE  i .. j \subseteq needed'
  <2>1. CASE j = L + 1
    <3> DEFINE w == SubSeq(word', i, j)
    <3>1. w \in Seq(Alphabet)
      <4>1. SubSeq(word, i, L) \in Seq(Alphabet)
        BY SuffixOfAppend
      <4>2. w = Append(SubSeq(word, i, L), c)
        BY <2>1, SuffixOfAppend
      <4> QED
        BY <4>1, <4>2
    <3>2. \E v \in StatesAfter(ConvNFA(file).trans, ConvNFA(file).initial, w) :
             v \in ConvNFA(file).match
      <4> HIDE DEF w
      <4>1. Matches(file, w)
        BY <1>6 DEF w
      <4> QED
        BY <3>1, <4>1, MatchesReaches DEF Keeps
    <3>3. PICK v \in Later(i) : v \in pattern.match
      BY <2>1, <3>2 DEF Keeps, Later
    <3>4. <<i, v>> \in runs'
      BY <1>3
    <3> QED
      BY <1>5, <2>1, <3>3, <3>4
  <2>2. CASE j # L + 1
    <3>1. i \in 1 .. L /\ j \in i .. L
      BY <1>1, <2>2
    <3>2. SubSeq(word', i, j) = SubSeq(word, i, j)
      BY <3>1, InfixOfAppend
    <3>3. i .. j \subseteq Promise!Matched(word)
      <4>1. Matches(file, SubSeq(word, i, j)) /\ i =< j
        BY <1>6, <3>1, <3>2
      <4>2. <<i, j>> \in (DOMAIN word) \X (DOMAIN word)
        <5>1. DOMAIN word = 1 .. L
          OBVIOUS
        <5> QED
          BY <1>1, <3>1, <5>1
      <4>3. <<i, j>> \in {ij \in (DOMAIN word) \X (DOMAIN word) :
               ij[1] =< ij[2] /\ Matches(file, SubSeq(word, ij[1], ij[2]))}
        BY <4>1, <4>2
      <4> QED
        BY <4>3 DEF Promise!Matched
    <3> QED
      BY <1>5, <3>3 DEF Keeps
  <2> QED
    BY <2>1, <2>2
<1>7. Promise!Matched(word)' \subseteq needed'
  <2> SUFFICES ASSUME NEW p \in Promise!Matched(word)' PROVE p \in needed'
    OBVIOUS
  <2>1. PICK ij \in (DOMAIN word') \X (DOMAIN word') :
          ij[1] =< ij[2] /\ Matches(file, SubSeq(word', ij[1], ij[2])) /\ p \in ij[1] .. ij[2]
    BY DEF Promise!Matched
  <2>2. DOMAIN word' = 1 .. L + 1
    BY <1>1
  <2>3. ij[1] \in 1 .. L + 1 /\ ij[2] \in ij[1] .. L + 1
    BY <1>1, <2>1, <2>2
  <2> QED
    BY <1>6, <2>1, <2>3
<1> QED
  BY <1>4, <1>7 DEF Keeps

(* Whatever is done without reading.                                       *)
LEMMA ElseKeeps ==
  ASSUME Keeps, UNCHANGED <<file, pattern, word>>, needed \subseteq needed',
         phase' = "reading" => phase = "reading" /\ runs' = runs
  PROVE  Keeps'
<1>1. RunsCover /\ runs' = runs => RunsCover'
  BY DEF RunsCover
<1>2. Promise!Matched(word)' = Promise!Matched(word)
  BY DEF Promise!Matched, Matches
<1> QED
  BY <1>1, <1>2 DEF Keeps

(* A step of the program, seen by its user.                                *)
LEMMA StepKeeps ==
  ASSUME Running!NoOverflow, IInv, Keeps, [Next]_vars
  PROVE  Keeps' /\ [Promise!Next]_<<file, Promise!vars>> /\ UNCHANGED file
<1>1. CASE AddCounter \/ ToMooreMachine \/ UNCHANGED vars
  <2>1. UNCHANGED <<file, pattern, filterVars, history>>
    <3>1. CASE AddCounter
      BY <3>1 DEF AddCounter, WithCounter!Next, WithCounter!AddInitial,
        WithCounter!Visit, WithCounter!Redirect
    <3>2. CASE ToMooreMachine
      BY <3>2 DEF ToMooreMachine
    <3>3. CASE UNCHANGED vars
      BY <3>3 DEF vars
    <3> QED
      BY <1>1, <3>1, <3>2, <3>3
  <2>2. UNCHANGED <<word, out, phase, needed, runs>>
    BY <2>1 DEF filterVars, history
  <2> QED
    BY <2>1, <2>2, ElseKeeps DEF Promise!vars
<1>2. CASE Read
  <2>1. PICK c \in Alphabet : (Running!Fill(c) \/ Running!Forward(c)) /\ Follow(c)
    BY <1>2, SameRunning DEF Read
  <2>2. Ready /\ Same
    BY <1>2, SameCopying, SameMerging DEF Read, Built, Ready
  <2>3. Running!IInv
    BY <2>2 DEF IInv
  <2>4. /\ phase = "reading" /\ word' = Append(word, c) /\ phase' = phase
        /\ drained = 0 /\ word \in Seq(Alphabet)
    BY <2>1, <2>3 DEF Running!Fill, Running!Forward, Running!IInv, Running!Accounting, Running!TypeOK
  <2>5. Keeps'
    BY <2>1, <2>2, <2>4, ReadKeeps DEF Same
  <2>6. Running!Delay!Receive
    BY <2>1, <2>3, BufferAssumption, Running!FillReceives, Running!ForwardReceives
  <2>7. Promise!Receive
    BY <2>6 DEF Running!Delay!Receive, Running!Delay!Emit, Promise!Receive, Promise!Emit
  <2> QED
    BY <2>2, <2>5, <2>7 DEF Promise!Next, Same
<1>3. CASE EndOfInput
  <2>1. Running!EndOfInput /\ UNCHANGED history /\ UNCHANGED <<file, pattern>>
    BY <1>3, SameRunning DEF EndOfInput, Same
  <2>2. Keeps'
    BY <2>1, ElseKeeps DEF Running!EndOfInput, history
  <2>3. Promise!Close
    BY <2>1 DEF Promise!Close, Running!EndOfInput
  <2> QED
    BY <2>1, <2>2, <2>3 DEF Promise!Next
<1>4. CASE Drain
  <2>1. Running!Drain /\ Follow(MaskChar) /\ UNCHANGED <<file, pattern>>
    BY <1>4, SameRunning DEF Drain, Same
  <2>2. word' = word /\ phase = "draining" /\ phase' = phase
    BY <2>1 DEF Running!Drain, Running!Pad, Running!Flush
  <2>3. Keeps'
    <3>1. needed \subseteq needed'
      BY <2>1 DEF Follow
    <3> QED
      BY <2>1, <2>2, <3>1, ElseKeeps
  <2>4. Ready
    BY <1>4, SameCopying, SameMerging DEF Drain, Built, Ready
  <2>5. CASE Running!Pad
    BY <2>1, <2>2, <2>3, <2>5 DEF Running!Pad, Promise!vars
  <2>6. CASE Running!Flush
    <3>1. Running!IInv
      BY <2>4 DEF IInv
    <3>2. Running!Delay!Empty
      BY <2>6, <3>1, BufferAssumption, Running!FlushEmpties
    <3>3. Promise!Empty
      BY <3>2 DEF Running!Delay!Empty, Running!Delay!Emit, Promise!Empty, Promise!Emit
    <3> QED
      BY <2>1, <2>3, <3>3 DEF Promise!Next
  <2> QED
    BY <2>1, <2>5, <2>6 DEF Running!Drain
<1> QED
  BY <1>1, <1>2, <1>3, <1>4 DEF Next

(* What a match needs is printed as it is.                                 *)
LEMMA KeepsShows == ASSUME IInv, Keeps PROVE Promise!Shows(out, word)
<1>1. ASSUME NEW p \in DOMAIN out, p \in Promise!Matched(word) PROVE out[p] = word[p]
  BY <1>1, Printed DEF Keeps
<1> QED
  BY <1>1 DEF Promise!Shows

LEMMA KeepsShowsPrimed == ASSUME IInv', Keeps' PROVE Promise!Shows(out, word)'
BY KeepsShows, PTL

(* For every file, every size of the buffer and every word, what the       *)
(* program does from reading the file to its last character is what        *)
(* PatternFilter promises: a masked copy of the word, in order, late by    *)
(* the buffer, in which no character of a match of the file is masked.     *)
THEOREM ImplementsPatternFilter ==
  Running!NoOverflow =>
    (Spec => Promise!FilterInit /\ [][Promise!FilterNext]_<<file, Promise!vars>>)
<1>1. SUFFICES ASSUME Running!NoOverflow
      PROVE  Spec => Promise!FilterInit /\ [][Promise!FilterNext]_<<file, Promise!vars>>
  OBVIOUS
<1>2. Init => Keeps /\ Promise!FilterInit
  <2> SUFFICES ASSUME Init PROVE Keeps /\ Promise!FilterInit
    OBVIOUS
  <2>1. file \in Files /\ word = <<>> /\ out = <<>> /\ phase = "reading"
    BY DEF Init, Filter!Start
  <2> QED
    BY <2>1, InitKeeps DEF Promise!FilterInit, Promise!Init
<1>3. IInv /\ Keeps /\ IInv' /\ [Next]_vars =>
        Keeps' /\ [Promise!FilterNext]_<<file, Promise!vars>>
  <2> SUFFICES ASSUME IInv, Keeps, IInv', [Next]_vars
               PROVE  Keeps' /\ [Promise!FilterNext]_<<file, Promise!vars>>
    OBVIOUS
  <2>1. Keeps' /\ [Promise!Next]_<<file, Promise!vars>> /\ UNCHANGED file
    BY <1>1, StepKeeps
  <2>2. Promise!Shows(out, word)'
    BY <2>1, KeepsShowsPrimed
  <2>3. Promise!Shows(out', word')
    BY <2>1, <2>2 DEF Promise!Shows, Promise!Matched
  <2> QED
    BY <2>1, <2>3 DEF Promise!FilterNext
<1>4. Spec => []IInv
  BY <1>1, InductiveInvariant
<1> QED
  BY <1>2, <1>3, <1>4, PTL DEF Spec

==============================================================================
