--------------------------- MODULE ToMooreMachine ---------------------------
(***************************************************************************)
(* toMooreMachine of src/moore_machine.hh: the subset construction from    *)
(* the automaton with counters to the deterministic machine that feed()    *)
(* runs.  The initial states are in every subset, so the machine starts a  *)
(* new run of the pattern at every character.                              *)
(***************************************************************************)
EXTENDS Words, FiniteSetsExt

CONSTANTS
  BufferSize,
  Counted,     \* the automata with counters the construction may be given
  WordLength   \* bound on the words the property ReadsSuffixes tries

ASSUME BufferSizeAssumption == BufferSize \in Nat \ {0} /\ WordLength \in Nat

(* An automaton as toAutomatonWithCounter leaves it.                       *)
IsCounted(a) ==
  /\ a.counter \in [DOMAIN a.counter -> 0 .. BufferSize]
  /\ a.initial \subseteq DOMAIN a.counter
  /\ a.match \subseteq DOMAIN a.counter
  /\ \A t \in a.trans : t.at \in DOMAIN a.counter /\ t.to \in DOMAIN a.counter

ASSUME CountedAssumption == \A a \in Counted : IsCounted(a)

(***************************************************************************)
(* A DFAState is identified by its position in to.states.                  *)
(***************************************************************************)
VARIABLES
  from,        \* [initial, match, counter, trans], as in module AddCounter
  subsets,     \* to.states with toOldStates: the subset of each DFAState
  toNewState,  \* subset -> DFAState
  counter,     \* to.counter
  nextMap,     \* <<DFAState, character>> -> DFAState, partial
  cursor,      \* the DFAState whose transitions are being added
  mergedNext   \* of those, the ones not yet added: character -> subset

vars == <<from, subsets, toNewState, counter, nextMap, cursor, mergedNext>>

-----------------------------------------------------------------------------

(* Faulty: every run counts, whether it matches or not.                    *)
CounterOfRuns(s) ==
  LET shown == {from.counter[q] : q \in s}
  IN  CHOOSE n \in shown \union {0} : \A k \in shown : k =< n

(* Faulty: the counters of the matching states are added up.               *)
CounterOfSum(s) ==
  FoldSet(LAMBDA q, n : n + from.counter[q], 0, s \intersect from.match)

(* Faulty: the shortest matching run decides.                              *)
CounterOfShortest(s) ==
  LET shown == {from.counter[q] : q \in s \intersect from.match}
  IN  IF \E q \in s : from.counter[q] = BufferSize
        THEN BufferSize
        ELSE IF shown = {} THEN 0 ELSE CHOOSE n \in shown : \A k \in shown : n =< k

(***************************************************************************)
(* The counter of a subset: a full buffer shows all of it, whatever the    *)
(* states; else the longest run of its matching states decides.            *)
(***************************************************************************)
CounterOf(s) ==
  LET shown == {from.counter[q] : q \in s \intersect from.match}
  IN  IF \E q \in s : from.counter[q] = BufferSize
        THEN BufferSize
        ELSE CHOOSE n \in shown \union {0} : \A k \in shown : k =< n

Fresh == Len(subsets) + 1

(* Faulty: the counter of the state is not recorded.                       *)
AddNewStateUncounted(s) ==
  /\ subsets' = Append(subsets, s)
  /\ toNewState' = [k \in DOMAIN toNewState \union {s} |->
                      IF k = s THEN Fresh ELSE toNewState[k]]
  /\ UNCHANGED counter

(* addNewState(s), which also pushes the state on currStates: the states   *)
(* to be visited are those beyond the cursor.                              *)
AddNewState(s) ==
  /\ subsets' = Append(subsets, s)
  /\ toNewState' = [k \in DOMAIN toNewState \union {s} |->
                      IF k = s THEN Fresh ELSE toNewState[k]]
  /\ counter' = Append(counter, CounterOf(s))

Start ==
  /\ subsets = <<>>
  /\ toNewState = <<>>
  /\ counter = <<>>
  /\ nextMap = <<>>
  /\ cursor = 0
  /\ mergedNext = <<>>

Init == from \in Counted /\ Start

(* The first state is the initial one, and the one feed() starts from.     *)
AddInitial ==
  /\ subsets = <<>>
  /\ AddNewState(from.initial)
  /\ UNCHANGED <<from, nextMap, cursor, mergedNext>>

(* Faulty: no new run starts.                                              *)
MergedNextAlone(s) ==
  LET leaving == {t \in from.trans : t.at \in s}
  IN  [c \in {t.via : t \in leaving} |->
         {t.to : t \in {u \in leaving : u.via = c}}]

(* The transitions of the members of a subset, merged by character, each   *)
(* with the initial states added.                                          *)
MergedNext(s) ==
  LET leaving == {t \in from.trans : t.at \in s}
  IN  [c \in {t.via : t \in leaving} |->
         {t.to : t \in {u \in leaving : u.via = c}} \union from.initial]

(* Faulty: the last state is not visited.                                  *)
StatesBeforeLast == cursor + 1 < Len(subsets)

(* currStates is not empty.                                                *)
StatesToVisit == cursor < Len(subsets)

(* Turn to the next state.                                                 *)
Visit ==
  /\ mergedNext = <<>>
  /\ StatesToVisit
  /\ cursor' = cursor + 1
  /\ mergedNext' = MergedNext(subsets[cursor + 1])
  /\ UNCHANGED <<from, subsets, toNewState, counter, nextMap>>

(* Faulty: looks the subset up before the initial states are added.        *)
AddTransitionAnew ==
  \E c \in DOMAIN mergedNext :
    LET s == mergedNext[c]
        found == s \ from.initial \in DOMAIN toNewState
        target == IF found THEN toNewState[s \ from.initial] ELSE Fresh
        here == <<cursor, c>>
    IN  /\ IF found THEN UNCHANGED <<subsets, toNewState, counter>>
                    ELSE AddNewState(s)
        /\ nextMap' = [k \in DOMAIN nextMap \union {here} |->
                         IF k = here THEN target ELSE nextMap[k]]
        /\ mergedNext' = [d \in DOMAIN mergedNext \ {c} |-> mergedNext[d]]
        /\ UNCHANGED <<from, cursor>>

(* Faulty: a transition to a state that is there already is not recorded.  *)
AddTransitionToNew ==
  \E c \in DOMAIN mergedNext :
    LET s == mergedNext[c]
        found == s \in DOMAIN toNewState
        here == <<cursor, c>>
    IN  /\ IF found THEN UNCHANGED <<subsets, toNewState, counter, nextMap>>
                    ELSE /\ AddNewState(s)
                         /\ nextMap' = [k \in DOMAIN nextMap \union {here} |->
                                          IF k = here THEN Fresh ELSE nextMap[k]]
        /\ mergedNext' = [d \in DOMAIN mergedNext \ {c} |-> mergedNext[d]]
        /\ UNCHANGED <<from, cursor>>

(* Add one transition of the visited state, to a new state if there is     *)
(* none with its subset.  mergedNext is unordered.                         *)
AddTransition ==
  \E c \in DOMAIN mergedNext :
    LET s == mergedNext[c]
        found == s \in DOMAIN toNewState
        target == IF found THEN toNewState[s] ELSE Fresh
        here == <<cursor, c>>
    IN  /\ IF found THEN UNCHANGED <<subsets, toNewState, counter>>
                    ELSE AddNewState(s)
        /\ nextMap' = [k \in DOMAIN nextMap \union {here} |->
                         IF k = here THEN target ELSE nextMap[k]]
        /\ mergedNext' = [d \in DOMAIN mergedNext \ {c} |-> mergedNext[d]]
        /\ UNCHANGED <<from, cursor>>

Next == AddInitial \/ Visit \/ AddTransition

Spec == Init /\ [][Next]_vars /\ WF_vars(Next)

(* toMooreMachine has returned.                                            *)
Done == subsets # <<>> /\ mergedNext = <<>> /\ cursor = Len(subsets)

(* The part of *this that feed() reads.                                    *)
Result == [initial |-> 1, next |-> nextMap, counter |-> counter]

-----------------------------------------------------------------------------
(* Properties.                                                             *)

Members == DOMAIN from.counter
Characters == {t.via : t \in from.trans}

TypeOK ==
  /\ IsCounted(from)
  /\ subsets \in Seq(SUBSET Members)
  /\ counter \in Seq(0 .. BufferSize) /\ Len(counter) = Len(subsets)
  /\ DOMAIN toNewState \subseteq SUBSET Members
  /\ \A s \in DOMAIN toNewState : toNewState[s] \in DOMAIN subsets
  /\ DOMAIN nextMap \subseteq (DOMAIN subsets) \X Characters
  /\ \A k \in DOMAIN nextMap : nextMap[k] \in DOMAIN subsets
  /\ cursor \in 0 .. Len(subsets)
  /\ DOMAIN mergedNext \subseteq Characters
  /\ \A c \in DOMAIN mergedNext : mergedNext[c] \subseteq Members

(* Equal subsets are one state, in whatever order their members were       *)
(* merged: the vectors are compared after they were sorted and made        *)
(* unique.                                                                 *)
OneStateEach ==
  /\ DOMAIN toNewState = Range(subsets)
  /\ \A i \in DOMAIN subsets : toNewState[subsets[i]] = i

(* Every state has the transitions of its subset, each to the state of the *)
(* subset it leads to, whether that state was there before, was made for   *)
(* it or is the state itself; there are no others, and each state has the  *)
(* counter of its subset.                                                  *)
Determinizes ==
  Done =>
    /\ subsets[1] = from.initial
    /\ \A i \in DOMAIN subsets :
         /\ counter[i] = CounterOf(subsets[i])
         /\ \A c \in Characters :
              /\ <<i, c>> \in DOMAIN nextMap <=> c \in DOMAIN MergedNext(subsets[i])
              /\ <<i, c>> \in DOMAIN nextMap =>
                   subsets[nextMap[<<i, c>>]] = MergedNext(subsets[i])[c]

(* Where feed() goes: a character without a transition leads back to the   *)
(* initial state.                                                          *)
Reads(q, c) == IF <<q, c>> \in DOMAIN nextMap THEN nextMap[<<q, c>>] ELSE 1

(* Where it is after a word.                                               *)
StateAfter(w) ==
  LET state[n \in 0 .. Len(w)] == IF n = 0 THEN 1 ELSE Reads(state[n - 1], w[n])
  IN  state[Len(w)]

Words == UNION {[1 .. n -> Characters] : n \in 0 .. WordLength}

(* After every word the machine is in the state of all runs of the pattern *)
(* that started anywhere in the word and are still alive: those of every   *)
(* suffix, the empty one included.  Falling back to the initial state      *)
(* drops no run.                                                           *)
ReadsSuffixes ==
  Done =>
    \A w \in Words :
      subsets[StateAfter(w)] =
        UNION {StatesAfter(from.trans, from.initial, SubSeq(w, i, Len(w))) :
                 i \in 1 .. Len(w) + 1}

(* There are finitely many subsets, so the loop ends.                      *)
Terminates == <>Done

==============================================================================
