------------------------ MODULE ToTimedMooreMachine ------------------------
(***************************************************************************)
(* toTimedMooreMachine of src/timed_moore_machine.hh: the construction of  *)
(* the deterministic real-time machine from the timed automaton with       *)
(* counters.  A state stands for a multiset of configurations, pairs of a  *)
(* state of the automaton and a zone.  The successors of a state are       *)
(* collected by constructNexts, cut into pieces by linearlizeNexts (module *)
(* LinearizeNexts, instantiated below), and looked up or added.            *)
(*                                                                         *)
(* A zone is represented by its Tuple: ConstructNexts!CornerIgnored is why *)
(* the rest of the matrix has no influence.                                *)
(***************************************************************************)
EXTENDS TimedSteps, FiniteSets

CONSTANTS
  BufferSize,
  Counted,     \* the timed automata with counters the construction may be given
  MaxStates    \* bound on the number of states made

VARIABLES
  from,        \* [initial, match, counter, trans]: a transition is
               \* [at, via, guard, resetVars, to]
  states,      \* to.states with toOldStates: the configurations of each state
  toNewState,  \* multiset of configurations -> state
  counter,     \* to.counter
  nextMap,     \* <<state, character>> -> sequence of [bound, target]
  cursor,      \* the state whose transitions are being added
  nexts,       \* character -> vector of [conf, lower, upper]
  nextLineared \* sequence of [via, states, bound], grouped by characters

(* The local variables of the call of linearlizeNexts for a character.     *)
VARIABLES via, lowerVec, upperVec, currentStates, pieces, pc

machineVars == <<states, toNewState, counter, nextMap, cursor>>
linearVars == <<via, lowerVec, upperVec, currentStates, pieces, pc>>
vars == <<from, machineVars, nexts, nextLineared, linearVars>>

InitConfs == {<<s, Zero(Clocks)>> : s \in from.initial}

Linear == INSTANCE LinearizeNexts WITH
  Vectors <- {}, Initials <- {},
  nexts <- IF via \in DOMAIN nexts THEN nexts[via] ELSE <<>>,
  initConfs <- InitConfs,
  nextLineared <- pieces

-----------------------------------------------------------------------------

(* Faulty: a full buffer only counts when the run matches.                 *)
CounterOfMatches(confs) ==
  LET shown == {from.counter[c[1]] : c \in {d \in DOMAIN confs : d[1] \in from.match}}
  IN  CHOOSE n \in shown \union {0} : \A k \in shown : k =< n

CounterOf(confs) ==
  LET all == {c[1] : c \in DOMAIN confs}
      shown == {from.counter[s] : s \in all \intersect from.match}
  IN  IF \E s \in all : from.counter[s] = BufferSize
        THEN BufferSize
        ELSE CHOOSE n \in shown \union {0} : \A k \in shown : k =< n

Fresh == Len(states) + 1

(* Faulty: the counter of the state is not recorded.                       *)
AddNewStateUncounted(confs) ==
  /\ states' = Append(states, confs)
  /\ toNewState' = [k \in DOMAIN toNewState \union {confs} |->
                      IF k = confs THEN Fresh ELSE toNewState[k]]
  /\ UNCHANGED counter

(* addNewState stores the state under the multiset as it is.               *)
AddNewState(confs) ==
  /\ states' = Append(states, confs)
  /\ toNewState' = [k \in DOMAIN toNewState \union {confs} |->
                      IF k = confs THEN Fresh ELSE toNewState[k]]
  /\ counter' = Append(counter, CounterOf(confs))

Start ==
  /\ states = <<>> /\ toNewState = <<>> /\ counter = <<>> /\ nextMap = <<>>
  /\ cursor = 0
  /\ nexts = <<>> /\ nextLineared = <<>>
  /\ via = "none" /\ pc = "idle"
  /\ lowerVec = <<>> /\ upperVec = <<>>
  /\ currentStates = Linear!EmptyBag
  /\ pieces = <<>>

Init == from \in Counted /\ Start

AddInitial ==
  /\ states = <<>>
  /\ AddNewState(Linear!SetToBag(InitConfs))
  /\ UNCHANGED <<from, nextMap, cursor, nexts, nextLineared, linearVars>>

-----------------------------------------------------------------------------

(* The configuration and the durations by which a transition leads to it.  *)
NextConf(conf, t) ==
  LET duration == Duration(conf[2], t.guard)
  IN  [conf |-> <<t.to, Tuple(ResetAll(Guarded(conf[2], t.guard), t.resetVars))>>,
       lower |-> duration.lower, upper |-> duration.upper]

(* The elements of a finite set in some order.                             *)
Listed(S) ==
  LET rest[k \in 0 .. Cardinality(S)] ==
        IF k = 0 THEN S ELSE rest[k - 1] \ {CHOOSE x \in rest[k - 1] : TRUE}
  IN  [k \in 1 .. Cardinality(S) |-> CHOOSE x \in rest[k - 1] : TRUE]

(* constructNexts(s): every copy of a configuration gives its successors.  *)
(* A character has an entry even if no guard can be met.                   *)
ConstructNexts(confs) ==
  LET leaving == {p \in (DOMAIN confs) \X from.trans : p[2].at = p[1][1]}
      met(c) == {p \in leaving : /\ p[2].via = c
                                 /\ IsSatisfiable(Clocks, Guarded(p[1][2], p[2].guard))}
      copies(c) == UNION {{p} \X (1 .. confs[p[1]]) : p \in met(c)}
      vector(ps) == [i \in DOMAIN ps |-> NextConf(ps[i][1][1], ps[i][1][2])]
  IN  [c \in {p[2].via : p \in leaving} |-> vector(Listed(copies(c)))]

Idle == nexts = <<>> /\ nextLineared = <<>> /\ pc = "idle"

(* Turn to the next state.                                                 *)
Visit ==
  /\ Idle
  /\ cursor < Len(states)
  /\ cursor' = cursor + 1
  /\ nexts' = ConstructNexts(states[cursor + 1])
  /\ UNCHANGED <<from, states, toNewState, counter, nextMap, nextLineared, linearVars>>

(* linearlizeNexts takes the characters in some order.  LinearizeNexts has *)
(* every order in which std::sort may leave equal bounds, and they make    *)
(* the same of the vector; here one of them is enough.                     *)
Linearize ==
  /\ pc = "idle"
  /\ \E c \in DOMAIN nexts :
       /\ via' = c
       /\ lowerVec' = Linear!LowerOrder(nexts[c])
       /\ upperVec' = Linear!UpperOrder(nexts[c])
  /\ currentStates' = Linear!SetToBag(InitConfs)
  /\ pieces' = <<>>
  /\ pc' = "zero"
  /\ UNCHANGED <<from, machineVars, nexts, nextLineared>>

Sweep ==
  /\ pc \in {"zero", "sweep"}
  /\ UNCHANGED <<from, machineVars, nexts, nextLineared, via>>
  /\ Linear!Next

Swept ==
  /\ pc = "done"
  /\ nextLineared' = nextLineared \o
       [i \in DOMAIN pieces |->
          [via |-> via, states |-> pieces[i].states, bound |-> pieces[i].bound]]
  /\ nexts' = [c \in DOMAIN nexts \ {via} |-> nexts[c]]
  /\ via' = "none" /\ pc' = "idle"
  /\ lowerVec' = <<>> /\ upperVec' = <<>>
  /\ currentStates' = Linear!EmptyBag
  /\ pieces' = <<>>
  /\ UNCHANGED <<from, machineVars>>

-----------------------------------------------------------------------------

(* The key that a multiset is looked up by: without the duplicates.        *)
Key(confs) == Linear!SetToBag(DOMAIN confs)

(***************************************************************************)
(* Add the transition for one piece.  A state made for a multiset with     *)
(* duplicates is stored under a key that is never looked up.               *)
(***************************************************************************)
AddTransition ==
  /\ pc = "idle" /\ nexts = <<>> /\ nextLineared # <<>>
  /\ LET piece == Head(nextLineared)
         found == Key(piece.states) \in DOMAIN toNewState
         target == IF found THEN toNewState[Key(piece.states)] ELSE Fresh
         here == <<cursor, piece.via>>
         before == IF here \in DOMAIN nextMap THEN nextMap[here] ELSE <<>>
     IN  /\ IF found THEN UNCHANGED <<states, toNewState, counter>>
                     ELSE Len(states) < MaxStates /\ AddNewState(piece.states)
         /\ nextMap' = [k \in DOMAIN nextMap \union {here} |->
                          IF k = here
                            THEN Append(before, [bound |-> piece.bound, target |-> target])
                            ELSE nextMap[k]]
  /\ nextLineared' = Tail(nextLineared)
  /\ UNCHANGED <<from, cursor, nexts, linearVars>>

Next == AddInitial \/ Visit \/ Linearize \/ Sweep \/ Swept \/ AddTransition

Spec == Init /\ [][Next]_vars

(* toTimedMooreMachine has returned.                                       *)
Done == states # <<>> /\ Idle /\ cursor = Len(states)

(***************************************************************************)
(* DRTAState::next and the fall back of feed(): the target of the first    *)
(* piece whose bound is not below the duration.                            *)
(***************************************************************************)
Below(bound, t) ==
  /\ bound[1] # Infinity
  /\ Parts * bound[1] < t \/ (Parts * bound[1] = t /\ ~bound[2])

(* Faulty: std::upper_bound.                                               *)
SuccessorAbove(q, c, t) ==
  IF <<q, c>> \notin DOMAIN nextMap THEN 1
  ELSE LET row == nextMap[<<q, c>>]
           found == {i \in DOMAIN row : \/ row[i].bound[1] = Infinity
                                       \/ Parts * row[i].bound[1] > t}
       IN  row[CHOOSE i \in found : \A j \in found : i =< j].target

Successor(q, c, t) ==
  IF <<q, c>> \notin DOMAIN nextMap THEN 1
  ELSE LET row == nextMap[<<q, c>>]
           found == {i \in DOMAIN row : ~Below(row[i].bound, t)}
       IN  row[CHOOSE i \in found : \A j \in found : i =< j].target

-----------------------------------------------------------------------------
(* Properties.                                                             *)

Members == DOMAIN from.counter
Characters == {t.via : t \in from.trans}

TypeOK ==
  /\ \A i \in DOMAIN states : \A c \in DOMAIN states[i] : c[1] \in Members
  /\ counter \in Seq(0 .. BufferSize) /\ Len(counter) = Len(states)
  /\ \A k \in DOMAIN toNewState : toNewState[k] \in DOMAIN states
  /\ DOMAIN nextMap \subseteq (1 .. cursor) \X Characters
  /\ \A k \in DOMAIN nextMap :
       \A i \in DOMAIN nextMap[k] : nextMap[k][i].target \in DOMAIN states
  /\ cursor \in 0 .. Len(states)

(* A state is made only when there is none with its configurations: no two *)
(* states have the same ones.                                              *)
OneStateEach ==
  \A i, j \in DOMAIN states : i # j => DOMAIN states[i] # DOMAIN states[j]

(* linearlizeNexts is given what it depends on and LinearizeNexts assumes: *)
(* intervals that contain a duration, and configurations that are not      *)
(* initial, at which useLowerFront would return without progress.          *)
VectorsAreIntervals ==
  \A c \in DOMAIN nexts : \A i \in DOMAIN nexts[c] :
    Linear!IsElement(nexts[c][i]) /\ nexts[c][i].conf \notin InitConfs

(* A run that ended in state s of the automaton with the clock values p is *)
(* in a configuration of state q.                                          *)
Covers(q, s, p) == \E c \in DOMAIN states[q] : c[1] = s /\ In(p, c[2])

==============================================================================
