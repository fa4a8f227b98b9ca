----------------------------- MODULE AddCounter -----------------------------
(***************************************************************************)
(* toAutomatonWithCounter of src/add_counter.hh: the unfolding of an       *)
(* automaton with a counter of the characters its run has read.  The       *)
(* counter is 0 in the initial copies and then runs over 1..BufferSize     *)
(* cyclically, so that a match, or a full buffer, knows how many of the    *)
(* last characters belong to the run since the last full buffer.           *)
(*                                                                         *)
(* The source is a template over NFAState and TAState.  The automaton is a *)
(* record of its initial states, its matching states and its transitions   *)
(* [at, via, to]; via is the character, and for a timed automaton also the *)
(* guard and the resets, which the copies keep.                            *)
(***************************************************************************)
EXTENDS Words, Functions

CONSTANTS
  BufferSize,
  Automata,    \* the automata the construction may be given
  WordLength   \* bound on the words the property FollowsRuns tries

ASSUME BufferSizeAssumption == BufferSize \in Nat \ {0} /\ WordLength \in Nat

(***************************************************************************)
(* A copy is identified by its position in to.states, the order in which   *)
(* addNewState allocated it: the std::shared_ptr it returned.              *)
(***************************************************************************)
VARIABLES
  from,          \* the parameter of that name
  states,        \* to.states: the original and the counter of each copy
  initialStates, \* to.initialStates
  toNewState,    \* <<original, counter>> -> copy
  next,          \* the redirected transitions of the copies
  cursor,        \* the copy whose transitions are being redirected
  todo           \* those of its transitions that still lead to originals

vars == <<from, states, initialStates, toNewState, next, cursor, todo>>

-----------------------------------------------------------------------------

Start ==
  /\ states = <<>>
  /\ initialStates = {}
  /\ toNewState = <<>>
  /\ next = {}
  /\ cursor = 0
  /\ todo = {}

Init == from \in Automata /\ Start

(* The copy addNewState(s, c) returns is the next one.                     *)
Fresh == Len(states) + 1

(***************************************************************************)
(* addNewState(s, c): allocate a copy, record it in the map and push it on *)
(* to.states and on currStates.  The two vectors grow together and the     *)
(* loop takes the batches of currStates in order, so the copies still to   *)
(* be visited are those of to.states beyond the cursor.                    *)
(***************************************************************************)
AddNewState(s, c) ==
  /\ states' = Append(states, [old |-> s, count |-> c])
  /\ toNewState' = [k \in DOMAIN toNewState \union {<<s, c>>} |->
                      IF k = <<s, c>> THEN Fresh ELSE toNewState[k]]

(* One copy with counter 0 of each initial state, in the order given.      *)
AddInitial ==
  /\ cursor = 0
  /\ \E s \in from.initial :
       /\ \A i \in initialStates : states[i].old # s
       /\ AddNewState(s, 0)
       /\ initialStates' = initialStates \union {Fresh}
  /\ UNCHANGED <<from, next, cursor, todo>>

(* Faulty: the counter is not bounded by the buffer.                       *)
NextCountUnbounded(count) == count + 1

(* Faulty: the counter wraps to 0.                                         *)
NextCountModulo(count) == IF count = BufferSize THEN 0 ELSE count + 1

(* Faulty: the counter sticks at a full buffer.                            *)
NextCountSaturates(count) == IF count = BufferSize THEN count ELSE count + 1

NextCount(count) == IF count = BufferSize THEN 1 ELSE count + 1

(* Faulty: the last copy is not visited.                                   *)
CopiesBeforeLast == cursor + 1 < Len(states)

(* currStates is not empty.                                                *)
CopiesToVisit == cursor < Len(states)

(* Every initial state has its copy.                                       *)
InitialCopied == \A s \in from.initial : \E i \in initialStates : states[i].old = s

(* Turn to the next copy.  It was copied with the transitions of its       *)
(* original, and these lead to originals.                                  *)
Visit ==
  /\ InitialCopied
  /\ todo = {}
  /\ CopiesToVisit
  /\ cursor' = cursor + 1
  /\ todo' = {t \in from.trans : t.at = states[cursor + 1].old}
  /\ UNCHANGED <<from, states, initialStates, toNewState, next>>

(* Faulty: looks for the copy of the target with the present counter.      *)
RedirectStaleKey ==
  \E t \in todo :
    LET key == <<t.to, states[cursor].count>>
        found == key \in DOMAIN toNewState
        target == IF found THEN toNewState[key] ELSE Fresh
    IN  /\ IF found THEN UNCHANGED <<states, toNewState>>
                    ELSE AddNewState(t.to, NextCount(states[cursor].count))
        /\ next' = next \union {[at |-> cursor, via |-> t.via, to |-> target]}
        /\ todo' = todo \ {t}
        /\ UNCHANGED <<from, initialStates, cursor>>

(***************************************************************************)
(* Redirect one transition of the visited copy to the copy of its target   *)
(* with the next counter, which is made if there is none yet.  The map of  *)
(* the transitions is unordered.                                           *)
(***************************************************************************)
Redirect ==
  \E t \in todo :
    LET key == <<t.to, NextCount(states[cursor].count)>>
        found == key \in DOMAIN toNewState
        target == IF found THEN toNewState[key] ELSE Fresh
    IN  /\ IF found THEN UNCHANGED <<states, toNewState>>
                    ELSE AddNewState(key[1], key[2])
        /\ next' = next \union {[at |-> cursor, via |-> t.via, to |-> target]}
        /\ todo' = todo \ {t}
        /\ UNCHANGED <<from, initialStates, cursor>>

Next == AddInitial \/ Visit \/ Redirect

Spec == Init /\ [][Next]_vars /\ WF_vars(Next)

(* toAutomatonWithCounter has returned.                                    *)
Done ==
  /\ InitialCopied
  /\ todo = {}
  /\ cursor = Len(states)

(* The automaton in *to.  A copy matches when its original does.           *)
Result ==
  [initial |-> initialStates,
   match |-> {i \in DOMAIN states : states[i].old \in from.match},
   counter |-> [i \in DOMAIN states |-> states[i].count],
   trans |-> next]

-----------------------------------------------------------------------------
(* Properties.                                                             *)

Vias == {t.via : t \in from.trans}
Originals == from.initial \union {t.to : t \in from.trans}

TypeOK ==
  /\ states \in Seq([old : Originals, count : 0 .. BufferSize])
  /\ initialStates \subseteq DOMAIN states
  /\ DOMAIN toNewState \subseteq Originals \X (0 .. BufferSize)
  /\ \A k \in DOMAIN toNewState : toNewState[k] \in DOMAIN states
  /\ next \subseteq [at : DOMAIN states, via : Vias, to : DOMAIN states]
  /\ cursor \in 0 .. Len(states)
  /\ todo \subseteq from.trans

(* No pair of a state and a counter is copied twice, however many          *)
(* transitions lead to it and in whatever order they are met: the map      *)
(* holds exactly the copies made.                                          *)
OneCopyEach ==
  /\ DOMAIN toNewState = {<<s.old, s.count>> : s \in Range(states)}
  /\ \A k \in DOMAIN toNewState : \A i \in DOMAIN states :
       <<states[i].old, states[i].count>> = k <=> toNewState[k] = i

(* A run that has read something never has counter 0 again: construction   *)
(* of the timed machine only terminates because no transition comes back   *)
(* to a copy with counter 0 (timed_moore_machine.cc:81-84, 98-101).        *)
NeverBackToZero == \A t \in next : states[t.to].count > 0

(* u is what t becomes: it leads to the copy with the next counter.        *)
IsCopy(u, t) ==
  /\ u.via = t.via
  /\ states[u.at].old = t.at
  /\ states[u.to] = [old |-> t.to, count |-> NextCount(states[u.at].count)]

(* Every transition of every copy is redirected, also when its target was  *)
(* copied before or is the copy itself, and to the counter after that of   *)
(* the copy it leaves; there are no others.                                *)
Unfolds ==
  Done =>
    /\ \A i \in initialStates : states[i].old \in from.initial /\ states[i].count = 0
    /\ \A u \in next : \E t \in from.trans : IsCopy(u, t)
    /\ \A i \in DOMAIN states : \A t \in from.trans :
         t.at = states[i].old => \E u \in next : u.at = i /\ IsCopy(u, t)

Words == UNION {[1 .. n -> Vias] : n \in 0 .. WordLength}

(* The unfolding follows the runs of the original, and its counter is the  *)
(* length of the run, taken in 1..BufferSize: on every word the copies it  *)
(* reaches are those of the states the original reaches, all with the      *)
(* counter of that length.                                                 *)
FollowsRuns ==
  Done =>
    \A w \in Words :
      LET length == Len(w)
          count == IF length = 0 THEN 0 ELSE ((length - 1) % BufferSize) + 1
      IN  {<<states[i].old, states[i].count>> :
              i \in StatesAfter(next, initialStates, w)}
            = StatesAfter(from.trans, from.initial, w) \X {count}

(* There are only BufferSize + 1 copies of a state, so the loop ends.      *)
Terminates == <>Done

==============================================================================
