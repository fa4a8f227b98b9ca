--------------------------- MODULE LinearizeNexts ---------------------------
(***************************************************************************)
(* linearlizeNexts of src/timed_moore_machine.cc for one character c, and  *)
(* DRTAState::next of src/automata.hh, which reads what it makes.          *)
(*                                                                         *)
(* Each of the configurations that a state of the timed machine can reach  *)
(* by c is reached by the durations of an interval.  The intervals overlap *)
(* arbitrarily.  The function sweeps over their ends and cuts the time     *)
(* line into pieces, each labelled with the multiset of the configurations *)
(* of the intervals that contain it and of the initial configurations, so  *)
(* that the machine can look its successor up by the duration.             *)
(***************************************************************************)
EXTENDS Bounds, Sequences, FiniteSets, Bags, Functions

CONSTANTS
  Vectors,     \* the vectors nexts[c] the function may be given
  Initials     \* the sets of initial configurations it may be given

(***************************************************************************)
(* Durations and bounds are compared in halves, so that durations between  *)
(* two constants exist.                                                    *)
(***************************************************************************)
Below(bound, half) ==
  /\ bound[1] # Infinity
  /\ 2 * bound[1] < half \/ (2 * bound[1] = half /\ ~bound[2])

(* The interval of an element contains a duration.                         *)
Within(e, half) ==
  /\ -2 * e.lower[1] < half \/ (-2 * e.lower[1] = half /\ e.lower[2])
  /\ ~Below(e.upper, half)

(* What constructNexts makes: an interval of durations has a finite lower  *)
(* bound, negated, and contains a positive duration.                       *)
IsElement(e) ==
  /\ e.lower \in (1 - Infinity .. 0) \X BOOLEAN
  /\ e.upper \in ((0 .. Infinity - 1) \X BOOLEAN) \union {Unbounded}
  /\ \E half \in 1 .. 2 * Infinity : Within(e, half)

(* An initial configuration has read nothing; its counter is 0 and that of *)
(* a successor is not.                                                     *)
ASSUME VectorsAssumption ==
  \A s \in Vectors :
    /\ s \in Seq(Range(s))
    /\ \A i \in DOMAIN s :
         IsElement(s[i]) /\ \A confs \in Initials : s[i].conf \notin confs

VARIABLES
  nexts,          \* nexts[c]: [conf, lower, upper] in some order
  initConfs,      \* the initial configurations, which are distinct
  lowerVec,       \* the places of those whose lower end is ahead, in order
  upperVec,       \* the places of those whose upper end is ahead, in order
  currentStates,  \* the multiset of configurations at the sweep
  nextLineared,   \* the pieces made: [states, bound]
  pc

vars == <<nexts, initConfs, lowerVec, upperVec, currentStates, nextLineared, pc>>

-----------------------------------------------------------------------------

(* Faulty: the lower bounds are left negated.                              *)
NegatedNot(bound) == bound

(* Lower bounds come negated, as bounds of a difference to the clock 0.    *)
Negated(bound) == <<-bound[1], bound[2]>>

lowers == [i \in DOMAIN nexts |-> Negated(nexts[i].lower)]
uppers == [i \in DOMAIN nexts |-> nexts[i].upper]

(* Faulty: by increasing negated lower bound.                              *)
ByLowerReversed(s, i, j) == ~Less(s[j].lower, s[i].lower)

(***************************************************************************)
(* By decreasing negated lower bound: by the lower end, and of two equal   *)
(* ones the end that is attained first.                                    *)
(***************************************************************************)
ByLower(s, i, j) == ~Less(s[i].lower, s[j].lower)
ByUpper(s, i, j) == ~Less(s[j].upper, s[i].upper)

(* The orders std::sort may leave, with equal bounds in any order.         *)
LowerOrders(s) ==
  {o \in Bijection(DOMAIN s, DOMAIN s) :
     \A i, j \in DOMAIN s : i < j => ByLower(s, o[i], o[j])}
UpperOrders(s) ==
  {o \in Bijection(DOMAIN s, DOMAIN s) :
     \A i, j \in DOMAIN s : i < j => ByUpper(s, o[i], o[j])}

(* One of them each, with equal bounds in the order of the vector.         *)
LowerOrder(s) ==
  LET before(i) == {j \in DOMAIN s : ByLower(s, j, i) /\ (ByLower(s, i, j) => j < i)}
  IN  [k \in DOMAIN s |-> CHOOSE i \in DOMAIN s : Cardinality(before(i)) = k - 1]
UpperOrder(s) ==
  LET before(i) == {j \in DOMAIN s : ByUpper(s, j, i) /\ (ByUpper(s, i, j) => j < i)}
  IN  [k \in DOMAIN s |-> CHOOSE i \in DOMAIN s : Cardinality(before(i)) = k - 1]

Init ==
  /\ nexts \in Vectors
  /\ initConfs \in Initials
  /\ lowerVec \in LowerOrders(nexts)
  /\ upperVec \in UpperOrders(nexts)
  /\ currentStates = SetToBag(initConfs)
  /\ nextLineared = <<>>
  /\ pc = "zero"

-----------------------------------------------------------------------------

(* The bag of the configurations at the places in is.                      *)
Confs(is) ==
  [c \in {nexts[i].conf : i \in is} |-> Cardinality({i \in is : nexts[i].conf = c})]

(***************************************************************************)
(* How many elements share the bound of the front.  useLowerFront and      *)
(* useUpperFront take them off the deque one by one and return at the      *)
(* first that is an initial configuration, which they leave at the front.  *)
(***************************************************************************)
Taken(o, bounds) ==
  LET taken == {k \in 0 .. Len(o) :
                  \A i \in 1 .. k : /\ bounds[o[i]] = bounds[o[1]]
                                    /\ nexts[o[i]].conf \notin initConfs}
  IN  CHOOSE k \in taken : \A l \in taken : l =< k

Batch(o, bounds) == {o[i] : i \in 1 .. Taken(o, bounds)}
Rest(o, bounds) == SubSeq(o, Taken(o, bounds) + 1, Len(o))

(* Add the configurations of a batch; remove one copy of each.             *)
AfterLower(states) == states (+) Confs(Batch(lowerVec, lowers))
AfterUpper(states) == states (-) Confs(Batch(upperVec, uppers))

UseLower == lowerVec' = Rest(lowerVec, lowers)
UseUpper == upperVec' = Rest(upperVec, uppers)

Piece(states, bound) == [states |-> states, bound |-> bound]

lower == lowers[Head(lowerVec)]
upper == uppers[Head(upperVec)]

BeginsAtZero == AtMost(lower, <<0, TRUE>>)

(* The intervals that begin at 0 are open before the sweep starts.         *)
Zero ==
  /\ pc = "zero"
  /\ IF lowerVec # <<>> /\ BeginsAtZero
       THEN /\ UseLower
            /\ currentStates' = AfterLower(currentStates)
            /\ UNCHANGED pc
       ELSE pc' = "sweep" /\ UNCHANGED <<lowerVec, currentStates>>
  /\ UNCHANGED <<nexts, initConfs, upperVec, nextLineared>>

Sweeping == pc = "sweep" /\ lowerVec # <<>>

(* Faulty: the end before the next interval keeps its attainment.          *)
BeforeLowerKept == lower

(* The end of what lies before the next interval begins.                   *)
BeforeLower == <<lower[1], ~lower[2]>>

(* The next end is the beginning of an interval.                           *)
SweepLower ==
  /\ Sweeping
  /\ lower[1] < upper[1]
  /\ nextLineared' = Append(nextLineared, Piece(currentStates, BeforeLower))
  /\ UseLower
  /\ currentStates' = AfterLower(currentStates)
  /\ UNCHANGED <<nexts, initConfs, upperVec, pc>>

(* Faulty: an end comes before a beginning at the same constant.           *)
SweepUpperEarly ==
  /\ Sweeping
  /\ lower[1] >= upper[1]
  /\ nextLineared' = Append(nextLineared, Piece(currentStates, upper))
  /\ UseUpper
  /\ currentStates' = AfterUpper(currentStates)
  /\ UNCHANGED <<nexts, initConfs, lowerVec, pc>>

(* The next end is the end of an interval.                                 *)
SweepUpper ==
  /\ Sweeping
  /\ lower[1] > upper[1]
  /\ nextLineared' = Append(nextLineared, Piece(currentStates, upper))
  /\ UseUpper
  /\ currentStates' = AfterUpper(currentStates)
  /\ UNCHANGED <<nexts, initConfs, lowerVec, pc>>

(* Faulty: only an attained beginning is looked for.                       *)
SweepAdjacentClosed ==
  /\ Sweeping
  /\ lower[1] = upper[1]
  /\ lower[2] /\ ~upper[2]
  /\ nextLineared' = Append(nextLineared, Piece(currentStates, upper))
  /\ UseUpper
  /\ UseLower
  /\ currentStates' = AfterLower(AfterUpper(currentStates))
  /\ UNCHANGED <<nexts, initConfs, pc>>

(* One interval ends where the next begins.                                *)
SweepAdjacent ==
  /\ Sweeping
  /\ lower[1] = upper[1]
  /\ lower[2] # upper[2]
  /\ nextLineared' = Append(nextLineared, Piece(currentStates, upper))
  /\ UseUpper
  /\ UseLower
  /\ currentStates' = AfterLower(AfterUpper(currentStates))
  /\ UNCHANGED <<nexts, initConfs, pc>>

(* Both have the point, or neither has it: it is a piece of its own.       *)
SweepPoint ==
  /\ Sweeping
  /\ lower = upper
  /\ LET at == IF lower[2] THEN AfterLower(currentStates)
                           ELSE AfterUpper(currentStates)
     IN  nextLineared' = nextLineared \o
           <<Piece(currentStates, <<lower[1], FALSE>>), Piece(at, <<lower[1], TRUE>>)>>
  /\ currentStates' = IF lower[2] THEN AfterUpper(AfterLower(currentStates))
                                  ELSE AfterLower(AfterUpper(currentStates))
  /\ UseUpper
  /\ UseLower
  /\ UNCHANGED <<nexts, initConfs, pc>>

(* No more intervals begin.                                                *)
SweepRest ==
  /\ pc = "sweep"
  /\ lowerVec = <<>>
  /\ upperVec # <<>>
  /\ nextLineared' = Append(nextLineared, Piece(currentStates, upper))
  /\ UseUpper
  /\ currentStates' = AfterUpper(currentStates)
  /\ UNCHANGED <<nexts, initConfs, lowerVec, pc>>

(* The pieces must cover every duration.                                   *)
NeedsLast == nextLineared = <<>> \/ nextLineared[Len(nextLineared)].bound[1] # Infinity

Finish ==
  /\ pc = "sweep"
  /\ lowerVec = <<>>
  /\ upperVec = <<>>
  /\ nextLineared' =
       IF NeedsLast
         THEN Append(nextLineared, Piece(SetToBag(initConfs), Unbounded))
         ELSE nextLineared
  /\ pc' = "done"
  /\ UNCHANGED <<nexts, initConfs, lowerVec, upperVec, currentStates>>

Next == \/ Zero \/ SweepLower \/ SweepUpper \/ SweepAdjacent \/ SweepPoint
        \/ SweepRest \/ Finish

Spec == Init /\ [][Next]_vars /\ WF_vars(Next)

Done == pc = "done"

(***************************************************************************)
(* DRTAState::next: std::lower_bound finds the first piece whose bound is  *)
(* not below the duration, provided the pieces are sorted.                 *)
(***************************************************************************)
Lookup(half) ==
  LET found == {i \in DOMAIN nextLineared : ~Below(nextLineared[i].bound, half)}
  IN  nextLineared[CHOOSE i \in found : \A j \in found : i =< j].states

-----------------------------------------------------------------------------
(* Properties.                                                             *)

AllConfs == initConfs \union {nexts[i].conf : i \in DOMAIN nexts}
IsStates(b) == DOMAIN b \subseteq AllConfs /\ \A c \in DOMAIN b : b[c] \in Nat \ {0}

TypeOK ==
  /\ lowerVec \in Seq(DOMAIN nexts) /\ upperVec \in Seq(DOMAIN nexts)
  /\ \A i \in DOMAIN nexts : lowers[i] \in Nat \X BOOLEAN
  /\ IsStates(currentStates)
  /\ \A i \in DOMAIN nextLineared : IsStates(nextLineared[i].states)
  /\ pc \in {"zero", "sweep", "done"}

(* The sweep never looks at the front of an empty deque: as long as an     *)
(* interval is to begin, one is to end.                                    *)
EndAhead == lowerVec # <<>> => upperVec # <<>>

(* The pieces come in the order that std::lower_bound requires.            *)
Sorted ==
  \A i, j \in DOMAIN nextLineared :
    i < j => AtMost(nextLineared[i].bound, nextLineared[j].bound)

(* Half-integer durations up to beyond every constant.                     *)
LastConstant ==
  LET ends == {0} \union {-nexts[i].lower[1] : i \in DOMAIN nexts}
                  \union ({nexts[i].upper[1] : i \in DOMAIN nexts} \ {Infinity})
  IN  CHOOSE n \in ends : \A k \in ends : k =< n

Halves == 0 .. 2 * LastConstant + 2

(* Every duration is looked up to the configurations of exactly those      *)
(* intervals that contain it, with their multiplicity, and to the initial  *)
(* ones, however the intervals overlap and touch.                          *)
LooksUpIntervals ==
  Done =>
    \A half \in Halves \ {0} :
      Lookup(half) =
        SetToBag(initConfs) (+) Confs({i \in DOMAIN nexts : Within(nexts[i], half)})

(* The loops of the sweep end.                                             *)
Terminates == <>Done

==============================================================================
