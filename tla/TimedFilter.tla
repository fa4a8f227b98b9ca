---------------------------- MODULE TimedFilter ----------------------------
(***************************************************************************)
(* The timed branch of main of src/main.cc, from the pattern to the        *)
(* printed word.  The timed automaton is read, constructFilter makes the   *)
(* automaton with counters and then the machine over events, and filter()  *)
(* runs the input through it.  An event is <<character, duration>>, the    *)
(* time since the event before; what getOne and putOne make of it is in    *)
(* module TimedWords.                                                      *)
(*                                                                         *)
(* The modules of the parts are instantiated on the variables below, and   *)
(* a history variable follows the runs of the timed automaton itself,      *)
(* without counters, zones or buffers.                                     *)
(***************************************************************************)
EXTENDS AutomatonFile, TimedAutomaton

CONSTANTS
  BufferSize, IntWidth, LongWidth,
  Letters,     \* the characters of the input
  Mask,        \* maskChar<unsigned char>
  Files,       \* the files the program may be given
  MaxStates,   \* bound on the number of states of the machine
  MaxLength,   \* bound on the length of the input word
  MinDuration, MaxDuration   \* bounds on the durations in it, in 1 / Parts

ASSUME BufferAssumption ==
  /\ BufferSize \in Nat \ {0}
  /\ IntWidth \in Nat \ {0} /\ LongWidth \in Nat /\ IntWidth =< LongWidth
  /\ MaxLength \in Nat

ASSUME DurationsAssumption == MinDuration \in Nat /\ MaxDuration \in Nat

(* Files that the reader accepts.                                          *)
ASSUME FilesAssumption ==
  \A f \in Files :
    /\ IsGraph(f)
    /\ \A e \in Range(f.edges) :
         /\ e.reset \in Seq(Nat)
         /\ e.guard \in Seq([x : Nat, order : {"lt", "le", "gt", "ge"}, c : Int])

VARIABLES
  file, pattern,                                    \* the timed automaton
  states, initialStates, copies, next, visited, todo,    \* AddCounter
  counted,                 \* what it leaves in the local of constructFilter
  subsets, drtaStates, drtaCounter, nextMap, drtaVisited, nexts, nextLineared,
  via, lowerVec, upperVec, currentStates, pieces, pc,    \* ToTimedMooreMachine
  filterMachine,                       \* what it leaves in that of main
  currentState, charBuffer, bitBuffer, phase, counter, finCounter, out,
  word, drained, window                                  \* MooreMachine

(* History: the runs that are alive, <<first, configuration>>, where first *)
(* is the position in the word at which the run began.                     *)
VARIABLE runs

counterVars == <<states, initialStates, copies, next, visited, todo, counted>>
machineVars == <<subsets, drtaStates, drtaCounter, nextMap, drtaVisited, nexts,
                 nextLineared, via, lowerVec, upperVec, currentStates, pieces, pc>>
filterVars == <<currentState, charBuffer, bitBuffer, phase, counter, finCounter,
                out, word, drained, window>>
vars == <<file, pattern, counterVars, machineVars, filterMachine,
          filterVars, runs>>

-----------------------------------------------------------------------------

WithCounter == INSTANCE AddCounter WITH
  Automata <- {}, WordLength <- 0,
  from <- pattern, toNewState <- copies, cursor <- visited

Determinized == INSTANCE ToTimedMooreMachine WITH
  Counted <- {},
  from <- counted, states <- subsets, toNewState <- drtaStates,
  counter <- drtaCounter, cursor <- drtaVisited

Durations == MinDuration .. MaxDuration
MaskChar == <<Mask, 0>>

(* Faulty: the general template of mask().                                 *)
MaskOfWhole(e) == MaskChar

(* mask() of an event keeps its duration.                                  *)
MaskOf(e) == <<Mask, e[2]>>

Filter == INSTANCE MooreMachine WITH
  Alphabet <- Letters \X Durations, Machines <- {}, machine <- filterMachine

(* x++ on a uint8_t: the row of a clock in the matrices.                   *)
Row(x) == x % 2^ClockWidth

(* The automaton with counters as constructNexts reads it.                 *)
Counted ==
  LET made == WithCounter!Result
      guard(g) == [k \in DOMAIN g |-> [g[k] EXCEPT !.x = Row(@)]]
  IN  [initial |-> made.initial, match |-> made.match, counter |-> made.counter,
       trans |-> {[at |-> t.at, via |-> t.via.c, guard |-> guard(t.via.guard),
                   resetVars |-> {Row(x) : x \in t.via.resetVars},
                   edge |-> t.via.edge, to |-> t.to] : t \in made.trans}]

(* The machine as feed() sees it.                                          *)
Machine ==
  [initial |-> 1,
   counter |-> drtaCounter,
   next |-> [qe \in {<<k[1], <<k[2], d>>>> : k \in DOMAIN nextMap, d \in Durations} |->
               Determinized!Successor(qe[1], qe[2][1], qe[2][2])]]

NoMachine == [initial |-> 1, counter |-> <<>>, next |-> <<>>]

Init ==
  /\ file \in Files
  /\ pattern = ConvTA(file)
  /\ WithCounter!Start
  /\ counted = Counted
  /\ Determinized!Start
  /\ filterMachine = NoMachine
  /\ Filter!Start
  /\ runs = {}

AddCounter ==
  /\ WithCounter!Next
  /\ counted' = Counted'
  /\ UNCHANGED <<file, machineVars, filterMachine, filterVars, runs>>

ToTimedMooreMachine ==
  /\ WithCounter!Done
  /\ filterMachine = NoMachine
  /\ IF Determinized!Done
       THEN filterMachine' = Machine /\ UNCHANGED machineVars
       ELSE Determinized!Next /\ UNCHANGED filterMachine
  /\ UNCHANGED <<file, pattern, counterVars, filterVars, runs>>

Built == filterMachine # NoMachine
Same == UNCHANGED <<file, pattern, counterVars, machineVars, filterMachine>>

(* The runs after one more event.                                          *)
Follow(e) ==
  LET begun == {<<Filter!Now + 1, conf>> : conf \in Started(pattern)}
  IN  runs' = UNION {{<<r[1], conf>> : conf \in Moved(pattern, {r[2]}, e[1], e[2])} :
                       r \in runs \union begun}

Read ==
  /\ Built
  /\ Same
  /\ Len(word) < MaxLength
  /\ \E e \in Letters \X Durations : (Filter!Fill(e) \/ Filter!Forward(e)) /\ Follow(e)

EndOfInput ==
  /\ Built
  /\ Same
  /\ Filter!EndOfInput
  /\ UNCHANGED runs

Drain ==
  /\ Built
  /\ Same
  /\ Filter!Drain
  /\ Follow(MaskChar)

Next == AddCounter \/ ToTimedMooreMachine \/ Read \/ EndOfInput \/ Drain

Spec == Init /\ [][Next]_vars /\ WF_vars(Drain)

-----------------------------------------------------------------------------
(* Properties.                                                             *)

(* The matrices have a row for each clock of a guard or a reset of the     *)
(* automaton ta, and their number is not cut off.  No edge reads the mask. *)
Fits(ta) ==
  /\ ClockSize(ta) = Clocks
  /\ \A x \in 1 .. Clocks : Row(x) = x
  /\ IsFiniteSet(ta.initial) /\ IsFiniteSet(ta.trans)
  /\ \A t \in ta.trans : /\ t.via.guard \in Seq(Constraint)
                         /\ t.via.resetVars \subseteq 1 .. Clocks
                         /\ t.via.c # Mask

(* The automata fit the matrices, and the machine made is one that module  *)
(* MooreMachine is about.                                                  *)
TypeOK ==
  /\ Fits(pattern)
  /\ Determinized!TypeOK
  /\ Built => Filter!IsMachine(filterMachine)
  /\ Built => currentState \in DOMAIN subsets
  /\ \A r \in runs : r[1] \in 1 .. Filter!Now

(* Every sweep of linearlizeNexts is given intervals that contain a        *)
(* duration, of configurations that are not initial, as it depends on.     *)
SweepsIntervals == Determinized!VectorsAreIntervals

(* The counter that the copies of a run have: its length in 1..BufferSize. *)
Count(r) == ((Filter!Now - r[1]) % BufferSize) + 1

(* Every run of the pattern that is alive, wherever it began, is in a      *)
(* configuration of the state of the machine, with its counter and its     *)
(* clock values: neither the zones nor the pieces nor the fall back to the *)
(* initial state lose a run.                                               *)
StateCoversRuns ==
  Built =>
    \A r \in runs :
      \E i \in DOMAIN states :
        /\ states[i] = [old |-> r[2][1], count |-> Count(r)]
        /\ Determinized!Covers(currentState, i, r[2][2])

(* The state shows as much as each of these runs needs: all of the buffer  *)
(* when the run has just filled it, else what a matching run read since.   *)
CountsRuns ==
  Built =>
    \A r \in runs :
      r[2][1] \in pattern.match \/ Count(r) = BufferSize
        => filterMachine.counter[currentState] >= Count(r)

(* The times of the events of a word of durations.                         *)
Times(w) ==
  LET upTo[n \in 0 .. Len(w)] == IF n = 0 THEN 0 ELSE upTo[n - 1] + w[n][2]
  IN  [i \in DOMAIN w |-> <<w[i][1], upTo[i]>>]

(* No event is masked that is part of what isMember() accepts.             *)
NoMatchLost ==
  \A i, j \in DOMAIN word :
    i =< j /\ i =< Len(out) /\ IsMember(pattern, Times(SubSeq(word, i, j)))
      => \A p \in i .. j : p \in DOMAIN out => out[p] = word[p]

(* What a file says: the word is read along edges from a vertex marked as  *)
(* initial to one marked as matching, each taken when the time since its   *)
(* clocks were reset, or the word began, meets its guard.                  *)
Matches(f, w) ==
  \E path \in [DOMAIN w -> Range(f.edges)] :
    LET resetAt(x, i) == Max({0} \union {j \in 1 .. i - 1 : x \in Range(path[j].reset)})
        time[n \in 0 .. Len(w)] == IF n = 0 THEN 0 ELSE time[n - 1] + w[n][2]
        value(x, i) == time[i] - time[resetAt(x, i)]
        meets(v, g) == \/ g.order = "lt" /\ v < Parts * g.c
                       \/ g.order = "le" /\ v =< Parts * g.c
                       \/ g.order = "gt" /\ v > Parts * g.c
                       \/ g.order = "ge" /\ v >= Parts * g.c
    IN  /\ \A i \in DOMAIN w : path[i].label = w[i][1]
        /\ f.vertices[path[1].source].init
        /\ f.vertices[path[Len(w)].target].match
        /\ \A i \in 1 .. Len(w) - 1 : path[i + 1].source = path[i].target
        /\ \A i \in DOMAIN w : \A g \in Range(path[i].guard) : meets(value(g.x, i), g)

(* From the file to the output, the program keeps the promises of          *)
(* PatternFilter.                                                          *)
Promise == INSTANCE PatternFilter WITH
  Alphabet <- Letters \X Durations, Patterns <- Files, Accepts <- Matches,
  MaskOf <- LAMBDA e : <<Mask, e[2]>>,
  pattern <- file, closed <- phase = "draining"
Promises == Promise!FilterSpec

(* The transitions that constructNexts takes from the state it visits      *)
(* reset clocks that have a row in the matrices.                           *)
ResetsHaveRows ==
  drtaVisited > 0 =>
    \A conf \in DOMAIN subsets[drtaVisited] : \A t \in counted.trans :
      t.at = conf[1] /\ IsSatisfiable(Clocks, Guarded(conf[2], t.guard))
        => t.resetVars \subseteq 1 .. ClockSize(pattern)

==============================================================================
