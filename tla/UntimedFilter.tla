---------------------------- MODULE UntimedFilter ----------------------------
(***************************************************************************)
(* The untimed branch of main of src/main.cc, from the pattern to the      *)
(* printed word.  The NFA is read, constructFilter makes the automaton     *)
(* with counters and then the Moore machine, and filter() runs the input   *)
(* through it.                                                             *)
(*                                                                         *)
(* The modules of the three parts are instantiated on the variables below, *)
(* and history variables follow the runs of the pattern itself, without    *)
(* counters, subsets or buffers.                                           *)
(***************************************************************************)
EXTENDS AutomatonFile

CONSTANTS
  BufferSize, IntWidth, LongWidth,
  Alphabet,    \* the characters of the patterns and of the input
  MaskChar,
  Files,       \* the files the program may be given
  MaxLength    \* bound on the length of the input word

ASSUME BufferAssumption ==
  /\ BufferSize \in Nat \ {0}
  /\ IntWidth \in Nat \ {0} /\ LongWidth \in Nat /\ IntWidth =< LongWidth
  /\ MaxLength \in Nat

ASSUME FilesAssumption == \A f \in Files : IsGraph(f)

VARIABLES
  file,                                             \* the file given with -f
  pattern,                                          \* the NFA
  states, initialStates, copies, next, visited, todo,    \* AddCounter
  counted,                 \* what it leaves in the local of constructFilter
  subsets, dfaStates, dfaCounter, nextMap, dfaVisited, mergedNext,
                                                         \* ToMooreMachine
  filterMachine,                       \* what it leaves in that of main
  currentState, charBuffer, bitBuffer, phase, counter, finCounter, out,
  word, drained, window                                  \* MooreMachine

(* History: the runs that are alive, each with the position at which it    *)
(* began; the positions in an infix that the pattern matches; those in a   *)
(* run that matched or that had filled the buffer.                         *)
VARIABLES runs, needed, suspected

counterVars == <<states, initialStates, copies, next, visited, todo, counted>>
machineVars == <<subsets, dfaStates, dfaCounter, nextMap, dfaVisited, mergedNext,
                 filterMachine>>
filterVars == <<currentState, charBuffer, bitBuffer, phase, counter, finCounter,
                out, word, drained, window>>
history == <<runs, needed, suspected>>
vars == <<file, pattern, counterVars, machineVars, filterVars, history>>

-----------------------------------------------------------------------------

WithCounter == INSTANCE AddCounter WITH
  Automata <- {}, WordLength <- MaxLength,
  from <- pattern, toNewState <- copies, cursor <- visited

Determinized == INSTANCE ToMooreMachine WITH
  Counted <- {}, WordLength <- MaxLength,
  from <- counted, toNewState <- dfaStates, counter <- dfaCounter,
  cursor <- dfaVisited

(* mask() of an untimed character is the mask character.                   *)
Filter == INSTANCE MooreMachine WITH
  Machines <- {}, MaskOf <- LAMBDA c : MaskChar,
  machine <- filterMachine

Init ==
  /\ file \in Files
  /\ pattern = ConvNFA(file)
  /\ WithCounter!Start
  /\ counted = WithCounter!Result
  /\ Determinized!Start
  /\ filterMachine = Determinized!Result
  /\ Filter!Start
  /\ runs = {}
  /\ needed = {}
  /\ suspected = {}

AddCounter ==
  /\ WithCounter!Next
  /\ counted' = WithCounter!Result'
  /\ UNCHANGED <<file, machineVars, filterVars, history>>

ToMooreMachine ==
  /\ WithCounter!Done
  /\ Determinized!Next
  /\ filterMachine' = Determinized!Result'
  /\ UNCHANGED <<file, pattern, counterVars, filterVars, history>>

(* The runs after one more character c, and what they ask for.             *)
Follow(c) ==
  LET t == Filter!Now + 1
      extended == runs \union ({t} \X pattern.initial)
      infix(r) == r[1] .. t
  IN  /\ runs' = {<<s[1][1], s[2].to>> :
                    s \in {x \in extended \X pattern.trans :
                             x[2].at = x[1][2] /\ x[2].via = c}}
      /\ needed' = needed \union
           UNION {infix(r) : r \in {x \in runs' : x[2] \in pattern.match}}
      /\ suspected' = suspected \union
           UNION {infix(r) : r \in {x \in runs' :
             \/ x[2] \in pattern.match
             \/ (t - x[1] + 1) % BufferSize = 0}}

Built == WithCounter!Done /\ Determinized!Done
Same == UNCHANGED <<file, pattern, counterVars, machineVars>>

Read ==
  /\ Built
  /\ Same
  /\ Len(word) < MaxLength
  /\ \E c \in Alphabet : (Filter!Fill(c) \/ Filter!Forward(c)) /\ Follow(c)

EndOfInput ==
  /\ Built
  /\ Same
  /\ Filter!EndOfInput
  /\ UNCHANGED history

Drain ==
  /\ Built
  /\ Same
  /\ Filter!Drain
  /\ Follow(MaskChar)

Next == AddCounter \/ ToMooreMachine \/ Read \/ EndOfInput \/ Drain

Spec == /\ Init /\ [][Next]_vars
        /\ WF_vars(AddCounter) /\ WF_vars(ToMooreMachine) /\ WF_vars(Drain)

-----------------------------------------------------------------------------
(* Properties.                                                             *)

(* The constructed machine is one module MooreMachine is about.            *)
TypeOK ==
  /\ Built => Filter!IsMachine(filterMachine)
  /\ Built => currentState \in DOMAIN subsets
  /\ \A r \in runs : r[1] \in 1 .. Filter!Now
  /\ needed \subseteq suspected /\ suspected \subseteq 1 .. Filter!Now

(* The state of the machine is the set of the runs that are alive, each    *)
(* with its length taken in 1..BufferSize, and of the initial states: the  *)
(* two constructions and the steps of feed() lose no run and keep no dead  *)
(* one, wherever it began.                                                 *)
StateIsRuns ==
  Built =>
    {<<states[i].old, states[i].count>> : i \in subsets[currentState]} =
      {<<r[2], ((Filter!Now - r[1]) % BufferSize) + 1>> : r \in runs}
        \union (pattern.initial \X {0})

(* No character of a match is masked: not the ones that left the buffer    *)
(* before the match was complete, however long the match is.               *)
NoMatchLost == \A p \in DOMAIN out : p \in needed => out[p] = word[p]

(* A character is shown only on account of a run it takes part in, which   *)
(* matched or grew to fill the buffer.                                     *)
ShownForARun == \A p \in DOMAIN out : out[p] = word[p] => p \in suspected

(* What a file says: the word leads along its edges from a vertex that is  *)
(* marked as initial to one that is marked as matching.                    *)
Matches(f, w) ==
  LET edges == Range(f.edges)
      reached[n \in 0 .. Len(w)] ==
        IF n = 0 THEN {v \in DOMAIN f.vertices : f.vertices[v].init}
        ELSE LET before == reached[n - 1]
             IN  {e.target : e \in {d \in edges : d.label = w[n] /\ d.source \in before}}
  IN  \E v \in reached[Len(w)] : f.vertices[v].match

(* From the file to the output, the program keeps the promises of          *)
(* PatternFilter.                                                          *)
Promise == INSTANCE PatternFilter WITH
  Patterns <- Files, Accepts <- Matches, MaskOf <- LAMBDA c : MaskChar,
  pattern <- file, closed <- phase = "draining"
Promises == Promise!FilterSpec

==============================================================================
