# TLA+ models of moore_machine_filter

`filt` reads a pattern automaton and a word, and prints a copy of the word in
which the characters that no match of the pattern needs are masked. The
automaton is untimed (an NFA) or timed. The program constructs a Moore machine
with a delay line of `BUFFER_SIZE` characters from it, and runs the input
through it. This directory models the program from the pattern file to the
printed word, checks it with TLC, and proves with TLAPS, for every pattern, word
and buffer size whose masks do not overflow, that the untimed filter masks no
character of a match and is what the manual promises, step by step; and the same
of the timed filter, as long as the intervals it sweeps are not empty, which TLC
checks: the zones lose nothing, the sweep over overlapping intervals cuts them
exactly, the states cover the runs of the pattern, and the times of the events
survive.

Paths below are relative to the directory that holds `src/`; `main.cc` stands
for `src/src/main.cc`, and so on.

## 1. The system

| Component | State it keeps | Operations | Modules |
|---|---|---|---|
| automaton reader (`timed_automaton_parser.hh`) | none | what the readers of clocks and constraints store, both `convBoostTA` | `AutomatonFile` |
| bit buffer (`bit_buffer.hh`) | `N` visibility bits, in a word or a `std::bitset` | `getAndEnable(n)`: shift, set the last n | `BitBuffer` |
| Moore machine at run time (`moore_machine.hh:30-55`) | current state, queue of `N` characters, bit buffer | `feed(c)` | `MooreMachine`, `DelayLine` |
| filter loop (`main.cc:81-102`) | two counters | read until EOF, pad, flush | `MooreMachine`, `DelayLine` |
| counter construction (`add_counter.hh`) | map (state, counter) -> copy, work list | `addNewState`, redirecting of transitions | `AddCounter` |
| subset construction (`moore_machine.hh:57-129`) | map subset -> state, work list | `addNewState`, merging and adding of transitions | `ToMooreMachine` |
| untimed program (`main.cc:74-102`) | all of the untimed parts | read, construct, then filter | `UntimedFilter`, `PatternFilter` |
| difference-bound matrices (`dbm.hh`) | a matrix of bounds | `zero`, `close1`, `tighten`, `reset`, `elapse`, `canonize`, `isSatisfiable`, `findDuration`, `operator&=` | `Bounds`, `DBM` |
| successor configurations (`timed_moore_machine.cc:3-46`) | none | `constructNexts` | `TimedSteps`, `ConstructNexts` |
| linearization (`timed_moore_machine.cc:48-218`) and lookup (`automata.hh:122-131`) | two sorted deques, a multiset, the pieces made | the branches of the sweep; `DRTAState::next` | `LinearizeNexts` |
| timed construction (`timed_moore_machine.hh`) | as the untimed one, keys are multisets of (state, zone) | the same, over the two above | `ToTimedMooreMachine` |
| timed automata (`automata.hh:297-342`) | none | `clockSize`, `isMember` | `TimedAutomaton`, `AutomatonFile` |
| timed program (`main.cc:68-108`) | all of the timed parts | read, construct, then filter | `TimedFilter`, `PatternFilter` |
| timed words (`main.cc:21-61`, `experiments/*.c`) | times of the last events, whether the last was masked | timed `getOne`, `putOne`, `mask`; `abs2rel`, `rel2abs_truncate` | `TimedWords` |
| command line, `construct_only`, experiments and tests | | | not modelled, see section 8 |

**Interactions.** Everything runs in one thread of one process; there are no
callbacks, messages, locks or files besides stdin, stdout and the automaton
file. `main` reads the automaton (`parseBoostTA`, `convBoostTA`).
`constructFilter` calls `toAutomatonWithCounter` and passes the result to
`toMooreMachine` (or `toTimedMooreMachine`, which calls `constructNexts` and
`linearlizeNexts` for each state); `filter` then calls `getOne`, `feed` and
`putOne` for every character. The parts are coupled by data: the counter that
the first construction puts on states decides, two constructions later, how many
bits are set, and that decides what is printed `BUFFER_SIZE` characters later.
The number of clocks that the reader finds in guards decides how large the
matrices are that the resets of transitions are applied to.

**What is hard.**

* *Order inside `feed`.* The bit that is returned belongs to the state before the
  transition, the queue and the bits rotate in different statements, and a
  missing transition still has to rotate both.
* *The edges of the stream.* The first `BUFFER_SIZE` results must not be printed;
  a word shorter than the buffer is padded by a different number of masks than
  it is flushed by.
* *The cyclic counter.* It runs over 1..N and stands for a run of any length. A
  match longer than the buffer is saved only by the rule that a full buffer
  shows everything, whether it matches or not.
* *Constructions over growing maps.* Transitions are rewritten while the map of
  copies grows, in the order of an unordered map; equal subsets must be found
  however they were merged.
* *Touching intervals.* The sweep of `linearlizeNexts` distinguishes attained and
  strict, lower and upper ends in more cases than any test has.
* *Matrices updated in place.* `close1` reads rows it has already updated; entry
  (0,0) holds leftovers that the comparison ignores.
* *Numbers at their limits.* `1 << n` in `int` for buffers of 32 to 64
  characters; clock numbers cut to eight bits; lower bounds that `elapse` makes
  strict, also for events of duration 0.
* *Statics of the I/O functions.* `getOne` and `putOne` each keep a time of their
  own between calls, `putOne` also whether it is inside a masked stretch.

There is no concurrency, no crash recovery and no message loss in this program.
The nondeterminism in the models is that of the input, the pattern, the order of
unordered maps and of `std::sort` among equals, and undefined behaviour.

**What makes each part correct** is stated with its module in section 3. The
whole is correct when it keeps what `src/doc/man.md:33-45` says: it "masks the
part unnecessary for the pattern matching". `DelayLine` and `PatternFilter` state
this as abstract specifications. A delay line prints a masked copy, in order and
never revised, withholds exactly `BufferSize` characters of a word that is longer,
and prints the rest once the input has ended. A pattern filter is a delay line
that masks no character of a match.

## 2. How the modules fit

```
UntimedFilter   = AutomatonFile + AddCounter + ToMooreMachine      + MooreMachine
TimedFilter     = AutomatonFile + AddCounter + ToTimedMooreMachine + MooreMachine
                  (and TimedAutomaton, for what the pattern accepts)
ToTimedMooreMachine = TimedSteps + LinearizeNexts
ConstructNexts  = TimedSteps
TimedSteps      = DBM = Bounds
MooreMachine    = BitBuffer
TimedWords        by itself
AddCounter, ToMooreMachine use Words: where words lead in an automaton

MooreMachine   implements  DelayLine
UntimedFilter  implements  PatternFilter, which extends DelayLine
TimedFilter    implements  PatternFilter

MooreMachineProofs, AddCounterProofs, ToMooreMachineProofs,
LinearizeNextsProofs, TimedWordsProofs
                                       each of its module
UntimedFilterProofs                    of UntimedFilter, by way of the first three
TimedFilterProofs                      of DBM, ConstructNexts, ToTimedMooreMachine and
                                       TimedFilter, by way of MooreMachineProofs,
                                       AddCounterProofs and LinearizeNextsProofs
BasicLemmas                            what they need of numbers, induction and words
```

`UntimedFilter` INSTANCEs `AddCounter`, `ToMooreMachine` and `MooreMachine` on
its own variables: the result of one is the parameter of the next, as in
`constructFilter`. `TimedFilter` does the same with `AddCounter`,
`ToTimedMooreMachine` and `MooreMachine`, and `ToTimedMooreMachine` with
`LinearizeNexts`. The `MC*` modules only give values to constants.

## 3. The modules and the code

In every module an operator with a comment that starts with "Faulty" is a
plausible error in the operator after it. No specification uses these; they are
there to see that each property notices.

### AutomatonFile

A file is its vertices and edges with their attributes; resets and guards are
the lists in the file. `ParsedReset` and `ParsedGuard` are what the stream
operators store, with clock numbers cut to `ClockWidth` bits. `ConvNFA` drops
guards and resets, `ConvTA` numbers clocks and computes the largest constant of
each; `ClockCount` is the number of clocks, one more than the largest clock in a
*guard*. Two edges with equal attributes are two transitions, so a transition
carries the number of its edge.

### BitBuffer, MooreMachine, DelayLine

`bitBuffer` is the set of the positions of the bits that are 1 and `charBuffer`
the contents of the `std::queue`. `Enable` has the two branches of
`getAndEnable`: for buffers of at most `LongWidth` (64) bits the mask
`(1 << n) - 1`, where the literal has `IntWidth` (32) bits; for larger ones the
loop over a `std::bitset`. For `n` below the width of `int` the mask is the last
n bits; a shift by the width or more is undefined, and `EnabledBits` then is what
the x86 build does, the last n modulo the width, or all n bits, if the build
happens to compute the wide value. `n = 31` also overflows the sign, in the
subtraction; two's complement still gives the last 31 bits.

`Feed` is all of `feed`: successor or initial state, shift, rotation of the
queue; `Emitted` is what it returns, read from the state before. `Fill`,
`Forward`, `EndOfInput`, `Pad` and `Flush` are the branches of `filter`, with its
locals `counter` and `finCounter`. `word`, `drained` and `window` are history:
what was read, how many masks were fed after EOF, and which positions a state
made visible while they were buffered.

* `Aligned`: slot i of the queue is the character whose bit is `BufferSize - i`,
  and that bit is set exactly if the character is in `window`.
* `FaithfulOutput`: the output is the word up to some position, with exactly the
  characters outside `window` masked.
* `AllPrinted`: the output is complete at the end.
* `Delays`: the running machine implements `DelayLine`, with its liveness. A part
  of it is proved on its own: `BoundedLag`, the output lags by exactly the buffer.

### AddCounter, ToMooreMachine

A state that the code allocates is its position in `to.states`. The batches of
`currStates` are visited in the order of allocation, so that the work list is
the part of `to.states` beyond `cursor`. The transitions of a state are taken in
any order (`unordered_map`). A subset in the code is a vector that is sorted and
made unique before it is compared; here it is a set. `AddCounter` is a template
in the code and a parameter here: for timed automata `via` includes guard and
resets.

* `OneCopyEach`, `OneStateEach`: the map and the vector of states are inverse to
  each other.
* `NeverBackToZero`: no transition leads to counter 0. `useLowerFront` and
  `useUpperFront` (`timed_moore_machine.cc:81-84, 98-101`) return early for
  initial configurations, without progress; this is why they never meet one.
* `Unfolds`, `Determinizes`: when the construction returns, every state has
  exactly the transitions that its original, or its subset, has, and no other;
  in the machine, the counter of its subset. These are the facts about one
  step that the proofs of section 7 use.
* `FollowsRuns`: on every word the copies reached are those of the states that
  the original reaches, with the length modulo the buffer, in 1..N.
* `ReadsSuffixes`: after every word the machine is in the state of all runs that
  began anywhere in the word and are alive, also when it fell back to the
  initial state on the way.
* `Terminates`: the loops end.

### UntimedFilter, PatternFilter

History variables follow the runs of the pattern itself, without counters,
subsets or buffers.

* `StateIsRuns`: the subset of the current state is exactly the runs alive.
* `NoMatchLost`: no character of a match is masked, however long the match.
* `ShownForARun`: the reverse as far as it holds: what is shown is part of a run
  that matched or whose length reached a multiple of the buffer.
* `Promises`: `UntimedFilter` implements `PatternFilter`. The pattern of
  `PatternFilter` is the *file*: `Matches` says what its vertices and edges
  mean, apart from all that the program makes of them. `closed` is
  `phase = "draining"`; construction and padding are stuttering steps.

### Bounds, DBM, TimedSteps, ConstructNexts

Bounds are pairs of a number and whether it is attained. The code computes with
`double`; all bounds are sums and differences of the integer constants of guards,
so integers are exact. `Infinity` is a number above all of them. Each function
of `DBM` that the program calls is an operator. `Close1` respects the order of
the updates in place. `FindDuration` adds a clock as the code does.

`ConstructNexts` applies the body of `constructNexts` along every path from the
initial zone, so that its zones are those the program meets. Zones are
compared with sets of points:

* `DurationsExact`, `ZoneExact`: the interval and the zone computed are exactly
  the durations and the clock values that the transition allows.
* `NoneLeftOut`: a transition that is left out cannot be taken.
* `CornerIgnored`: entry (0,0) has no influence on anything else, so that
  comparing configurations without it is right. This licenses the
  representation of zones in `ToTimedMooreMachine`, where (0,0) is fixed.
* `GuardByIntersection`: intersecting with the matrix of a guard
  (`constraintsToDBM`, then `operator&=`) gives the zone that tightening by its
  constraints one by one gives. `constructNexts` has the former for a TODO and
  does the latter. Only tests call `operator&=`; `findDuration` intersects with
  the matrix of the guard by a minimum and a closure of its own.

### LinearizeNexts

One action per branch of the sweep, in the code's order. The deques hold the
places of their elements in the vector; they start in any order that `std::sort`
may leave, equal bounds in any order (`LowerOrders`, `UpperOrders`); the timed
construction takes one of them (`LowerOrder`, `UpperOrder`). `currentStates` is a bag, as
the code's multimap is one. `Batch` is what `useLowerFront` or `useUpperFront`
takes off a deque: the elements that share the bound of the front, up to the
first that is an initial configuration. `VectorsAssumption` says what
`constructNexts` gives the function: intervals of durations, none empty, and no
initial configuration, whose counter is 0, among the successors.

* `LooksUpIntervals`: every duration is looked up to the configurations of the
  intervals that contain it, with multiplicity, and the initial ones.
* `Sorted`: the order that `std::lower_bound` needs.
* `EndAhead`: `front()` is never called on an empty deque.
* `Terminates`: the sweep ends.

### ToTimedMooreMachine, TimedAutomaton, TimedFilter

`ToTimedMooreMachine` is `toTimedMooreMachine`, with the sweep step by step.
Multisets are bags. A state is stored under its bag and looked up under the bag
without duplicates, as in the code (see section 6). `TimedAutomaton` is
`isMember`, by which the tests of the repository decide what a timed automaton
accepts. `TimedFilter` is the timed program from the file to the printed events.
A state of its machine reads a character and a duration; `Machine` is what
`feed` sees of the pieces that `DRTAState::next` looks durations up in. `runs`
follows the runs of the timed automaton with real clock values.

* `SweepsIntervals`: every vector the sweep is given has what `linearlizeNexts`
  depends on and `VectorsAssumption` of `LinearizeNexts` says: intervals that
  contain a duration, and no initial configuration, at which `useLowerFront`
  would return without progress.
* `StateCoversRuns`: each run that is alive, wherever it began, is in a
  configuration of the current state, with its counter and its clock values.
* `CountsRuns`: the counter of that state is enough for each run that matches or
  has just filled the buffer.
* `NoMatchLost`: no event is masked that is part of what `isMember` accepts.
* `Promises`: `TimedFilter` implements `PatternFilter`, where `Matches` reads the
  file: a path whose guards hold for the times since the last resets.
* `ResetsHaveRows` (violated, section 6): a transition that is taken resets
  clocks that have a row in the matrices.

### TimedWords

The timed `getOne` and `putOne` in both modes. The machine in between is reduced
to a queue that lets events out in order, masked or not, which is what
`FaithfulOutput` says of it; here any choice of the masked ones is possible.
`Abs2Rel` and `Rel2AbsTruncate` are the programs of the experiments that do the
same conversions outside of `filt`.

* `TimesKept`: visible events are printed with their times, though the masked
  ones in between may not be printed.
* `PrintsSpans`: a masked stretch is printed as its first and last event, with
  `--abs`, and without it after `rel2abs_truncate`: the two independent pieces of
  code agree. A stretch at the end of the word is printed as its first event
  only: the line that closes a stretch is printed by the next visible event.
* `ReadsDurations`: `--abs` gives the machine the durations that `abs2rel` makes.

## 4. The runs

| Run | Module, cfg | Question | Bounds |
|---|---|---|---|
| `moore_machine` | `MCMooreMachine` | Does the filter loop print the input once, in order, correctly masked, for every machine, and is it a delay line? | N=2, timed alphabet, all partial machines with two states, words up to 5 |
| `add_counter` | `MCAddCounter` | Does the unfolding follow the runs? | N=3, all automata with two states over two letters, words up to 5 |
| `to_moore_machine` | `MCToMooreMachine` | Does the determinization follow every suffix? | N=2, unfoldings of the same, words up to 5 |
| `untimed_filter` | `MCUntimedFilter` | From file to output: no match lost, nothing shown without reason; is it a pattern filter, with liveness? | N=3 in the `std::bitset` branch, up to three edges, words up to 5 |
| `wide_buffer` | `MCUntimedFilter`, `MCWideBuffer.cfg` | Violation: the mask overflows | IntWidth=2, LongWidth=4, N=2 |
| `construct_nexts` | `MCConstructNexts` | Do the matrices compute the zones and durations exactly? | two clocks, constants 0 and 1, two steps, up to two constraints |
| `linearize_nexts` | `MCLinearizeNexts` | Is every duration looked up to its intervals? | up to three intervals, ends 0..2 and infinity, two configurations |
| `timed_filter` | `MCTimedFilter` | From file to output: is every run covered and counted, no match lost; is it a pattern filter, with liveness? | N=2, two edges, one clock, words up to 3, durations 1/2, 1, 3/2 |
| `timed_words` | `MCTimedWords` | Do times survive? | up to 5 events, times up to 3 |
| `duplicates` | `MCToTimedMooreMachine`, `MCDuplicates.cfg` | Violation: states are made twice | N=2, two transitions |
| `unguarded_clock` | `MCTimedFilter`, `MCUnguardedClock.cfg` | Violation: a reset outside the matrices | files that may reset a second clock |
| `simultaneous` | `MCTimedFilter`, `MCSimultaneous.cfg` | Violation: events of duration 0 | durations 0, 1/2, 1 |

**Why the bounds are enough.**

* *Buffer and word length.* What differs with the length of the word is whether
  it is shorter than the buffer, as long, or longer, and how often the cyclic
  counter wraps. N=2 with words up to 5, and N=3 with words up to 5 and the masks
  that drain them, have all of these. `timed_filter` has N=2 and words of three
  events: the buffer is left by an event, and the counter wraps.
* *Widths.* Only the order of N, `IntWidth` and `LongWidth` matters. The run
  `wide_buffer` scales 32 and 64 down to 2 and 4, so that a buffer of 2 stands
  for one of 32; `untimed_filter` scales them to 1, so that a buffer of 3 stands
  for one beyond 64; `moore_machine` and `timed_filter` have the real widths and
  a buffer far below. The proofs hold for every value.
* *Automata.* With two states over two letters an automaton has loops,
  nondeterminism, dead ends, matches inside matches and matches that are
  extensions of matches. `MaxTransitions` bounds their number. In `MCUntimedFilter`
  one edge leads to the matching vertex; in `MCTimedFilter` the files have a
  guard, the matching vertex can be reached, and an edge after which no other can
  be taken resets nothing: the others behave as one of those that are left.
* *Durations.* All constants are integers, so multiples of a half meet every
  combination of guards with one clock. `MinDuration` = 1 half leaves out events
  at time 0 or at the same time as the one before, which are finding 4.
* *Grid.* `ConstructNexts` compares zones with points that are multiples of
  1/`Parts`, and the results only at multiples of a half. A half is enough to tell
  apart zones with integer constants; the points from which a point of a half can
  be reached may lie between, where two strict ends that are a half apart need as
  many points in between as there are clocks: with `Parts` = 6 a half has two.
  `Horizon` = 2 lies beyond all sums of constants that a path of two steps makes.
* *Intervals.* Three intervals are enough for two to be open when a third begins
  or ends, and for the same configuration to be open twice. Ends up to 2 give
  the comparisons of the sweep all their outcomes.
* *`MaxStates`* bounds the states of the timed machine. With 11 the construction
  ends for 108 of the 112 files of `timed_filter`; the others are those whose
  successors keep having duplicates, for which it does not end (section 6), and
  they read nothing.
* *`MaxLength`, `MaxSteps`, `MaxTime`, `WordLength`, `MaxDuration`* are bounds on
  inputs and on what properties try; each is named where it is declared.

Deadlock is not checked where the program returns or the input is bounded; each
cfg says which. That the programs do return is `Terminates` and the liveness in
`Delays` and `Promises`.

## 5. Fairness

* `MooreMachine`, `UntimedFilter`, `TimedFilter`: weak fairness of the steps after
  EOF, and in `UntimedFilter` of the constructions. The process is sequential and
  waits for nothing there. Reading is not fair: the input may never end, and the
  manual describes the use on a stream.
* `AddCounter`, `ToMooreMachine`, `LinearizeNexts`: weak fairness of `Next`, for
  the same reason: a loop that can go on does.
* `DelayLine`, `PatternFilter`: weak fairness of `Empty`, what is left is printed.
* `ToTimedMooreMachine`, `ConstructNexts`, `TimedWords` state no liveness. For
  the first it does not hold in general (section 6), and `TimedFilter` assumes no
  fairness of it.

## 6. Findings

1. **`bit_buffer.hh:12`, run `wide_buffer`.** The mask is computed as
   `(1 << n) - 1` in `int` in the branch for buffers up to 64. When a run has
   filled a buffer of 32 to 64 characters, n is the buffer size, the shift is
   undefined and the x86 build shifts by n modulo 32. Characters of a match are
   then masked, against `src/doc/man.md:39`. The experiments build with buffers
   of 35 to 60 (`src/experiments/run_gtime.sh:4`). In buffers of at most 31, and
   beyond 64, this cannot happen; the theorems have this as hypothesis
   `NoOverflow`.
2. **`timed_moore_machine.hh:37` and `:90`, run `duplicates`.** A multiset of
   configurations with duplicates is stored under a key with duplicates and
   looked up under one without. Two overlapping transitions to one state are
   enough for a second state with the same configurations, in spite of the
   comments "When this state is new" and "When this state is not new". What the
   machine shows is not affected (`StateCoversRuns`, `CountsRuns`), its size is,
   and where each successor has a duplicate the construction does not end.
3. **`timed_automaton_parser.hh:339`, run `unguarded_clock`.** The number of clocks
   is taken from the guards. A clock with a larger number that is only reset has
   no row in the matrices, and `DBM::reset` writes outside of them
   (`dbm.hh:87-94`). `automata.hh:297` promises "the number of clock variables
   used in the timed automaton".
4. **`dbm.hh:100`, run `simultaneous`.** `elapse` makes lower bounds strict, so that
   a zone leaves out the clock values of a run that has just read an event of
   duration 0: one at time 0, or at the time of the event before. Such an event is
   taken all the same, because `linearlizeNexts` opens an interval that begins
   at 0, strict or not, before the first piece (`timed_moore_machine.cc:120-122`),
   where the lookup finds duration 0. A later event, simultaneous or not, is then
   looked up in pieces made for other clock values. In the run, the pattern loops
   on `a` while x <= 1, without a reset, until a `b`. The first `a`, at time 0,
   leads to 0 < x <= 1, from where the loop is open for durations below 1; the
   second `a`, of duration 1, leaves the run although its clock is 1, and the
   first `a` is masked, although `isMember` accepts the word and the manual
   promises to keep it (`src/doc/man.md:45`). A transition that only a duration
   of 0 allows, by x <= 0 say, is not satisfiable for the code and left out. A
   test says "because we prohibit t = 0"
   (`src/test/timed_moore_machine_test.cc:125`); no document does, and nothing
   refuses such events.

Also met, without a run: `DBM::abstractize` is called by nothing, so that zones
of two clocks can grow for ever and the construction does not end; `main.cc:70`
dereferences `max_element` of an empty range for an automaton without guards;
`isInit` and `isMatch` of a vertex without the attributes are not initialized;
clock 255 becomes the constant 0 (`dbm.hh:70`).

## 7. Proofs

| Module | Theorem | Statement |
|---|---|---|
| `MooreMachineProofs` | `TypeCorrect` | `Spec => []TypeOK` |
| | `InductiveInvariant` | `NoOverflow`: `Spec => []IInv` |
| | `StaysAligned`, `OutputIsFaithful`, `LagIsBounded`, `NothingIsLost` | `NoOverflow`: `Spec => []Aligned`, `[]FaithfulOutput`, `[]BoundedLag`, `[]AllPrinted` |
| | `ImplementsDelayLine` | `NoOverflow`: every step is a step of `DelayLine` or a stutter |
| `AddCounterProofs` | `TypeCorrect`, `CopiesAreUnique`, `ZeroIsInitialOnly`, `TransitionsAreCopied`, `RunsAreFollowed` | `Spec => []TypeOK`, `[]OneCopyEach`, `[]NeverBackToZero`, `[]Unfolds`, `[]FollowsRuns` |
| `ToMooreMachineProofs` | `TypeCorrect`, `StatesAreUnique`, `TransitionsAreMerged`, `SuffixesAreRead` | `Spec => []TypeOK`, `[]OneStateEach`, `[]Determinizes`, `[]ReadsSuffixes` |
| `UntimedFilterProofs` | `TypeCorrect`, `StateFollowsRuns`, `NoMatchIsLost` | `NoOverflow`: `Spec => []TypeOK`, `[]StateIsRuns`, `[]NoMatchLost` |
| | `OnlyRunsAreShown` | `NoOverflow` and the mask character cannot be read: `Spec => []ShownForARun` |
| | `ImplementsPatternFilter` | `NoOverflow`: the initial states are those of `PatternFilter`, and every step is one of `PatternFilter` or a stutter |
| `LinearizeNextsProofs` | `TypeCorrect`, `FrontsExist`, `PiecesAreSorted`, `DurationsAreLookedUp` | `Spec => []TypeOK`, `[]EndAhead`, `[]Sorted`, `[]LooksUpIntervals` |
| `TimedWordsProofs` | `DurationsAreRead`, `SpansArePrinted`, `TimesAreKept` | `Spec => []ReadsDurations`, `[]PrintsSpans`, `[]TimesKept` |
| `TimedFilterProofs`, of `ConstructNexts` | `LeavesOutRightly`, `CornerIsIgnored` | `PathSpec => []NoneLeftOut`, `[]CornerIgnored` |
| | `PointsAreKept` | `PathSpec => []LeadsInside`: the half of `ZoneExact` and `DurationsExact` by which nothing is lost |
| `TimedFilterProofs`, of `TimedFilter` | `TypeCorrect`, `RunsAreCovered`, `RunsAreCounted` | `InputsFit`: `Spec /\ []SweepsIntervals => []TypeOK`, `[]StateCoversRuns`, `[]CountsRuns` |
| | `NoMatchIsLost` | `InputsFit` and `NoOverflow`: `Spec /\ []SweepsIntervals => []NoMatchLost` |
| | `ImplementsPatternFilter` | `InputsFit`, `ClocksFit` and `NoOverflow`: under `Spec /\ []SweepsIntervals` the initial states are those of `PatternFilter`, and every step is one of `PatternFilter` or a stutter |

`BasicLemmas` holds what these need of numbers and words: least and greatest
elements, how remainders count, induction over numbers and over words, and where
a word leads when a character is appended to it. The library states induction
for an operator as parameter, which the provers cannot instantiate; here it is
stated for a *set* that is closed under the step, and what a recursive definition
computes follows from it: `IterationExists` shows that there is a function that
satisfies the recursion, so that the one that `CHOOSE` takes does.

*Assumptions.* The buffer size is positive, the widths are positive and ordered,
the bounds on words, times and paths are numbers. `MachinesAssumption` and
`CountedAssumption` say of the parameters of `MooreMachine` and `ToMooreMachine`
that they have the form that the construction before leaves.
`UntimedFilterProofs` does without both: there the form is proved
(`CountedIsCounted`, `MadeIsMachine`). `FilesAssumption` says that the edges of a
file join vertices of the file. `GuardsAssumption` says that the clocks of guards
have a row in the matrices, `VectorsAssumption` that the intervals of a vector
are those that `findDuration` leaves: bounds below infinity, not empty, and
positive, and that the automaton does not return to the initial configurations,
which is `NeverBackToZero`; `SweepsIntervals` checks both of the vectors that the
whole program sweeps. `InputsFit` says two things of the inputs of the timed
program: that no event has duration 0, neither at time 0 nor at the time of the
event before, without which finding 4 falsifies `NoMatchLost`, and that every
clock of a file, guarded or only reset, has a row in the matrices, of a number
that is not cut off, without which finding 3 is undefined behaviour and clock 255
is taken for the constant 0. `ClocksFit`, for what a file means, says that the
reader does not cut the numbers either. Of `Infinity` the proofs on zones need
only that it is positive: a sum that happens to be `Infinity` makes a zone
larger. `NoOverflow`
says that the buffer is shorter than `int` is wide or longer than the word the
mask is computed in; without it finding 1 falsifies what has it as hypothesis.
The mask character must not be in the alphabet for `OnlyRunsAreShown`, since a
mask that was read is printed as it is.

*The running machine.* None of its properties is inductive. The output is right
because bit and character of the front belong together, which needs `Aligned`;
`Aligned` alone does not say how many characters were printed, so it does not
relate the front of the queue to the next position of the output. `IInv`
therefore is `TypeOK`, `Aligned`, `FaithfulOutput` and `Accounting`, an equation
per phase that relates `counter`, `finCounter`, `drained` and the lengths of
input and output. A character is printed when it leaves the queue, and `window`
only grows within the last `BufferSize` positions, so what was printed stays
right. A lemma says that without overflow `Enable` sets exactly the last n bits.
The bounds on the lag and the completeness follow from `Accounting` alone.

*The constructions.* The invariants say of each transition made so far that it is
right, and of each one that a visited state must have that it has been made or is
still in the list of the state being visited (`Redirects`, `Merges`); that the
map is the inverse of the vector of states is what makes the target found in the
map the right one. In `AddCounter` the `Phases` of the loop are part of it: that
every initial state has its copy before a transition is redirected.

*The program.* The invariant of `UntimedFilter` has three phases: until the
automaton with counters is complete the second construction has not begun, until
the machine is complete nothing was read, and from then on `Follows` holds. It
relates the subset of the current state with the runs (`Represents`), and says
that a run's characters before the last wrap of its counter are visible, and all
of them when it has just matched or filled the buffer (`RunsShown`), so that a
match is complete in the window however long it is: the last part by the
counter of the match, each earlier part by the full buffer before. The lemmas on
remainders relate the counter with the length of a run. One step of it is
`RepresentsKept` and `ShownKept`, from `Unfolds`, `Determinizes` and the
transition of `feed`, the fall back to the initial state included.

*The zones.* A matrix has a point when the differences of the clocks, clock 0
included, are within all of its bounds (`Around`). Each operation of `DBM` is
shown to keep the points that it should: `close1` and `canonize` all of them,
since what is within two bounds is within their sum; `tighten` those that meet
the constraint; `elapse` the later points, and `reset` those with the clock at 0.
A matrix with a point is satisfiable, so that a transition that can be taken is
not left out, and `findDuration`, which is the same operations with one clock
more, finds the time that leads from a point to one that meets the guard.
`In` does not look at the diagonal, which the code does not keep at 0; the
invariant says that no entry of it excludes 0, which `isSatisfiable` tests and
`reset` keeps. That is also what `CornerIgnored` depends on: `findDuration` reads
entry (0,0), as a bound on a duration that is positive.

*The sweep.* The invariant says that the deques hold exactly the intervals whose
ends lie ahead of the sweep, in order; that an interval whose beginning is ahead
has its end ahead; that `currentStates` has the configurations that are open at
the sweep; and that the pieces made say of every duration below the sweep exactly
the configurations open there. It is proved for every order in which equal bounds
may be left. A step of the sweep takes from a deque all that share the bound at
its front, a loop in the code, which `Batch` and its lemmas account for.

*The timed words.* What `putOne` remembers is the time of the last event that was
let out, whether it was printed or not; what `getOne` remembers, that of the last
event read. The durations in between are differences and add up to the times
again. `Spans`, `Rel2Abs` and the times of a word are recursive functions; the
lemmas say what they become when a line is appended, and the invariant relates
the output with them line by line.

*The timed program.* The proof has the parts of the one of `UntimedFilter`; what
differs is that a state does not have exactly the runs alive but covers them
(`Covers`): the configuration of a run is in the state with a zone that its clock
values are in. While the machine is made, `Making` says of every row of the map
that is complete, of the one that is being filled and of the sweep in progress
that each piece serves its durations: for each duration in the piece and each
successor in the vector whose interval contains it, the state that the piece
leads to has the configuration of the successor (`Serves`, `Entered`, `Handled`).
That the pieces of a sweep do so is the invariant of `LinearizeNextsProofs`; that
the state looked up has the configurations of the piece, though duplicates are
removed from the key, is `StatesOK`. Of the machine made it follows that it moves
with the runs: a run that reads an event moves to a point that is in the zone
that `constructNexts` made, its duration is in the interval found, hence in the
piece that `DRTAState::next` finds, hence the zone is in the next state; and when
there is no such piece, no run survives, and the initial state covers those that
begin. `IInv` has the three phases of `UntimedFilter`, and `Shown` relates the
runs with the window, as `RunsShown` does there. That a match has a run is shown
of `ConfsAfter`, the configurations that a word leads to, which `MemberIs` shows
to be what `isMember` computes. `MatchLeads` shows the same of a match of the
file itself, along a path of its edges, where the value of a clock is the time
since the last edge that reset it; with `Shown` that is the refinement of
`PatternFilter`.

The theorems about `TimedFilter` have `[]SweepsIntervals` as a hypothesis, which
run `timed_filter` checks: every interval that is swept contains a duration. The
code does not look; it follows from `isSatisfiable` only because the closure of
a matrix is exact, and that needs that no sum of constants is `Infinity`. Without
a bound on the constants of zones, which `abstractize` would give if it were
called, that cannot be an assumption about constants.

*Not proved.* Liveness stays with TLC, since the prover has neither fairness nor
ENABLED; so the refinements of `DelayLine` and `PatternFilter` are checked as a
whole, and their steps are proved. The reverse halves of `ZoneExact` and
`DurationsExact`, that every point of a zone is reached, hold only of a grid that
is fine enough for the guards and of an `Infinity` that no sum of constants
reaches; they and `GuardByIntersection` and `SweepsIntervals`, which need the same
bound, are model-checked.

## 8. Not modelled

* The text of a DOT file: Boost's graphviz reader is external, and files that the
  reader rejects are left out. So are vertices without `init` or `match` and timed
  automata without guards, for which the program reads memory that was not
  written.
* `main.cc:110-192`, option parsing and usage texts; `construct_only.cc`, which
  calls the same reader and constructions and prints the number of states. They
  have no logic of their own; the options are parameters: the alphabet,
  `isAbsTime`.
* `DBM::cutVars`, `abstractize`, `makeUnsat`, `Constraint::widen`,
  `Constraint::operator()`, `deepCopy`, the membership tests of untimed automata:
  called by nothing the program runs.
* `M`, the largest constant in a matrix: stored and compared, the same
  everywhere.
* Rounding of `double`: times are exact in the models.
* 255 clocks: the models cut clock numbers as the code does, but no run has so
  many.
* Shell scripts, data, unit tests.

## 9. History

In this order: `BitBuffer`, `MooreMachine` and its proofs; `AddCounter`;
`ToMooreMachine`; `PatternFilter`, `UntimedFilter`; the timed modules from
`Bounds` up; `TimedWords`; `AutomatonFile`, `TimedAutomaton`, `TimedFilter`;
`DelayLine`; the proofs of the constructions and of `UntimedFilter`, then those
of `LinearizeNexts`, `TimedWords` and `ConstructNexts`, and last of `TimedFilter`.

What would come next: the exactness of the closure, from which `SweepsIntervals`
would follow for constants below a bound, and with it the other halves of
`ZoneExact` and `DurationsExact`.
