---------------------------- MODULE MooreMachine ----------------------------
(***************************************************************************)
(* The running filter: MooreMachine::feed of src/moore_machine.hh and the  *)
(* loop filter() of src/main.cc that drives it from stdin to stdout.       *)
(*                                                                         *)
(* The machine delays its input by BufferSize characters.  Every state q   *)
(* of its automaton carries a counter: on entering q the last counter[q]   *)
(* characters, the current one included, become visible; a character that  *)
(* leaves the delay line without having become visible is masked.          *)
(*                                                                         *)
(* The source is a template over the alphabet, so this module is one too:  *)
(* the untimed filter takes characters, the timed one pairs of a character *)
(* and a duration, and MaskOf is the overload of mask() for the alphabet.  *)
(***************************************************************************)
EXTENDS BitBuffer, Sequences

CONSTANTS
  Alphabet,    \* the characters that can be read from the input
  MaskChar,    \* maskChar<Alphabet>, also fed to drain the machine
  MaskOf(_),   \* mask(c), the masked form of a character
  Machines,    \* the automata the filter may have been built with
  MaxLength    \* bound on the length of the input word

ASSUME MaxLengthAssumption == MaxLength \in Nat

(* A Moore machine as toMooreMachine and toTimedMooreMachine leave it.     *)
IsMachine(m) ==
  /\ m.counter \in [DOMAIN m.counter -> 0 .. BufferSize]
  /\ m.initial \in DOMAIN m.counter
  /\ \A k \in DOMAIN m.next : m.next[k] \in DOMAIN m.counter

ASSUME MachinesAssumption == \A m \in Machines : IsMachine(m)

VARIABLES
  machine,       \* initialStates[0], nextMap and counter; fixed once built
  currentState,
  charBuffer,    \* the std::queue of the last BufferSize characters
  bitBuffer,
  phase,         \* "reading" stdin, or "draining" after EOF
  counter,       \* local of filter(): characters fed, up to BufferSize
  finCounter,    \* local of filter(): characters left to print after EOF
  out            \* what putOne has printed

(* History: what has been read, how many mask characters were fed after    *)
(* EOF, and the positions of the word some state has made visible.         *)
VARIABLES word, drained, window

implVars == <<machine, currentState, charBuffer, bitBuffer, phase, counter,
              finCounter, out>>
vars == <<implVars, word, drained, window>>

-----------------------------------------------------------------------------

(* MooreMachine() fills the queue with masks; the bit set starts empty.    *)
Start ==
  /\ currentState = machine.initial
  /\ charBuffer = [i \in 1 .. BufferSize |-> MaskChar]
  /\ bitBuffer = {}
  /\ phase = "reading"
  /\ counter = 0
  /\ finCounter = 0
  /\ out = <<>>
  /\ word = <<>>
  /\ drained = 0
  /\ window = {}

Init == machine \in Machines /\ Start

(* Faulty: without a transition the machine stays where it is.             *)
SuccessorStays(c) ==
  IF <<currentState, c>> \in DOMAIN machine.next
    THEN machine.next[<<currentState, c>>]
    ELSE currentState

(***************************************************************************)
(* currentState->next(c), or the initial state when there is no            *)
(* transition on c.                                                        *)
(***************************************************************************)
Successor(c) ==
  IF <<currentState, c>> \in DOMAIN machine.next
    THEN machine.next[<<currentState, c>>]
    ELSE machine.initial

(* The number of characters fed so far; the last one has this position.    *)
Now == Len(word) + drained

(* Faulty: the bits only move when there is a transition on c.             *)
FeedWithoutShift(c) ==
  LET q == Successor(c)
      n == machine.counter[q]
  IN  /\ currentState' = q
      /\ IF <<currentState, c>> \in DOMAIN machine.next
           THEN bitBuffer' \in Enable(bitBuffer, n)
           ELSE \E ones \in EnabledBits(n) : bitBuffer' = bitBuffer \union ones
      /\ charBuffer' = Append(Tail(charBuffer), c)
      /\ window' = window \union (Now - n + 2) .. (Now + 1)
      /\ UNCHANGED machine

(* feed(c): take the transition, shift the bits, rotate the queue.         *)
Feed(c) ==
  LET q == Successor(c)
      n == machine.counter[q]
  IN  /\ currentState' = q
      /\ bitBuffer' \in Enable(bitBuffer, n)
      /\ charBuffer' = Append(Tail(charBuffer), c)
      /\ window' = window \union (Now - n + 2) .. (Now + 1)
      /\ UNCHANGED machine

(* Faulty: the bit is read after the shift.                                *)
EmittedAfterShift ==
  IF OldestBit(ShiftLeft(bitBuffer))
    THEN Head(charBuffer) ELSE MaskOf(Head(charBuffer))

(* What feed returns.  It reads only the state before the transition.      *)
Emitted ==
  IF OldestBit(bitBuffer) THEN Head(charBuffer) ELSE MaskOf(Head(charBuffer))

-----------------------------------------------------------------------------

(* The first BufferSize calls return the initial masks: nothing is printed *)
Fill(c) ==
  /\ phase = "reading"
  /\ counter < BufferSize
  /\ Feed(c)
  /\ word' = Append(word, c)
  /\ counter' = counter + 1
  /\ UNCHANGED <<phase, finCounter, out, drained>>

(* The later ones return what is to be printed.                            *)
Forward(c) ==
  /\ phase = "reading"
  /\ counter >= BufferSize
  /\ Feed(c)
  /\ word' = Append(word, c)
  /\ out' = Append(out, Emitted)
  /\ UNCHANGED <<phase, counter, finCounter, drained>>

(* Faulty: always flushes a full buffer.                                   *)
ToFlushFull == BufferSize

(* Faulty: counts the EOF as a character.                                  *)
ToFlushWithEOF == counter + 1

(* The characters of the input that are still in the queue at EOF.         *)
ToFlush == counter

(* getOne returns EOF.                                                     *)
EndOfInput ==
  /\ phase = "reading"
  /\ phase' = "draining"
  /\ finCounter' = ToFlush
  /\ UNCHANGED <<machine, currentState, charBuffer, bitBuffer, counter, out,
                 word, drained, window>>

(* A word shorter than the buffer: feed masks until the queue is full.     *)
Pad ==
  /\ phase = "draining"
  /\ counter < BufferSize
  /\ Feed(MaskChar)
  /\ counter' = counter + 1
  /\ drained' = drained + 1
  /\ UNCHANGED <<phase, finCounter, out, word>>

(* Faulty: the last character is kept back.                                *)
MoreThanOneToFlush == finCounter > 1

MoreToFlush == finCounter > 0

(* Feed masks to push out what was read, and print it.                     *)
Flush ==
  /\ phase = "draining"
  /\ counter >= BufferSize
  /\ MoreToFlush
  /\ Feed(MaskChar)
  /\ out' = Append(out, Emitted)
  /\ finCounter' = finCounter - 1
  /\ drained' = drained + 1
  /\ UNCHANGED <<phase, counter, word>>

Read == /\ Len(word) < MaxLength
        /\ \E c \in Alphabet : Fill(c) \/ Forward(c)

Drain == Pad \/ Flush

Next == Read \/ EndOfInput \/ Drain

(* The process keeps running once the input has ended; the input itself    *)
(* may never end, so reading is not fair.                                  *)
Spec == Init /\ [][Next]_vars /\ WF_vars(Drain)

(* filter() has returned.                                                  *)
Finished == phase = "draining" /\ counter >= BufferSize /\ finCounter = 0

-----------------------------------------------------------------------------
(***************************************************************************)
(* Properties.  Positions of the word count from 1; position p at or below *)
(* 0 is an initial mask, one beyond the word is a draining mask.           *)
(***************************************************************************)

CharAt(p) == IF p \in 1 .. Len(word) THEN word[p] ELSE MaskChar

FedChar == Alphabet \union {MaskChar}
OutChar == FedChar \union {MaskOf(c) : c \in FedChar}
MState == DOMAIN machine.counter

(* The types of the members of MooreMachine and of the locals of filter(). *)
TypeOK ==
  /\ IsMachine(machine)
  /\ currentState \in MState
  /\ charBuffer \in Seq(FedChar) /\ Len(charBuffer) = BufferSize
  /\ bitBuffer \subseteq Positions
  /\ phase \in {"reading", "draining"}
  /\ counter \in 0 .. BufferSize
  /\ finCounter \in 0 .. BufferSize
  /\ out \in Seq(OutChar)
  /\ word \in Seq(Alphabet)
  /\ drained \in Nat
  /\ window \subseteq Int

(* The queue and the bit set stay aligned: slot i of the queue holds the   *)
(* character whose visibility bit is BufferSize - i, and that bit is set   *)
(* exactly when some state entered since the character was fed asked for   *)
(* it.  Both rotate in feed(), in different statements.                    *)
Aligned ==
  /\ charBuffer = [i \in 1 .. BufferSize |-> CharAt(Now - BufferSize + i)]
  /\ bitBuffer = {i \in Positions : Now - i \in window}

(* Every printed character is the character of the word at that position,  *)
(* masked exactly when no state made it visible while it was buffered:     *)
(* nothing is shifted, lost or printed twice when EOF comes before the     *)
(* buffer is full or while it is, and no decision comes too late.          *)
FaithfulOutput ==
  /\ Len(out) <= Len(word)
  /\ \A p \in 1 .. Len(out) :
       out[p] = IF p \in window THEN word[p] ELSE MaskOf(word[p])

(* While reading, the output lags the input by the buffer size exactly (by *)
(* the whole input as long as it is shorter): filter() neither prints the  *)
(* masks the buffer started with nor withholds more than it must.          *)
BoundedLag ==
  phase = "reading" =>
    Len(out) = IF Len(word) < BufferSize THEN 0 ELSE Len(word) - BufferSize

(* When filter() returns, the output is as long as the input.              *)
AllPrinted == Finished => Len(out) = Len(word)

(* The filter is a delay line: what is printed is a masked copy, in order, *)
(* never revised and in the end complete.                                  *)
Delay == INSTANCE DelayLine WITH closed <- phase = "draining"
Delays == Delay!Spec

==============================================================================
