------------------------- MODULE MooreMachineProofs -------------------------
(***************************************************************************)
(* Theorems about MooreMachine.                                            *)
(***************************************************************************)
EXTENDS MooreMachine, TLAPS

-----------------------------------------------------------------------------
(* The bit register.                                                       *)

LEMMA EnableType ==
  ASSUME NEW bits, NEW n \in 0 .. BufferSize, NEW new \in Enable(bits, n)
  PROVE  new \subseteq Positions
BY DEF Enable, EnabledBits, ShiftLeft, LowBits

(* Below the width of int, getAndEnable(n) shifts and sets the low n bits. *)
LEMMA EnableExact ==
  ASSUME NoOverflow,
         NEW bits, NEW n \in 0 .. BufferSize, NEW new \in Enable(bits, n)
  PROVE  new = {i \in Positions : i - 1 \in bits \/ i < n}
<1> BufferSize \in Nat /\ IntWidth \in Nat /\ LongWidth \in Nat
  BY BufferSizeAssumption, WidthAssumption
<1>1. BufferSize > LongWidth \/ n < IntWidth
  BY DEF NoOverflow
<1> QED
  BY <1>1 DEF Enable, EnabledBits, ShiftLeft, LowBits

-----------------------------------------------------------------------------
(* Type correctness.                                                       *)

LEMMA FeedType ==
  ASSUME TypeOK, NEW c \in FedChar, Feed(c)
  PROVE  /\ machine' = machine
         /\ currentState' \in MState
         /\ charBuffer' \in Seq(FedChar)
         /\ Len(charBuffer') = BufferSize
         /\ bitBuffer' \subseteq Positions
         /\ window' \subseteq Int
         /\ machine.counter[currentState'] \in 0 .. BufferSize
<1> DEFINE q == Successor(c)
           n == machine.counter[q]
<1> BufferSize \in Nat \ {0}
  BY BufferSizeAssumption
<1>1. IsMachine(machine)
  BY DEF TypeOK
<1>2. q \in MState
  BY <1>1 DEF Successor, IsMachine, MState
<1>3. n \in 0 .. BufferSize
  BY <1>1, <1>2 DEF IsMachine, MState
<1>4. bitBuffer' \subseteq Positions
  BY <1>3, EnableType DEF Feed
<1>5. charBuffer' \in Seq(FedChar) /\ Len(charBuffer') = BufferSize
  BY DEF Feed, TypeOK
<1>6. window' \subseteq Int
  <2>1. Now \in Int
    BY DEF Now, TypeOK
  <2>2. window' = window \union (Now - n + 2) .. (Now + 1)
    BY DEF Feed
  <2>3. (Now - n + 2) .. (Now + 1) \subseteq Int
    BY <2>1, <1>3
  <2>4. window \subseteq Int
    BY DEF TypeOK
  <2> HIDE DEF n
  <2> QED
    BY <2>2, <2>3, <2>4
<1> QED
  BY <1>2, <1>3, <1>4, <1>5, <1>6 DEF Feed

LEMMA EmittedType ==
  ASSUME TypeOK PROVE Emitted \in OutChar
<1> BufferSize \in Nat \ {0}
  BY BufferSizeAssumption
<1>1. Head(charBuffer) \in FedChar
  BY DEF TypeOK
<1> QED
  BY <1>1 DEF Emitted, OutChar

LEMMA StartTypeOK ==
  ASSUME IsMachine(machine), Start PROVE TypeOK
<1> USE BufferSizeAssumption
<1>1. charBuffer \in Seq(FedChar) /\ Len(charBuffer) = BufferSize
  BY DEF Start, FedChar
<1> QED
  BY <1>1 DEF Start, TypeOK, IsMachine, MState

LEMMA StepTypeOK ==
  ASSUME TypeOK, [Next]_vars PROVE TypeOK'
<1> USE BufferSizeAssumption
<1>1. CASE Read
  <2>1. PICK c \in Alphabet : Fill(c) \/ Forward(c)
    BY <1>1 DEF Read
  <2>2. CASE Fill(c)
    <3>1. Feed(c) /\ c \in FedChar
      BY <2>2 DEF Fill, FedChar
    <3> QED
      BY <2>2, <3>1, FeedType DEF Fill, TypeOK, MState
  <2>3. CASE Forward(c)
    <3>1. Feed(c) /\ c \in FedChar
      BY <2>3 DEF Forward, FedChar
    <3> QED
      BY <2>3, <3>1, FeedType, EmittedType DEF Forward, TypeOK, MState, OutChar, FedChar
  <2> QED
    BY <2>1, <2>2, <2>3
<1>2. CASE EndOfInput
  BY <1>2 DEF EndOfInput, ToFlush, TypeOK, MState
<1>3. CASE Pad
  <2>1. Feed(MaskChar) /\ MaskChar \in FedChar
    BY <1>3 DEF Pad, FedChar
  <2> QED
    BY <1>3, <2>1, FeedType DEF Pad, TypeOK, MState
<1>4. CASE Flush
  <2>1. Feed(MaskChar) /\ MaskChar \in FedChar
    BY <1>4 DEF Flush, FedChar
  <2> QED
    BY <1>4, <2>1, FeedType, EmittedType DEF Flush, MoreToFlush, TypeOK, MState, OutChar, FedChar
<1>5. CASE UNCHANGED vars
  BY <1>5 DEF vars, implVars, TypeOK, MState
<1> QED
  BY <1>1, <1>2, <1>3, <1>4, <1>5 DEF Next, Drain

(* The members of the machine and the locals of filter() keep their types, *)
(* whatever the buffer size: even an overflowing shift stays in the bits.  *)
THEOREM TypeCorrect == Spec => []TypeOK
<1>1. Init => TypeOK
  BY MachinesAssumption, StartTypeOK DEF Init
<1>2. TypeOK /\ [Next]_vars => TypeOK'
  BY StepTypeOK
<1> QED
  BY <1>1, <1>2, PTL DEF Spec

-----------------------------------------------------------------------------
(* The inductive invariant.                                                *)

(* No position is visible before its character is fed, every character fed *)
(* has been printed or is still in the buffer (or was an initial mask that *)
(* the first BufferSize feeds pushed out), and nothing is printed before   *)
(* the buffer is full.                                                     *)
Accounting ==
  /\ \A p \in window : p =< Now
  /\ Now = Len(out) + counter
  /\ counter < BufferSize => Len(out) = 0
  /\ phase = "reading" => drained = 0
  /\ phase = "draining" => finCounter + Len(out) = Len(word)

IInv == TypeOK /\ Accounting /\ Aligned /\ FaithfulOutput

(***************************************************************************)
(* feed(c) keeps the queue and the bits aligned when c is the character at *)
(* the next position, and only changes the visibility of positions that    *)
(* are still in the queue.                                                 *)
(***************************************************************************)
LEMMA FeedAligns ==
  ASSUME NoOverflow, TypeOK, Accounting, Aligned,
         NEW c \in FedChar, Feed(c),
         Now' = Now + 1,
         \A p \in Int : p = Now + 1 => CharAt(p)' = c,
         \A p \in Int : p =< Now => CharAt(p)' = CharAt(p)
  PROVE  /\ Aligned'
         /\ \A p \in window' : p =< Now + 1
         /\ \A p \in Int : p =< Now - BufferSize + 1
                             => (p \in window' <=> p \in window)
<1> DEFINE n == machine.counter[Successor(c)]
<1> BufferSize \in Nat \ {0}
  BY BufferSizeAssumption
<1>1. n \in 0 .. BufferSize
  BY FeedType DEF Feed
<1>2. Now \in Int
  BY DEF Now, TypeOK
<1>3. window' = window \union (Now - n + 2) .. (Now + 1)
  BY DEF Feed
<1>4. bitBuffer' = {i \in Positions : i - 1 \in bitBuffer \/ i < n}
  <2>1. bitBuffer' \in Enable(bitBuffer, n)
    BY DEF Feed
  <2> HIDE DEF n
  <2> QED
    BY <1>1, <2>1, EnableExact
<1>5. charBuffer' = Append(Tail(charBuffer), c)
  BY DEF Feed
<1> HIDE DEF n
<1>6. \A p \in window' : p =< Now + 1
  BY <1>1, <1>2, <1>3 DEF Accounting, TypeOK
<1>7. \A p \in Int : p =< Now - BufferSize + 1
                     => (p \in window' <=> p \in window)
  BY <1>1, <1>2, <1>3
<1>8. bitBuffer' = {i \in Positions : Now + 1 - i \in window'}
  <2> SUFFICES ASSUME NEW i \in Positions
               PROVE  (i - 1 \in bitBuffer \/ i < n) <=> Now + 1 - i \in window'
    BY <1>4
  <2>1. i - 1 \in bitBuffer <=> i > 0 /\ Now - (i - 1) \in window
    BY DEF Aligned, Positions
  <2>2. i = 0 => Now + 1 - i \notin window
    BY <1>2 DEF Accounting, TypeOK, Positions
  <2>3. i < n <=> Now + 1 - i \in (Now - n + 2) .. (Now + 1)
    BY <1>1, <1>2 DEF Positions
  <2>4. Now - (i - 1) = Now + 1 - i
    BY <1>2 DEF Positions
  <2> QED
    BY <2>1, <2>2, <2>3, <2>4, <1>3 DEF Positions
<1>9. charBuffer' = [i \in 1 .. BufferSize |-> CharAt(Now - BufferSize + i)']
  <2>1. charBuffer \in Seq(FedChar) /\ Len(charBuffer) = BufferSize
    BY DEF TypeOK
  <2>2. /\ charBuffer' \in Seq(FedChar)
        /\ Len(charBuffer') = BufferSize
        /\ charBuffer'[BufferSize] = c
        /\ \A i \in 1 .. BufferSize - 1 : charBuffer'[i] = charBuffer[i + 1]
    BY <1>5, <2>1
  <2>3. ASSUME NEW i \in 1 .. BufferSize, NEW p \in Int,
               p = Now + 1 - BufferSize + i
        PROVE  charBuffer'[i] = CharAt(p)'
    <3>1. CASE i = BufferSize
      BY <3>1, <2>2, <2>3, <1>2
    <3>2. CASE i < BufferSize
      <4>1. charBuffer'[i] = CharAt(Now - BufferSize + (i + 1))
        BY <3>2, <2>2 DEF Aligned
      <4>2. p = Now - BufferSize + (i + 1) /\ p =< Now
        BY <3>2, <1>2, <2>3
      <4> QED
        BY <4>1, <4>2
    <3> QED
      BY <3>1, <3>2
  <2>4. ASSUME NEW i \in 1 .. BufferSize
        PROVE  charBuffer'[i] = CharAt(Now - BufferSize + i)'
    <3>1. Now + 1 - BufferSize + i \in Int
      BY <1>2
    <3> QED
      BY <3>1, <2>3, <1>2 DEF CharAt
  <2> QED
    BY <2>2, <2>4
<1>10. bitBuffer' = {i \in Positions : Now' - i \in window'}
  <2>1. ASSUME NEW i \in Positions PROVE Now' - i = Now + 1 - i
    BY <1>2, <2>1 DEF Positions
  <2> QED
    BY <2>1, <1>8
<1> QED
  BY <1>6, <1>7, <1>9, <1>10 DEF Aligned

(***************************************************************************)
(* When the buffer is full, what feed returns is the oldest character that *)
(* has not been printed, masked unless its position is visible.            *)
(***************************************************************************)
LEMMA EmittedIsOldest ==
  ASSUME IInv, counter = BufferSize, Len(out) < Len(word)
  PROVE  Emitted = IF Len(out) + 1 \in window
                     THEN word[Len(out) + 1] ELSE MaskOf(word[Len(out) + 1])
<1> BufferSize \in Nat \ {0}
  BY BufferSizeAssumption
<1>1. Len(out) \in Nat /\ Len(word) \in Nat /\ Now \in Int
  BY DEF IInv, TypeOK, Now
<1>2. Now - BufferSize + 1 = Len(out) + 1
  BY <1>1 DEF IInv, Accounting
<1>3. Head(charBuffer) = word[Len(out) + 1]
  <2>1. Head(charBuffer) = charBuffer[1]
    BY DEF IInv, TypeOK
  <2>2. charBuffer[1] = CharAt(Now - BufferSize + 1)
    BY DEF IInv, Aligned
  <2> QED
    BY <2>1, <2>2, <1>1, <1>2 DEF CharAt
<1>4. OldestBit(bitBuffer) <=> Len(out) + 1 \in window
  <2>1. BufferSize - 1 \in Positions /\ Now - (BufferSize - 1) = Len(out) + 1
    BY <1>1, <1>2 DEF Positions
  <2> QED
    BY <2>1 DEF OldestBit, IInv, Aligned
<1> QED
  BY <1>3, <1>4 DEF Emitted

(* Printing the oldest character while the buffer takes a new one keeps    *)
(* the output faithful: the decision on every printed position is final.   *)
LEMMA PrintIsFaithful ==
  ASSUME IInv, counter = BufferSize, Len(out) < Len(word),
         out' = Append(out, Emitted),
         Len(word') >= Len(word),
         \A p \in 1 .. Len(word) : word'[p] = word[p],
         \A p \in Int : p =< Now - BufferSize + 1
                         => (p \in window' <=> p \in window)
  PROVE  FaithfulOutput'
<1> BufferSize \in Nat \ {0}
  BY BufferSizeAssumption
<1>1. Len(out) \in Nat /\ Len(word) \in Nat /\ Now \in Int /\ out \in Seq(OutChar)
  BY DEF IInv, TypeOK, Now
<1>2. Now - BufferSize + 1 = Len(out) + 1
  BY <1>1 DEF IInv, Accounting
<1>3. /\ Len(out') = Len(out) + 1
      /\ out'[Len(out) + 1] = Emitted
      /\ \A p \in 1 .. Len(out) : out'[p] = out[p]
  BY <1>1
<1>4. ASSUME NEW p \in 1 .. Len(out) + 1
      PROVE  out'[p] = IF p \in window' THEN word'[p] ELSE MaskOf(word'[p])
  <2>1. word'[p] = word[p] /\ (p \in window' <=> p \in window)
    BY <1>1, <1>2
  <2>2. CASE p = Len(out) + 1
    BY <2>1, <2>2, <1>3, EmittedIsOldest
  <2>3. CASE p \in 1 .. Len(out)
    BY <2>1, <2>3, <1>3 DEF IInv, FaithfulOutput
  <2> QED
    BY <2>2, <2>3, <1>1
<1> QED
  BY <1>1, <1>3, <1>4 DEF FaithfulOutput

(***************************************************************************)
(* Every step preserves the invariant, when shifts do not overflow.        *)
(***************************************************************************)
LEMMA StartIInv ==
  ASSUME IsMachine(machine), Start PROVE IInv
<1> USE BufferSizeAssumption
<1>1. TypeOK
  BY StartTypeOK
<1>2. Accounting
  BY DEF Start, Accounting, Now
<1>3. Aligned
  BY DEF Start, Aligned, CharAt, Now, Positions
<1>4. FaithfulOutput
  BY DEF Start, FaithfulOutput
<1> QED
  BY <1>1, <1>2, <1>3, <1>4 DEF IInv

LEMMA StepIInv ==
  ASSUME NoOverflow, IInv, [Next]_vars
  PROVE  IInv'
<1> BufferSize \in Nat \ {0}
  BY BufferSizeAssumption
<1> USE DEF IInv
<1>9. TypeOK'
  BY StepTypeOK
<1>0. /\ Len(word) \in Nat /\ word \in Seq(Alphabet)
      /\ Len(out) \in Nat /\ out \in Seq(OutChar)
      /\ drained \in Nat /\ counter \in 0 .. BufferSize
      /\ finCounter \in 0 .. BufferSize /\ Now = Len(word) + drained
  BY DEF TypeOK, Now
(* Feeding a character that is read from the input.                        *)
<1>1. ASSUME NEW c \in Alphabet, Feed(c), phase = "reading",
             word' = Append(word, c), drained' = drained
      PROVE  /\ Aligned' /\ Now' = Now + 1
             /\ Len(word') = Len(word) + 1
             /\ \A p \in 1 .. Len(word) : word'[p] = word[p]
             /\ \A p \in window' : p =< Now + 1
             /\ \A p \in Int : p =< Now - BufferSize + 1
                                 => (p \in window' <=> p \in window)
  <2>1. /\ Len(word') = Len(word) + 1 /\ word'[Len(word) + 1] = c
        /\ \A p \in 1 .. Len(word) : word'[p] = word[p]
    BY <1>0, <1>1
  <2>2. Now' = Now + 1 /\ Now = Len(word)
    BY <1>0, <1>1, <2>1 DEF Now, Accounting
  <2>3. \A p \in Int : p = Now + 1 => CharAt(p)' = c
    BY <1>0, <2>1, <2>2 DEF CharAt
  <2>4. \A p \in Int : p =< Now => CharAt(p)' = CharAt(p)
    BY <1>0, <2>1, <2>2 DEF CharAt
  <2>5. c \in FedChar
    BY DEF FedChar
  <2> QED
    BY <1>1, <2>1, <2>2, <2>3, <2>4, <2>5, FeedAligns
(* Feeding a mask once the input has ended.                                *)
<1>2. ASSUME Feed(MaskChar), word' = word, drained' = drained + 1
      PROVE  /\ Aligned' /\ Now' = Now + 1
             /\ \A p \in window' : p =< Now + 1
             /\ \A p \in Int : p =< Now - BufferSize + 1
                                 => (p \in window' <=> p \in window)
  <2>1. Now' = Now + 1
    BY <1>0, <1>2 DEF Now
  <2>2. \A p \in Int : p = Now + 1 => CharAt(p)' = MaskChar
    BY <1>0, <1>2 DEF CharAt
  <2>3. \A p \in Int : p =< Now => CharAt(p)' = CharAt(p)
    BY <1>2 DEF CharAt
  <2>4. MaskChar \in FedChar
    BY DEF FedChar
  <2> QED
    BY <1>2, <2>1, <2>2, <2>3, <2>4, FeedAligns
<1>3. ASSUME NEW c \in Alphabet, Fill(c) PROVE IInv'
  <2>1. /\ Feed(c) /\ phase = "reading" /\ word' = Append(word, c)
        /\ drained' = drained /\ out' = out /\ counter < BufferSize
        /\ counter' = counter + 1 /\ phase' = phase /\ finCounter' = finCounter
    BY <1>3 DEF Fill
  <2>2. Accounting'
    BY <1>0, <1>1, <2>1 DEF Accounting
  <2>3. FaithfulOutput'
    BY <1>0, <1>1, <2>1 DEF FaithfulOutput, Accounting
  <2> QED
    BY <1>1, <1>9, <2>1, <2>2, <2>3
<1>4. ASSUME NEW c \in Alphabet, Forward(c) PROVE IInv'
  <2>1. /\ Feed(c) /\ phase = "reading" /\ word' = Append(word, c)
        /\ drained' = drained /\ out' = Append(out, Emitted)
        /\ counter = BufferSize /\ counter' = counter
        /\ phase' = phase /\ finCounter' = finCounter
    BY <1>0, <1>4 DEF Forward
  <2>2. Len(out) < Len(word)
    BY <1>0, <2>1 DEF Accounting
  <2>3. Accounting'
    BY <1>0, <1>1, <2>1 DEF Accounting
  <2>4. FaithfulOutput'
    BY <1>0, <1>1, <2>1, <2>2, PrintIsFaithful
  <2> QED
    BY <1>1, <1>9, <2>1, <2>3, <2>4
<1>5. ASSUME EndOfInput PROVE IInv'
  <2>1. Accounting'
    BY <1>0, <1>5 DEF EndOfInput, ToFlush, Accounting, Now
  <2>2. Aligned' /\ FaithfulOutput'
    BY <1>5 DEF EndOfInput, Aligned, FaithfulOutput, Now, CharAt
  <2> QED
    BY <1>9, <2>1, <2>2
<1>6. ASSUME Pad PROVE IInv'
  <2>1. /\ Feed(MaskChar) /\ phase = "draining" /\ word' = word
        /\ drained' = drained + 1 /\ out' = out /\ counter < BufferSize
        /\ counter' = counter + 1 /\ phase' = phase /\ finCounter' = finCounter
    BY <1>6 DEF Pad
  <2>2. Accounting'
    <3>1. \A p \in window' : p =< Now'
      BY <1>2, <2>1
    <3>2. Now' = Len(out') + counter'
      BY <1>0, <1>2, <2>1 DEF Accounting
    <3>3. Len(out') = 0
      BY <2>1 DEF Accounting
    <3>4. phase' = "draining" /\ finCounter' + Len(out') = Len(word')
      BY <2>1 DEF Accounting
    <3> QED
      BY <3>1, <3>2, <3>3, <3>4 DEF Accounting
  <2>3. FaithfulOutput'
    BY <1>0, <2>1 DEF FaithfulOutput, Accounting
  <2> QED
    BY <1>2, <1>9, <2>1, <2>2, <2>3
<1>7. ASSUME Flush PROVE IInv'
  <2>1. /\ Feed(MaskChar) /\ phase = "draining" /\ word' = word
        /\ drained' = drained + 1 /\ out' = Append(out, Emitted)
        /\ counter = BufferSize /\ counter' = counter /\ phase' = phase
        /\ finCounter > 0 /\ finCounter' = finCounter - 1
    BY <1>0, <1>7 DEF Flush, MoreToFlush
  <2>2. Len(out) < Len(word)
    BY <1>0, <2>1 DEF Accounting
  <2>3. Accounting'
    <3>1. Len(out') = Len(out) + 1
      BY <1>0, <2>1
    <3>2. \A p \in window' : p =< Now'
      BY <1>2, <2>1
    <3>3. Now' = Len(out') + counter'
      BY <1>0, <1>2, <2>1, <3>1 DEF Accounting
    <3>4. phase' = "draining" /\ finCounter' + Len(out') = Len(word')
      BY <1>0, <2>1, <3>1 DEF Accounting
    <3>5. counter' = BufferSize
      BY <2>1
    <3> QED
      BY <3>2, <3>3, <3>4, <3>5 DEF Accounting
  <2>4. FaithfulOutput'
    BY <1>0, <1>2, <2>1, <2>2, PrintIsFaithful
  <2> QED
    BY <1>2, <1>9, <2>1, <2>3, <2>4
<1>8. CASE UNCHANGED vars
  BY <1>8, <1>9 DEF vars, implVars, Accounting, Aligned, FaithfulOutput, Now, CharAt
<1> QED
  BY <1>3, <1>4, <1>5, <1>6, <1>7, <1>8 DEF Next, Read, Drain

-----------------------------------------------------------------------------
(* The theorems.  The members of a BufferSize below the width of int, or   *)
(* beyond the width of uint64_t, satisfy NoOverflow.                       *)

THEOREM InductiveInvariant == NoOverflow => (Spec => []IInv)
<1>1. SUFFICES ASSUME NoOverflow PROVE Spec => []IInv
  OBVIOUS
<1>2. Init => IInv
  BY MachinesAssumption, StartIInv DEF Init
<1>3. IInv /\ [Next]_vars => IInv'
  BY <1>1, StepIInv
<1> QED
  BY <1>2, <1>3, PTL DEF Spec

(* The queue of characters and the register of visibility bits never get   *)
(* out of step.                                                            *)
THEOREM StaysAligned == NoOverflow => (Spec => []Aligned)
<1>1. IInv => Aligned
  BY DEF IInv
<1> QED
  BY <1>1, InductiveInvariant, PTL

(* What filter() prints is the input, shown where some state entered while *)
(* the character was buffered asked for it and masked elsewhere.           *)
THEOREM OutputIsFaithful == NoOverflow => (Spec => []FaithfulOutput)
<1>1. IInv => FaithfulOutput
  BY DEF IInv
<1> QED
  BY <1>1, InductiveInvariant, PTL

(* While it reads, filter() withholds the last BufferSize characters only. *)
THEOREM LagIsBounded == NoOverflow => (Spec => []BoundedLag)
<1> BufferSize \in Nat \ {0}
  BY BufferSizeAssumption
<1>1. IInv => BoundedLag
  BY DEF IInv, Accounting, BoundedLag, TypeOK, Now
<1> QED
  BY <1>1, InductiveInvariant, PTL

(* When filter() returns it has printed one character for each it read.    *)
THEOREM NothingIsLost == NoOverflow => (Spec => []AllPrinted)
<1>1. IInv => AllPrinted
  BY DEF IInv, Accounting, AllPrinted, Finished, TypeOK
<1> QED
  BY <1>1, InductiveInvariant, PTL

-----------------------------------------------------------------------------
(* The machine implements DelayLine.                                       *)

(* The first of the two steps by which the line takes in a character.      *)
LEMMA FillReceives ==
  ASSUME IInv, NEW c \in Alphabet, Fill(c) PROVE Delay!Receive
<1> BufferSize \in Nat \ {0}
  BY BufferSizeAssumption
<1>1. Len(word) < BufferSize
  <2>1. Len(word) = counter
    BY DEF IInv, Fill, Accounting, Now, TypeOK
  <2> QED
    BY <2>1 DEF Fill
<1> QED
  BY <1>1 DEF Fill, Delay!Receive

LEMMA ForwardReceives ==
  ASSUME IInv, NEW c \in Alphabet, Forward(c) PROVE Delay!Receive
<1> BufferSize \in Nat \ {0}
  BY BufferSizeAssumption
<1>1. /\ word \in Seq(Alphabet) /\ Len(word) \in Nat /\ Len(out) \in Nat
      /\ counter = BufferSize /\ phase = "reading" /\ phase' = phase
      /\ word' = Append(word, c) /\ out' = Append(out, Emitted)
  BY DEF IInv, TypeOK, Forward
<1>2. Len(word) = Len(out) + BufferSize
  BY <1>1 DEF IInv, Accounting, Now, TypeOK
<1>3. Emitted \in {word[Len(out) + 1], MaskOf(word[Len(out) + 1])}
  BY <1>1, <1>2, EmittedIsOldest
<1>4. word'[Len(out) + 1] = word[Len(out) + 1]
  BY <1>1, <1>2
<1>5. ~(Len(word) < BufferSize)
  BY <1>1, <1>2
<1> QED
  BY <1>1, <1>3, <1>4, <1>5 DEF Delay!Receive, Delay!Emit

LEMMA FlushEmpties ==
  ASSUME IInv, Flush PROVE Delay!Empty
<1> BufferSize \in Nat \ {0}
  BY BufferSizeAssumption
<1>1. /\ Len(word) \in Nat /\ Len(out) \in Nat
      /\ counter = BufferSize /\ phase = "draining" /\ phase' = phase
      /\ word' = word /\ out' = Append(out, Emitted) /\ finCounter > 0
  BY DEF IInv, TypeOK, Flush, MoreToFlush
<1>2. Len(out) < Len(word)
  BY <1>1 DEF IInv, Accounting, TypeOK
<1>3. Emitted \in {word[Len(out) + 1], MaskOf(word[Len(out) + 1])}
  BY <1>1, <1>2, EmittedIsOldest
<1> QED
  BY <1>1, <1>2, <1>3 DEF Delay!Empty, Delay!Emit

(* Every step of the machine is one of the delay line, or none that shows: *)
(* what filter() prints is a masked copy of what it reads, in order and    *)
(* never revised, that lags by the size of the buffer.                     *)
THEOREM ImplementsDelayLine ==
  NoOverflow => (Spec => Delay!Init /\ [][Delay!Next]_(Delay!vars))
<1>1. Init => Delay!Init
  BY DEF Init, Start, Delay!Init
<1>2. IInv /\ [Next]_vars => [Delay!Next]_(Delay!vars)
  <2> SUFFICES ASSUME IInv, [Next]_vars PROVE [Delay!Next]_(Delay!vars)
    OBVIOUS
  <2>1. CASE Read
    BY <2>1, FillReceives, ForwardReceives DEF Read, Delay!Next
  <2>2. CASE EndOfInput
    BY <2>2 DEF EndOfInput, Delay!Close, Delay!Next
  <2>3. CASE Pad
    BY <2>3 DEF Pad, Delay!vars
  <2>4. CASE Flush
    BY <2>4, FlushEmpties DEF Delay!Next
  <2>5. CASE UNCHANGED vars
    BY <2>5 DEF vars, implVars, Delay!vars
  <2> QED
    BY <2>1, <2>2, <2>3, <2>4, <2>5 DEF Next, Drain
<1> QED
  BY <1>1, <1>2, InductiveInvariant, PTL DEF Spec

==============================================================================
