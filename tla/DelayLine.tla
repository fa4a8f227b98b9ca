------------------------------ MODULE DelayLine ------------------------------
(***************************************************************************)
(* What the running filter promises, whatever its automaton: it prints a   *)
(* copy of the word in which some characters are masked.  What is printed  *)
(* is never revised, exactly BufferSize characters are withheld while a    *)
(* longer word is read, and the rest follows once the word has ended.      *)
(***************************************************************************)
EXTENDS Integers, Sequences

CONSTANTS
  BufferSize,
  Alphabet,
  MaskOf(_)    \* a character masked

VARIABLES word, out, closed

vars == <<word, out, closed>>

Init ==
  /\ word = <<>>
  /\ out = <<>>
  /\ closed = FALSE

(* Print the next character of w, masked or not.                           *)
Emit(w) ==
  \E x \in {w[Len(out) + 1], MaskOf(w[Len(out) + 1])} : out' = Append(out, x)

(* Nothing is printed before the buffer is full.                           *)
Receive ==
  /\ ~closed
  /\ \E c \in Alphabet : word' = Append(word, c)
  /\ IF Len(word) < BufferSize THEN UNCHANGED out ELSE Emit(word')
  /\ UNCHANGED closed

Close == ~closed /\ closed' = TRUE /\ UNCHANGED <<word, out>>

Empty ==
  /\ closed
  /\ Len(out) < Len(word)
  /\ Emit(word)
  /\ UNCHANGED <<word, closed>>

Next == Receive \/ Close \/ Empty

Spec == Init /\ [][Next]_vars /\ WF_vars(Empty)

==============================================================================
