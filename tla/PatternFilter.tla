---------------------------- MODULE PatternFilter ----------------------------
(***************************************************************************)
(* What the filter promises, whatever its automata and buffers, timed and  *)
(* untimed.                                                                *)
(*                                                                         *)
(* It is a DelayLine that masks no character which takes part in a match   *)
(* of the pattern, whether the match ends before or after the character is *)
(* printed.                                                                *)
(***************************************************************************)
EXTENDS DelayLine

CONSTANTS
  Patterns,       \* the patterns the program may be given
  Accepts(_, _)   \* Accepts(p, v): the pattern p matches the word v

VARIABLE pattern

(* The positions of w in an infix that the pattern matches.                *)
Matched(w) ==
  UNION {m[1] .. m[2] :
    m \in {ij \in (DOMAIN w) \X (DOMAIN w) :
             ij[1] =< ij[2] /\ Accepts(pattern, SubSeq(w, ij[1], ij[2]))}}

(* Nothing is masked in o that w needs.                                    *)
Shows(o, w) ==
  LET matched == Matched(w)
  IN  \A p \in DOMAIN o : p \in matched => o[p] = w[p]

FilterInit == pattern \in Patterns /\ Init

FilterNext == Next /\ Shows(out', word') /\ UNCHANGED pattern

FilterSpec ==
  FilterInit /\ [][FilterNext]_<<pattern, vars>> /\ WF_vars(Empty)

==============================================================================
