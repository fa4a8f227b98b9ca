--------------------------- MODULE AutomatonFile ---------------------------
(***************************************************************************)
(* Reading the pattern: the DOT file, parsed by parseBoostTA, and the two  *)
(* overloads of convBoostTA of src/timed_automaton_parser.hh.              *)
(*                                                                         *)
(* A file is [vertices, edges]; a vertex has the attributes [init, match], *)
(* an edge [source, target, label, reset, guard].  reset and guard are the *)
(* lists in the file, of clocks and of constraints [x, order, c], empty    *)
(* when the attribute is missing.  Only files that the reader accepts are  *)
(* considered.                                                             *)
(***************************************************************************)
EXTENDS Integers, Sequences, FiniteSetsExt

CONSTANT ClockWidth   \* width of ClockVariables, 8

(* int x; p.x = x: the number of a clock is cut to its width.              *)
ClockNumber(x) == x % 2^ClockWidth

(* What dp reads into resetVars and guard of an edge.                      *)
ParsedReset(e) == {ClockNumber(e.reset[i]) : i \in DOMAIN e.reset}
ParsedGuard(e) == [i \in DOMAIN e.guard |-> [e.guard[i] EXCEPT !.x = ClockNumber(@)]]

(* The edges of a file join vertices of it.                                *)
IsGraph(f) == \A e \in Range(f.edges) : {e.source, e.target} \subseteq DOMAIN f.vertices

Initial(f) == {v \in DOMAIN f.vertices : f.vertices[v].init}
Matching(f) == {v \in DOMAIN f.vertices : f.vertices[v].match}

(* convBoostTA for an NFA: guards and resets are dropped.                  *)
ConvNFA(f) ==
  [initial |-> Initial(f),
   match |-> Matching(f),
   trans |-> {[at |-> e.source, via |-> e.label, to |-> e.target] : e \in Range(f.edges)}]

GuardsOf(f) == UNION {Range(ParsedGuard(e)) : e \in Range(f.edges)}

(* Faulty: the vector grows to g.x only.                                   *)
ClockCountShort(f) == Max({0} \union {g.x : g \in GuardsOf(f)})

(* maxConstraints grows to the largest clock in a guard.                   *)
ClockCount(f) == Max({0} \union {g.x + 1 : g \in GuardsOf(f)})

(* The largest constant that each clock is compared with, at least 0.      *)
MaxConstraints(f) ==
  [i \in 1 .. ClockCount(f) |->
     Max({0} \union {g.c : g \in {h \in GuardsOf(f) : h.x = i - 1}})]

(***************************************************************************)
(* convBoostTA for a timed automaton.  A transition is labelled with its   *)
(* character, guard and resets, and with its edge, as two edges may have   *)
(* the same attributes.  Clock x has the place x + 1 in maxConstraints,    *)
(* and this is its number from here on.                                    *)
(***************************************************************************)
ConvTA(f) ==
  [initial |-> Initial(f),
   match |-> Matching(f),
   maxConstraints |-> MaxConstraints(f),
   trans |->
     {[at |-> f.edges[i].source,
       via |-> [c |-> f.edges[i].label,
                guard |-> [k \in DOMAIN ParsedGuard(f.edges[i]) |->
                             [ParsedGuard(f.edges[i])[k] EXCEPT !.x = @ + 1]],
                resetVars |-> {x + 1 : x \in ParsedReset(f.edges[i])},
                edge |-> i],
       to |-> f.edges[i].target] : i \in DOMAIN f.edges}]

(* clockSize().                                                            *)
ClockSize(ta) == Len(ta.maxConstraints)

==============================================================================
