----------------------------- MODULE TimedWords -----------------------------
(***************************************************************************)
(* The timed getOne and putOne of src/main.cc with the machine between     *)
(* them, which passes the events on in order, some of them masked          *)
(* (MooreMachine!FaithfulOutput).                                          *)
(*                                                                         *)
(* The machine works on durations.  With --abs the input gives the time of *)
(* each event and the output gives times again, and a masked stretch is    *)
(* printed as its first and its last event only.                           *)
(***************************************************************************)
EXTENDS Integers, Sequences, SequencesExt

CONSTANTS
  Characters,  \* what an event may be
  MaskChar,
  MaxTime,     \* bound on the time of the last event
  MaxLength    \* bound on the number of events

ASSUME BoundsAssumption == MaxTime \in Nat /\ MaxLength \in Nat

VARIABLES
  isAbsTime,
  last_abs_time,  \* of getOne: the time of the last event read
  inside,         \* the events in the machine: [char, duration]
  truncating,     \* of putOne: the stretch before is masked
  out_abs_time,   \* its last_abs_time: the time of the last event given to it
  lines           \* the lines printed: [char, time]

(* History: the events read, and which of them left the machine visible.   *)
VARIABLES word, visible

vars == <<isAbsTime, last_abs_time, inside, truncating, out_abs_time, lines, word, visible>>

Init ==
  /\ isAbsTime \in BOOLEAN
  /\ last_abs_time = 0 /\ out_abs_time = 0
  /\ inside = <<>>
  /\ truncating = FALSE
  /\ lines = <<>>
  /\ word = <<>> /\ visible = <<>>

Now == IF word = <<>> THEN 0 ELSE Last(word).time

(* Faulty: the time of the event is not kept.                              *)
GetOneFromStart(c, n) ==
  /\ inside' = Append(inside, [char |-> c, duration |-> n])
  /\ word' = Append(word, [char |-> c, time |-> IF isAbsTime THEN n ELSE Now + n])
  /\ UNCHANGED <<isAbsTime, last_abs_time, truncating, out_abs_time, lines, visible>>

(* A line of input is a character and a number n, the time or the duration.*)
GetOne(c, n) ==
  /\ inside' = Append(inside,
       [char |-> c, duration |-> IF isAbsTime THEN n - last_abs_time ELSE n])
  /\ last_abs_time' = IF isAbsTime THEN n ELSE last_abs_time
  /\ word' = Append(word, [char |-> c, time |-> IF isAbsTime THEN n ELSE Now + n])
  /\ UNCHANGED <<isAbsTime, truncating, out_abs_time, lines, visible>>

(* The times of the events do not decrease.                                *)
Read ==
  /\ Len(word) < MaxLength
  /\ \E c \in Characters, t \in Now .. MaxTime :
       GetOne(c, IF isAbsTime THEN t ELSE t - Now)

Line(c, n) == [char |-> c, time |-> n]

(* Faulty: a stretch that ends is not closed.                              *)
PutAbsUnclosed(p) ==
  LET abs_time == out_abs_time + p.duration
  IN  /\ lines' = IF p.char = MaskChar
                    THEN IF truncating THEN lines
                         ELSE Append(lines, Line(MaskChar, abs_time))
                    ELSE Append(lines, Line(p.char, abs_time))
      /\ truncating' = (p.char = MaskChar)
      /\ out_abs_time' = abs_time

(* putOne with --abs.                                                      *)
PutAbs(p) ==
  LET abs_time == out_abs_time + p.duration
      closed == IF truncating THEN Append(lines, Line(MaskChar, out_abs_time)) ELSE lines
  IN  /\ lines' = IF p.char = MaskChar
                    THEN IF truncating THEN lines
                         ELSE Append(lines, Line(MaskChar, abs_time))
                    ELSE Append(closed, Line(p.char, abs_time))
      /\ truncating' = (p.char = MaskChar)
      /\ out_abs_time' = abs_time

PutRelative(p) ==
  /\ lines' = Append(lines, Line(p.char, p.duration))
  /\ UNCHANGED <<truncating, out_abs_time>>

PutOne(p) == IF isAbsTime THEN PutAbs(p) ELSE PutRelative(p)

(* Faulty: the masked event has no duration, as in the general template.   *)
MaskWhole(p) == [char |-> MaskChar, duration |-> 0]

(* mask() keeps the duration.                                              *)
Mask(p) == [p EXCEPT !.char = MaskChar]

(* The event that has been inside longest leaves, visible or masked.       *)
Leave ==
  /\ inside # <<>>
  /\ inside' = Tail(inside)
  /\ \E shown \in BOOLEAN :
       /\ PutOne(IF shown THEN Head(inside) ELSE Mask(Head(inside)))
       /\ visible' = Append(visible, shown)
  /\ UNCHANGED <<isAbsTime, last_abs_time, word>>

(***************************************************************************)
(* The programs of the experiments that convert words before and after a   *)
(* filter without --abs: experiments/abs2rel.c and rel2abs_truncate.c.     *)
(***************************************************************************)
Abs2Rel(ls) ==
  [i \in DOMAIN ls |->
     Line(ls[i].char, ls[i].time - (IF i = 1 THEN 0 ELSE ls[i - 1].time))]

(* The body of the loop of rel2abs_truncate.                               *)
Rel2AbsLine(a, l) ==
  LET abs_time == a.abs_time + l.time
      closed == IF a.truncating THEN Append(a.printed, Line(MaskChar, a.last_abs_time))
                ELSE a.printed
  IN  IF l.char = MaskChar
        THEN [abs_time |-> abs_time, last_abs_time |-> abs_time, truncating |-> TRUE,
              printed |-> IF a.truncating THEN a.printed
                          ELSE Append(a.printed, Line(MaskChar, abs_time))]
        ELSE [abs_time |-> abs_time, last_abs_time |-> a.last_abs_time,
              truncating |-> FALSE, printed |-> Append(closed, Line(l.char, abs_time))]

Rel2Abs(ls) ==
  LET after[i \in 0 .. Len(ls)] ==
        IF i = 0 THEN [abs_time |-> 0, last_abs_time |-> 0, truncating |-> FALSE,
                       printed |-> <<>>]
        ELSE Rel2AbsLine(after[i - 1], ls[i])
  IN  after[Len(ls)]

Rel2AbsTruncate(ls) == Rel2Abs(ls).printed

Next == Read \/ Leave

Spec == Init /\ [][Next]_vars

-----------------------------------------------------------------------------
(* Properties.                                                             *)

(* The events that left, as they did.                                      *)
Left == [i \in DOMAIN visible |->
           IF visible[i] THEN word[i] ELSE [word[i] EXCEPT !.char = MaskChar]]

Masked(events, i) == i \in DOMAIN events /\ events[i].char = MaskChar

(* Event i is printed unless it is inside a masked stretch; an event that  *)
(* is the first and the last of its stretch is printed twice.              *)
Printed(events, i) ==
  LET here == <<Line(events[i].char, events[i].time)>>
      last == i < Len(events) /\ ~Masked(events, i + 1)
  IN  IF ~Masked(events, i) THEN here
      ELSE (IF Masked(events, i - 1) THEN <<>> ELSE here) \o (IF last THEN here ELSE <<>>)

Spans(events) ==
  LET printed[i \in 0 .. Len(events)] ==
        IF i = 0 THEN <<>> ELSE printed[i - 1] \o Printed(events, i)
  IN  printed[Len(events)]

(* With --abs, the lines are the events that left with the times they had  *)
(* in the input, without those inside a masked stretch.  Of the stretch    *)
(* that has not ended the first event alone is printed: a word whose end   *)
(* is masked ends with one.  Without --abs the lines become the same by    *)
(* the program of the experiments, which is written independently.         *)
PrintsSpans == (IF isAbsTime THEN lines ELSE Rel2AbsTruncate(lines)) = Spans(Left)

(* The events in the machine have the durations that the word gets from    *)
(* abs2rel: --abs and the detour over that program give it the same input. *)
ReadsDurations ==
  LET rel == Abs2Rel(word)
  IN  inside = [i \in DOMAIN inside |->
                  LET l == rel[Len(rel) - Len(inside) + i]
                  IN  [char |-> l.char, duration |-> l.time]]

(* The time of line i of lines with durations.                             *)
TimeOf(ls, i) ==
  LET time[k \in 0 .. i] == IF k = 0 THEN 0 ELSE time[k - 1] + ls[k].time
  IN  time[i]

Visible(s) == {i \in DOMAIN s : s[i].char # MaskChar}

(* With or without --abs, the visible events are printed in order and each *)
(* at its time: the masked events before it take their time, whether they  *)
(* are printed or not.                                                     *)
TimesKept ==
  \E f \in Bijection(Visible(lines), Visible(Left)) :
    /\ \A i, j \in Visible(lines) : i < j => f[i] < f[j]
    /\ \A i \in Visible(lines) :
         /\ lines[i].char = Left[f[i]].char
         /\ (IF isAbsTime THEN lines[i].time ELSE TimeOf(lines, i)) = Left[f[i]].time

==============================================================================
