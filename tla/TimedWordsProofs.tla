------------------------- MODULE TimedWordsProofs --------------------------
(***************************************************************************)
(* The times of TimedWords survive, for words of any length: the folds by  *)
(* which the properties are stated are computed line by line, and an       *)
(* invariant relates what getOne and putOne keep between calls with them.  *)
(***************************************************************************)
EXTENDS TimedWords, BasicLemmas, SequenceTheorems

Events == [char : Characters \union {MaskChar}, time : Nat]

-----------------------------------------------------------------------------
(* What recurrences determine.                                             *)

LEMMA RecurrenceIsUnique ==
  ASSUME NEW bound \in Nat, NEW r, NEW s, r[0] = s[0],
         \A n \in 1 .. bound : r[n - 1] = s[n - 1] => r[n] = s[n]
  PROVE  r[bound] = s[bound]
<1> DEFINE D == {n \in 0 .. bound : r[n] = s[n]}
<1>1. 0 \in D
  OBVIOUS
<1>2. ASSUME NEW n \in 0 .. bound - 1, n \in D PROVE n + 1 \in D
  <2>1. n + 1 \in 1 .. bound /\ n + 1 \in 0 .. bound /\ (n + 1) - 1 = n
    OBVIOUS
  <2> QED
    BY <1>2, <2>1
<1> HIDE DEF D
<1>3. \A n \in 0 .. bound : n \in D
  BY <1>1, <1>2, InductionToBound
<1> QED
  BY <1>3 DEF D

-----------------------------------------------------------------------------
(* The times of lines with durations.                                      *)

IsTimes(r, ls, i) == r[0] = 0 /\ \A n \in 1 .. i : r[n] = r[n - 1] + ls[n].time

LEMMA TimesExist ==
  ASSUME NEW ls \in Seq(Events), NEW i \in 0 .. Len(ls)
  PROVE  \E r \in [0 .. i -> Nat] : IsTimes(r, ls, i) /\ TimeOf(ls, i) = r[i]
<1> DEFINE F == [n \in 1 .. i |-> [k \in Nat |-> k + ls[n].time]]
           Solves(r) == r = [n \in 0 .. i |-> IF n = 0 THEN 0 ELSE r[n - 1] + ls[n].time]
           time == CHOOSE r : Solves(r)
<1>1. \A n \in 1 .. i : ls[n].time \in Nat
  <2>1. \A n \in 1 .. i : n \in 1 .. Len(ls)
    OBVIOUS
  <2>2. \A n \in 1 .. Len(ls) : ls[n] \in Events
    <3> HIDE DEF Events
    <3> QED
      OBVIOUS
  <2> QED
    BY <2>1, <2>2 DEF Events
<1>2. i \in Nat
  OBVIOUS
<1>3. PICK r \in [0 .. i -> Nat] : Iterates(r, 0, F, i)
  <2>1. F \in [1 .. i -> [Nat -> Nat]]
    BY <1>1
  <2> DEFINE T == Nat
  <2>2. 0 \in T
    OBVIOUS
  <2> HIDE DEF F, T
  <2>3. \E r \in [0 .. i -> T] : Iterates(r, 0, F, i)
    BY <1>2, <2>1, <2>2, IterationExists DEF T
  <2> QED
    BY <2>3 DEF T
<1>4. \A n \in 1 .. i : F[n][r[n - 1]] = r[n - 1] + ls[n].time
  <2>1. \A n \in 1 .. i : r[n - 1] \in Nat
    BY <1>2
  <2> QED
    BY <2>1
<1>5. r[0] = 0 /\ \A n \in 1 .. i : r[n] = r[n - 1] + ls[n].time
  <2> HIDE DEF F
  <2> QED
    BY <1>3, <1>4 DEF Iterates
<1>6. Solves(r)
  <2>1. \A n \in 0 .. i : r[n] = IF n = 0 THEN 0 ELSE r[n - 1] + ls[n].time
    <3>1. \A n \in 0 .. i : n # 0 => n \in 1 .. i
      BY <1>2
    <3> HIDE DEF F
    <3> QED
      BY <1>5, <3>1
  <2>2. r = [n \in 0 .. i |-> r[n]]
    BY <1>2
  <2> HIDE DEF F
  <2> QED
    BY <2>1, <2>2
<1>7. Solves(time)
  BY <1>6
<1>8. TimeOf(ls, i) = time[i]
  BY DEF TimeOf
<1> HIDE DEF time, F
<1>9. time[0] = 0 /\ \A n \in 1 .. i : time[n] = time[n - 1] + ls[n].time
  <2>1. \A n \in 1 .. i : n \in 0 .. i /\ n # 0
    BY <1>2
  <2>2. 0 \in 0 .. i
    BY <1>2
  <2> QED
    BY <1>7, <2>1, <2>2
<1>10. time[i] = r[i]
  <2>1. \A n \in 1 .. i : time[n - 1] = r[n - 1] => time[n] = r[n]
    BY <1>5, <1>9
  <2>2. time[0] = r[0]
    BY <1>5, <1>9
  <2> QED
    BY <1>2, <2>1, <2>2, RecurrenceIsUnique
<1> QED
  BY <1>3, <1>5, <1>8, <1>10 DEF IsTimes

LEMMA TimesAre ==
  ASSUME NEW ls \in Seq(Events), NEW i \in 0 .. Len(ls), NEW r, IsTimes(r, ls, i)
  PROVE  TimeOf(ls, i) = r[i]
<1>1. PICK s \in [0 .. i -> Nat] : IsTimes(s, ls, i) /\ TimeOf(ls, i) = s[i]
  BY TimesExist
<1>2. s[0] = r[0] /\ \A n \in 1 .. i : s[n - 1] = r[n - 1] => s[n] = r[n]
  BY <1>1 DEF IsTimes
<1>3. i \in Nat
  OBVIOUS
<1> QED
  BY <1>1, <1>2, <1>3, RecurrenceIsUnique

LEMMA TimeOfNext ==
  ASSUME NEW ls \in Seq(Events), NEW i \in 1 .. Len(ls)
  PROVE  TimeOf(ls, i) = TimeOf(ls, i - 1) + ls[i].time
<1>1. i \in 0 .. Len(ls) /\ i - 1 \in 0 .. Len(ls)
  OBVIOUS
<1>2. PICK r \in [0 .. i -> Nat] : IsTimes(r, ls, i) /\ TimeOf(ls, i) = r[i]
  BY <1>1, TimesExist
<1>3. IsTimes(r, ls, i - 1)
  <2>1. \A n \in 1 .. i - 1 : n \in 1 .. i
    OBVIOUS
  <2> QED
    BY <1>2, <2>1 DEF IsTimes
<1>4. TimeOf(ls, i - 1) = r[i - 1]
  BY <1>1, <1>3, TimesAre
<1> QED
  BY <1>2, <1>4 DEF IsTimes

LEMMA TimeOfNone ==
  ASSUME NEW ls \in Seq(Events) PROVE TimeOf(ls, 0) = 0
<1>1. 0 \in 0 .. Len(ls)
  OBVIOUS
<1> QED
  BY <1>1, TimesExist DEF IsTimes

(* The time of a line does not depend on the lines after it.               *)
LEMMA TimeOfPrefix ==
  ASSUME NEW ls \in Seq(Events), NEW l \in Events, NEW i \in 0 .. Len(ls)
  PROVE  TimeOf(Append(ls, l), i) = TimeOf(ls, i)
<1>1. PICK r \in [0 .. i -> Nat] : IsTimes(r, ls, i) /\ TimeOf(ls, i) = r[i]
  BY TimesExist
<1>2. /\ Append(ls, l) \in Seq(Events) /\ i \in 0 .. Len(Append(ls, l))
      /\ \A n \in 1 .. i : Append(ls, l)[n] = ls[n]
  <2> HIDE DEF Events
  <2> QED
    OBVIOUS
<1>3. IsTimes(r, Append(ls, l), i)
  BY <1>1, <1>2 DEF IsTimes
<1> QED
  BY <1>1, <1>2, <1>3, TimesAre

-----------------------------------------------------------------------------
(* The lines that a sequence of events leaves.                             *)

LEMMA ElementsAreEvents ==
  ASSUME NEW s \in Seq(Events)
  PROVE  /\ DOMAIN s = 1 .. Len(s) /\ Len(s) \in Nat
         /\ \A n \in 1 .. Len(s) : /\ s[n] \in Events /\ s[n].time \in Nat
                                  /\ s[n].char \in Characters \union {MaskChar}
<1>1. DOMAIN s = 1 .. Len(s) /\ Len(s) \in Nat /\ \A n \in 1 .. Len(s) : s[n] \in Events
  <2> HIDE DEF Events
  <2> QED
    OBVIOUS
<1> QED
  BY <1>1 DEF Events

LEMMA PrintedAreEvents ==
  ASSUME NEW events \in Seq(Events), NEW n \in 1 .. Len(events)
  PROVE  Printed(events, n) \in Seq(Events)
<1> DEFINE here == <<Line(events[n].char, events[n].time)>>
<1>1. Line(events[n].char, events[n].time) \in Events
  BY ElementsAreEvents DEF Line, Events
<1>2. here \in Seq(Events) /\ <<>> \in Seq(Events)
  <2> HIDE DEF Events
  <2> QED
    BY <1>1
<1>3. \A s, t \in Seq(Events) : s \o t \in Seq(Events)
  <2> HIDE DEF Events
  <2> QED
    OBVIOUS
<1> HIDE DEF here
<1>4. Printed(events, n) =
        IF ~Masked(events, n) THEN here
        ELSE (IF Masked(events, n - 1) THEN <<>> ELSE here)
               \o (IF n < Len(events) /\ ~Masked(events, n + 1) THEN here ELSE <<>>)
  BY DEF Printed, here
<1> HIDE DEF Events
<1> QED
  BY <1>2, <1>3, <1>4

IsSpans(r, events) ==
  r[0] = <<>> /\ \A n \in 1 .. Len(events) : r[n] = r[n - 1] \o Printed(events, n)

LEMMA SpansExist ==
  ASSUME NEW events \in Seq(Events)
  PROVE  \E r \in [0 .. Len(events) -> Seq(Events)] :
           IsSpans(r, events) /\ Spans(events) = r[Len(events)]
<1> DEFINE L == Len(events)
           T == Seq(Events)
           F == [n \in 1 .. L |-> [t \in T |-> t \o Printed(events, n)]]
           Solves(r) == r = [n \in 0 .. L |->
                               IF n = 0 THEN <<>> ELSE r[n - 1] \o Printed(events, n)]
           printed == CHOOSE r : Solves(r)
<1>1. L \in Nat
  BY ElementsAreEvents
<1>2. \A n \in 1 .. L : \A t \in T : t \o Printed(events, n) \in T
  <2>1. \A n \in 1 .. L : Printed(events, n) \in T
    BY PrintedAreEvents
  <2> HIDE DEF L
  <2>2. \A t, u \in Seq(Events) : t \o u \in Seq(Events)
    <3> HIDE DEF Events
    <3> QED
      OBVIOUS
  <2> QED
    BY <2>1, <2>2
<1>3. PICK r \in [0 .. L -> T] : Iterates(r, <<>>, F, L)
  <2>1. F \in [1 .. L -> [T -> T]]
    <3> HIDE DEF L, T
    <3> QED
      BY <1>2
  <2>2. <<>> \in T
    OBVIOUS
  <2> HIDE DEF L, T, F
  <2> QED
    BY <1>1, <2>1, <2>2, IterationExists
<1>4. r[0] = <<>> /\ \A n \in 1 .. L : r[n] = r[n - 1] \o Printed(events, n)
  <2> HIDE DEF L, T
  <2>1. \A n \in 1 .. L : n - 1 \in 0 .. L
    BY <1>1
  <2> QED
    BY <1>3, <2>1 DEF Iterates
<1>5. Solves(r)
  <2> HIDE DEF L, T, F
  <2>1. \A n \in 0 .. L : n # 0 => n \in 1 .. L
    BY <1>1
  <2>2. r = [n \in 0 .. L |-> r[n]]
    BY <1>3
  <2>3. \A n \in 0 .. L : r[n] = IF n = 0 THEN <<>> ELSE r[n - 1] \o Printed(events, n)
    BY <1>4, <2>1
  <2> QED
    BY <2>2, <2>3
<1>6. Solves(printed)
  BY <1>5
<1>7. Spans(events) = printed[L]
  BY DEF Spans
<1>8. printed[0] = <<>> /\ \A n \in 1 .. L : printed[n] = printed[n - 1] \o Printed(events, n)
  <2> HIDE DEF L, printed
  <2>1. \A n \in 1 .. L : n \in 0 .. L /\ n # 0
    BY <1>1
  <2>2. 0 \in 0 .. L
    BY <1>1
  <2> QED
    BY <1>6, <2>1, <2>2
<1>9. printed[L] = r[L]
  <2> HIDE DEF L, T, F, printed
  <2>1. \A n \in 1 .. L : printed[n - 1] = r[n - 1] => printed[n] = r[n]
    BY <1>4, <1>8
  <2>2. printed[0] = r[0]
    BY <1>4, <1>8
  <2> QED
    BY <1>1, <2>1, <2>2, RecurrenceIsUnique
<1> QED
  BY <1>4, <1>7, <1>9 DEF IsSpans

LEMMA SpansAre ==
  ASSUME NEW events \in Seq(Events), NEW r, IsSpans(r, events)
  PROVE  Spans(events) = r[Len(events)]
<1>1. PICK s \in [0 .. Len(events) -> Seq(Events)] :
        IsSpans(s, events) /\ Spans(events) = s[Len(events)]
  BY SpansExist
<1>2. s[0] = r[0] /\ \A n \in 1 .. Len(events) : s[n - 1] = r[n - 1] => s[n] = r[n]
  BY <1>1 DEF IsSpans
<1>3. Len(events) \in Nat
  BY ElementsAreEvents
<1> QED
  BY <1>1, <1>2, <1>3, RecurrenceIsUnique

LEMMA SpansOfNone == Spans(<<>>) = <<>>
<1>1. <<>> \in Seq(Events) /\ Len(<<>>) = 0
  OBVIOUS
<1>2. \A e \in Seq(Events) : \E r : r[0] = <<>> /\ Spans(e) = r[Len(e)]
  BY SpansExist DEF IsSpans
<1>3. PICK r : r[0] = <<>> /\ Spans(<<>>) = r[Len(<<>>)]
  BY <1>1, <1>2, Zenon
<1> QED
  BY <1>1, <1>3

LEMMA EventAppended ==
  ASSUME NEW events \in Seq(Events), NEW e \in Events
  PROVE  /\ Append(events, e) \in Seq(Events)
         /\ Len(Append(events, e)) = Len(events) + 1
         /\ Append(events, e)[Len(events) + 1] = e
         /\ \A i \in 1 .. Len(events) : Append(events, e)[i] = events[i]
<1> HIDE DEF Events
<1> QED
  BY AppendProperties

LEMMA LineIsEvent ==
  ASSUME NEW c \in Characters \union {MaskChar}, NEW n \in Nat
  PROVE  Line(c, n) \in Events
BY DEF Line, Events

(* The last event is masked.                                               *)
Ends(events) == Masked(events, Len(events))

(* What is printed of an event does not depend on those beyond the next;   *)
(* with the next one the stretch that it ends is closed.                   *)
LEMMA PrintedOfAppend ==
  ASSUME NEW events \in Seq(Events), NEW e \in Events, NEW n \in 1 .. Len(events)
  PROVE  Printed(Append(events, e), n) =
           Printed(events, n) \o
             (IF n = Len(events) /\ Ends(events) /\ e.char # MaskChar
                THEN <<Line(MaskChar, events[n].time)>> ELSE <<>>)
<1> DEFINE v == Append(events, e)
           L == Len(events)
           here == <<Line(events[n].char, events[n].time)>>
           first == IF Masked(events, n - 1) THEN <<>> ELSE here
<1>1. /\ L \in Nat /\ v \in Seq(Events) /\ Len(v) = L + 1 /\ v[L + 1] = e
      /\ \A i \in 1 .. L : v[i] = events[i]
      /\ DOMAIN events = 1 .. L /\ DOMAIN v = 1 .. L + 1
  BY EventAppended, ElementsAreEvents
<1>2. here \in Seq(Events) /\ first \in Seq(Events) /\ <<>> \in Seq(Events)
  <2>1. Line(events[n].char, events[n].time) \in Events
    BY ElementsAreEvents, LineIsEvent
  <2> HIDE DEF Events
  <2> QED
    BY <2>1
<1> HIDE DEF v, L
<1>3. \A i \in 0 .. L : Masked(v, i) <=> Masked(events, i)
  BY <1>1 DEF Masked
<1>4. Masked(v, L + 1) <=> e.char = MaskChar
  BY <1>1 DEF Masked
<1>5. n \in 1 .. L /\ n \in 0 .. L /\ n - 1 \in 0 .. L /\ v[n] = events[n]
  BY <1>1 DEF L
<1>6. Printed(v, n) = IF ~Masked(events, n) THEN here
                      ELSE first \o (IF ~Masked(v, n + 1) THEN here ELSE <<>>)
  <2>1. n < Len(v)
    BY <1>1, <1>5
  <2> QED
    BY <1>3, <1>5, <2>1 DEF Printed
<1>7. Printed(events, n) = IF ~Masked(events, n) THEN here
                           ELSE first \o (IF n < L /\ ~Masked(events, n + 1) THEN here ELSE <<>>)
  BY DEF Printed, L
<1>8. /\ here \o <<>> = here /\ first \o <<>> = first
      /\ (first \o here) \o <<>> = first \o here
      /\ (first \o <<>>) \o here = first \o here
      /\ (first \o <<>>) \o <<>> = first \o <<>>
  <2>1. first \o here \in Seq(Events)
    BY <1>2, ConcatProperties
  <2> HIDE DEF here, first
  <2> QED
    BY <1>2, <2>1, ConcatEmptySeq
<1>9. CASE n < L
  <2>1. Masked(v, n + 1) <=> Masked(events, n + 1)
    BY <1>1, <1>3, <1>5, <1>9
  <2>2. Printed(v, n) = Printed(events, n)
    <3> HIDE DEF here, first
    <3> QED
      BY <1>6, <1>7, <1>9, <2>1
  <2>3. Printed(events, n) \o <<>> = Printed(events, n)
    BY PrintedAreEvents, ConcatEmptySeq
  <2>4. n # L
    BY <1>1, <1>5, <1>9
  <2> QED
    BY <2>2, <2>3, <2>4 DEF v, L
<1>10. CASE n = L
  <2>1. Ends(events) <=> Masked(events, n)
    BY <1>10 DEF Ends, L
  <2>2. Masked(v, n + 1) <=> e.char = MaskChar
    BY <1>4, <1>10
  <2>3. Masked(events, n) => here = <<Line(MaskChar, events[n].time)>>
    BY DEF Masked
  <2>4. ~(n < L)
    BY <1>1, <1>10
  <2> HIDE DEF here, first
  <2>5. CASE ~Masked(events, n)
    BY <1>6, <1>7, <1>8, <2>1, <2>5 DEF v
  <2>6. CASE Masked(events, n)
    BY <1>6, <1>7, <1>8, <1>10, <2>1, <2>2, <2>3, <2>4, <2>6 DEF v, L
  <2> QED
    BY <2>5, <2>6
<1> QED
  BY <1>1, <1>5, <1>9, <1>10

LEMMA PrintedOfLast ==
  ASSUME NEW events \in Seq(Events), NEW e \in Events
  PROVE  Printed(Append(events, e), Len(events) + 1) =
           IF e.char = MaskChar /\ Ends(events) THEN <<>> ELSE <<Line(e.char, e.time)>>
<1> DEFINE v == Append(events, e)
           L == Len(events)
           here == <<Line(e.char, e.time)>>
<1>1. /\ L \in Nat /\ v \in Seq(Events) /\ Len(v) = L + 1 /\ v[L + 1] = e
      /\ \A i \in 1 .. L : v[i] = events[i]
      /\ DOMAIN events = 1 .. L /\ DOMAIN v = 1 .. L + 1
  BY EventAppended, ElementsAreEvents
<1>2. <<>> \o <<>> = <<>> /\ here \o <<>> = here
  <2>1. Line(e.char, e.time) \in Events
    BY LineIsEvent DEF Events
  <2>2. here \in Seq(Events) /\ <<>> \in Seq(Events)
    <3> HIDE DEF Events
    <3> QED
      BY <2>1
  <2> HIDE DEF here
  <2> QED
    BY <2>2, ConcatEmptySeq
<1> HIDE DEF v, L
<1>3. Masked(v, L) <=> Ends(events)
  <2>1. Ends(events) <=> Masked(events, L)
    BY DEF Ends, L
  <2> QED
    BY <1>1, <2>1 DEF Masked
<1>4. Masked(v, L + 1) <=> e.char = MaskChar
  BY <1>1 DEF Masked
<1>5. (L + 1) - 1 = L /\ ~(L + 1 < Len(v))
  BY <1>1
<1>6. Printed(v, L + 1) = IF ~Masked(v, L + 1) THEN here
                          ELSE (IF Masked(v, L) THEN <<>> ELSE here) \o <<>>
  BY <1>1, <1>5 DEF Printed
<1> HIDE DEF here
<1>7. Printed(v, L + 1) = IF e.char = MaskChar /\ Ends(events) THEN <<>> ELSE here
  BY <1>2, <1>3, <1>4, <1>6
<1> QED
  BY <1>7 DEF v, L, here

Closing(events, e) ==
  IF Ends(events) /\ e.char # MaskChar THEN <<Line(MaskChar, events[Len(events)].time)>>
  ELSE <<>>

LEMMA ClosingIsEvents ==
  ASSUME NEW events \in Seq(Events), NEW e
  PROVE  Closing(events, e) \in Seq(Events)
<1>1. CASE Ends(events)
  <2>1. Len(events) \in 1 .. Len(events)
    BY <1>1, ElementsAreEvents DEF Ends, Masked
  <2>2. Line(MaskChar, events[Len(events)].time) \in Events
    BY <2>1, ElementsAreEvents, LineIsEvent
  <2> HIDE DEF Events
  <2> QED
    BY <2>2 DEF Closing
<1>2. CASE ~Ends(events)
  BY <1>2 DEF Closing
<1> QED
  BY <1>1, <1>2

LEMMA SpansOfAppend ==
  ASSUME NEW events \in Seq(Events), NEW e \in Events
  PROVE  /\ Spans(events) \in Seq(Events)
         /\ Spans(Append(events, e)) =
              (Spans(events) \o Closing(events, e)) \o Printed(Append(events, e), Len(events) + 1)
<1> DEFINE v == Append(events, e)
           L == Len(events)
           close == Closing(events, e)
<1>1. /\ L \in Nat /\ v \in Seq(Events) /\ Len(v) = L + 1
  BY EventAppended, ElementsAreEvents
<1>2. PICK r \in [0 .. Len(v) -> Seq(Events)] : IsSpans(r, v) /\ Spans(v) = r[Len(v)]
  BY <1>1, SpansExist
<1>3. PICK s \in [0 .. L -> Seq(Events)] : IsSpans(s, events) /\ Spans(events) = s[L]
  BY SpansExist
<1>4. close \in Seq(Events)
  BY ClosingIsEvents
<1>5. \A n \in 1 .. L : Printed(v, n) = Printed(events, n) \o (IF n = L THEN close ELSE <<>>)
  BY PrintedOfAppend DEF Closing
<1>6. \A n \in 1 .. L : Printed(events, n) \in Seq(Events)
  BY PrintedAreEvents
<1> HIDE DEF v, L, close, Events
<1>7. /\ r[0] = <<>> /\ \A n \in 1 .. L + 1 : r[n] = r[n - 1] \o Printed(v, n)
      /\ s[0] = <<>> /\ \A n \in 1 .. L : s[n] = s[n - 1] \o Printed(events, n)
  BY <1>1, <1>2, <1>3 DEF IsSpans, L
<1>8. \A n \in 0 .. L : n # L => r[n] = s[n]
  <2> DEFINE D == {n \in 0 .. L : n # L => r[n] = s[n]}
  <2>1. 0 \in D
    BY <1>1, <1>7
  <2>2. ASSUME NEW n \in 0 .. L - 1, n \in D PROVE n + 1 \in D
    <3>1. n + 1 \in 1 .. L + 1 /\ n + 1 \in 1 .. L /\ n + 1 \in 0 .. L /\ (n + 1) - 1 = n /\ n # L
      BY <1>1
    <3>2. CASE n + 1 # L
      <4>1. Printed(v, n + 1) = Printed(events, n + 1)
        BY <1>5, <1>6, <3>1, <3>2, ConcatEmptySeq
      <4> QED
        BY <1>7, <2>2, <3>1, <4>1
    <3> QED
      BY <3>1, <3>2
  <2> HIDE DEF D
  <2>3. \A n \in 0 .. L : n \in D
    BY <1>1, <2>1, <2>2, InductionToBound
  <2> QED
    BY <2>3 DEF D
<1>9. s[L] \in Seq(Events)
  BY <1>1, <1>3
<1>10. r[L] = s[L] \o close
  <2>1. CASE L = 0
    <3>1. close = <<>>
      BY <2>1, ElementsAreEvents DEF close, L, Closing, Ends, Masked
    <3> QED
      BY <1>7, <1>9, <2>1, <3>1, ConcatEmptySeq
  <2>2. CASE L # 0
    <3>1. L \in 1 .. L + 1 /\ L \in 1 .. L /\ L - 1 \in 0 .. L /\ L - 1 # L
      BY <1>1, <2>2
    <3>2. r[L] = s[L - 1] \o (Printed(events, L) \o close)
      BY <1>5, <1>7, <1>8, <3>1
    <3>3. s[L - 1] \in Seq(Events) /\ Printed(events, L) \in Seq(Events)
      BY <1>3, <1>6, <3>1
    <3>4. r[L] = (s[L - 1] \o Printed(events, L)) \o close
      <4>1. (s[L - 1] \o Printed(events, L)) \o close = s[L - 1] \o (Printed(events, L) \o close)
        <5>1. \A a, b, c \in Seq(Events) : (a \o b) \o c = a \o (b \o c)
          BY ConcatAssociative
        <5> QED
          BY <1>4, <3>3, <5>1
      <4> QED
        BY <3>2, <4>1
    <3> QED
      BY <1>7, <3>1, <3>4
  <2> QED
    BY <2>1, <2>2
<1>11. r[L + 1] = r[L] \o Printed(v, L + 1)
  <2>1. L + 1 \in 1 .. L + 1 /\ (L + 1) - 1 = L
    BY <1>1
  <2> QED
    BY <1>7, <2>1
<1>12. Spans(v) = (Spans(events) \o close) \o Printed(v, L + 1)
  BY <1>1, <1>2, <1>3, <1>10, <1>11
<1> QED
  BY <1>3, <1>9, <1>12 DEF v, L, close

-----------------------------------------------------------------------------
(* rel2abs_truncate, line by line.                                         *)

Locals == [abs_time : Nat, last_abs_time : Nat, truncating : BOOLEAN, printed : Seq(Events)]

LocalsAtFirst == [abs_time |-> 0, last_abs_time |-> 0, truncating |-> FALSE, printed |-> <<>>]

LEMMA Rel2AbsLineIsLocals ==
  ASSUME NEW a \in Locals, NEW l \in Events PROVE Rel2AbsLine(a, l) \in Locals
<1>1. /\ a.abs_time \in Nat /\ a.last_abs_time \in Nat /\ a.truncating \in BOOLEAN
      /\ a.printed \in Seq(Events)
  <2> HIDE DEF Events
  <2> QED
    BY DEF Locals
<1>2. l.char \in Characters \union {MaskChar} /\ l.time \in Nat
  BY DEF Events
<1> DEFINE abs_time == a.abs_time + l.time
           masked == Line(MaskChar, abs_time)
           shown == Line(l.char, abs_time)
           close == Line(MaskChar, a.last_abs_time)
           closed == IF a.truncating THEN Append(a.printed, close) ELSE a.printed
<1>3. abs_time \in Nat
  BY <1>1, <1>2
<1>4. masked \in Events /\ shown \in Events /\ close \in Events
  BY <1>1, <1>2, <1>3, LineIsEvent
<1> HIDE DEF masked, shown, close, Events
<1>5. \A s \in Seq(Events) : \A e \in Events : Append(s, e) \in Seq(Events)
  BY AppendProperties
<1>6. closed \in Seq(Events)
  BY <1>1, <1>4, <1>5
<1>7. Append(closed, shown) \in Seq(Events) /\ Append(a.printed, masked) \in Seq(Events)
  BY <1>1, <1>4, <1>5, <1>6
<1> HIDE DEF abs_time, closed
<1>8. Rel2AbsLine(a, l) =
        IF l.char = MaskChar
          THEN [abs_time |-> abs_time, last_abs_time |-> abs_time, truncating |-> TRUE,
                printed |-> IF a.truncating THEN a.printed ELSE Append(a.printed, masked)]
          ELSE [abs_time |-> abs_time, last_abs_time |-> a.last_abs_time,
                truncating |-> FALSE, printed |-> Append(closed, shown)]
  BY DEF Rel2AbsLine, abs_time, masked, shown, close, closed
<1>9. (IF a.truncating THEN a.printed ELSE Append(a.printed, masked)) \in Seq(Events)
  BY <1>1, <1>7
<1> QED
  BY <1>1, <1>3, <1>7, <1>8, <1>9 DEF Locals

IsRel2Abs(r, ls) ==
  r[0] = LocalsAtFirst /\ \A n \in 1 .. Len(ls) : r[n] = Rel2AbsLine(r[n - 1], ls[n])

LEMMA Rel2AbsExists ==
  ASSUME NEW ls \in Seq(Events)
  PROVE  \E r \in [0 .. Len(ls) -> Locals] : IsRel2Abs(r, ls) /\ Rel2Abs(ls) = r[Len(ls)]
<1> DEFINE L == Len(ls)
           T == Locals
           F == [n \in 1 .. L |-> [t \in T |-> Rel2AbsLine(t, ls[n])]]
           Solves(r) == r = [n \in 0 .. L |->
                               IF n = 0 THEN LocalsAtFirst ELSE Rel2AbsLine(r[n - 1], ls[n])]
           after == CHOOSE r : Solves(r)
<1>1. L \in Nat
  BY ElementsAreEvents
<1>2. \A n \in 1 .. L : \A t \in T : Rel2AbsLine(t, ls[n]) \in T
  BY Rel2AbsLineIsLocals, ElementsAreEvents
<1>3. PICK r \in [0 .. L -> T] : Iterates(r, LocalsAtFirst, F, L)
  <2>1. F \in [1 .. L -> [T -> T]]
    <3> HIDE DEF L, T
    <3> QED
      BY <1>2
  <2>2. LocalsAtFirst \in T
    <3> HIDE DEF Events
    <3>1. <<>> \in Seq(Events)
      OBVIOUS
    <3> QED
      BY <3>1 DEF LocalsAtFirst, Locals
  <2> HIDE DEF L, T, F
  <2> QED
    BY <1>1, <2>1, <2>2, IterationExists
<1>4. r[0] = LocalsAtFirst /\ \A n \in 1 .. L : r[n] = Rel2AbsLine(r[n - 1], ls[n])
  <2> HIDE DEF L, T
  <2>1. \A n \in 1 .. L : n - 1 \in 0 .. L
    BY <1>1
  <2> QED
    BY <1>3, <2>1 DEF Iterates
<1>5. Solves(r)
  <2> HIDE DEF L, T, F
  <2>1. \A n \in 0 .. L : n # 0 => n \in 1 .. L
    BY <1>1
  <2>2. r = [n \in 0 .. L |-> r[n]]
    BY <1>3
  <2>3. \A n \in 0 .. L : r[n] = IF n = 0 THEN LocalsAtFirst ELSE Rel2AbsLine(r[n - 1], ls[n])
    BY <1>4, <2>1
  <2> QED
    BY <2>2, <2>3
<1>6. Solves(after)
  BY <1>5
<1>7. Rel2Abs(ls) = after[L]
  BY DEF Rel2Abs, LocalsAtFirst
<1>8. after[0] = LocalsAtFirst /\ \A n \in 1 .. L : after[n] = Rel2AbsLine(after[n - 1], ls[n])
  <2> HIDE DEF L, after
  <2>1. \A n \in 1 .. L : n \in 0 .. L /\ n # 0
    BY <1>1
  <2>2. 0 \in 0 .. L
    BY <1>1
  <2> QED
    BY <1>6, <2>1, <2>2
<1>9. after[L] = r[L]
  <2> HIDE DEF L, T, F, after
  <2>1. \A n \in 1 .. L : after[n - 1] = r[n - 1] => after[n] = r[n]
    BY <1>4, <1>8
  <2>2. after[0] = r[0]
    BY <1>4, <1>8
  <2> QED
    BY <1>1, <2>1, <2>2, RecurrenceIsUnique
<1> QED
  BY <1>4, <1>7, <1>9 DEF IsRel2Abs

LEMMA Rel2AbsOfNone == Rel2Abs(<<>>) = LocalsAtFirst
<1>1. <<>> \in Seq(Events) /\ Len(<<>>) = 0
  OBVIOUS
<1>2. \A s \in Seq(Events) : \E r : r[0] = LocalsAtFirst /\ Rel2Abs(s) = r[Len(s)]
  BY Rel2AbsExists DEF IsRel2Abs
<1>3. PICK r : r[0] = LocalsAtFirst /\ Rel2Abs(<<>>) = r[Len(<<>>)]
  BY <1>1, <1>2, Zenon
<1> QED
  BY <1>1, <1>3

LEMMA Rel2AbsOfAppend ==
  ASSUME NEW ls \in Seq(Events), NEW l \in Events
  PROVE  Rel2Abs(Append(ls, l)) = Rel2AbsLine(Rel2Abs(ls), l)
<1> DEFINE v == Append(ls, l)
           L == Len(ls)
<1>1. /\ L \in Nat /\ v \in Seq(Events) /\ Len(v) = L + 1 /\ v[L + 1] = l
      /\ \A n \in 1 .. L : v[n] = ls[n]
  BY EventAppended, ElementsAreEvents
<1>2. PICK r \in [0 .. Len(v) -> Locals] : IsRel2Abs(r, v) /\ Rel2Abs(v) = r[Len(v)]
  BY <1>1, Rel2AbsExists
<1>3. PICK s \in [0 .. L -> Locals] : IsRel2Abs(s, ls) /\ Rel2Abs(ls) = s[L]
  BY Rel2AbsExists
<1> HIDE DEF v, L
<1>4. /\ r[0] = s[0]
      /\ \A n \in 1 .. L + 1 : r[n] = Rel2AbsLine(r[n - 1], v[n])
      /\ \A n \in 1 .. L : s[n] = Rel2AbsLine(s[n - 1], ls[n])
  BY <1>1, <1>2, <1>3 DEF IsRel2Abs, L
<1>5. r[L] = s[L]
  <2>1. \A n \in 1 .. L : n \in 1 .. L + 1
    BY <1>1
  <2>2. \A n \in 1 .. L : r[n - 1] = s[n - 1] => r[n] = s[n]
    BY <1>1, <1>4, <2>1
  <2> QED
    BY <1>1, <1>4, <2>2, RecurrenceIsUnique
<1>6. L + 1 \in 1 .. L + 1 /\ (L + 1) - 1 = L
  BY <1>1
<1>7. r[L + 1] = Rel2AbsLine(r[L], l)
  BY <1>1, <1>4, <1>6
<1> QED
  BY <1>1, <1>2, <1>3, <1>5, <1>7 DEF v

-----------------------------------------------------------------------------
(* The lines of one more event, as putOne makes them.                      *)

LEMMA EndsOfAppend ==
  ASSUME NEW events \in Seq(Events), NEW e \in Events
  PROVE  Ends(Append(events, e)) <=> e.char = MaskChar
<1> DEFINE v == Append(events, e)
<1>1. /\ Len(events) \in Nat /\ v \in Seq(Events) /\ Len(v) = Len(events) + 1
      /\ v[Len(events) + 1] = e /\ DOMAIN v = 1 .. Len(v)
  BY EventAppended, ElementsAreEvents
<1> HIDE DEF v
<1>2. Len(v) \in DOMAIN v /\ v[Len(v)] = e
  BY <1>1
<1>3. Ends(v) <=> e.char = MaskChar
  BY <1>2 DEF Ends, Masked
<1> QED
  BY <1>3 DEF v

LEMMA SpansOfNext ==
  ASSUME NEW events \in Seq(Events), NEW e \in Events
  PROVE  Spans(Append(events, e)) =
           IF e.char = MaskChar
             THEN IF Ends(events) THEN Spans(events)
                  ELSE Append(Spans(events), Line(MaskChar, e.time))
             ELSE Append(IF Ends(events)
                           THEN Append(Spans(events), Line(MaskChar, events[Len(events)].time))
                           ELSE Spans(events),
                         Line(e.char, e.time))
<1> DEFINE v == Append(events, e)
           s == Spans(events)
           last == Printed(v, Len(events) + 1)
           close == Closing(events, e)
           l == Line(e.char, e.time)
           m == Line(MaskChar, events[Len(events)].time)
<1>1. s \in Seq(Events) /\ Spans(v) = (s \o close) \o last
  BY SpansOfAppend
<1>2. last = IF e.char = MaskChar /\ Ends(events) THEN <<>> ELSE <<l>>
  BY PrintedOfLast
<1>3. close = IF Ends(events) /\ e.char # MaskChar THEN <<m>> ELSE <<>>
  BY DEF Closing
<1>4. l \in Events
  BY LineIsEvent DEF Events
<1>5. Ends(events) => m \in Events
  <2>1. Ends(events) => Len(events) \in 1 .. Len(events)
    BY ElementsAreEvents DEF Ends, Masked
  <2> QED
    BY <2>1, ElementsAreEvents, LineIsEvent
<1> HIDE DEF v, s, last, close, l, m, Events
<1>6. \A t \in Seq(Events) : t \o <<>> = t
  BY ConcatEmptySeq
<1>7. \A t \in Seq(Events) : \A x \in Events : t \o <<x>> = Append(t, x) /\ Append(t, x) \in Seq(Events)
  BY AppendIsConcat, AppendProperties
<1>8. CASE e.char = MaskChar
  <2>1. close = <<>> /\ s \o close = s
    BY <1>1, <1>3, <1>6, <1>8
  <2>2. Ends(events) => Spans(v) = s
    BY <1>1, <1>2, <1>6, <1>8, <2>1
  <2>3. ~Ends(events) => Spans(v) = Append(s, l)
    BY <1>1, <1>2, <1>4, <1>7, <1>8, <2>1
  <2> QED
    BY <1>8, <2>2, <2>3 DEF v, s, l
<1>9. CASE e.char # MaskChar
  <2>1. last = <<l>>
    BY <1>2, <1>9
  <2>2. CASE Ends(events)
    <3>1. s \o close = Append(s, m) /\ Append(s, m) \in Seq(Events)
      BY <1>1, <1>3, <1>5, <1>7, <1>9, <2>2
    <3>2. Spans(v) = Append(Append(s, m), l)
      BY <1>1, <1>4, <1>7, <2>1, <3>1
    <3> QED
      BY <1>9, <2>2, <3>2 DEF v, s, l, m
  <2>3. CASE ~Ends(events)
    <3>1. s \o close = s
      BY <1>1, <1>3, <1>6, <2>3
    <3>2. Spans(v) = Append(s, l)
      BY <1>1, <1>4, <1>7, <2>1, <3>1
    <3> QED
      BY <1>9, <2>3, <3>2 DEF v, s, l
  <2> QED
    BY <2>2, <2>3
<1> QED
  BY <1>8, <1>9

-----------------------------------------------------------------------------
(* Visible events keep their times in what is printed of them.             *)

KeepsTimes(ls, events) ==
  \E f \in Bijection(Visible(ls), Visible(events)) :
    /\ \A i, j \in Visible(ls) : i < j => f[i] < f[j]
    /\ \A i \in Visible(ls) : ls[i].char = events[f[i]].char /\ ls[i].time = events[f[i]].time

LEMMA VisibleOfAppend ==
  ASSUME NEW s \in Seq(Events), NEW e \in Events
  PROVE  /\ Visible(s) \subseteq 1 .. Len(s)
         /\ Visible(Append(s, e)) =
              Visible(s) \union (IF e.char = MaskChar THEN {} ELSE {Len(s) + 1})
         /\ \A i \in Visible(s) : Append(s, e)[i] = s[i]
<1> DEFINE v == Append(s, e)
<1>1. /\ Len(s) \in Nat /\ v \in Seq(Events) /\ Len(v) = Len(s) + 1
      /\ v[Len(s) + 1] = e /\ DOMAIN v = 1 .. Len(s) + 1 /\ DOMAIN s = 1 .. Len(s)
      /\ \A i \in 1 .. Len(s) : v[i] = s[i]
  BY EventAppended, ElementsAreEvents
<1> HIDE DEF v
<1>2. \A i : i \in 1 .. Len(s) + 1 <=> i \in 1 .. Len(s) \/ i = Len(s) + 1
  BY <1>1
<1>3. Visible(s) \subseteq 1 .. Len(s)
  BY <1>1 DEF Visible
<1>4. \A i \in Visible(s) : v[i] = s[i]
  BY <1>1, <1>3
<1>5. \A i : i \in Visible(v) <=> i \in Visible(s) \/ (i = Len(s) + 1 /\ e.char # MaskChar)
  BY <1>1, <1>2 DEF Visible
<1>6. Visible(v) = Visible(s) \union (IF e.char = MaskChar THEN {} ELSE {Len(s) + 1})
  BY <1>5
<1> QED
  BY <1>3, <1>4, <1>6 DEF v

LEMMA KeptWithMaskedEvent ==
  ASSUME NEW ls \in Seq(Events), NEW events \in Seq(Events), NEW e \in Events,
         e.char = MaskChar, KeepsTimes(ls, events)
  PROVE  KeepsTimes(ls, Append(events, e))
<1> DEFINE v == Append(events, e)
<1>1. Visible(v) = Visible(events) /\ \A i \in Visible(events) : v[i] = events[i]
  BY VisibleOfAppend
<1> HIDE DEF v
<1>2. PICK f \in Bijection(Visible(ls), Visible(events)) :
        /\ \A i, j \in Visible(ls) : i < j => f[i] < f[j]
        /\ \A i \in Visible(ls) : ls[i].char = events[f[i]].char /\ ls[i].time = events[f[i]].time
  BY DEF KeepsTimes
<1>3. \A i \in Visible(ls) : f[i] \in Visible(events)
  BY DEF Bijection, Injection
<1>4. \A i \in Visible(ls) : ls[i].char = v[f[i]].char /\ ls[i].time = v[f[i]].time
  BY <1>1, <1>2, <1>3
<1>5. KeepsTimes(ls, v)
  BY <1>1, <1>2, <1>4 DEF KeepsTimes
<1> QED
  BY <1>5 DEF v

LEMMA KeptWithMaskedLine ==
  ASSUME NEW ls \in Seq(Events), NEW events \in Seq(Events), NEW l \in Events,
         l.char = MaskChar, KeepsTimes(ls, events)
  PROVE  KeepsTimes(Append(ls, l), events)
<1> DEFINE v == Append(ls, l)
<1>1. Visible(v) = Visible(ls) /\ \A i \in Visible(ls) : v[i] = ls[i]
  <2>1. Visible(v) = Visible(ls) \union {}
    BY VisibleOfAppend
  <2> QED
    BY <2>1, VisibleOfAppend
<1> HIDE DEF v
<1>2. KeepsTimes(v, events)
  BY <1>1 DEF KeepsTimes
<1> QED
  BY <1>2 DEF v

LEMMA KeptWithVisible ==
  ASSUME NEW ls \in Seq(Events), NEW events \in Seq(Events), NEW e \in Events,
         e.char # MaskChar, KeepsTimes(ls, events)
  PROVE  KeepsTimes(Append(ls, e), Append(events, e))
<1> DEFINE u == Append(ls, e)  v == Append(events, e)
           m == Len(ls) + 1  n == Len(events) + 1
<1>1. /\ Len(ls) \in Nat /\ Len(events) \in Nat
      /\ Visible(ls) \subseteq 1 .. Len(ls) /\ Visible(events) \subseteq 1 .. Len(events)
  BY VisibleOfAppend, ElementsAreEvents
<1>2. /\ Visible(u) = Visible(ls) \union {m} /\ \A i \in Visible(ls) : u[i] = ls[i]
      /\ Visible(v) = Visible(events) \union {n} /\ \A i \in Visible(events) : v[i] = events[i]
      /\ u[m] = e /\ v[n] = e
  BY VisibleOfAppend, EventAppended
<1>3. /\ \A i \in Visible(ls) : i < m /\ i # m
      /\ \A i \in Visible(events) : i < n /\ i # n
      /\ m \in Nat /\ n \in Nat
  BY <1>1
<1> HIDE DEF u, v, m, n
<1>4. PICK f \in Bijection(Visible(ls), Visible(events)) :
        /\ \A i, j \in Visible(ls) : i < j => f[i] < f[j]
        /\ \A i \in Visible(ls) : ls[i].char = events[f[i]].char /\ ls[i].time = events[f[i]].time
  BY DEF KeepsTimes
<1>5. /\ \A i \in Visible(ls) : f[i] \in Visible(events)
      /\ \A i, j \in Visible(ls) : f[i] = f[j] => i = j
      /\ \A k \in Visible(events) : \E i \in Visible(ls) : f[i] = k
  BY DEF Bijection, Injection, Surjection, IsInjective
<1> DEFINE g == [i \in Visible(u) |-> IF i = m THEN n ELSE f[i]]
<1>6. g[m] = n /\ \A i \in Visible(ls) : g[i] = f[i]
  BY <1>2, <1>3
<1>7. g \in [Visible(u) -> Visible(v)]
  BY <1>2, <1>5
<1> HIDE DEF g
<1>8. g \in Bijection(Visible(u), Visible(v))
  <2>1. \A i, j \in Visible(u) : g[i] = g[j] => i = j
    BY <1>2, <1>3, <1>5, <1>6
  <2>2. \A k \in Visible(v) : \E i \in Visible(u) : g[i] = k
    BY <1>2, <1>5, <1>6
  <2> QED
    BY <1>7, <2>1, <2>2 DEF Bijection, Injection, Surjection, IsInjective
<1>9. \A i, j \in Visible(u) : i < j => g[i] < g[j]
  <2> SUFFICES ASSUME NEW i \in Visible(u), NEW j \in Visible(u), i < j PROVE g[i] < g[j]
    OBVIOUS
  <2>1. CASE i = m
    <3>1. j \in Visible(ls) \/ j = m
      BY <1>2
    <3>2. \A k \in Visible(ls) : k \in Nat
      BY <1>1
    <3> QED
      BY <1>3, <2>1, <3>1, <3>2
  <2>2. CASE i # m /\ j = m
    BY <1>2, <1>3, <1>5, <1>6, <2>2
  <2>3. CASE i # m /\ j # m
    BY <1>2, <1>4, <1>6, <2>3
  <2> QED
    BY <2>1, <2>2, <2>3
<1>10. \A i \in Visible(u) : u[i].char = v[g[i]].char /\ u[i].time = v[g[i]].time
  <2>1. ASSUME NEW i \in Visible(ls) PROVE u[i].char = v[g[i]].char /\ u[i].time = v[g[i]].time
    <3>1. u[i] = ls[i] /\ g[i] = f[i] /\ v[f[i]] = events[f[i]]
      BY <1>2, <1>5, <1>6
    <3> QED
      BY <1>4, <3>1
  <2> QED
    BY <1>2, <1>6, <2>1
<1>11. KeepsTimes(u, v)
  BY <1>8, <1>9, <1>10 DEF KeepsTimes
<1> QED
  BY <1>11 DEF u, v

LEMMA SpansKeepTimes ==
  ASSUME NEW events \in Seq(Events)
  PROVE  Spans(events) \in Seq(Events) /\ KeepsTimes(Spans(events), events)
<1> DEFINE W == {s \in Seq(Events) : Spans(s) \in Seq(Events) /\ KeepsTimes(Spans(s), s)}
<1>1. <<>> \in W
  <2>1. Visible(<<>>) = {}
    BY DEF Visible
  <2>2. KeepsTimes(<<>>, <<>>)
    <3> DEFINE f == [i \in {} |-> 0]
    <3>1. f \in Bijection({}, {})
      BY DEF Bijection, Injection, Surjection, IsInjective
    <3> HIDE DEF f
    <3> QED
      BY <2>1, <3>1 DEF KeepsTimes
  <2>3. <<>> \in Seq(Events)
    OBVIOUS
  <2> QED
    BY <2>2, <2>3, SpansOfNone
<1>2. ASSUME NEW v \in Seq(Events), NEW e \in Events, v \in W PROVE Append(v, e) \in W
  <2> DEFINE s == Spans(v)
             mask == Line(MaskChar, v[Len(v)].time)
  <2>1. /\ Append(v, e) \in Seq(Events) /\ Line(e.char, e.time) = e
        /\ Line(MaskChar, e.time) \in Events
    BY EventAppended, LineIsEvent DEF Line, Events
  <2>2. Ends(v) => mask \in Events
    <3>1. Ends(v) => Len(v) \in 1 .. Len(v)
      BY ElementsAreEvents DEF Ends, Masked
    <3> QED
      BY <3>1, ElementsAreEvents, LineIsEvent
  <2>3. mask.char = MaskChar /\ Line(MaskChar, e.time).char = MaskChar
    BY DEF Line
  <2>4. s \in Seq(Events) /\ KeepsTimes(s, v)
    BY <1>2
  <2>5. Spans(Append(v, e)) =
          IF e.char = MaskChar THEN IF Ends(v) THEN s ELSE Append(s, Line(MaskChar, e.time))
          ELSE Append(IF Ends(v) THEN Append(s, mask) ELSE s, e)
    BY <2>1, SpansOfNext
  <2> HIDE DEF s, mask, W
  <2>6. Spans(Append(v, e)) \in Seq(Events) /\ KeepsTimes(Spans(Append(v, e)), Append(v, e))
    <3>1. CASE e.char = MaskChar /\ Ends(v)
      BY <2>4, <2>5, <3>1, KeptWithMaskedEvent
    <3>2. CASE e.char = MaskChar /\ ~Ends(v)
      <4>1. /\ Append(s, Line(MaskChar, e.time)) \in Seq(Events)
            /\ KeepsTimes(Append(s, Line(MaskChar, e.time)), v)
        BY <2>1, <2>3, <2>4, EventAppended, KeptWithMaskedLine
      <4>2. KeepsTimes(Append(s, Line(MaskChar, e.time)), Append(v, e))
        BY <3>2, <4>1, KeptWithMaskedEvent
      <4> QED
        BY <2>5, <3>2, <4>1, <4>2
    <3>3. CASE e.char # MaskChar /\ Ends(v)
      <4>1. Append(s, mask) \in Seq(Events) /\ KeepsTimes(Append(s, mask), v)
        BY <2>2, <2>3, <2>4, <3>3, EventAppended, KeptWithMaskedLine
      <4>2. KeepsTimes(Append(Append(s, mask), e), Append(v, e))
        BY <3>3, <4>1, KeptWithVisible
      <4>3. Append(Append(s, mask), e) \in Seq(Events)
        BY <4>1, EventAppended
      <4> QED
        BY <2>5, <3>3, <4>2, <4>3
    <3>4. CASE e.char # MaskChar /\ ~Ends(v)
      <4>1. KeepsTimes(Append(s, e), Append(v, e)) /\ Append(s, e) \in Seq(Events)
        BY <2>4, <3>4, KeptWithVisible, EventAppended
      <4> QED
        BY <2>5, <3>4, <4>1
    <3> QED
      BY <3>1, <3>2, <3>3, <3>4
  <2> QED
    BY <2>1, <2>6 DEF W
<1>3. events \in W
  <2> HIDE DEF W, Events
  <2> QED
    BY <1>1, <1>2, InductionOnWords
<1> QED
  BY <1>3

-----------------------------------------------------------------------------
(* The inductive invariant.                                                *)

Durations == [char : Characters \union {MaskChar}, duration : Nat]

Types ==
  /\ isAbsTime \in BOOLEAN
  /\ last_abs_time \in Nat /\ out_abs_time \in Nat
  /\ inside \in Seq(Durations)
  /\ truncating \in BOOLEAN
  /\ lines \in Seq(Events)
  /\ word \in Seq(Events) /\ visible \in Seq(BOOLEAN)

(* The time of the event before event i of a word.                         *)
Before(w, i) == IF i =< 1 THEN 0 ELSE w[i - 1].time

(* getOne remembers the time of the last event, if it needs it.            *)
LastRead == last_abs_time = IF isAbsTime THEN Now ELSE 0

(* The events in the machine are the last of the word, with durations.     *)
HoldsRest ==
  /\ Len(word) = Len(visible) + Len(inside)
  /\ \A i \in 1 .. Len(inside) :
       /\ inside[i].char = word[Len(visible) + i].char
       /\ Before(word, Len(visible) + i) + inside[i].duration = word[Len(visible) + i].time

(* The time of the last event that left.                                   *)
LeftAt == Before(word, Len(visible) + 1)

(* What putOne remembers with --abs, and what it has printed.              *)
PutsAbs ==
  isAbsTime =>
    /\ out_abs_time = LeftAt
    /\ truncating <=> Ends(Left)
    /\ lines = Spans(Left)

(* Without --abs the times follow from the lines, by rel2abs_truncate.     *)
PutsRelative ==
  ~isAbsTime =>
    /\ Len(lines) = Len(Left)
    /\ \A i \in 1 .. Len(Left) :
         lines[i].char = Left[i].char /\ TimeOf(lines, i) = Left[i].time
    /\ Rel2Abs(lines).abs_time = LeftAt
    /\ Rel2Abs(lines).truncating <=> Ends(Left)
    /\ Ends(Left) => Rel2Abs(lines).last_abs_time = LeftAt
    /\ Rel2Abs(lines).printed = Spans(Left)

IInv == Types /\ LastRead /\ HoldsRest /\ PutsAbs /\ PutsRelative

-----------------------------------------------------------------------------
(* The events that left.                                                   *)

LEMMA LeftIs ==
  ASSUME Types, HoldsRest
  PROVE  /\ Left \in Seq(Events) /\ Len(Left) = Len(visible)
         /\ Len(visible) \in Nat /\ Len(inside) \in Nat /\ Len(word) \in Nat
         /\ \A i \in 1 .. Len(Left) :
              /\ Left[i].time = word[i].time
              /\ Left[i].char = IF visible[i] THEN word[i].char ELSE MaskChar
<1> DEFINE n == Len(visible)
<1>1. /\ n \in Nat /\ Len(inside) \in Nat /\ Len(word) \in Nat
      /\ DOMAIN visible = 1 .. n /\ \A i \in 1 .. n : visible[i] \in BOOLEAN
  <2> HIDE DEF Durations, Events
  <2> QED
    BY DEF Types
<1> HIDE DEF n
<1>2. \A i \in 1 .. n : i \in 1 .. Len(word)
  BY <1>1 DEF HoldsRest, n
<1>3. \A i \in 1 .. n : /\ word[i] \in Events
                        /\ [word[i] EXCEPT !.char = MaskChar] \in Events
                        /\ [word[i] EXCEPT !.char = MaskChar].char = MaskChar
                        /\ [word[i] EXCEPT !.char = MaskChar].time = word[i].time
  <2> SUFFICES ASSUME NEW i \in 1 .. n
               PROVE  /\ word[i] \in Events
                      /\ [word[i] EXCEPT !.char = MaskChar] \in Events
                      /\ [word[i] EXCEPT !.char = MaskChar].char = MaskChar
                      /\ [word[i] EXCEPT !.char = MaskChar].time = word[i].time
    OBVIOUS
  <2>1. word[i] \in Events
    BY <1>2, ElementsAreEvents DEF Types
  <2> QED
    BY <2>1 DEF Events
<1> DEFINE at(i) == IF visible[i] THEN word[i] ELSE [word[i] EXCEPT !.char = MaskChar]
<1>4. Left = [i \in 1 .. n |-> at(i)]
  BY <1>1 DEF Left
<1>5. \A i \in 1 .. n : /\ at(i) \in Events /\ at(i).time = word[i].time
                        /\ at(i).char = IF visible[i] THEN word[i].char ELSE MaskChar
  BY <1>1, <1>3
<1> HIDE DEF at
<1>6. Left \in Seq(Events) /\ Len(Left) = n
  <2> HIDE DEF Events
  <2>1. Left \in [1 .. n -> Events]
    BY <1>4, <1>5
  <2> QED
    BY <1>1, <2>1
<1>7. \A i \in 1 .. n : Left[i] = at(i)
  BY <1>4
<1> QED
  BY <1>1, <1>5, <1>6, <1>7 DEF n

(* The time at which the last event left.                                  *)
LEMMA LeftAtIs ==
  ASSUME Types, HoldsRest
  PROVE  LeftAt \in Nat /\ (Left # <<>> => LeftAt = Left[Len(Left)].time)
<1> DEFINE n == Len(visible)
<1>1. n \in Nat /\ Len(Left) = n /\ n =< Len(word) /\ Len(word) \in Nat
  BY LeftIs DEF HoldsRest
<1>2. Left # <<>> => n # 0
  BY <1>1, LeftIs
<1> HIDE DEF n
<1>3. CASE n = 0
  BY <1>2, <1>3 DEF LeftAt, Before, n
<1>4. CASE n # 0
  <2>1. n \in 1 .. n /\ n \in 1 .. Len(word) /\ (n + 1) - 1 = n /\ ~(n + 1 =< 1)
    BY <1>1, <1>4
  <2>2. word[n].time \in Nat
    BY <2>1, ElementsAreEvents DEF Types
  <2>3. LeftAt = word[n].time
    BY <2>1 DEF LeftAt, Before, n
  <2>4. Left[n].time = word[n].time
    BY <1>1, <2>1, LeftIs
  <2> QED
    BY <1>1, <2>2, <2>3, <2>4
<1> QED
  BY <1>3, <1>4

LEMMA NowIs ==
  ASSUME Types PROVE Now \in Nat /\ Now = Before(word, Len(word) + 1)
<1>1. word \in Seq(Events) /\ Len(word) \in Nat
  BY ElementsAreEvents DEF Types
<1>2. CASE word = <<>>
  BY <1>2 DEF Now, Before
<1>3. CASE word # <<>>
  <2>1. Len(word) # 0
    <3> HIDE DEF Events
    <3> QED
      BY <1>1, <1>3
  <2>2. Len(word) \in 1 .. Len(word) /\ (Len(word) + 1) - 1 = Len(word) /\ ~(Len(word) + 1 =< 1)
    BY <1>1, <2>1
  <2> QED
    BY <1>1, <1>3, <2>2, ElementsAreEvents DEF Now, Before, Last
<1> QED
  BY <1>2, <1>3

-----------------------------------------------------------------------------

LEMMA InitOK == Init => IInv
<1> SUFFICES ASSUME Init PROVE IInv
  OBVIOUS
<1>1. /\ word = <<>> /\ visible = <<>> /\ inside = <<>> /\ lines = <<>>
      /\ last_abs_time = 0 /\ out_abs_time = 0 /\ truncating = FALSE /\ isAbsTime \in BOOLEAN
  BY DEF Init
<1>2. Types
  <2>1. <<>> \in Seq(Durations) /\ <<>> \in Seq(Events) /\ <<>> \in Seq(BOOLEAN)
    OBVIOUS
  <2> HIDE DEF Durations, Events
  <2> QED
    BY <1>1, <2>1 DEF Types
<1>3. LastRead
  BY <1>1 DEF LastRead, Now
<1>4. HoldsRest
  BY <1>1 DEF HoldsRest
<1>5. Left = <<>> /\ LeftAt = 0
  BY <1>1 DEF Left, LeftAt, Before
<1>6. ~Ends(<<>>)
  BY DEF Ends, Masked
<1>7. PutsAbs
  BY <1>1, <1>5, <1>6, SpansOfNone DEF PutsAbs
<1>8. PutsRelative
  BY <1>1, <1>5, <1>6, SpansOfNone, Rel2AbsOfNone DEF PutsRelative, LocalsAtFirst
<1> QED
  BY <1>2, <1>3, <1>4, <1>7, <1>8 DEF IInv

-----------------------------------------------------------------------------
(* An event is read.                                                       *)

LEMMA BeforeOfAppend ==
  ASSUME NEW w \in Seq(Events), NEW e \in Events, NEW i \in Nat, i =< Len(w) + 1
  PROVE  Before(Append(w, e), i) = Before(w, i)
<1>1. Len(w) \in Nat
  BY ElementsAreEvents
<1>2. i > 1 => i - 1 \in 1 .. Len(w)
  BY <1>1
<1>3. \A k \in 1 .. Len(w) : Append(w, e)[k] = w[k]
  BY EventAppended
<1>4. CASE i =< 1
  BY <1>4 DEF Before
<1>5. CASE i > 1
  BY <1>2, <1>3, <1>5 DEF Before
<1> QED
  BY <1>4, <1>5

LEMMA ReadOK == IInv /\ Read => IInv'
<1> SUFFICES ASSUME IInv, Read PROVE IInv'
  OBVIOUS
<1>1. Types /\ LastRead /\ HoldsRest /\ PutsAbs /\ PutsRelative
  BY DEF IInv
<1>2. PICK c \in Characters, t \in Now .. MaxTime : GetOne(c, IF isAbsTime THEN t ELSE t - Now)
  BY DEF Read
<1>3. Now \in Nat /\ Now = Before(word, Len(word) + 1) /\ t \in Nat /\ t - Now \in Nat
  <2>1. Now \in Nat /\ Now = Before(word, Len(word) + 1)
    BY <1>1, NowIs
  <2> HIDE DEF Now
  <2> QED
    BY <2>1, BoundsAssumption
<1> DEFINE e == [char |-> c, time |-> t]
           d == [char |-> c, duration |-> t - Now]
           n == Len(visible)  k == Len(inside)
<1>4. e \in Events /\ d \in Durations
  <2> HIDE DEF Now
  <2> QED
    BY <1>3 DEF Events, Durations
<1>5. /\ inside' = Append(inside, d) /\ word' = Append(word, e)
      /\ last_abs_time' = IF isAbsTime THEN t ELSE last_abs_time
      /\ UNCHANGED <<isAbsTime, truncating, out_abs_time, lines, visible>>
  <2>1. isAbsTime => last_abs_time = Now
    BY <1>1 DEF LastRead
  <2>2. Now + (t - Now) = t
    <3> HIDE DEF Now
    <3> QED
      BY <1>3
  <2>3. isAbsTime \in BOOLEAN
    BY <1>1 DEF Types
  <2> HIDE DEF Now
  <2>4. CASE isAbsTime
    BY <1>2, <2>1, <2>4 DEF GetOne
  <2>5. CASE ~isAbsTime
    BY <1>2, <2>2, <2>5 DEF GetOne
  <2> QED
    BY <2>4, <2>5
<1>6. /\ n \in Nat /\ k \in Nat /\ Len(word) \in Nat /\ Len(word) = n + k
      /\ inside \in Seq(Durations) /\ word \in Seq(Events)
  BY <1>1, LeftIs DEF HoldsRest, Types
<1>7. /\ Len(inside') = k + 1 /\ inside'[k + 1] = d
      /\ inside' \in Seq(Durations)
      /\ \A i \in 1 .. k : inside'[i] = inside[i]
  <2> HIDE DEF d, Durations
  <2> QED
    BY <1>4, <1>5, <1>6, AppendProperties
<1>8. /\ Len(word') = Len(word) + 1 /\ word'[Len(word) + 1] = e /\ word' \in Seq(Events)
      /\ \A i \in 1 .. Len(word) : word'[i] = word[i]
  <2> HIDE DEF e
  <2> QED
    BY <1>4, <1>5, <1>6, EventAppended
<1>9. \A i \in Nat : i =< Len(word) + 1 => Before(word', i) = Before(word, i)
  <2> HIDE DEF e
  <2> QED
    BY <1>4, <1>5, <1>6, BeforeOfAppend
<1>10. Types'
  <2>1. last_abs_time' \in Nat
    BY <1>1, <1>3, <1>5 DEF Types
  <2> HIDE DEF Durations, Events
  <2> QED
    BY <1>1, <1>5, <1>7, <1>8, <2>1 DEF Types
<1>11. LastRead'
  <2>1. Now' = t
    <3>1. word' # <<>>
      <4> HIDE DEF e, Events
      <4> QED
        BY <1>6, <1>8
    <3>2. Now' = word'[Len(word')].time
      BY <3>1 DEF Now, Last
    <3> QED
      BY <1>8, <3>2
  <2> HIDE DEF Now
  <2>2. CASE isAbsTime
    BY <1>5, <2>1, <2>2 DEF LastRead
  <2>3. CASE ~isAbsTime
    BY <1>1, <1>5, <2>3 DEF LastRead
  <2> QED
    BY <2>2, <2>3
<1>12. HoldsRest'
  <2>1. Len(word') = Len(visible') + Len(inside')
    BY <1>5, <1>6, <1>7, <1>8
  <2>2. ASSUME NEW i \in 1 .. k + 1
        PROVE  /\ inside'[i].char = word'[n + i].char
               /\ Before(word', n + i) + inside'[i].duration = word'[n + i].time
    <3>1. n + i \in Nat /\ n + i =< Len(word) + 1
      <4> HIDE DEF n, k
      <4> QED
        BY <1>6
    <3>2. Before(word', n + i) = Before(word, n + i)
      BY <1>9, <3>1
    <3>3. CASE i \in 1 .. k
      <4>1. n + i \in 1 .. Len(word)
        <5> HIDE DEF n, k
        <5> QED
          BY <1>6, <3>3
      <4>2. /\ inside[i].char = word[n + i].char
            /\ Before(word, n + i) + inside[i].duration = word[n + i].time
        BY <1>1, <3>3 DEF HoldsRest
      <4>3. inside'[i] = inside[i] /\ word'[n + i] = word[n + i]
        BY <1>7, <1>8, <3>3, <4>1
      <4> QED
        BY <3>2, <4>2, <4>3
    <3>4. CASE i \notin 1 .. k
      <4>1. i = k + 1 /\ n + i = Len(word) + 1
        <5> HIDE DEF n, k
        <5> QED
          BY <1>6, <3>4
      <4>2. inside'[i] = d /\ word'[n + i] = e
        BY <1>7, <1>8, <4>1
      <4>3. Before(word', n + i) = Now
        BY <1>3, <3>2, <4>1
      <4>4. Now + (t - Now) = t
        <5> HIDE DEF Now
        <5> QED
          BY <1>3
      <4> QED
        BY <4>2, <4>3, <4>4
    <3> QED
      BY <3>3, <3>4
  <2> QED
    BY <1>5, <1>7, <2>1, <2>2 DEF HoldsRest
<1>13. Left' = Left /\ LeftAt' = LeftAt
  <2>1. \A i \in DOMAIN visible : word'[i] = word[i]
    <3>1. DOMAIN visible = 1 .. n
      BY <1>1 DEF Types
    <3>2. \A i \in 1 .. n : i \in 1 .. Len(word)
      <4> HIDE DEF n, k
      <4> QED
        BY <1>6
    <3> QED
      BY <1>8, <3>1, <3>2
  <2>2. Left' = Left
    BY <1>5, <2>1 DEF Left
  <2>3. n + 1 \in Nat /\ n + 1 =< Len(word) + 1
    <3> HIDE DEF n, k
    <3> QED
      BY <1>6
  <2>4. LeftAt' = LeftAt
    BY <1>5, <1>9, <2>3 DEF LeftAt
  <2> QED
    BY <2>2, <2>4
<1>14. PutsAbs'
  <2> HIDE DEF Now
  <2> QED
    BY <1>1, <1>5, <1>13 DEF PutsAbs
<1>15. PutsRelative'
  BY <1>1, <1>5, <1>13 DEF PutsRelative
<1> QED
  BY <1>10, <1>11, <1>12, <1>14, <1>15 DEF IInv

-----------------------------------------------------------------------------
(* An event leaves.                                                        *)

(* The event that leaves next, visible or not.                             *)
Leaving(shown) ==
  [char |-> IF shown THEN Head(inside).char ELSE MaskChar, time |-> word[Len(visible) + 1].time]

LEMMA LeavingIs ==
  ASSUME Types, HoldsRest, inside # <<>>, NEW shown \in BOOLEAN
  PROVE  /\ Head(inside) \in Durations /\ Len(visible) + 1 \in 1 .. Len(word)
         /\ Leaving(shown) \in Events
         /\ LeftAt + Head(inside).duration = Leaving(shown).time
         /\ Leaving(shown).char = IF shown THEN word[Len(visible) + 1].char ELSE MaskChar
<1> DEFINE n == Len(visible)  k == Len(inside)
<1>1. /\ n \in Nat /\ k \in Nat /\ Len(word) \in Nat /\ Len(word) = n + k
  BY LeftIs DEF HoldsRest
<1>2. Head(inside) \in Durations /\ Head(inside) = inside[1] /\ k # 0
  <2> HIDE DEF Durations
  <2> QED
    BY DEF Types
<1> HIDE DEF n, k
<1>3. 1 \in 1 .. k /\ n + 1 \in 1 .. Len(word)
  BY <1>1, <1>2
<1>4. /\ inside[1].char = word[n + 1].char
      /\ LeftAt + inside[1].duration = word[n + 1].time
  BY <1>3 DEF HoldsRest, LeftAt, n, k
<1>5. word[n + 1].char \in Characters \union {MaskChar} /\ word[n + 1].time \in Nat
  BY <1>3, ElementsAreEvents DEF Types
<1> QED
  BY <1>2, <1>3, <1>4, <1>5 DEF Leaving, Events, n

LEMMA LeftNext ==
  ASSUME Types, HoldsRest, inside # <<>>, NEW shown \in BOOLEAN,
         visible' = Append(visible, shown), word' = word
  PROVE  Left' = Append(Left, Leaving(shown)) /\ LeftAt' = Leaving(shown).time
<1> DEFINE n == Len(visible)
           e == Leaving(shown)
           at(i) == IF visible'[i] THEN word[i] ELSE [word[i] EXCEPT !.char = MaskChar]
<1>1. /\ Left \in Seq(Events) /\ Len(Left) = n /\ n \in Nat
      /\ e \in Events /\ n + 1 \in 1 .. Len(word)
      /\ e.char = IF shown THEN word[n + 1].char ELSE MaskChar
      /\ e.time = word[n + 1].time
  BY LeftIs, LeavingIs DEF Leaving
<1>2. /\ DOMAIN visible = 1 .. n /\ DOMAIN visible' = 1 .. n + 1 /\ Len(visible') = n + 1
      /\ visible'[n + 1] = shown /\ \A i \in 1 .. n : visible'[i] = visible[i]
  <2>1. visible \in Seq(BOOLEAN)
    BY DEF Types
  <2> QED
    BY <2>1, AppendProperties
<1>3. word[n + 1] \in Events
  BY <1>1, ElementsAreEvents DEF Types
<1> DEFINE v == Append(Left, e)
<1>4. /\ DOMAIN v = 1 .. n + 1 /\ v \in [1 .. n + 1 -> Events]
      /\ \A i \in 1 .. n : v[i] = Left[i]
      /\ v[n + 1] = e
  <2>1. v \in Seq(Events) /\ Len(v) = n + 1 /\ v[n + 1] = e /\ \A i \in 1 .. n : v[i] = Left[i]
    BY <1>1, EventAppended
  <2> HIDE DEF v, e, n, Events
  <2> QED
    BY <2>1
<1>5. Left' = [i \in 1 .. n + 1 |-> at(i)]
  BY <1>2 DEF Left
<1>6. \A i \in 1 .. n : Left[i] = at(i)
  BY <1>2 DEF Left
<1>7. e = at(n + 1)
  <2>1. \A x \in Events : /\ x = [char |-> x.char, time |-> x.time]
                         /\ [x EXCEPT !.char = MaskChar] = [char |-> MaskChar, time |-> x.time]
    BY DEF Events
  <2> HIDE DEF Events, n
  <2>2. CASE shown
    BY <1>1, <1>2, <1>3, <2>1, <2>2
  <2>3. CASE ~shown
    BY <1>1, <1>2, <1>3, <2>1, <2>3
  <2> QED
    BY <2>2, <2>3
<1> HIDE DEF at, v, e, n, Events
<1>8. \A i \in 1 .. n + 1 : v[i] = at(i)
  <2>1. \A i \in 1 .. n + 1 : i \in 1 .. n \/ i = n + 1
    BY <1>1
  <2> QED
    BY <1>4, <1>6, <1>7, <2>1
<1>9. v = Left'
  BY <1>4, <1>5, <1>8
<1>10. LeftAt' = e.time
  <2>1. ((n + 1) + 1) - 1 = n + 1 /\ ~((n + 1) + 1 =< 1)
    BY <1>1
  <2> QED
    BY <1>1, <1>2, <2>1 DEF LeftAt, Before
<1> QED
  BY <1>9, <1>10 DEF v, e

LEMMA LeaveOK == IInv /\ Leave => IInv'
<1> SUFFICES ASSUME IInv, Leave PROVE IInv'
  OBVIOUS
<1>1. Types /\ LastRead /\ HoldsRest /\ PutsAbs /\ PutsRelative
  BY DEF IInv
<1>2. inside # <<>> /\ inside' = Tail(inside) /\ UNCHANGED <<isAbsTime, last_abs_time, word>>
  BY DEF Leave
<1>3. PICK shown \in BOOLEAN :
        /\ PutOne(IF shown THEN Head(inside) ELSE Mask(Head(inside)))
        /\ visible' = Append(visible, shown)
  BY DEF Leave
<1> DEFINE n == Len(visible)  k == Len(inside)
           p == Head(inside)
           q == IF shown THEN p ELSE Mask(p)
           e == Leaving(shown)
<1>4. /\ p \in Durations /\ e \in Events /\ LeftAt + p.duration = e.time
      /\ n + 1 \in 1 .. Len(word)
  BY <1>1, <1>2, LeavingIs
<1>5. q.char = e.char /\ q.duration = p.duration /\ q.duration \in Nat
      /\ q.char \in Characters \union {MaskChar}
  <2>1. p = [char |-> p.char, duration |-> p.duration] /\ p.duration \in Nat
    BY <1>4 DEF Durations
  <2>2. e.char = IF shown THEN p.char ELSE MaskChar
    BY DEF Leaving
  <2>3. e.char \in Characters \union {MaskChar}
    BY <1>4 DEF Events
  <2>4. Mask(p).char = MaskChar /\ Mask(p).duration = p.duration
    BY <1>4 DEF Mask, Durations
  <2> HIDE DEF p, e
  <2> QED
    BY <2>1, <2>2, <2>3, <2>4
<1>6. PutOne(q) /\ visible' = Append(visible, shown)
  BY <1>3
<1>7. Left' = Append(Left, e) /\ LeftAt' = e.time
  BY <1>1, <1>2, <1>6, LeftNext
<1>8. /\ Left \in Seq(Events) /\ Len(Left) = n /\ n \in Nat /\ k \in Nat
      /\ Len(word) = n + k
  BY <1>1, LeftIs DEF HoldsRest
<1>9. /\ Len(visible') = n + 1 /\ visible' \in Seq(BOOLEAN)
      /\ Len(inside') = k - 1 /\ inside' \in Seq(Durations)
      /\ \A i \in 1 .. k - 1 : inside'[i] = inside[i + 1]
  <2>1. visible \in Seq(BOOLEAN) /\ inside \in Seq(Durations)
    BY <1>1 DEF Types
  <2>2. Len(visible') = n + 1 /\ visible' \in Seq(BOOLEAN)
    BY <1>6, <2>1
  <2> HIDE DEF Durations
  <2> QED
    BY <1>2, <2>1, <2>2, HeadTailProperties
<1>10. /\ LeftAt \in Nat /\ e.time \in Nat
       /\ Ends(Left) => Left[Len(Left)].time = LeftAt
       /\ Ends(Left') <=> e.char = MaskChar
  <2>1. Ends(Left) => Left # <<>>
    BY DEF Ends, Masked
  <2>2. LeftAt \in Nat /\ (Left # <<>> => LeftAt = Left[Len(Left)].time)
    BY <1>1, LeftAtIs
  <2>3. e.time \in Nat
    BY <1>4 DEF Events
  <2>4. Ends(Append(Left, e)) <=> e.char = MaskChar
    BY <1>4, <1>8, EndsOfAppend
  <2> QED
    BY <1>7, <2>1, <2>2, <2>3, <2>4
<1>11. Spans(Left') =
         IF e.char = MaskChar
           THEN IF Ends(Left) THEN Spans(Left) ELSE Append(Spans(Left), Line(MaskChar, e.time))
           ELSE Append(IF Ends(Left) THEN Append(Spans(Left), Line(MaskChar, LeftAt))
                       ELSE Spans(Left),
                       Line(e.char, e.time))
  <2> HIDE DEF e
  <2> QED
    BY <1>4, <1>7, <1>8, <1>10, SpansOfNext
<1>12. Spans(Left) \in Seq(Events)
  BY <1>8, SpansKeepTimes
<1> HIDE DEF p, q, e, n, k
<1>13. ASSUME isAbsTime
       PROVE  /\ out_abs_time' = LeftAt' /\ (truncating' <=> Ends(Left')) /\ lines' = Spans(Left')
              /\ truncating' \in BOOLEAN
  <2>1. out_abs_time = LeftAt /\ (truncating <=> Ends(Left)) /\ lines = Spans(Left)
    BY <1>1, <1>13 DEF PutsAbs
  <2>2. PutAbs(q)
    BY <1>6, <1>13 DEF PutOne
  <2>3. out_abs_time' = e.time /\ truncating' = (e.char = MaskChar)
    BY <1>4, <1>5, <2>1, <2>2 DEF PutAbs
  <2>4. lines' = IF e.char = MaskChar
                   THEN IF truncating THEN lines ELSE Append(lines, Line(MaskChar, e.time))
                   ELSE Append(IF truncating THEN Append(lines, Line(MaskChar, out_abs_time))
                               ELSE lines,
                               Line(e.char, e.time))
    BY <1>4, <1>5, <2>1, <2>2 DEF PutAbs
  <2>5. lines' = Spans(Left')
    BY <1>11, <2>1, <2>4
  <2> QED
    BY <1>7, <1>10, <2>3, <2>5
<1> DEFINE l == Line(q.char, q.duration)
           a == Rel2Abs(lines)
<1>14. l \in Events /\ l.char = e.char /\ l.time = p.duration
  BY <1>5, LineIsEvent DEF Line
<1>15. ASSUME ~isAbsTime
       PROVE  /\ lines' = Append(lines, l) /\ lines \in Seq(Events)
              /\ UNCHANGED <<truncating, out_abs_time>>
  BY <1>1, <1>6, <1>15 DEF PutOne, PutRelative, Types
<1> HIDE DEF l
<1>16. ASSUME ~isAbsTime
       PROVE  /\ Len(lines') = Len(Left')
              /\ \A i \in 1 .. Len(Left') :
                   lines'[i].char = Left'[i].char /\ TimeOf(lines', i) = Left'[i].time
  <2>1. /\ Len(lines) = n
        /\ \A i \in 1 .. n : lines[i].char = Left[i].char /\ TimeOf(lines, i) = Left[i].time
    BY <1>1, <1>8, <1>16 DEF PutsRelative
  <2>2. /\ lines' \in Seq(Events) /\ Len(lines') = n + 1 /\ lines'[n + 1] = l
        /\ \A i \in 1 .. n : lines'[i] = lines[i]
    BY <1>14, <1>15, <1>16, <2>1, EventAppended
  <2>3. /\ Len(Left') = n + 1 /\ Left'[n + 1] = e /\ \A i \in 1 .. n : Left'[i] = Left[i]
    BY <1>4, <1>7, <1>8, EventAppended
  <2>4. \A i \in 0 .. n : TimeOf(lines', i) = TimeOf(lines, i)
    BY <1>14, <1>15, <1>16, <2>1, TimeOfPrefix
  <2>5. TimeOf(lines, n) = LeftAt
    <3>1. CASE n = 0
      <4>1. LeftAt = 0
        BY <3>1 DEF LeftAt, Before, n
      <4> QED
        BY <1>15, <1>16, <3>1, <4>1, TimeOfNone
    <3>2. CASE n # 0
      <4>1. Left # <<>> /\ n \in 1 .. n
        BY <1>8, <3>2
      <4>2. LeftAt = Left[n].time
        BY <1>1, <1>8, <4>1, LeftAtIs
      <4> QED
        BY <2>1, <4>1, <4>2
    <3> QED
      BY <3>1, <3>2
  <2>6. TimeOf(lines', n + 1) = e.time
    <3>1. n + 1 \in 1 .. Len(lines') /\ (n + 1) - 1 = n /\ n \in 0 .. n
      BY <1>8, <2>2
    <3>2. TimeOf(lines', n + 1) = TimeOf(lines', (n + 1) - 1) + lines'[n + 1].time
      BY <2>2, <3>1, TimeOfNext
    <3> QED
      BY <1>4, <1>14, <2>2, <2>4, <2>5, <3>1, <3>2
  <2>7. \A i \in 1 .. n + 1 : lines'[i].char = Left'[i].char /\ TimeOf(lines', i) = Left'[i].time
    <3>1. \A i \in 1 .. n + 1 : (i \in 1 .. n /\ i \in 0 .. n) \/ i = n + 1
      BY <1>8
    <3>2. ASSUME NEW i \in 1 .. n, i \in 0 .. n
          PROVE  lines'[i].char = Left'[i].char /\ TimeOf(lines', i) = Left'[i].time
      BY <2>1, <2>2, <2>3, <2>4, <3>2
    <3> QED
      BY <1>14, <2>2, <2>3, <2>6, <3>1, <3>2
  <2> QED
    BY <2>2, <2>3, <2>7
<1>17. ASSUME ~isAbsTime
       PROVE  /\ Rel2Abs(lines').abs_time = LeftAt'
              /\ Rel2Abs(lines').truncating <=> Ends(Left')
              /\ Ends(Left') => Rel2Abs(lines').last_abs_time = LeftAt'
              /\ Rel2Abs(lines').printed = Spans(Left')
  <2>1. /\ a.abs_time = LeftAt /\ (a.truncating <=> Ends(Left))
        /\ (Ends(Left) => a.last_abs_time = LeftAt)
        /\ a.printed = Spans(Left)
    BY <1>1, <1>17 DEF PutsRelative
  <2>2. Rel2Abs(lines') = Rel2AbsLine(a, l)
    BY <1>14, <1>15, <1>17, Rel2AbsOfAppend
  <2>3. a.abs_time + l.time = e.time
    BY <1>4, <1>14, <2>1
  <2> HIDE DEF a
  <2>4. CASE e.char = MaskChar
    <3>1. Rel2AbsLine(a, l) =
            [abs_time |-> e.time, last_abs_time |-> e.time, truncating |-> TRUE,
             printed |-> IF a.truncating THEN a.printed
                         ELSE Append(a.printed, Line(MaskChar, e.time))]
      BY <1>14, <2>3, <2>4 DEF Rel2AbsLine
    <3>2. (IF a.truncating THEN a.printed ELSE Append(a.printed, Line(MaskChar, e.time)))
            = Spans(Left')
      BY <1>11, <2>1, <2>4
    <3> QED
      BY <1>7, <1>10, <2>2, <2>4, <3>1, <3>2
  <2>5. CASE e.char # MaskChar
    <3> DEFINE closed == IF a.truncating THEN Append(a.printed, Line(MaskChar, a.last_abs_time))
                         ELSE a.printed
    <3>1. Rel2AbsLine(a, l) =
            [abs_time |-> e.time, last_abs_time |-> a.last_abs_time, truncating |-> FALSE,
             printed |-> Append(closed, Line(e.char, e.time))]
      BY <1>14, <2>3, <2>5 DEF Rel2AbsLine
    <3>2. Append(closed, Line(e.char, e.time)) = Spans(Left')
      BY <1>11, <2>1, <2>5
    <3> HIDE DEF closed
    <3> QED
      BY <1>7, <1>10, <2>2, <2>5, <3>1, <3>2
  <2> QED
    BY <2>4, <2>5
<1>18. Types'
  <2>1. Left' \in Seq(Events)
    BY <1>4, <1>7, <1>8, EventAppended
  <2>2. lines' \in Seq(Events) /\ out_abs_time' \in Nat /\ truncating' \in BOOLEAN
    <3>1. CASE isAbsTime
      <4>1. Spans(Left') \in Seq(Events)
        BY <2>1, SpansKeepTimes
      <4> QED
        BY <1>7, <1>10, <1>13, <3>1, <4>1
    <3>2. CASE ~isAbsTime
      <4>1. lines' \in Seq(Events)
        BY <1>14, <1>15, <3>2, EventAppended
      <4> QED
        BY <1>1, <1>15, <3>2, <4>1 DEF Types
    <3> QED
      BY <3>1, <3>2
  <2> HIDE DEF Durations, Events
  <2> QED
    BY <1>1, <1>2, <1>9, <2>2 DEF Types
<1>19. LastRead'
  BY <1>1, <1>2 DEF LastRead, Now
<1>20. HoldsRest'
  <2>1. Len(word') = Len(visible') + Len(inside')
    <3>1. Len(word') = n + k
      BY <1>2, <1>8
    <3>2. (n + 1) + (k - 1) = n + k
      BY <1>8
    <3> QED
      BY <1>9, <3>1, <3>2
  <2>2. ASSUME NEW i \in 1 .. Len(inside')
        PROVE  /\ inside'[i].char = word'[Len(visible') + i].char
               /\ Before(word', Len(visible') + i) + inside'[i].duration
                    = word'[Len(visible') + i].time
    <3>1. i \in 1 .. k - 1 /\ i + 1 \in 1 .. k /\ (n + 1) + i = n + (i + 1)
      BY <1>8, <1>9
    <3>2. /\ inside[i + 1].char = word[n + (i + 1)].char
          /\ Before(word, n + (i + 1)) + inside[i + 1].duration = word[n + (i + 1)].time
      BY <1>1, <3>1 DEF HoldsRest, n, k
    <3> QED
      BY <1>2, <1>9, <3>1, <3>2
  <2> QED
    BY <2>1, <2>2 DEF HoldsRest
<1>21. PutsAbs'
  BY <1>2, <1>13 DEF PutsAbs
<1>22. PutsRelative'
  BY <1>2, <1>16, <1>17 DEF PutsRelative
<1> QED
  BY <1>18, <1>19, <1>20, <1>21, <1>22 DEF IInv

LEMMA StepOK == IInv /\ [Next]_vars => IInv'
<1> SUFFICES ASSUME IInv, [Next]_vars PROVE IInv'
  OBVIOUS
<1>1. CASE Read
  BY <1>1, ReadOK
<1>2. CASE Leave
  BY <1>2, LeaveOK
<1>3. CASE UNCHANGED vars
  <2>1. /\ isAbsTime' = isAbsTime /\ last_abs_time' = last_abs_time /\ inside' = inside
        /\ truncating' = truncating /\ out_abs_time' = out_abs_time /\ lines' = lines
        /\ word' = word /\ visible' = visible
    BY <1>3 DEF vars
  <2>2. Types' /\ HoldsRest'
    BY <2>1 DEF IInv, Types, HoldsRest
  <2>3. LastRead' /\ Left' = Left /\ LeftAt' = LeftAt
    BY <2>1 DEF IInv, LastRead, Now, Left, LeftAt
  <2>4. PutsAbs' /\ PutsRelative'
    BY <2>1, <2>3 DEF IInv, PutsAbs, PutsRelative
  <2> QED
    BY <2>2, <2>3, <2>4 DEF IInv
<1> QED
  BY <1>1, <1>2, <1>3 DEF Next

(* What getOne and putOne keep between their calls is about the same event *)
(* of the word, and the lines so far are what is to be printed of it.      *)
THEOREM Invariance == Spec => []IInv
<1> QED
  BY InitOK, StepOK, PTL DEF Spec

(* The machine gets the durations that abs2rel makes of the word, with or  *)
(* without --abs.                                                          *)
THEOREM DurationsAreRead == Spec => []ReadsDurations
<1>1. IInv => ReadsDurations
  <2> SUFFICES ASSUME IInv PROVE ReadsDurations
    OBVIOUS
  <2> DEFINE n == Len(visible)  k == Len(inside)
             rel == Abs2Rel(word)
             d(i) == LET l == rel[Len(rel) - k + i] IN [char |-> l.char, duration |-> l.time]
  <2>1. Types /\ HoldsRest
    BY DEF IInv
  <2>2. /\ n \in Nat /\ k \in Nat /\ Len(word) \in Nat /\ Len(word) = n + k
        /\ word \in Seq(Events) /\ DOMAIN word = 1 .. Len(word)
    BY <2>1, LeftIs, ElementsAreEvents DEF HoldsRest, Types
  <2>3. /\ DOMAIN inside = 1 .. k /\ inside = [i \in 1 .. k |-> inside[i]]
        /\ \A i \in 1 .. k : inside[i] \in Durations
    <3> HIDE DEF Durations
    <3> QED
      BY <2>1 DEF Types
  <2>4. rel = [i \in 1 .. Len(word) |->
                 Line(word[i].char, word[i].time - (IF i = 1 THEN 0 ELSE word[i - 1].time))]
    BY <2>2 DEF Abs2Rel
  <2>5. Len(rel) = Len(word)
    BY <2>2, <2>4
  <2> HIDE DEF n, k, rel
  <2>6. ASSUME NEW i \in 1 .. k PROVE inside[i] = d(i)
    <3>1. /\ n + i \in 1 .. Len(word) /\ Len(rel) - k + i = n + i
          /\ (n + i =< 1 <=> n + i = 1)
          /\ (n + i # 1 => (n + i) - 1 \in 1 .. Len(word))
      BY <2>2, <2>5
    <3> DEFINE m == n + i
               b == Before(word, m)
    <3>2. b = (IF m = 1 THEN 0 ELSE word[m - 1].time) /\ b \in Nat
      <4>1. CASE m = 1
        BY <4>1 DEF Before
      <4>2. CASE m # 1
        <5>1. word[m - 1].time \in Nat
          BY <2>2, <3>1, <4>2, ElementsAreEvents
        <5> QED
          BY <3>1, <4>2, <5>1 DEF Before
      <4> QED
        BY <4>1, <4>2
    <3>3. inside[i].char = word[m].char /\ b + inside[i].duration = word[m].time
      BY <2>1 DEF HoldsRest, n, k
    <3>4. inside[i] = [char |-> inside[i].char, duration |-> inside[i].duration]
          /\ inside[i].duration \in Nat
      BY <2>3 DEF Durations
    <3>5. rel[m] = Line(word[m].char, word[m].time - b)
      BY <2>4, <3>1, <3>2
    <3> HIDE DEF m, b
    <3>6. word[m].time - b = inside[i].duration
      BY <3>2, <3>3, <3>4
    <3>7. d(i) = [char |-> rel[m].char, duration |-> rel[m].time]
      BY <3>1 DEF m
    <3> QED
      BY <3>3, <3>4, <3>5, <3>6, <3>7 DEF Line
  <2>7. inside = [i \in 1 .. k |-> d(i)]
    <3> HIDE DEF d
    <3> QED
      BY <2>3, <2>6
  <2> QED
    BY <2>3, <2>7 DEF ReadsDurations, k, rel
<1> QED
  BY <1>1, Invariance, PTL

(* A masked stretch is printed as its first and its last event, with --abs *)
(* by putOne and without it by rel2abs_truncate after the filter.          *)
THEOREM SpansArePrinted == Spec => []PrintsSpans
<1>1. IInv => PrintsSpans
  <2> SUFFICES ASSUME IInv PROVE PrintsSpans
    OBVIOUS
  <2>1. isAbsTime \in BOOLEAN /\ PutsAbs /\ PutsRelative
    BY DEF IInv, Types
  <2>2. CASE isAbsTime
    BY <2>1, <2>2 DEF PutsAbs, PrintsSpans
  <2>3. CASE ~isAbsTime
    BY <2>1, <2>3 DEF PutsRelative, PrintsSpans, Rel2AbsTruncate
  <2> QED
    BY <2>2, <2>3
<1> QED
  BY <1>1, Invariance, PTL

(* Visible events are printed in order and at their times, whether the     *)
(* masked ones before them are printed or not.                             *)
THEOREM TimesAreKept == Spec => []TimesKept
<1>1. IInv => TimesKept
  <2> SUFFICES ASSUME IInv PROVE TimesKept
    OBVIOUS
  <2>1. /\ isAbsTime \in BOOLEAN /\ PutsAbs /\ PutsRelative /\ Types
        /\ Left \in Seq(Events) /\ lines \in Seq(Events)
    BY LeftIs DEF IInv, Types
  <2>2. CASE isAbsTime
    <3>1. KeepsTimes(lines, Left)
      BY <2>1, <2>2, SpansKeepTimes DEF PutsAbs
    <3> QED
      BY <2>2, <3>1 DEF KeepsTimes, TimesKept
  <2>3. CASE ~isAbsTime
    <3>1. /\ DOMAIN lines = 1 .. Len(Left) /\ DOMAIN Left = 1 .. Len(Left)
          /\ \A i \in 1 .. Len(Left) :
               lines[i].char = Left[i].char /\ TimeOf(lines, i) = Left[i].time
      BY <2>1, <2>3, ElementsAreEvents DEF PutsRelative
    <3>2. Visible(lines) = Visible(Left) /\ \A i \in Visible(Left) : i \in 1 .. Len(Left)
      BY <3>1 DEF Visible
    <3> DEFINE S == Visible(Left)
               f == [i \in S |-> i]
    <3>3. f \in Bijection(S, S) /\ \A i \in S : f[i] = i
      <4> HIDE DEF S
      <4> QED
        BY DEF Bijection, Injection, Surjection, IsInjective
    <3> HIDE DEF f
    <3>4. \A i \in S : /\ lines[i].char = Left[f[i]].char
                      /\ TimeOf(lines, i) = Left[f[i]].time
      BY <3>1, <3>2, <3>3
    <3>5. \A i, j \in S : i < j => f[i] < f[j]
      BY <3>3
    <3> QED
      BY <2>3, <3>2, <3>3, <3>4, <3>5 DEF TimesKept
  <2> QED
    BY <2>2, <2>3
<1> QED
  BY <1>1, Invariance, PTL

=============================================================================
