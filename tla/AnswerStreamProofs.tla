-------------------------- MODULE AnswerStreamProofs --------------------------
(***************************************************************************)
(* What holds of every streamed answer.                                    *)
(***************************************************************************)
EXTENDS AnswerStream, TLAPS

-----------------------------------------------------------------------------
(* Token counts, whoever reports them *)

LEMMA Or0Natural == ASSUME NEW c \in Count PROVE Or0(c) \in Nat
BY DEF Count, Or0

(* Withholding a whole leaves nothing of it to contradict. *)
LEMMA WithheldInput ==
  ASSUME NEW u \in Counters, NEW in \in {u.input, Null}, NEW out \in {u.output, Null},
         InputConsistent(u) \/ in = Null, OutputConsistent(u) \/ out = Null
  PROVE  LET v == [u EXCEPT !.input = in, !.output = out] IN
         v \in Counters /\ InputConsistent(v) /\ OutputConsistent(v)
<1> DEFINE v == [u EXCEPT !.input = in, !.output = out]
<1>1. v \in Counters
  BY DEF Counters, Count
<1>2. /\ v.input = in /\ v.output = out
      /\ v.cacheRead = u.cacheRead /\ v.cacheWrite = u.cacheWrite
      /\ v.inputAudio = u.inputAudio /\ v.reasoning = u.reasoning
      /\ v.outputAudio = u.outputAudio
  BY DEF Counters
<1> HIDE DEF v
<1>3. InputConsistent(v)
  BY <1>2 DEF InputConsistent
<1>4. OutputConsistent(v)
  BY <1>2 DEF OutputConsistent
<1> QED BY <1>1, <1>3, <1>4 DEF v

(* A total made of the parts is the sum of them. *)
LEMMA MadeTotal ==
  ASSUME NEW u \in Counters, Consistent(u)
  PROVE  WithTotal(u) \in Counters /\ Consistent(WithTotal(u))
<1>1. CASE u.total = Null /\ Null \notin {u.input, u.output}
  <2> DEFINE v == [u EXCEPT !.total = u.input + u.output]
  <2>1. v \in Counters
    BY <1>1, NullAssumption DEF Counters, Count
  <2>2. /\ v.input = u.input /\ v.output = u.output /\ v.total = u.input + u.output
        /\ v.cacheRead = u.cacheRead /\ v.cacheWrite = u.cacheWrite
        /\ v.inputAudio = u.inputAudio /\ v.reasoning = u.reasoning
        /\ v.outputAudio = u.outputAudio
    BY DEF Counters
  <2>3. WithTotal(u) = v
    BY <1>1 DEF WithTotal
  <2> HIDE DEF v
  <2>4. Consistent(v)
    BY <2>2 DEF Consistent, InputConsistent, OutputConsistent, TotalConsistent
  <2> QED BY <2>1, <2>3, <2>4
<1>2. CASE ~(u.total = Null /\ Null \notin {u.input, u.output})
  BY <1>2 DEF WithTotal
<1> QED BY <1>1, <1>2

(* What settling keeps of any provider's counters is counters that no      *)
(* relation between them contradicts: no response is lost to its usage.    *)
THEOREM SettledIsConsistent ==
  ASSUME NEW u \in Counters
  PROVE  SettleUsage(u) \in Counters /\ Consistent(SettleUsage(u))
<1> DEFINE in == IF InputConsistent(u) THEN u.input ELSE Null
           out == IF OutputConsistent(u) THEN u.output ELSE Null
           parts == [u EXCEPT !.input = in, !.output = out]
           bare == [parts EXCEPT !.input = Null, !.output = Null]
           kept == IF TotalConsistent(parts) THEN parts ELSE bare
<1>1. parts \in Counters /\ InputConsistent(parts) /\ OutputConsistent(parts)
  <2>1. in \in {u.input, Null} /\ out \in {u.output, Null}
    OBVIOUS
  <2>2. (InputConsistent(u) \/ in = Null) /\ (OutputConsistent(u) \/ out = Null)
    OBVIOUS
  <2> HIDE DEF in, out
  <2> QED BY <2>1, <2>2, WithheldInput
<1>2. kept \in Counters /\ Consistent(kept)
  <2> HIDE DEF parts
  <2>1. CASE TotalConsistent(parts)
    BY <1>1, <2>1 DEF Consistent
  <2>2. CASE ~TotalConsistent(parts)
    <3>1. bare \in Counters /\ InputConsistent(bare) /\ OutputConsistent(bare)
      BY <1>1, WithheldInput
    <3>2. bare.input = Null
      BY <1>1 DEF Counters
    <3>3. TotalConsistent(bare)
      BY <3>2 DEF TotalConsistent
    <3> QED BY <2>2, <3>1, <3>3 DEF Consistent
  <2> QED BY <2>1, <2>2
<1>3. SettleUsage(u) = WithTotal(kept)
  BY DEF SettleUsage
<1> HIDE DEF kept
<1> QED BY Zenon, <1>2, <1>3, MadeTotal

(* And a counter is kept as it came, unless it is a whole that was         *)
(* withheld or a total that was made of its parts.                         *)
THEOREM SettledKeepsOrWithholds ==
  ASSUME NEW u \in Counters
  PROVE  /\ SettleUsage(u).input \in {u.input, Null}
         /\ SettleUsage(u).output \in {u.output, Null}
         /\ u.total # Null => SettleUsage(u).total = u.total
         /\ Consistent(u) => SettleUsage(u) = WithTotal(u)
<1>1. /\ SettleUsage(u).input \in {u.input, Null}
      /\ SettleUsage(u).output \in {u.output, Null}
      /\ u.total # Null => SettleUsage(u).total = u.total
  BY DEF SettleUsage, WithTotal, Counters
<1>2. ASSUME Consistent(u) PROVE SettleUsage(u) = WithTotal(u)
  <2>1. [u EXCEPT !.input = IF InputConsistent(u) THEN @ ELSE Null,
                  !.output = IF OutputConsistent(u) THEN @ ELSE Null] = u
    BY <1>2 DEF Consistent, Counters
  <2> QED BY <2>1, <1>2 DEF SettleUsage, Consistent
<1> QED BY <1>1, <1>2

-----------------------------------------------------------------------------
(* The streamed answer *)

Takes == INSTANCE FoldLemmas WITH Op <- Consumed
Cuts == INSTANCE FoldLemmas WITH Op <- Cut
Pushes == INSTANCE FoldLemmas WITH Op <- Pushed

ASeq(s) == s \in Seq({s[i] : i \in DOMAIN s})

(* The three instances of the fold lemmas mean the same by a sequence. *)
LEMMA OneNotion ==
  ASSUME NEW s
  PROVE  /\ Takes!ASeq(s) <=> ASeq(s)
         /\ Cuts!ASeq(s) <=> ASeq(s)
         /\ Pushes!ASeq(s) <=> ASeq(s)
BY DEF ASeq, Takes!ASeq, Cuts!ASeq, Pushes!ASeq

(* What goes through the cutter is folded over what the cutter lets go. *)
LEMMA ThroughIs ==
  ASSUME NEW s, NEW step
  PROVE  Through(s, step) = Takes!Folded([s EXCEPT !.cutter = step.cutter], step.out)
BY Zenon DEF Through, FoldLeft, MapThenFoldSet, Max, Takes!Folded, Takes!FoldLeft,
   Takes!MapThenFoldSet, Takes!Max

(* So do they by flattening. *)
LEMMA FlattenIs ==
  ASSUME NEW seqs
  PROVE  FlattenSeq(seqs) = Cuts!FlattenSeq(seqs)
BY Zenon DEF FlattenSeq, Cuts!FlattenSeq

(* A sequence has a length, and that many places. *)
LEMMA SeqLen ==
  ASSUME NEW s, ASeq(s)
  PROVE  /\ Len(s) \in Nat /\ DOMAIN s = 1..Len(s)
         /\ Len(s) = 0 <=> s = <<>>
BY OneNotion, Cuts!SeqLen, Cuts!NoLength

(* A sequence with one element more. *)
LEMMA Appended ==
  ASSUME NEW s, ASeq(s), NEW e
  PROVE  /\ ASeq(Append(s, e)) /\ Len(Append(s, e)) = Len(s) + 1
         /\ \A i \in 1..Len(s) : Append(s, e)[i] = s[i]
         /\ Append(s, e)[Len(s) + 1] = e
BY OneNotion, Cuts!Appended

(* Two sequences, one after the other. *)
LEMMA Concatenated ==
  ASSUME NEW s, NEW t, ASeq(s), ASeq(t)
  PROVE  /\ ASeq(s \o t) /\ Len(s \o t) = Len(s) + Len(t)
         /\ \A i \in 1..(Len(s) + Len(t)) :
              (s \o t)[i] = IF i <= Len(s) THEN s[i] ELSE t[i - Len(s)]
BY OneNotion, Cuts!Concatenated

(* A slice of a sequence. *)
LEMMA Sliced ==
  ASSUME NEW s, ASeq(s), NEW m \in Nat \ {0}, NEW n \in Nat, n <= Len(s)
  PROVE  /\ ASeq(SubSeq(s, m, n))
         /\ Len(SubSeq(s, m, n)) = IF m <= n THEN n - m + 1 ELSE 0
         /\ \A i \in 1..(n - m + 1) : SubSeq(s, m, n)[i] = s[m + i - 1]
BY OneNotion, Cuts!Sliced

(* A function on 1..n is a sequence of length n. *)
LEMMA Tabled ==
  ASSUME NEW n \in Nat, NEW s, s = [i \in 1..n |-> s[i]]
  PROVE  ASeq(s) /\ Len(s) = n
BY OneNotion, Cuts!Tabled

(* Induction on the numbers, as a fact about sets of them. *)
LEMMA SetInduction ==
  ASSUME NEW S, 0 \in S, \A n \in Nat : n \in S => n + 1 \in S
  PROVE  Nat \subseteq S
BY Cuts!SetInduction

(* The sequences of none and of one. *)
LEMMA Short ==
  /\ ASeq(<<>>) /\ Len(<<>>) = 0
  /\ \A x : ASeq(<<x>>) /\ Len(<<x>>) = 1 /\ <<x>>[1] = x /\ DOMAIN <<x>> = 1..1
  /\ \A x : <<x>> = Append(<<>>, x)
<1>1. ASeq(<<>>) /\ Len(<<>>) = 0
  BY OneNotion, Cuts!EmptyIsASeq
<1>2. ASSUME NEW x PROVE ASeq(<<x>>) /\ Len(<<x>>) = 1 /\ <<x>>[1] = x /\ DOMAIN <<x>> = 1..1
  BY DEF ASeq
<1>3. ASSUME NEW x PROVE <<x>> = Append(<<>>, x)
  OBVIOUS
<1> QED BY <1>1, <1>2, <1>3

-----------------------------------------------------------------------------
(* A set of numbers up to n has a greatest and a least. *)
LEMMA Extremes ==
  ASSUME NEW n \in Nat, NEW S \in SUBSET (0..n), S # {}
  PROVE  /\ Max(S) \in S /\ \A x \in S : x <= Max(S)
         /\ Min(S) \in S /\ \A x \in S : Min(S) <= x
<1> DEFINE T == {x + 1 : x \in S}
<1>1. T \in SUBSET (1..(n + 1)) /\ T # {} /\ n + 1 \in Nat
  <2>1. \A x \in S : x + 1 \in 1..(n + 1)
    OBVIOUS
  <2>2. PICK x \in S : TRUE
    OBVIOUS
  <2>3. x + 1 \in T
    OBVIOUS
  <2> QED BY <2>1, <2>3
<1>2. /\ Cuts!Max(T) \in T /\ \A x \in T : x <= Cuts!Max(T)
      /\ Cuts!Min(T) \in T /\ \A x \in T : Cuts!Min(T) <= x
  <2> HIDE DEF T
  <2> DEFINE m == n + 1
  <2>1. T \in SUBSET (1..m) /\ m \in Nat
    BY <1>1
  <2> HIDE DEF m
  <2> QED BY <1>1, <2>1, Cuts!MaxInside, Cuts!MinInside
<1>3. PICK k \in S : Cuts!Max(T) = k + 1
  BY <1>2
<1>4. PICK l \in S : Cuts!Min(T) = l + 1
  BY <1>2
<1>5. ASSUME NEW x \in S PROVE x <= k /\ l <= x
  <2>1. x + 1 \in T
    OBVIOUS
  <2> HIDE DEF T
  <2>2. x + 1 <= k + 1 /\ l + 1 <= x + 1
    BY <1>2, <1>3, <1>4, <2>1
  <2> QED BY <2>2
<1> QED BY <1>5 DEF Max, Min

-----------------------------------------------------------------------------
(* The records. *)
PShape(s) == DOMAIN s = {"coalescer", "cutter", "accumulator", "given", "outcome"}
AShape(a) == DOMAIN a = {"model", "finish", "usage", "data", "deltas"}

(* What one event that reaches the consumer changes (Kept). *)
LEMMA KeptFields ==
  ASSUME NEW s, PShape(s), NEW e, NEW a
  PROVE  /\ PShape(Kept(s, e, a))
         /\ Kept(s, e, a).coalescer = s.coalescer /\ Kept(s, e, a).cutter = s.cutter
         /\ Kept(s, e, a).accumulator = a
         /\ Kept(s, e, a).given = Append(s.given, e)
         /\ Kept(s, e, a).outcome = IF e.type = "error" THEN Failure("provider")
                                    ELSE IF e.type = "end" THEN ResponseOf(a, Requested)
                                    ELSE s.outcome
BY DEF Kept, PShape

(* The accumulator keeps its fields whatever the event. *)
LEMMA AccumulatedFields ==
  ASSUME NEW a, AShape(a), NEW e
  PROVE  /\ AShape(Accumulated(a, e))
         /\ e.type = "end" /\ e.data # Null => Accumulated(a, e).data = e.data
BY DEF Accumulated, AShape

-----------------------------------------------------------------------------
(* What the consumer is given of deltas, and of nothing. *)
Deltas(es) == ASeq(es) /\ \A i \in DOMAIN es : IsDelta(es[i])

Longer(g, before) ==
  /\ ASeq(g) /\ Len(before) <= Len(g)
  /\ \A i \in 1..Len(before) : g[i] = before[i]
  /\ \A i \in (Len(before) + 1)..Len(g) : IsDelta(g[i])

(* Events that are deltas leave the outcome as it is, and all of them are  *)
(* given while there is none.                                              *)
LEMMA TakingDeltas ==
  ASSUME NEW s, PShape(s), AShape(s.accumulator), ASeq(s.given), s.outcome = Null,
         NEW out, Deltas(out)
  PROVE  /\ PShape(Takes!Folded(s, out)) /\ AShape(Takes!Folded(s, out).accumulator)
         /\ Takes!Folded(s, out).coalescer = s.coalescer
         /\ Takes!Folded(s, out).cutter = s.cutter
         /\ Takes!Folded(s, out).outcome = Null
         /\ Longer(Takes!Folded(s, out).given, s.given)
         /\ out = <<>> => Takes!Folded(s, out).given = s.given
<1> DEFINE n == Len(out)
<1>1. n \in Nat /\ DOMAIN out = 1..n
  BY SeqLen DEF Deltas
<1> HIDE DEF n
<1>2. PICK h : /\ h[0] = s
               /\ \A i \in 1..n : h[i] = Consumed(h[i - 1], out[i])
               /\ h[n] = Takes!Folded(s, out)
  BY <1>1, Takes!FoldTrace, Z3T(30)
<1> DEFINE Good(r) == /\ PShape(r) /\ AShape(r.accumulator)
                      /\ r.coalescer = s.coalescer /\ r.cutter = s.cutter
                      /\ r.outcome = Null /\ Longer(r.given, s.given)
           A == {k \in Nat : k <= n => Good(h[k])}
<1>3. 0 \in A
  <2>1. Len(s.given) \in Nat
    BY SeqLen
  <2>2. Longer(s.given, s.given)
    BY <2>1 DEF Longer
  <2> QED BY <1>2, <2>2
<1>4. ASSUME NEW r, Good(r), NEW e, IsDelta(e) PROVE Good(Consumed(r, e))
  <2> DEFINE q == Kept(r, e, Accumulated(r.accumulator, e))
  <2>1. Consumed(r, e) = q
    BY <1>4 DEF Consumed
  <2>2. e.type # "error" /\ e.type # "end"
    BY <1>4 DEF IsDelta
  <2>3. /\ PShape(q) /\ q.coalescer = r.coalescer /\ q.cutter = r.cutter
        /\ q.accumulator = Accumulated(r.accumulator, e) /\ q.given = Append(r.given, e)
        /\ q.outcome = r.outcome
    BY <1>4, <2>2, KeptFields
  <2>4. AShape(q.accumulator)
    BY <1>4, <2>3, AccumulatedFields
  <2>5. Longer(Append(r.given, e), s.given)
    <3> DEFINE g == Append(r.given, e)
    <3>1. /\ ASeq(g) /\ Len(g) = Len(r.given) + 1
          /\ \A i \in 1..Len(r.given) : g[i] = r.given[i]
          /\ g[Len(r.given) + 1] = e
      BY <1>4, Appended DEF Longer
    <3>2. Len(r.given) \in Nat /\ Len(s.given) \in Nat
      BY <1>4, SeqLen DEF Longer
    <3> HIDE DEF g
    <3>3. Longer(g, s.given)
      BY SMTT(20), <1>4, <3>1, <3>2 DEF Longer
    <3> QED BY <3>3 DEF g
  <2> HIDE DEF q
  <2> QED BY <1>4, <2>1, <2>3, <2>4, <2>5
<1>5. ASSUME NEW k \in Nat, k \in A PROVE k + 1 \in A
  <2> SUFFICES ASSUME k + 1 <= n PROVE Good(h[k + 1])
    OBVIOUS
  <2>1. k + 1 \in 1..n /\ (k + 1) - 1 = k /\ Good(h[k])
    BY <1>1, <1>5
  <2>2. h[k + 1] = Consumed(h[k], out[k + 1]) /\ IsDelta(out[k + 1])
    BY <1>1, <1>2, <2>1 DEF Deltas
  <2> HIDE DEF Good
  <2> QED BY <1>4, <2>1, <2>2
<1> HIDE DEF A
<1>6. n \in A
  BY <1>1, <1>3, <1>5, SetInduction
<1>7. Good(h[n])
  BY <1>1, <1>6 DEF A
<1>8. out = <<>> => h[n] = s
  BY <1>2, Short DEF n
<1> QED BY <1>2, <1>7, <1>8

(* Once there is an outcome nothing is taken. *)
LEMMA TakingNothing ==
  ASSUME NEW s, s.outcome # Null, NEW out, ASeq(out)
  PROVE  Takes!Folded(s, out) = s
<1> DEFINE n == Len(out)
<1>1. n \in Nat /\ DOMAIN out = 1..n
  BY SeqLen
<1> HIDE DEF n
<1>2. PICK h : /\ h[0] = s /\ (\A i \in 1..n : h[i] = Consumed(h[i - 1], out[i]))
               /\ h[n] = Takes!Folded(s, out)
  BY <1>1, Takes!FoldTrace
<1> DEFINE A == {k \in Nat : k <= n => h[k] = s}
<1>3. 0 \in A
  BY <1>2
<1>4. ASSUME NEW k \in Nat, k \in A PROVE k + 1 \in A
  <2> SUFFICES ASSUME k + 1 <= n PROVE h[k + 1] = s
    OBVIOUS
  <2>1. k + 1 \in 1..n /\ (k + 1) - 1 = k /\ h[k] = s
    BY <1>1, <1>4
  <2>2. h[k + 1] = Consumed(h[k], out[k + 1])
    BY <1>2, <2>1
  <2> QED BY <2>1, <2>2 DEF Consumed
<1> HIDE DEF A
<1>5. n \in A
  BY <1>1, <1>3, <1>4, SetInduction
<1> QED BY <1>1, <1>2, <1>5 DEF A

(* Of deltas and one more event. *)
LEMMA TakingMore ==
  ASSUME NEW s, NEW out, ASeq(out), NEW e
  PROVE  Takes!Folded(s, Append(out, e)) = Consumed(Takes!Folded(s, out), e)
BY OneNotion, Takes!FoldOfMore

-----------------------------------------------------------------------------
(* One step of the cutter. *)
Final(e) == e.type \in {"end", "error"}

Sound(e) ==
  /\ "type" \in DOMAIN e
  /\ e.type = "text" => "text" \in DOMAIN e /\ ASeq(e.text)
  /\ e.type = "end" /\ e.usage # Null => e.data = "usage"

KShape(c) ==
  /\ DOMAIN c = {"stop", "held", "cut"} /\ c.cut \in BOOLEAN
  /\ Deltas(c.held) /\ \A i \in DOMAIN c.held : Sound(c.held[i])

(* What is held is text, all of it a sequence of letters. *)
LEMMA HeldTexts ==
  ASSUME NEW events, ASeq(events), \A i \in DOMAIN events : Sound(events[i])
  PROVE  ASeq(HeldText(events)) /\ Len(HeldText(events)) \in Nat
<1> DEFINE texts == [i \in DOMAIN events |-> IF IsText(events[i]) THEN events[i].text ELSE <<>>]
<1>1. Len(events) \in Nat /\ DOMAIN events = 1..Len(events)
  BY SeqLen
<1>2. texts = [i \in 1..Len(events) |-> texts[i]] /\ DOMAIN texts = DOMAIN events
  BY <1>1
<1>3. \A i \in DOMAIN texts : ASeq(texts[i])
  BY Short DEF Sound, IsText
<1>4. HeldText(events) = FlattenSeq(texts)
  BY DEF HeldText
<1> HIDE DEF texts
<1>5. ASeq(texts)
  BY <1>1, <1>2, Tabled
<1>6. ASeq(FlattenSeq(texts))
  <2>1. Cuts!ASeq(texts) /\ \A i \in DOMAIN texts : Cuts!ASeq(texts[i])
    BY <1>3, <1>5, OneNotion
  <2>2. Cuts!ASeq(Cuts!FlattenSeq(texts))
    BY <2>1, Cuts!Flattened
  <2> QED BY <2>2, OneNotion, FlattenIs
<1> QED BY <1>4, <1>6, SeqLen

(* A stop is found inside the text or not at all. *)
LEMMA FirstStopInside ==
  ASSUME NEW text, ASeq(text), NEW stop, FirstStop(text, stop) # Null
  PROVE  FirstStop(text, stop) \in 0..Len(text)
<1>1. Len(text) \in Nat
  BY SeqLen
<1>2. Starts(text, stop) \in SUBSET (0..Len(text))
  BY DEF Starts
<1>3. Starts(text, stop) # {} /\ FirstStop(text, stop) = Min(Starts(text, stop))
  BY DEF FirstStop
<1> QED BY <1>1, <1>2, <1>3, Extremes

(* The events before a place in the text are a number of those there are. *)
LEMMA FittingInside ==
  ASSUME NEW events, ASeq(events), NEW count, NEW cutting
  PROVE  Fitting(events, count, cutting) \in 0..Len(events)
<1> DEFINE S == {n \in 0..Len(events) : \A i \in 1..n : Fits(events, i, count, cutting)}
<1>1. Len(events) \in Nat
  BY SeqLen
<1>2. S \in SUBSET (0..Len(events)) /\ 0 \in S
  BY <1>1
<1>3. Fitting(events, count, cutting) = Max(S)
  BY DEF Fitting
<1> HIDE DEF S
<1> QED BY <1>1, <1>2, <1>3, Extremes

(* A slice of deltas is deltas. *)
LEMMA PartOfDeltas ==
  ASSUME NEW es, Deltas(es), \A i \in DOMAIN es : Sound(es[i]),
         NEW m \in Nat \ {0}, NEW n \in Nat, n <= Len(es)
  PROVE  Deltas(SubSeq(es, m, n)) /\ \A i \in DOMAIN SubSeq(es, m, n) : Sound(SubSeq(es, m, n)[i])
<1> DEFINE s == SubSeq(es, m, n)
<1>1. /\ ASeq(s) /\ Len(s) = IF m <= n THEN n - m + 1 ELSE 0
      /\ \A i \in 1..(n - m + 1) : s[i] = es[m + i - 1]
  BY Sliced DEF Deltas
<1>2. Len(es) \in Nat /\ DOMAIN es = 1..Len(es)
  BY SeqLen DEF Deltas
<1> HIDE DEF s
<1>3. DOMAIN s = 1..Len(s)
  BY <1>1, SeqLen
<1>4. ASSUME NEW i \in DOMAIN s PROVE IsDelta(s[i]) /\ Sound(s[i])
  <2>1. i \in 1..(n - m + 1) /\ m + i - 1 \in DOMAIN es
    BY <1>1, <1>2, <1>3
  <2> QED BY <1>1, <2>1 DEF Deltas
<1> QED BY <1>1, <1>4 DEF s, Deltas

(* Deltas after deltas are deltas, also in a row. *)
LEMMA MoreDeltas ==
  ASSUME NEW es, Deltas(es), \A i \in DOMAIN es : Sound(es[i]),
         NEW e, IsDelta(e), Sound(e)
  PROVE  Deltas(Append(es, e)) /\ \A i \in DOMAIN Append(es, e) : Sound(Append(es, e)[i])
<1> DEFINE s == Append(es, e)
<1>1. /\ ASeq(s) /\ Len(s) = Len(es) + 1
      /\ \A i \in 1..Len(es) : s[i] = es[i]
      /\ s[Len(es) + 1] = e
  BY Appended DEF Deltas
<1>2. Len(es) \in Nat /\ DOMAIN es = 1..Len(es)
  BY SeqLen DEF Deltas
<1> HIDE DEF s
<1>3. DOMAIN s = 1..Len(s)
  BY <1>1, SeqLen
<1>4. ASSUME NEW i \in DOMAIN s PROVE IsDelta(s[i]) /\ Sound(s[i])
  <2>1. CASE i = Len(es) + 1
    BY <1>1, <2>1
  <2>2. CASE i # Len(es) + 1
    <3>1. i \in 1..Len(es)
      BY <1>1, <1>2, <1>3, <2>2
    <3> QED BY <1>1, <1>2, <3>1 DEF Deltas
  <2> QED BY <2>1, <2>2
<1> QED BY <1>1, <1>4 DEF s, Deltas

(* What goes on up to a cut are deltas: the event it falls into is shorter.*)
LEMMA TakenDeltas ==
  ASSUME NEW es, Deltas(es), \A i \in DOMAIN es : Sound(es[i]),
         NEW hit \in 0..Len(HeldText(es))
  PROVE  Deltas(TakenToCut(es, hit))
<1> DEFINE n == Fitting(es, hit, TRUE)
           first == SubSeq(es, 1, n)
           left == hit - Len(HeldText(first))
           short == Shortened(es[n + 1], left)
<1>1. Len(es) \in Nat /\ DOMAIN es = 1..Len(es) /\ ASeq(es)
  BY SeqLen DEF Deltas
<1>2. n \in 0..Len(es)
  BY <1>1, FittingInside
<1>3. TakenToCut(es, hit) = first \o (IF left > 0 THEN <<short>> ELSE <<>>)
  BY DEF TakenToCut
<1> HIDE DEF n
<1>4. Deltas(first) /\ \A i \in DOMAIN first : Sound(first[i])
  BY <1>1, <1>2, PartOfDeltas
<1>5. ASSUME left > 0 PROVE n + 1 \in 1..Len(es)
  <2>1. CASE n = Len(es)
    <3>1. first = es
      <4>1. PICK S : es \in Seq(S)
        BY <1>1 DEF ASeq
      <4> QED BY <2>1, <4>1
    <3>2. Len(HeldText(es)) \in Nat
      BY <1>1, HeldTexts
    <3>3. left = hit - Len(HeldText(es))
      BY <3>1
    <3> DEFINE m == Len(HeldText(es))
    <3> HIDE DEF first, left, short, m
    <3>4. m \in Nat /\ hit \in 0..m /\ left = hit - m
      BY <3>2, <3>3 DEF m
    <3> QED BY <1>5, <3>4
  <2>2. CASE n # Len(es)
    <3> DEFINE l == Len(es)
    <3>1. l \in Nat /\ n \in 0..l /\ n # l
      BY <1>1, <1>2, <2>2
    <3> HIDE DEF first, left, short, l
    <3>2. n + 1 \in 1..l
      BY <3>1
    <3> QED BY <3>2 DEF l
  <2> QED BY <2>1, <2>2
<1>6. CASE left > 0
  <2>1. n + 1 \in DOMAIN es
    BY <1>1, <1>5, <1>6
  <2>2. IsDelta(es[n + 1]) /\ Sound(es[n + 1])
    BY <2>1 DEF Deltas
  <2>3. short.type = es[n + 1].type
    BY <2>2 DEF Sound, Shortened
  <2> HIDE DEF first, left, short
  <2>4. IsDelta(short)
    BY <2>2, <2>3 DEF IsDelta
  <2>5. /\ ASeq(<<short>>) /\ Len(<<short>>) = 1 /\ <<short>>[1] = short
    BY Short
  <2> DEFINE last == <<short>>
             all == first \o last
  <2> HIDE DEF last
  <2>6. /\ ASeq(all) /\ Len(all) = Len(first) + 1
        /\ \A i \in 1..(Len(first) + 1) :
             all[i] = IF i <= Len(first) THEN first[i] ELSE last[i - Len(first)]
    BY <1>4, <2>5, Concatenated DEF Deltas, last
  <2>7. Len(first) \in Nat /\ DOMAIN first = 1..Len(first)
    BY <1>4, SeqLen DEF Deltas
  <2>8. TakenToCut(es, hit) = all
    BY <1>3, <1>6 DEF last
  <2> HIDE DEF all
  <2>9. DOMAIN all = 1..(Len(first) + 1)
    BY <2>6, SeqLen
  <2>10. ASSUME NEW i \in DOMAIN all PROVE IsDelta(all[i])
    <3>1. CASE i <= Len(first)
      BY <1>4, <2>6, <2>7, <2>9, <3>1 DEF Deltas
    <3>2. CASE ~(i <= Len(first))
      <4>1. i - Len(first) = 1
        BY <2>7, <2>9, <3>2
      <4> QED BY <2>4, <2>5, <2>6, <2>9, <3>2, <4>1 DEF last
    <3> QED BY <3>1, <3>2
  <2> QED BY <2>6, <2>8, <2>10 DEF Deltas
<1>7. CASE ~(left > 0)
  <2>1. TakenToCut(es, hit) = first \o <<>>
    BY <1>3, <1>7
  <2>2. first \o <<>> = first
    <3> HIDE DEF first
    <3> QED BY <1>4, OneNotion, Cuts!NothingAdded DEF Deltas
  <2> QED BY <1>4, <2>1, <2>2
<1> QED BY <1>6, <1>7

(* None, and one delta, are deltas. *)
LEMMA ShortDeltas ==
  /\ Deltas(<<>>) /\ \A i \in DOMAIN <<>> : FALSE
  /\ \A e : IsDelta(e) => Deltas(<<e>>)
<1>1. Deltas(<<>>) /\ \A i \in DOMAIN <<>> : FALSE
  BY Short, SeqLen DEF Deltas
<1>2. ASSUME NEW e, IsDelta(e) PROVE Deltas(<<e>>)
  <2>1. ASeq(<<e>>) /\ DOMAIN <<e>> = 1..1 /\ <<e>>[1] = e
    BY Short
  <2> DEFINE s == <<e>>
  <2>2. ASeq(s) /\ DOMAIN s = 1..1 /\ s[1] = e
    BY <2>1
  <2> HIDE DEF s
  <2>3. \A i \in DOMAIN s : i = 1
    BY <2>2
  <2> QED BY <1>2, <2>2, <2>3 DEF Deltas, s
<1> QED BY <1>1, <1>2

(* One event through the cutter, cut or not. *)
Stepped(r) ==
  /\ KShape(r.cutter)
  /\ \/ ~r.cutter.cut /\ Deltas(r.out)
     \/ r.cutter.cut /\ \E x : Deltas(x) /\ r.out = Append(x, CutEnd)

(* What the cutter makes of the text it holds and a delta more. *)
LEMMA FedDelta ==
  ASSUME NEW c, KShape(c), ~c.cut, NEW e, IsDelta(e), Sound(e)
  PROVE  /\ DOMAIN Feed(c, e) = {"out", "cutter"}
         /\ Deltas(Feed(c, e).out) /\ KShape(Feed(c, e).cutter)
<1> DEFINE held == Append(c.held, e)
           hit == FirstStop(HeldText(held), c.stop)
           n == Fitting(held, Released(HeldText(held), c.stop), FALSE)
<1>1. Deltas(held) /\ (\A i \in DOMAIN held : Sound(held[i])) /\ ASeq(held)
  <2>1. Deltas(held) /\ (\A i \in DOMAIN held : Sound(held[i]))
    BY MoreDeltas DEF KShape
  <2> QED BY <2>1 DEF Deltas
<1>2. Len(held) \in Nat
  BY <1>1, SeqLen
<1> HIDE DEF held, hit, n
<1>3. CASE ~IsText(e) /\ c.held = <<>>
  <2>1. Feed(c, e) = [out |-> <<e>>, cutter |-> c]
    BY <1>3 DEF Feed
  <2> QED BY <2>1, ShortDeltas
<1>4. CASE ~IsText(e) /\ c.held # <<>>
  <2> DEFINE k == [c EXCEPT !.held = held]
  <2>1. Feed(c, e) = [out |-> <<>>, cutter |-> k]
    BY <1>4 DEF Feed, held
  <2>2. KShape(k)
    BY <1>1 DEF KShape
  <2> HIDE DEF k
  <2> QED BY <2>1, <2>2, ShortDeltas
<1>5. CASE IsText(e) /\ hit # Null
  <2> DEFINE k == [c EXCEPT !.held = <<>>, !.cut = TRUE]
             taken == TakenToCut(held, hit)
  <2>1. Feed(c, e) = [out |-> taken, cutter |-> k]
    BY <1>5 DEF Feed, held, hit
  <2>2. KShape(k)
    BY ShortDeltas DEF KShape
  <2>3. hit \in 0..Len(HeldText(held))
    BY <1>1, <1>5, HeldTexts, FirstStopInside DEF hit
  <2>4. Deltas(taken)
    BY <1>1, <2>3, TakenDeltas
  <2> HIDE DEF k, taken
  <2> QED BY <2>1, <2>2, <2>4
<1>6. CASE IsText(e) /\ hit = Null
  <2> DEFINE rest == SubSeq(held, n + 1, Len(held))
             first == SubSeq(held, 1, n)
             k == [c EXCEPT !.held = rest]
  <2>1. Feed(c, e) = [out |-> first, cutter |-> k]
    BY <1>6 DEF Feed, held, hit, n
  <2>2. n \in 0..Len(held)
    BY <1>1, FittingInside DEF n
  <2>3. Deltas(first)
    BY <1>1, <1>2, <2>2, PartOfDeltas
  <2>4. Deltas(rest) /\ \A i \in DOMAIN rest : Sound(rest[i])
    <3> DEFINE l == Len(held)
               m == n + 1
    <3>1. l \in Nat /\ m \in Nat \ {0} /\ l <= Len(held)
      BY <1>2, <2>2
    <3> HIDE DEF l, m
    <3>2. Deltas(SubSeq(held, m, l)) /\ \A i \in DOMAIN SubSeq(held, m, l) : Sound(SubSeq(held, m, l)[i])
      BY <1>1, <3>1, PartOfDeltas
    <3> QED BY <3>2 DEF l, m
  <2> HIDE DEF first, rest
  <2>5. KShape(k)
    BY <2>4 DEF KShape
  <2> HIDE DEF k
  <2> QED BY <2>1, <2>3, <2>5
<1> QED BY <1>3, <1>4, <1>5, <1>6

(* A step of the cutter on a delta gives deltas and keeps its shape. *)
LEMMA StepDelta ==
  ASSUME NEW c, KShape(c), ~c.cut, NEW e, IsDelta(e), Sound(e)
  PROVE  Stepped(Step(c, e))
<1>1. e.type # "end" /\ e.type # "error"
  BY DEF IsDelta
<1>2. CASE c.stop = {}
  <2>1. Step(c, e) = [out |-> <<e>>, cutter |-> c]
    BY <1>2 DEF Step
  <2> QED BY <2>1, ShortDeltas DEF Stepped
<1>3. CASE c.stop # {}
  <2> DEFINE fed == Feed(c, e)
             more == [fed EXCEPT !.out = Append(@, CutEnd)]
  <2>1. DOMAIN fed = {"out", "cutter"} /\ Deltas(fed.out) /\ KShape(fed.cutter)
    BY FedDelta
  <2>2. Step(c, e) = IF fed.cutter.cut THEN more ELSE fed
    BY <1>1, <1>3 DEF Step
  <2> HIDE DEF fed
  <2>3. more.out = Append(fed.out, CutEnd) /\ more.cutter = fed.cutter
    BY <2>1
  <2> HIDE DEF more
  <2>4. CASE fed.cutter.cut
    BY <2>1, <2>2, <2>3, <2>4 DEF Stepped
  <2>5. CASE ~fed.cutter.cut
    BY <2>1, <2>2, <2>5 DEF Stepped
  <2> QED BY <2>4, <2>5
<1> QED BY <1>2, <1>3

(* A start goes through the cutter at once. *)
LEMMA StepStart ==
  ASSUME NEW c, KShape(c), c.held = <<>>, NEW e, e.type = "start", ~c.cut
  PROVE  Step(c, e) = [out |-> <<e>>, cutter |-> c]
BY DEF Step, Feed, IsText

(* An end or an error takes what is held with it. *)
LEMMA StepLast ==
  ASSUME NEW c, KShape(c), NEW e, Final(e)
  PROVE  /\ KShape(Step(c, e).cutter) /\ Step(c, e).cutter.cut = c.cut
         /\ Step(c, e).cutter.held \in {<<>>, c.held}
         /\ \E x \in {<<>>, c.held} : Deltas(x) /\ Step(c, e).out = Append(x, e)
<1>1. CASE c.stop = {}
  <2>1. Step(c, e) = [out |-> <<e>>, cutter |-> c]
    BY <1>1 DEF Step
  <2>2. <<e>> = Append(<<>>, e)
    BY Short
  <2> QED BY <2>1, <2>2, ShortDeltas
<1>2. CASE c.stop # {}
  <2> DEFINE k == [c EXCEPT !.held = <<>>]
  <2>1. Step(c, e) = [out |-> Append(c.held, e), cutter |-> k]
    BY <1>2 DEF Step, Final
  <2>2. KShape(k) /\ k.held = <<>> /\ k.cut = c.cut
    BY ShortDeltas DEF KShape
  <2> HIDE DEF k
  <2> QED BY <2>1, <2>2 DEF KShape
<1> QED BY <1>1, <1>2

-----------------------------------------------------------------------------
(* The order of what the consumer is given. *)
Order(g) ==
  /\ ASeq(g)
  /\ \A i \in DOMAIN g :
       /\ g[i].type = "start" => i = 1
       /\ IsDelta(g[i]) => g[1].type = "start"
       /\ Final(g[i]) => i = Len(g)

Unended(g) == \A i \in DOMAIN g : ~Final(g[i])
Begun(g) == g # <<>> /\ g[1].type = "start"
Ended(g) == g # <<>> /\ g[Len(g)].type = "end"

Quiet(s) == s.outcome # Null \/ s.cutter.cut

Line(s) ==
  /\ PShape(s) /\ AShape(s.accumulator) /\ KShape(s.cutter)
  /\ Order(s.given) /\ (~Quiet(s) => Unended(s.given))
  /\ s.outcome # Null => Failed(s.outcome) \/ (s.cutter.cut /\ Ended(s.given))

Spoken(s) == ~Quiet(s) => Begun(s.given)
Silent(s) == s.cutter.held = <<>> /\ (~Quiet(s) => s.given = <<>>)

(* What no event changes. *)
Onward(s, r) ==
  /\ r.coalescer = s.coalescer
  /\ s.outcome # Null => r.outcome = s.outcome
  /\ s.cutter.cut => r.cutter.cut

(* Deltas may follow what was begun and not ended. *)
LEMMA OrderLonger ==
  ASSUME NEW g, NEW h, Order(g), Unended(g), Longer(h, g), h = g \/ Begun(g)
  PROVE  Order(h) /\ Unended(h) /\ (Begun(g) => Begun(h))
<1>1. Len(g) \in Nat /\ DOMAIN g = 1..Len(g) /\ (Len(g) = 0 <=> g = <<>>)
  BY SeqLen DEF Order
<1>2. Len(h) \in Nat /\ DOMAIN h = 1..Len(h) /\ (Len(h) = 0 <=> h = <<>>)
  BY SeqLen DEF Longer
<1>3. CASE h = g
  BY <1>3
<1>4. CASE Begun(g)
  <2>1. Len(g) >= 1 /\ Len(h) >= 1 /\ h[1] = g[1] /\ h[1].type = "start" /\ h # <<>>
    BY <1>1, <1>2, <1>4 DEF Begun, Longer
  <2>2. ASSUME NEW i \in DOMAIN h
        PROVE  /\ h[i].type = "start" => i = 1
               /\ ~Final(h[i])
    <3>1. CASE i <= Len(g)
      <4>1. i \in DOMAIN g /\ h[i] = g[i]
        BY <1>1, <1>2, <3>1 DEF Longer
      <4> QED BY <4>1 DEF Order, Unended
    <3>2. CASE ~(i <= Len(g))
      <4>1. IsDelta(h[i])
        BY <1>1, <1>2, <3>2 DEF Longer
      <4> QED BY <4>1 DEF IsDelta, Final
    <3> QED BY <3>1, <3>2
  <2>3. ASeq(h)
    BY DEF Longer
  <2> QED BY <2>1, <2>2, <2>3 DEF Order, Unended, Begun
<1> QED BY <1>3, <1>4

(* An error or an end may follow anything not ended, as its last. *)
LEMMA OrderLast ==
  ASSUME NEW g, Order(g), Unended(g), NEW e, Final(e),
         NEW h, h = Append(g, e)
  PROVE  Order(h) /\ h # <<>> /\ h[Len(h)] = e
<1>1. Len(g) \in Nat /\ DOMAIN g = 1..Len(g)
  BY SeqLen DEF Order
<1>2. /\ ASeq(h) /\ Len(h) = Len(g) + 1
      /\ \A i \in 1..Len(g) : h[i] = g[i]
      /\ h[Len(g) + 1] = e
  BY Appended DEF Order
<1>3. Len(h) \in Nat /\ DOMAIN h = 1..Len(h) /\ (Len(h) = 0 <=> h = <<>>)
  BY <1>2, SeqLen
<1>4. ASSUME NEW i \in DOMAIN h
      PROVE  /\ h[i].type = "start" => i = 1
             /\ IsDelta(h[i]) => h[1].type = "start"
             /\ Final(h[i]) => i = Len(h)
  <2>1. CASE i = Len(g) + 1
    <3>1. h[i] = e
      BY <1>2, <2>1
    <3>2. ~IsDelta(h[i]) /\ h[i].type # "start"
      BY <3>1 DEF IsDelta, Final
    <3> QED BY <1>2, <2>1, <3>2
  <2>2. CASE i # Len(g) + 1
    <3>1. i \in DOMAIN g /\ h[i] = g[i] /\ 1 \in DOMAIN g /\ h[1] = g[1]
      BY <1>1, <1>2, <1>3, <2>2
    <3> QED BY <3>1 DEF Order, Unended
  <2> QED BY <2>1, <2>2
<1>5. Order(h)
  BY <1>2, <1>4 DEF Order
<1>6. h # <<>> /\ h[Len(h)] = e
  BY <1>1, <1>2, <1>3
<1> QED BY <1>5, <1>6

(* A start may be the first. *)
LEMMA OrderFirst ==
  ASSUME NEW e, e.type = "start"
  PROVE  Order(Append(<<>>, e)) /\ Unended(Append(<<>>, e)) /\ Begun(Append(<<>>, e))
<1> DEFINE h == Append(<<>>, e)
<1>1. ASeq(h) /\ DOMAIN h = 1..1 /\ h[1] = e /\ h # <<>>
  BY Short, SeqLen
<1> HIDE DEF h
<1>2. \A i \in DOMAIN h : i = 1
  BY <1>1
<1> QED BY <1>1, <1>2 DEF Order, Unended, Begun, IsDelta, Final, h

(* What reaches the consumer of one event, when the cutter lets it. *)
LEMMA CutIs ==
  ASSUME NEW s, PShape(s), ~s.cutter.cut, NEW e
  PROVE  \E base : /\ PShape(base) /\ base.coalescer = s.coalescer
                   /\ base.cutter = Step(s.cutter, e).cutter
                   /\ base.accumulator = s.accumulator
                   /\ base.given = s.given /\ base.outcome = s.outcome
                   /\ Cut(s, e) = Takes!Folded(base, Step(s.cutter, e).out)
<1> DEFINE step == Step(s.cutter, e)
           base == [s EXCEPT !.cutter = step.cutter]
<1>1. Cut(s, e) = Takes!Folded(base, step.out)
  BY ThroughIs DEF Cut
<1>2. /\ PShape(base) /\ base.coalescer = s.coalescer
      /\ base.cutter = step.cutter
      /\ base.accumulator = s.accumulator
      /\ base.given = s.given /\ base.outcome = s.outcome
  BY DEF PShape
<1> HIDE DEF base
<1> QED BY <1>1, <1>2

(* A delta through the cutter: what the consumer has stays in order, and   *)
(* an outcome is one the cut gives.                                        *)
LEMMA CutDelta ==
  ASSUME NEW s, Line(s), Spoken(s), NEW e, IsDelta(e), Sound(e)
  PROVE  Line(Cut(s, e)) /\ Spoken(Cut(s, e)) /\ Onward(s, Cut(s, e))
<1>1. CASE s.cutter.cut
  BY <1>1 DEF Cut, Onward
<1>2. CASE ~s.cutter.cut
  <2> DEFINE step == Step(s.cutter, e)
  <2>1. Stepped(step)
    BY <1>2, StepDelta DEF Line
  <2>2. PICK base : /\ PShape(base) /\ base.coalescer = s.coalescer
                    /\ base.cutter = step.cutter
                    /\ base.accumulator = s.accumulator
                    /\ base.given = s.given /\ base.outcome = s.outcome
                    /\ Cut(s, e) = Takes!Folded(base, step.out)
    BY <1>2, CutIs DEF Line
  <2> HIDE DEF step
  <2>3. CASE s.outcome # Null
    <3>1. ASeq(step.out)
      BY <2>1, Appended DEF Stepped, Deltas
    <3>2. Cut(s, e) = base
      BY <2>2, <2>3, <3>1, TakingNothing
    <3>3. Failed(s.outcome)
      BY <1>2, <2>3 DEF Line
    <3>4. Line(base) /\ Spoken(base)
      BY <1>2, <2>1, <2>2, <2>3, <3>3 DEF Line, Spoken, Stepped, Quiet
    <3> QED BY <1>2, <2>2, <3>2, <3>4 DEF Onward
  <2>4. CASE s.outcome = Null
    <3>1. Order(s.given) /\ Unended(s.given) /\ Begun(s.given)
      BY <1>2, <2>4 DEF Line, Spoken, Quiet
    <3>2. AShape(base.accumulator) /\ ASeq(base.given) /\ base.outcome = Null
      BY <2>2, <2>4, <3>1 DEF Line, Order
    <3>3. CASE ~step.cutter.cut /\ Deltas(step.out)
      <4> DEFINE r == Takes!Folded(base, step.out)
      <4>1. /\ PShape(r) /\ AShape(r.accumulator) /\ r.coalescer = base.coalescer
            /\ r.cutter = base.cutter /\ r.outcome = Null /\ Longer(r.given, base.given)
        BY <2>2, <3>2, <3>3, TakingDeltas
      <4> HIDE DEF r
      <4>2. Order(r.given) /\ Unended(r.given) /\ Begun(r.given)
        BY <2>2, <3>1, <4>1, OrderLonger
      <4>3. ~Quiet(r) /\ KShape(r.cutter)
        BY <2>1, <2>2, <3>3, <4>1 DEF Quiet, Stepped
      <4>4. Line(r) /\ Spoken(r)
        BY <4>1, <4>2, <4>3 DEF Line, Spoken
      <4> QED BY <1>2, <2>2, <2>4, <4>1, <4>4 DEF Onward, r
    <3>4. CASE step.cutter.cut /\ \E x : Deltas(x) /\ step.out = Append(x, CutEnd)
      <4>1. PICK x : Deltas(x) /\ step.out = Append(x, CutEnd)
        BY <3>4
      <4> DEFINE mid == Takes!Folded(base, x)
                 a == Accumulated(mid.accumulator, CutEnd)
                 r == Kept(mid, CutEnd, a)
      <4>2. /\ PShape(mid) /\ AShape(mid.accumulator) /\ mid.coalescer = base.coalescer
            /\ mid.cutter = base.cutter /\ mid.outcome = Null /\ Longer(mid.given, base.given)
        BY <2>2, <3>2, <4>1, TakingDeltas
      <4>3. Cut(s, e) = Consumed(mid, CutEnd)
        BY <2>2, <4>1, TakingMore DEF Deltas
      <4> HIDE DEF mid
      <4>4. Cut(s, e) = r
        BY <4>2, <4>3 DEF Consumed
      <4>5. CutEnd.type = "end"
        BY DEF CutEnd, End
      <4>6. AShape(a)
        BY <4>2, AccumulatedFields
      <4>7. /\ PShape(r) /\ r.coalescer = mid.coalescer /\ r.cutter = mid.cutter
            /\ r.accumulator = a /\ r.given = Append(mid.given, CutEnd)
        BY <4>2, KeptFields
      <4> HIDE DEF a, r
      <4>8. Order(mid.given) /\ Unended(mid.given)
        BY <2>2, <3>1, <4>2, OrderLonger
      <4>9. Order(r.given) /\ Ended(r.given)
        <5>1. Final(CutEnd)
          BY <4>5 DEF Final
        <5>2. Order(r.given) /\ r.given # <<>> /\ r.given[Len(r.given)] = CutEnd
          BY ZenonT(30), <4>7, <4>8, <5>1, OrderLast
        <5> QED BY <4>5, <5>2 DEF Ended
      <4>10. Quiet(r) /\ r.cutter.cut /\ KShape(r.cutter)
        BY <2>1, <2>2, <3>4, <4>2, <4>7 DEF Quiet, Stepped
      <4>11. Order(r.given)
        BY <4>9, <4>10 DEF Order
      <4>12. Line(r) /\ Spoken(r)
        BY <4>6, <4>7, <4>9, <4>10, <4>11 DEF Line, Spoken
      <4> QED BY <1>2, <2>2, <2>4, <4>2, <4>4, <4>7, <4>12 DEF Onward
    <3> QED BY <2>1, <3>3, <3>4 DEF Stepped
  <2> QED BY <2>3, <2>4
<1> QED BY <1>1, <1>2

(* A start through the cutter begins what the consumer has. *)
LEMMA CutStart ==
  ASSUME NEW s, Line(s), Silent(s), NEW e, e.type = "start"
  PROVE  /\ Line(Cut(s, e)) /\ Spoken(Cut(s, e)) /\ Onward(s, Cut(s, e))
         /\ ~Quiet(s) => ~Quiet(Cut(s, e))
<1>1. CASE s.cutter.cut
  BY <1>1 DEF Cut, Onward, Silent, Spoken, Quiet
<1>2. CASE ~s.cutter.cut
  <2> DEFINE step == Step(s.cutter, e)
  <2>1. step = [out |-> <<e>>, cutter |-> s.cutter]
    BY <1>2, StepStart DEF Line, Silent
  <2>2. PICK base : /\ PShape(base) /\ base.coalescer = s.coalescer
                    /\ base.cutter = step.cutter
                    /\ base.accumulator = s.accumulator
                    /\ base.given = s.given /\ base.outcome = s.outcome
                    /\ Cut(s, e) = Takes!Folded(base, step.out)
    BY <1>2, CutIs DEF Line
  <2> HIDE DEF step
  <2>3. Cut(s, e) = Consumed(base, e)
    <3>1. Takes!Folded(base, <<e>>) = Consumed(base, e)
      BY Takes!FoldOfOne
    <3> QED BY <2>1, <2>2, <3>1
  <2>4. CASE s.outcome # Null
    <3>1. Cut(s, e) = base
      BY <2>2, <2>3, <2>4 DEF Consumed
    <3>2. Line(base) /\ Spoken(base)
      BY <1>2, <2>1, <2>2, <2>4 DEF Line, Spoken, Quiet
    <3> QED BY <1>2, <2>2, <2>4, <3>1, <3>2 DEF Onward, Quiet
  <2>5. CASE s.outcome = Null
    <3> DEFINE a == Accumulated(base.accumulator, e)
               r == Kept(base, e, a)
    <3>1. Cut(s, e) = r
      BY <2>2, <2>3, <2>5 DEF Consumed
    <3>2. AShape(a)
      BY <2>2, AccumulatedFields DEF Line
    <3>3. /\ PShape(r) /\ r.coalescer = base.coalescer /\ r.cutter = base.cutter
          /\ r.accumulator = a /\ r.given = Append(base.given, e)
          /\ r.outcome = IF e.type = "error" THEN Failure("provider")
                         ELSE IF e.type = "end" THEN ResponseOf(a, Requested)
                         ELSE base.outcome
      BY <2>2, KeptFields
    <3> HIDE DEF a, r
    <3>4. base.given = <<>>
      BY <1>2, <2>2, <2>5 DEF Silent, Quiet
    <3>5. Order(r.given) /\ Unended(r.given) /\ Begun(r.given)
      BY <3>3, <3>4, OrderFirst
    <3>6. r.outcome = Null
      BY <2>2, <2>5, <3>3
    <3>7. r.cutter = s.cutter /\ ~Quiet(r)
      BY <1>2, <2>1, <2>2, <3>3, <3>6 DEF Quiet
    <3>8. Line(r) /\ Spoken(r)
      BY <3>2, <3>3, <3>5, <3>6, <3>7 DEF Line, Spoken
    <3> QED BY <1>2, <2>2, <2>5, <3>1, <3>3, <3>7, <3>8 DEF Onward
  <2> QED BY <2>4, <2>5
<1> QED BY <1>1, <1>2

(* An end or an error, with what was held before it. *)
LEMMA TakingLast ==
  ASSUME NEW s, Line(s), Spoken(s) \/ Silent(s), s.outcome = Null, ~s.cutter.cut,
         NEW e, Final(e)
  PROVE  \E a : /\ AShape(a)
                /\ e.type = "end" /\ e.data # Null => a.data = e.data
                /\ PShape(Cut(s, e)) /\ Cut(s, e).accumulator = a
                /\ Cut(s, e).coalescer = s.coalescer
                /\ KShape(Cut(s, e).cutter) /\ ~Cut(s, e).cutter.cut
                /\ Cut(s, e).cutter.held \in {<<>>, s.cutter.held}
                /\ Order(Cut(s, e).given)
                /\ Cut(s, e).given # <<>>
                /\ Cut(s, e).given[Len(Cut(s, e).given)] = e
                /\ Cut(s, e).outcome = IF e.type = "error" THEN Failure("provider")
                                       ELSE ResponseOf(a, Requested)
<1> DEFINE step == Step(s.cutter, e)
<1>1. /\ KShape(step.cutter) /\ step.cutter.cut = s.cutter.cut
      /\ step.cutter.held \in {<<>>, s.cutter.held}
      /\ \E x \in {<<>>, s.cutter.held} : Deltas(x) /\ step.out = Append(x, e)
  BY StepLast DEF Line
<1>2. PICK base : /\ PShape(base) /\ base.coalescer = s.coalescer
                  /\ base.cutter = step.cutter
                  /\ base.accumulator = s.accumulator
                  /\ base.given = s.given /\ base.outcome = s.outcome
                  /\ Cut(s, e) = Takes!Folded(base, step.out)
  BY CutIs DEF Line
<1> HIDE DEF step
<1>3. PICK x \in {<<>>, s.cutter.held} : Deltas(x) /\ step.out = Append(x, e)
  BY <1>1
<1>4. Order(s.given) /\ Unended(s.given) /\ (s.cutter.held = <<>> \/ Begun(s.given))
  BY DEF Line, Spoken, Silent, Quiet
<1> DEFINE mid == Takes!Folded(base, x)
           a == Accumulated(mid.accumulator, e)
           r == Kept(mid, e, a)
<1>5. /\ PShape(mid) /\ AShape(mid.accumulator) /\ mid.coalescer = base.coalescer
      /\ mid.cutter = base.cutter /\ mid.outcome = Null /\ Longer(mid.given, base.given)
      /\ x = <<>> => mid.given = base.given
  <2>1. AShape(base.accumulator) /\ ASeq(base.given) /\ base.outcome = Null
    BY <1>2, <1>4 DEF Line, Order
  <2> QED BY <1>2, <1>3, <2>1, TakingDeltas
<1>6. Cut(s, e) = Consumed(mid, e)
  BY <1>2, <1>3, TakingMore DEF Deltas
<1> HIDE DEF mid
<1>7. Cut(s, e) = r
  BY <1>5, <1>6 DEF Consumed
<1>8. AShape(a) /\ (e.type = "end" /\ e.data # Null => a.data = e.data)
  BY <1>5, AccumulatedFields
<1>9. /\ PShape(r) /\ r.coalescer = mid.coalescer /\ r.cutter = mid.cutter
      /\ r.accumulator = a /\ r.given = Append(mid.given, e)
      /\ r.outcome = IF e.type = "error" THEN Failure("provider")
                     ELSE IF e.type = "end" THEN ResponseOf(a, Requested)
                     ELSE mid.outcome
  BY <1>5, KeptFields
<1> HIDE DEF a, r
<1>10. Order(mid.given) /\ Unended(mid.given)
  <2>1. mid.given = base.given \/ Begun(base.given)
    <3>1. CASE x = <<>>
      BY <1>5, <3>1
    <3>2. CASE x # <<>>
      <4>1. s.cutter.held # <<>>
        BY <1>3, <3>2
      <4> QED BY <1>2, <1>4, <4>1
    <3> QED BY <3>1, <3>2
  <2> QED BY <1>2, <1>4, <1>5, <2>1, OrderLonger
<1>11. Order(r.given) /\ r.given # <<>> /\ r.given[Len(r.given)] = e
  <2>1. PICK g, h : g = mid.given /\ h = r.given
    OBVIOUS
  <2>2. Order(g) /\ Unended(g) /\ h = Append(g, e)
    BY <1>9, <1>10, <2>1
  <2>3. Order(h) /\ h # <<>> /\ h[Len(h)] = e
    BY <2>2, OrderLast
  <2> QED BY <2>1, <2>3
<1>12. r.outcome = IF e.type = "error" THEN Failure("provider") ELSE ResponseOf(a, Requested)
  BY <1>9 DEF Final
<1>13. r.cutter = step.cutter /\ r.coalescer = s.coalescer
  BY <1>2, <1>5, <1>9
<1>14. r.cutter.held \in {<<>>, s.cutter.held}
  BY <1>1, <1>13 DEF Line
<1>15. KShape(r.cutter) /\ ~r.cutter.cut
  BY <1>1, <1>13
<1> QED BY <1>7, <1>8, <1>9, <1>11, <1>12, <1>13, <1>14, <1>15

(* A failure is an outcome, and is told from a Response. *)
LEMMA FailureIsSome ==
  /\ Failure("provider") # Null /\ Failed(Failure("provider"))
  /\ Failure("unnamed") # Null /\ Failed(Failure("unnamed"))
  /\ Failure("incomplete") # Null /\ Failed(Failure("incomplete"))
  /\ Failure("malformed") # Null /\ Failed(Failure("malformed"))
  /\ Failure("contradiction") # Null /\ Failed(Failure("contradiction"))
BY AbsenceAssumption DEF Failure, Failed, Reasons

(* An error through the cutter ends what the consumer has, with a failure. *)
LEMMA CutError ==
  ASSUME NEW s, Line(s), Spoken(s) \/ Silent(s), NEW e, e.type = "error"
  PROVE  /\ Line(Cut(s, e)) /\ Onward(s, Cut(s, e))
         /\ Spoken(s) => Spoken(Cut(s, e))
         /\ Silent(s) => Silent(Cut(s, e))
         /\ ~Cut(s, e).cutter.cut => Cut(s, e).outcome # Null
<1>1. CASE s.cutter.cut
  BY <1>1 DEF Cut, Onward
<1>2. CASE ~s.cutter.cut /\ s.outcome # Null
  <2> DEFINE step == Step(s.cutter, e)
  <2>1. /\ KShape(step.cutter) /\ step.cutter.cut = s.cutter.cut
        /\ step.cutter.held \in {<<>>, s.cutter.held}
        /\ \E x \in {<<>>, s.cutter.held} : Deltas(x) /\ step.out = Append(x, e)
    BY StepLast DEF Line, Final
  <2>2. PICK base : /\ PShape(base) /\ base.coalescer = s.coalescer
                    /\ base.cutter = step.cutter
                    /\ base.accumulator = s.accumulator
                    /\ base.given = s.given /\ base.outcome = s.outcome
                    /\ Cut(s, e) = Takes!Folded(base, step.out)
    BY <1>2, CutIs DEF Line
  <2> HIDE DEF step
  <2>3. ASeq(step.out)
    BY <2>1, Appended DEF Deltas
  <2>4. Cut(s, e) = base
    BY <1>2, <2>2, <2>3, TakingNothing
  <2>5. Line(base) /\ Spoken(base) /\ (Silent(s) => Silent(base))
    BY <1>2, <2>1, <2>2 DEF Line, Spoken, Silent, Quiet
  <2> QED BY <1>2, <2>2, <2>4, <2>5 DEF Onward
<1>3. CASE ~s.cutter.cut /\ s.outcome = Null
  <2> DEFINE r == Cut(s, e)
  <2>1. PICK a : /\ AShape(a) /\ PShape(r) /\ r.accumulator = a
                 /\ r.coalescer = s.coalescer
                 /\ KShape(r.cutter) /\ ~r.cutter.cut
                 /\ r.cutter.held \in {<<>>, s.cutter.held}
                 /\ Order(r.given)
                 /\ r.outcome = Failure("provider")
    BY <1>3, TakingLast DEF Final
  <2> HIDE DEF r
  <2>2. r.outcome # Null /\ Failed(r.outcome) /\ Quiet(r)
    <3>1. Failure("provider") # Null /\ Failed(Failure("provider"))
      BY FailureIsSome
    <3> QED BY <2>1, <3>1 DEF Quiet
  <2>3. Line(r) /\ Spoken(r) /\ (Silent(s) => Silent(r))
    BY <2>1, <2>2 DEF Line, Spoken, Silent
  <2>4. Onward(s, r)
    BY <1>3, <2>1 DEF Onward
  <2> QED BY <2>2, <2>3, <2>4 DEF r
<1> QED BY <1>1, <1>2, <1>3

(* The end through the cutter ends what the consumer has, with the data of *)
(* the end.                                                                *)
LEMMA CutLast ==
  ASSUME NEW s, Line(s), Spoken(s) \/ Silent(s), s.outcome = Null, ~s.cutter.cut,
         NEW e, e.type = "end"
  PROVE  /\ PShape(Cut(s, e)) /\ ~Cut(s, e).cutter.cut
         /\ Order(Cut(s, e).given) /\ Ended(Cut(s, e).given)
         /\ e.data # Null =>
              Failed(Cut(s, e).outcome) \/ Cut(s, e).outcome.data = e.data
<1> DEFINE r == Cut(s, e)
<1>1. PICK a : /\ AShape(a)
               /\ e.type = "end" /\ e.data # Null => a.data = e.data
               /\ PShape(r) /\ ~r.cutter.cut
               /\ Order(r.given)
               /\ r.given # <<>> /\ r.given[Len(r.given)] = e
               /\ r.outcome = ResponseOf(a, Requested)
  BY TakingLast DEF Final
<1> HIDE DEF r
<1>2. Ended(r.given)
  BY <1>1 DEF Ended
<1>3. Failed(ResponseOf(a, Requested)) \/ ResponseOf(a, Requested).data = a.data
  <2>1. \/ ResponseOf(a, Requested) = Failure("unnamed")
        \/ \E m, p, f, u, x, y : ResponseOf(a, Requested) = Response(m, p, f, u, a.data, x, y)
    BY Zenon DEF ResponseOf
  <2>2. Failed(Failure("unnamed"))
    BY FailureIsSome
  <2>3. \A m, p, f, u, d, x, y : Response(m, p, f, u, d, x, y).data = d
    BY DEF Response
  <2> QED BY <2>1, <2>2, <2>3
<1> QED BY <1>1, <1>2, <1>3 DEF r

-----------------------------------------------------------------------------
(* The coalescer. *)
CShape(c) ==
  /\ DOMAIN c = {"started", "sawEnd", "finish", "usage", "data", "rank"}
  /\ c.started \in BOOLEAN /\ c.sawEnd \in BOOLEAN /\ c.rank \in 0..3

(* An end that tells the usage, and a coalescer that was told it. *)
Telling(e) == e.type = "end" /\ e.usage # Null /\ e.data = "usage"
Informed(c) == c.rank = 3 /\ c.data = "usage" /\ c.sawEnd

(* The coalescer remembers a start and an end, and never forgets the data  *)
(* of the frame that told the usage (adapter.ts:528).                      *)
LEMMA CoalescedFields ==
  ASSUME NEW c, CShape(c), NEW e, Sound(e)
  PROVE  /\ CShape(Coalesced(c, e))
         /\ e.type = "start" \/ IsDelta(e) => Coalesced(c, e).started
         /\ Final(e) => Coalesced(c, e).started = c.started
         /\ e.type # "end" => Coalesced(c, e).sawEnd = c.sawEnd
         /\ Informed(c) => Informed(Coalesced(c, e))
         /\ Telling(e) => Informed(Coalesced(c, e))
<1>1. CASE e.type = "start"
  <2>1. Coalesced(c, e) = [c EXCEPT !.started = TRUE]
    BY <1>1, Zenon DEF Coalesced
  <2> QED BY <1>1, <2>1 DEF CShape, Final, Telling, Informed
<1>2. CASE IsDelta(e)
  <2>1. e.type # "start" /\ e.type # "end" /\ e.type # "error"
    BY <1>2 DEF IsDelta
  <2>2. Coalesced(c, e) = [c EXCEPT !.started = TRUE]
    BY <1>2, <2>1 DEF Coalesced
  <2> QED BY <2>1, <2>2 DEF CShape, Final, Telling, Informed
<1>3. CASE e.type = "error"
  <2>1. Coalesced(c, e) = c
    BY <1>3 DEF Coalesced, IsDelta
  <2> QED BY <1>3, <2>1 DEF Final, Telling, IsDelta
<1>4. CASE e.type = "end"
  <2> DEFINE r == Rank(e)
             kept == e.data # Null /\ r >= c.rank
             d == IF kept THEN e.data ELSE c.data
             n == IF kept THEN r ELSE c.rank
  <2>1. r \in 0..3 /\ (r = 3 <=> e.usage # Null)
    BY DEF Rank
  <2>2. /\ DOMAIN Coalesced(c, e) = DOMAIN c
        /\ Coalesced(c, e).started = c.started /\ Coalesced(c, e).sawEnd
        /\ Coalesced(c, e).sawEnd \in BOOLEAN
        /\ Coalesced(c, e).data = d /\ Coalesced(c, e).rank = n
    <3>1. Coalesced(c, e) = AbsorbEnd(c, e)
      BY <1>4 DEF Coalesced, IsDelta
    <3>2. AbsorbEnd(c, e)
            = [c EXCEPT !.sawEnd = TRUE,
                        !.finish = IF e.finish # Null THEN e.finish ELSE @,
                        !.usage = IF e.usage # Null THEN e.usage ELSE @,
                        !.data = d, !.rank = n]
      BY DEF AbsorbEnd
    <3> HIDE DEF d, n
    <3> QED BY <3>1, <3>2 DEF CShape
  <2> HIDE DEF r
  <2>3. CShape(Coalesced(c, e))
    BY <2>1, <2>2 DEF CShape
  <2>4. ASSUME Informed(c) PROVE Informed(Coalesced(c, e))
    BY <1>4, <2>1, <2>2, <2>4 DEF Informed, Sound, CShape
  <2>5. ASSUME Telling(e) PROVE Informed(Coalesced(c, e))
    <3>1. e.data = "usage" /\ r = 3 /\ e.data # Null /\ c.rank \in 0..3
      BY <2>1, <2>5, AbsenceAssumption DEF Telling, CShape
    <3> QED BY <2>2, <3>1 DEF Informed
  <2> QED BY <1>4, <2>2, <2>3, <2>4, <2>5 DEF Final, IsDelta
<1> QED BY <1>1, <1>2, <1>3, <1>4 DEF IsDelta

(* To push an event is to fold the cutter over what the coalescer emits. *)
LEMMA PushedIs ==
  ASSUME NEW s, NEW e
  PROVE  Pushed(s, e) = Cuts!Folded([s EXCEPT !.coalescer = Coalesced(@, e)],
                                    Emitted(s.coalescer, e, Requested))
BY Zenon DEF Pushed, FoldLeft, MapThenFoldSet, Max, Cuts!Folded, Cuts!FoldLeft,
   Cuts!MapThenFoldSet, Cuts!Max

(* What is emitted of an event. *)
LEMMA EmittedIs ==
  ASSUME NEW c, NEW e
  PROVE  /\ e.type = "start" /\ c.started => Emitted(c, e, Requested) = <<>>
         /\ e.type = "start" /\ ~c.started => Emitted(c, e, Requested) = <<e>>
         /\ e.type = "end" => Emitted(c, e, Requested) = <<>>
         /\ e.type = "error" => Emitted(c, e, Requested) = <<e>>
         /\ IsDelta(e) /\ c.started => Emitted(c, e, Requested) = <<e>>
         /\ IsDelta(e) /\ ~c.started =>
              Emitted(c, e, Requested) = Append(<<Start(Requested)>>, e)
<1>1. <<>> \o <<e>> = <<e>>
  OBVIOUS
<1>2. <<Start(Requested)>> \o <<e>> = Append(<<Start(Requested)>>, e)
  BY Short, OneNotion, Cuts!OneAdded
<1>3. e.type = "start" => Emitted(c, e, Requested) = Optional(~c.started, e)
  BY DEF Emitted
<1>4. e.type = "end" => Emitted(c, e, Requested) = <<>>
  BY DEF Emitted
<1>5. e.type # "start" /\ e.type # "end" =>
        Emitted(c, e, Requested)
          = Optional(~c.started /\ IsDelta(e), Start(Requested)) \o <<e>>
  BY DEF Emitted
<1>6. e.type = "error" => ~IsDelta(e)
  BY DEF IsDelta
<1>7. IsDelta(e) => e.type # "start" /\ e.type # "end"
  BY DEF IsDelta
<1> QED BY <1>1, <1>2, <1>3, <1>4, <1>5, <1>6, <1>7 DEF Optional

Flow(s) ==
  /\ Line(s) /\ CShape(s.coalescer)
  /\ IF s.coalescer.started THEN Spoken(s) ELSE Silent(s)

Monotone(s, r) ==
  /\ s.outcome # Null => r.outcome = s.outcome
  /\ s.cutter.cut => r.cutter.cut

(* An event of the dialect keeps the client's flow: one start before all   *)
(* else, nothing after an end.                                             *)
LEMMA PushedKeeps ==
  ASSUME NEW s, Flow(s), NEW e, Sound(e)
  PROVE  /\ Flow(Pushed(s, e)) /\ Monotone(s, Pushed(s, e))
         /\ Pushed(s, e).coalescer = Coalesced(s.coalescer, e)
         /\ e.type = "error" /\ ~Pushed(s, e).cutter.cut => Pushed(s, e).outcome # Null
<1> DEFINE c == Coalesced(s.coalescer, e)
           base == [s EXCEPT !.coalescer = c]
           out == Emitted(s.coalescer, e, Requested)
<1>1. Pushed(s, e) = Cuts!Folded(base, out)
  BY PushedIs
<1>2. /\ CShape(c)
      /\ e.type = "start" \/ IsDelta(e) => c.started
      /\ Final(e) => c.started = s.coalescer.started
  BY CoalescedFields DEF Flow
<1>3. /\ PShape(base) /\ base.coalescer = c /\ base.cutter = s.cutter
      /\ base.accumulator = s.accumulator /\ base.given = s.given
      /\ base.outcome = s.outcome
  BY DEF Flow, Line, PShape
<1> HIDE DEF c, base, out
<1>4. /\ Line(base) /\ Monotone(s, base)
      /\ Spoken(s) => Spoken(base)
      /\ Silent(s) => Silent(base)
  BY <1>3 DEF Flow, Line, Spoken, Silent, Quiet, Monotone
<1>5. Spoken(base) \/ Silent(base)
  BY <1>4 DEF Flow
<1>6. ASSUME NEW r, Onward(base, r) PROVE r.coalescer = c /\ Monotone(s, r)
  BY <1>3, <1>6 DEF Onward, Monotone
<1>7. CASE out = <<>> /\ ((e.type = "start" /\ s.coalescer.started) \/ e.type = "end")
  <2>1. Pushed(s, e) = base
    BY <1>1, <1>7, Cuts!FoldOfNone
  <2>2. c.started = s.coalescer.started
    BY <1>2, <1>7 DEF Final, Flow, CShape
  <2>3. Flow(base)
    BY <1>2, <1>3, <1>4, <2>2 DEF Flow
  <2>4. e.type # "error"
    BY <1>7
  <2> QED BY <1>3, <1>4, <2>1, <2>3, <2>4 DEF c
<1>8. CASE e.type = "start" /\ ~s.coalescer.started /\ out = <<e>>
  <2>1. Pushed(s, e) = Cut(base, e)
    BY <1>1, <1>8, Cuts!FoldOfOne
  <2>2. Silent(base)
    BY <1>4, <1>8 DEF Flow
  <2>3. Line(Cut(base, e)) /\ Spoken(Cut(base, e)) /\ Onward(base, Cut(base, e))
    BY <1>4, <1>8, <2>2, CutStart
  <2>4. Cut(base, e).coalescer = c /\ Monotone(s, Cut(base, e))
    BY <1>6, <2>3
  <2>5. Flow(Cut(base, e))
    BY <1>2, <1>8, <2>3, <2>4 DEF Flow
  <2> QED BY <1>8, <2>1, <2>4, <2>5 DEF c
<1>9. CASE e.type = "error" /\ out = <<e>>
  <2>1. Pushed(s, e) = Cut(base, e)
    BY <1>1, <1>9, Cuts!FoldOfOne
  <2>2. /\ Line(Cut(base, e)) /\ Onward(base, Cut(base, e))
        /\ Spoken(base) => Spoken(Cut(base, e))
        /\ Silent(base) => Silent(Cut(base, e))
        /\ ~Cut(base, e).cutter.cut => Cut(base, e).outcome # Null
    BY <1>4, <1>5, <1>9, CutError
  <2>3. Cut(base, e).coalescer = c /\ Monotone(s, Cut(base, e))
    BY <1>6, <2>2
  <2>4. c.started = s.coalescer.started
    BY <1>2, <1>9 DEF Final
  <2>5. Flow(Cut(base, e))
    BY <1>2, <1>4, <2>2, <2>3, <2>4 DEF Flow
  <2> QED BY <2>1, <2>2, <2>3, <2>5 DEF c
<1>10. CASE IsDelta(e) /\ s.coalescer.started /\ out = <<e>>
  <2>1. Pushed(s, e) = Cut(base, e)
    BY <1>1, <1>10, Cuts!FoldOfOne
  <2>2. Spoken(base)
    BY <1>4, <1>10 DEF Flow
  <2>3. Line(Cut(base, e)) /\ Spoken(Cut(base, e)) /\ Onward(base, Cut(base, e))
    BY <1>4, <1>10, <2>2, CutDelta
  <2>4. Cut(base, e).coalescer = c /\ Monotone(s, Cut(base, e))
    BY <1>6, <2>3
  <2>5. Flow(Cut(base, e))
    BY <1>2, <1>10, <2>3, <2>4 DEF Flow
  <2> QED BY <1>10, <2>1, <2>4, <2>5 DEF IsDelta, c
<1>11. CASE IsDelta(e) /\ ~s.coalescer.started /\ out = Append(<<Start(Requested)>>, e)
  <2> DEFINE first == Start(Requested)
             one == <<first>>
             mid == Cut(base, first)
  <2>1. Pushed(s, e) = Cut(mid, e)
    <3>1. Cuts!Folded(base, one) = mid
      BY Cuts!FoldOfOne
    <3>2. Cuts!ASeq(one)
      BY Short, OneNotion
    <3>3. Cuts!Folded(base, Append(one, e)) = Cut(Cuts!Folded(base, one), e)
      BY <3>2, Cuts!FoldOfMore
    <3> QED BY <1>1, <1>11, <3>1, <3>3
  <2>2. first.type = "start"
    BY DEF Start
  <2> HIDE DEF first, mid
  <2>3. Silent(base)
    BY <1>4, <1>11 DEF Flow
  <2>4. Line(mid) /\ Spoken(mid) /\ Onward(base, mid)
    BY <1>4, <2>2, <2>3, CutStart DEF mid
  <2>5. Line(Cut(mid, e)) /\ Spoken(Cut(mid, e)) /\ Onward(mid, Cut(mid, e))
    BY <1>11, <2>4, CutDelta
  <2>6. Cut(mid, e).coalescer = c /\ Monotone(s, Cut(mid, e))
    BY <1>6, <2>4, <2>5 DEF Onward
  <2>7. Flow(Cut(mid, e))
    BY <1>2, <1>11, <2>5, <2>6 DEF Flow
  <2> QED BY <1>11, <2>1, <2>6, <2>7 DEF IsDelta, c
<1>12. \/ out = <<>> /\ ((e.type = "start" /\ s.coalescer.started) \/ e.type = "end")
       \/ e.type = "start" /\ ~s.coalescer.started /\ out = <<e>>
       \/ e.type = "error" /\ out = <<e>>
       \/ IsDelta(e) /\ s.coalescer.started /\ out = <<e>>
       \/ IsDelta(e) /\ ~s.coalescer.started /\ out = Append(<<Start(Requested)>>, e)
  BY EmittedIs DEF out, IsDelta
<1> QED BY <1>7, <1>8, <1>9, <1>10, <1>11, <1>12 DEF c

(* Any events of the dialect, one after another. *)
Kin(events) == ASeq(events) /\ \A i \in DOMAIN events : Sound(events[i])

Pushing(s, events, r) == r = FoldLeft(Pushed, s, events)

(* So does a row of events; what one of them told is not lost to a later   *)
(* one.                                                                    *)
LEMMA PushedAll ==
  ASSUME NEW s, Flow(s), NEW events, Kin(events), NEW r, Pushing(s, events, r)
  PROVE  /\ Flow(r) /\ Monotone(s, r)
         /\ r.coalescer.sawEnd =>
              s.coalescer.sawEnd \/ \E i \in DOMAIN events : events[i].type = "end"
         /\ Informed(s.coalescer) => Informed(r.coalescer)
         /\ (\E i \in DOMAIN events : Telling(events[i])) => Informed(r.coalescer)
         /\ (\E i \in DOMAIN events : events[i].type = "error") =>
              r.cutter.cut \/ r.outcome # Null
<1> DEFINE n == Len(events)
<1>1. n \in Nat /\ DOMAIN events = 1..n
  BY SeqLen DEF Kin
<1> HIDE DEF n
<1>2. r = Pushes!Folded(s, events)
  BY Zenon DEF Pushing, FoldLeft, MapThenFoldSet, Max, Pushes!Folded, Pushes!FoldLeft,
     Pushes!MapThenFoldSet, Pushes!Max
<1>3. PICK h : /\ h[0] = s /\ (\A i \in 1..n : h[i] = Pushed(h[i - 1], events[i]))
               /\ h[n] = Pushes!Folded(s, events)
  BY <1>1, Pushes!FoldTrace
<1> DEFINE Good(k) ==
             /\ Flow(h[k]) /\ Monotone(s, h[k])
             /\ h[k].coalescer.sawEnd =>
                  s.coalescer.sawEnd \/ \E i \in 1..k : events[i].type = "end"
             /\ Informed(s.coalescer) => Informed(h[k].coalescer)
             /\ (\E i \in 1..k : Telling(events[i])) => Informed(h[k].coalescer)
             /\ (\E i \in 1..k : events[i].type = "error") =>
                  h[k].cutter.cut \/ h[k].outcome # Null
           A == {k \in Nat : k <= n => Good(k)}
<1>4. 0 \in A
  BY <1>3 DEF Monotone
<1>5. ASSUME NEW k \in Nat, k \in A PROVE k + 1 \in A
  <2> SUFFICES ASSUME k + 1 <= n PROVE Good(k + 1)
    OBVIOUS
  <2>1. k + 1 \in 1..n /\ (k + 1) - 1 = k /\ Good(k)
    BY <1>1, <1>5
  <2> DEFINE m == k + 1
             e == events[m]
             c == h[k].coalescer
  <2>2. h[m] = Pushed(h[k], e) /\ Sound(e)
    BY <1>1, <1>3, <2>1 DEF Kin
  <2>3. /\ Flow(h[m]) /\ Monotone(h[k], h[m])
        /\ h[m].coalescer = Coalesced(c, e)
        /\ e.type = "error" /\ ~h[m].cutter.cut => h[m].outcome # Null
    BY <2>1, <2>2, PushedKeeps
  <2>4. /\ e.type # "end" => h[m].coalescer.sawEnd = c.sawEnd
        /\ Informed(c) => Informed(h[m].coalescer)
        /\ Telling(e) => Informed(h[m].coalescer)
    BY <2>1, <2>2, <2>3, CoalescedFields DEF Flow
  <2>5. Monotone(s, h[m])
    BY <2>1, <2>3 DEF Monotone
  <2>6. 1..m = 1..k \cup {m} /\ m \in 1..m
    OBVIOUS
  <2> HIDE DEF m
  <2>7. h[m].coalescer.sawEnd =>
          s.coalescer.sawEnd \/ \E i \in 1..m : events[i].type = "end"
    BY <2>1, <2>4, <2>6
  <2>8. (\E i \in 1..m : Telling(events[i])) => Informed(h[m].coalescer)
    BY <2>1, <2>4, <2>6
  <2>9. (\E i \in 1..m : events[i].type = "error") => h[m].cutter.cut \/ h[m].outcome # Null
    BY <2>1, <2>3, <2>6 DEF Monotone
  <2>10. Informed(s.coalescer) => Informed(h[m].coalescer)
    BY <2>1, <2>4
  <2> QED BY <2>3, <2>5, <2>7, <2>8, <2>9, <2>10 DEF m
<1> HIDE DEF A
<1>6. n \in A
  BY <1>1, <1>4, <1>5, SetInduction
<1>7. Good(n)
  BY <1>1, <1>6 DEF A
<1> QED BY <1>1, <1>2, <1>3, <1>7

-----------------------------------------------------------------------------
(* What the readers make of the server's frames. *)
Mid(events) == Kin(events) /\ \A i \in DOMAIN events : events[i].type # "end"

(* The events of the dialects' readers are sound. *)
LEMMA Sounds ==
  /\ \A m : Sound(Start(m)) /\ Start(m).type # "end"
  /\ \A t, at : Sound(Thinking(t, at)) /\ Thinking(t, at).type # "end"
  /\ \A t, at, id, name : /\ Sound(ToolCall(t, at, id, name))
                          /\ ToolCall(t, at, id, name).type # "end"
  /\ \A s, at : Sound(Citation(s, at)) /\ Citation(s, at).type # "end"
  /\ \A s, at : Sound(Continuation(s, at)) /\ Continuation(s, at).type # "end"
  /\ Sound(ErrorEvent) /\ ErrorEvent.type # "end"
  /\ \A t, at, x : ASeq(t) => Sound(Text(t, at, x)) /\ Text(t, at, x).type # "end"
  /\ \A d, at : /\ Sound(Media("image", d, at)) /\ Media("image", d, at).type # "end"
                /\ Sound(Media("audio", d, at)) /\ Media("audio", d, at).type # "end"
  /\ \A f, u : /\ Sound(End(f, u, "usage"))
               /\ u # Null => Telling(End(f, u, "usage"))
  /\ \A f, d : Sound(End(f, Null, d))
BY DEF Sound, Start, Thinking, ToolCall, Citation, Continuation, ErrorEvent, Text,
   Media, End, Telling

Joins(u, s, t) == u = s \o t

(* The places of two sequences joined. *)
LEMMA JoinedAt ==
  ASSUME NEW joined, NEW left, NEW right, ASeq(left), ASeq(right),
         Joins(joined, left, right)
  PROVE  /\ ASeq(joined) /\ Len(joined) = Len(left) + Len(right)
         /\ \A i \in 1..(Len(left) + Len(right)) :
              joined[i] = IF i <= Len(left) THEN left[i] ELSE right[i - Len(left)]
BY Concatenated DEF Joins

(* What is in two sequences joined was in one of them. *)
LEMMA Joining ==
  ASSUME NEW s, NEW t, NEW u, ASeq(s), ASeq(t), Joins(u, s, t)
  PROVE  /\ ASeq(u)
         /\ \A i \in DOMAIN u : \/ \E j \in DOMAIN s : u[i] = s[j]
                                \/ \E j \in DOMAIN t : u[i] = t[j]
         /\ \A j \in DOMAIN s : \E i \in DOMAIN u : u[i] = s[j]
         /\ \A j \in DOMAIN t : \E i \in DOMAIN u : u[i] = t[j]
<1> DEFINE m == Len(s)
           n == Len(t)
<1>1. m \in Nat /\ n \in Nat /\ DOMAIN s = 1..m /\ DOMAIN t = 1..n
  BY SeqLen
<1>2. /\ ASeq(u) /\ Len(u) = m + n
      /\ \A i \in 1..(m + n) : u[i] = IF i <= m THEN s[i] ELSE t[i - m]
  BY Concatenated DEF Joins
<1>3. DOMAIN u = 1..(m + n)
  BY <1>2, SeqLen
<1> HIDE DEF m, n
<1>4. ASSUME NEW i \in DOMAIN u
      PROVE  \/ \E j \in DOMAIN s : u[i] = s[j]
             \/ \E j \in DOMAIN t : u[i] = t[j]
  <2>1. CASE i <= m
    BY <1>1, <1>2, <1>3, <2>1
  <2>2. CASE ~(i <= m)
    <3>1. i - m \in DOMAIN t /\ u[i] = t[i - m]
      BY <1>1, <1>2, <1>3, <2>2
    <3> QED BY <3>1
  <2> QED BY <2>1, <2>2
<1>5. ASSUME NEW j \in DOMAIN s PROVE \E i \in DOMAIN u : u[i] = s[j]
  <2>1. j \in DOMAIN u /\ u[j] = s[j]
    BY <1>1, <1>2, <1>3
  <2> QED BY <2>1
<1>6. ASSUME NEW j \in DOMAIN t PROVE \E i \in DOMAIN u : u[i] = t[j]
  <2>1. m + j \in DOMAIN u /\ ~(m + j <= m) /\ (m + j) - m = j
    BY <1>1, <1>3
  <2>2. u[m + j] = t[j]
    BY <1>2, <1>3, <2>1
  <2> QED BY <2>1, <2>2
<1> QED BY <1>2, <1>4, <1>5, <1>6

(* Rows of events without an end: none, one, and one row after another. *)
LEMMA Mids ==
  /\ Mid(<<>>) /\ Kin(<<>>)
  /\ \A e : Sound(e) => Kin(<<e>>)
  /\ \A e : Sound(e) /\ e.type # "end" =>
       Mid(<<e>>) /\ \A c : Mid(Optional(c, e))
  /\ \A s, t : Mid(s) /\ Mid(t) => Mid(s \o t)
  /\ \A s, t : Kin(s) /\ Kin(t) => Kin(s \o t)
<1>1. Mid(<<>>) /\ Kin(<<>>)
  BY Short, ShortDeltas DEF Mid, Kin
<1>2. ASSUME NEW e, Sound(e) PROVE Kin(<<e>>) /\ (e.type # "end" => Mid(<<e>>))
  <2> DEFINE s == <<e>>
  <2>1. ASeq(s) /\ DOMAIN s = 1..1 /\ s[1] = e
    BY Short
  <2> HIDE DEF s
  <2>2. \A i \in DOMAIN s : s[i] = e
    BY <2>1
  <2> QED BY <1>2, <2>1, <2>2 DEF Mid, Kin, s
<1>3. ASSUME NEW e, Sound(e), e.type # "end", NEW c PROVE Mid(Optional(c, e))
  BY <1>1, <1>2, <1>3 DEF Optional
<1>4. ASSUME NEW s, NEW t, Kin(s), Kin(t)
      PROVE  Kin(s \o t) /\ (Mid(s) /\ Mid(t) => Mid(s \o t))
  <2>0. PICK u : Joins(u, s, t)
    BY DEF Joins
  <2>1. /\ ASeq(u)
        /\ \A i \in DOMAIN u : \/ \E j \in DOMAIN s : u[i] = s[j]
                               \/ \E j \in DOMAIN t : u[i] = t[j]
    <3>1. ASeq(s) /\ ASeq(t)
      BY <1>4 DEF Kin
    <3> QED BY <2>0, <3>1, Joining
  <2> QED BY <1>4, <2>0, <2>1 DEF Mid, Kin, Joins
<1>5. \A s : Mid(s) => Kin(s)
  BY DEF Mid
<1> QED BY <1>1, <1>2, <1>3, <1>4, <1>5

(* A sequence over a set is a sequence. *)
LEMMA StringsAre ==
  ASSUME NEW S, NEW s \in Seq(S)
  PROVE  ASeq(s) /\ DOMAIN s = 1..Len(s) /\ Len(s) \in Nat /\ \A i \in DOMAIN s : s[i] \in S
BY OneNotion, Cuts!SeqOfSet

(* A usage that is counters is reported. *)
LEMMA UsageIsSome ==
  ASSUME NEW u \in Counters
  PROVE  SettleUsage(u) # Null /\ SettleUsage(u) \in Counters
BY SettledIsConsistent, AbsenceAssumption

(* Chat. *)
ChatPlain(f) ==
  /\ f.type = "chunk" /\ ASeq(f.content) /\ ASeq(f.calls)
  /\ f.finish = Null /\ f.usage = Null

ChatRest(chunk) ==
  Optional(chunk.reasoning # <<>>, Thinking(chunk.reasoning, 0))
  \o Optional(chunk.content # <<>>, Text(chunk.content, 0, chunk.scores))
  \o [i \in DOMAIN chunk.calls |->
        ToolCall(chunk.calls[i].arguments, chunk.calls[i].index,
                 chunk.calls[i].id, chunk.calls[i].name)]

(* A chat chunk's fields other than its deltas give no end. *)
LEMMA ChatRestIsMid ==
  ASSUME NEW f, ASeq(f.content), ASeq(f.calls)
  PROVE  Mid(ChatRest(f))
<1> DEFINE first == Optional(f.reasoning # <<>>, Thinking(f.reasoning, 0))
           second == Optional(f.content # <<>>, Text(f.content, 0, f.scores))
           Event(i) == ToolCall(f.calls[i].arguments, f.calls[i].index,
                                f.calls[i].id, f.calls[i].name)
           third == [i \in DOMAIN f.calls |-> Event(i)]
<1>1. Mid(first)
  BY Sounds, Mids
<1>2. Mid(second)
  BY Sounds, Mids
<1>3. Mid(third)
  <2>1. \A i : Sound(Event(i)) /\ Event(i).type # "end"
    BY Sounds
  <2> HIDE DEF Event
  <2>2. Len(f.calls) \in Nat /\ DOMAIN f.calls = 1..Len(f.calls)
    BY SeqLen
  <2>3. third = [i \in 1..Len(f.calls) |-> third[i]]
    BY <2>2
  <2>4. \A i \in DOMAIN third : Sound(third[i]) /\ third[i].type # "end"
    BY <2>1
  <2> HIDE DEF third
  <2>5. ASeq(third)
    BY <2>2, <2>3, Tabled
  <2> QED BY <2>4, <2>5 DEF Mid, Kin
<1>4. ChatRest(f) = first \o second \o third
  BY DEF ChatRest
<1> HIDE DEF first, second, third
<1>5. Mid(first \o second)
  BY <1>1, <1>2, Mids
<1> QED BY <1>3, <1>4, <1>5, Mids

(* A chat chunk before the closing gives no end. *)
LEMMA ChatPlainRead ==
  ASSUME NEW f, ChatPlain(f)
  PROVE  Mid(ChatEvents(f))
<1>1. ChatEvents(f) = ChatRest(f) \o <<>>
  BY DEF ChatEvents, ChatRest, ChatPlain, Optional
<1>2. Mid(ChatRest(f))
  BY ChatRestIsMid DEF ChatPlain
<1> QED BY <1>1, <1>2, Mids

(* The chat closing: the second of its frames tells the usage. *)
LEMMA ChatClosingRead ==
  ASSUME NEW a, a.usage # Null => a.usage \in Counters
  PROVE  /\ ASeq(ChatClosing(a)) /\ Len(ChatClosing(a)) = 3
         /\ \A k \in 1..3 : Kin(ChatEvents(ChatClosing(a)[k]))
         /\ a.usage # Null =>
              \E i \in DOMAIN ChatEvents(ChatClosing(a)[2]) :
                Telling(ChatEvents(ChatClosing(a)[2])[i])
<1> DEFINE f == [ChatChunk EXCEPT !.finish = a.finish]
           g == [ChatChunk EXCEPT !.usage = a.usage]
           d == [type |-> "done"]
           u == UsageFromChat(a.usage, FALSE)
<1>1. /\ f.type = "chunk" /\ f.content = <<>> /\ f.calls = <<>> /\ f.usage = Null
      /\ f.finish = a.finish
      /\ g.type = "chunk" /\ g.content = <<>> /\ g.calls = <<>> /\ g.usage = a.usage
      /\ g.finish = Null
      /\ d.type = "done"
  BY DEF ChatChunk
<1>2. ChatClosing(a) = <<f, g, d>>
  BY DEF ChatClosing
<1> HIDE DEF f, g, d, u
<1>3. /\ ASeq(ChatClosing(a)) /\ Len(ChatClosing(a)) = 3
      /\ ChatClosing(a)[1] = f /\ ChatClosing(a)[2] = g /\ ChatClosing(a)[3] = d
  BY <1>2 DEF ASeq
<1>4. Mid(ChatRest(f)) /\ Mid(ChatRest(g))
  BY <1>1, Short, ChatRestIsMid
<1>5. Kin(ChatEvents(f))
  <2>1. ChatEvents(f) = ChatRest(f) \o (IF f.finish # Null
                                        THEN <<End(ChatFinish(f.finish), Null, "finish")>>
                                        ELSE <<>>)
    BY <1>1 DEF ChatEvents, ChatRest, Optional
  <2>2. Kin(<<End(ChatFinish(f.finish), Null, "finish")>>)
    BY Sounds, Mids
  <2>3. Kin(ChatRest(f))
    BY <1>4 DEF Mid
  <2> QED BY <2>1, <2>2, <2>3, Mids
<1>6. /\ Kin(ChatEvents(g))
      /\ a.usage # Null =>
           \E i \in DOMAIN ChatEvents(g) : Telling(ChatEvents(g)[i])
  <2> DEFINE e == End(Null, u, "usage")
             one == <<e>>
  <2>1. ChatEvents(g) = ChatRest(g) \o (IF a.usage # Null THEN one ELSE <<>>)
    BY <1>1 DEF ChatEvents, ChatRest, Optional, u
  <2>2. Sound(e) /\ (u # Null => Telling(e))
    BY Sounds
  <2>3. Kin(one) /\ one[1] = e /\ 1 \in DOMAIN one
    BY <2>2, Mids
  <2>4. Kin(ChatRest(g))
    BY <1>4 DEF Mid
  <2>5. Kin(ChatEvents(g))
    BY <2>1, <2>3, <2>4, Mids
  <2>6. ASSUME a.usage # Null
        PROVE  \E i \in DOMAIN ChatEvents(g) : Telling(ChatEvents(g)[i])
    <3>1. u # Null
      <4> DEFINE w == [a.usage EXCEPT !.output = a.usage.output]
      <4>1. u = SettleUsage(w)
        BY DEF u, UsageFromChat
      <4>2. w \in Counters
        BY <2>6 DEF Counters
      <4> HIDE DEF w
      <4> QED BY <4>1, <4>2, UsageIsSome
    <3>2. Telling(e)
      BY <2>2, <3>1
    <3> HIDE DEF e, one
    <3>3. PICK all : Joins(all, ChatRest(g), one)
      BY DEF Joins
    <3>4. \E i \in DOMAIN all : all[i] = one[1]
      <4>1. ASeq(ChatRest(g)) /\ ASeq(one)
        BY <2>3, <2>4 DEF Kin
      <4>2. \A j \in DOMAIN one : \E i \in DOMAIN all : all[i] = one[j]
        BY <3>3, <4>1, Joining
      <4> QED BY <2>3, <4>2
    <3> QED BY <2>1, <2>3, <2>6, <3>2, <3>3, <3>4 DEF Joins
  <2> QED BY <2>5, <2>6
<1>7. Kin(ChatEvents(d))
  <2>1. ChatEvents(d) = <<End(Null, Null, Null)>>
    BY <1>1 DEF ChatEvents
  <2> QED BY <2>1, Sounds, Mids
<1> QED BY <1>3, <1>5, <1>6, <1>7

(* Anthropic, the Responses wire, Gemini. *)
AnthropicPlain(f) ==
  /\ f.type \in {"message_start", "content_block_start", "text_delta", "thinking_delta",
                 "input_json_delta", "other", "citations_delta", "signature_delta",
                 "content_block_stop"}
  /\ f.type = "text_delta" => ASeq(f.text)

ResponsesPlain(f) ==
  /\ f.type \in {"created", "item_added", "text_delta", "arguments_delta",
                 "summary_delta", "annotation_added", "item_done"}
  /\ f.type \in {"text_delta", "arguments_delta", "summary_delta"} => ASeq(f.text)
  /\ f.type = "summary_delta" => f.part \in Nat
  /\ f.type = "item_done" => ASeq(f.item.final)

GeminiPlain(f) ==
  /\ DOMAIN f = {"type", "parts", "finish", "usage"}
  /\ ASeq(f.parts) /\ \A k \in DOMAIN f.parts : ASeq(f.parts[k].text)
  /\ f.finish = Null /\ f.usage = Null

Plain(d, f) ==
  /\ d = "chat" => ChatPlain(f)
  /\ d = "anthropic" => AnthropicPlain(f)
  /\ d = "responses" => ResponsesPlain(f)
  /\ d = "gemini" => GeminiPlain(f)

Track(d, s) == ASeq(s) /\ \A i \in DOMAIN s : Plain(d, s[i])

(* Rows of frames that are not of the closing. *)
LEMMA Tracks ==
  ASSUME NEW d
  PROVE  /\ Track(d, <<>>)
         /\ \A e : Plain(d, e) => Track(d, <<e>>)
         /\ \A e, c : Plain(d, e) \/ ~c => Track(d, Optional(c, e))
         /\ \A s, t : Track(d, s) /\ Track(d, t) => Track(d, s \o t)
<1>1. Track(d, <<>>)
  BY Short, ShortDeltas DEF Track
<1>2. ASSUME NEW e, Plain(d, e) PROVE Track(d, <<e>>)
  <2> DEFINE s == <<e>>
  <2>1. ASeq(s) /\ DOMAIN s = 1..1 /\ s[1] = e
    BY Short
  <2> HIDE DEF s
  <2>2. \A i \in DOMAIN s : s[i] = e
    BY <2>1
  <2> QED BY <1>2, <2>1, <2>2 DEF Track, s
<1>3. ASSUME NEW e, NEW c, Plain(d, e) \/ ~c PROVE Track(d, Optional(c, e))
  BY <1>1, <1>2, <1>3 DEF Optional
<1>4. ASSUME NEW s, NEW t, Track(d, s), Track(d, t) PROVE Track(d, s \o t)
  <2>0. PICK u : Joins(u, s, t)
    BY DEF Joins
  <2>1. /\ ASeq(u)
        /\ \A i \in DOMAIN u : \/ \E j \in DOMAIN s : u[i] = s[j]
                               \/ \E j \in DOMAIN t : u[i] = t[j]
    <3>1. ASeq(s) /\ ASeq(t)
      BY <1>4 DEF Track
    <3> QED BY <2>0, <3>1, Joining
  <2> QED BY <1>4, <2>0, <2>1 DEF Track, Joins
<1> QED BY <1>1, <1>2, <1>3, <1>4

(* A frame for each element of a sequence. *)
LEMMA TrackOfEach ==
  ASSUME NEW d, NEW n \in Nat, NEW s, s = [k \in 1..n |-> s[k]],
         \A k \in 1..n : Plain(d, s[k])
  PROVE  Track(d, s) /\ Len(s) = n
<1>1. DOMAIN s = 1..n
  OBVIOUS
<1> QED BY <1>1, Tabled DEF Track

(* What the assumption says of an item of an answer. *)
LEMMA ItemIs ==
  ASSUME NEW a \in Answers, NEW i \in DOMAIN a.items, NEW item, item = a.items[i]
  PROVE  /\ item.kind \in KindsOf(a.dialect)
         /\ DOMAIN item = {"kind", "tokens", "id", "name", "state", "sources", "sent",
                           "size", "exact", "part", "final"}
         /\ ASeq(item.tokens) /\ Len(item.tokens) \in Nat
         /\ DOMAIN item.tokens = 1..Len(item.tokens)
         /\ \A k \in DOMAIN item.tokens : ASeq(item.tokens[k])
         /\ ASeq(item.final)
         /\ ASeq(item.sources) /\ Len(item.sources) \in Nat
         /\ DOMAIN item.sources = 1..Len(item.sources)
         /\ a.dialect = "responses" => Fragmented(item)
<1>1. item \in ToSet(a.items)
  BY DEF ToSet
<1>2. /\ DOMAIN item = {"kind", "tokens", "id", "name", "state", "sources", "sent",
                        "size", "exact", "part", "final"}
      /\ item.kind \in KindsOf(a.dialect)
      /\ item.tokens \in Seq(Seq(STRING)) /\ item.final \in Seq(STRING)
      /\ item.sources \in Seq(ToSet(item.sources))
      /\ a.dialect = "responses" => Fragmented(item)
  BY <1>1, AnswersAssumption
<1>3. \A k \in DOMAIN item.tokens : item.tokens[k] \in Seq(STRING)
  BY <1>2, StringsAre
<1> QED BY <1>2, <1>3, StringsAre

(* And of the answer's items together. *)
LEMMA ItemsAre ==
  ASSUME NEW a \in Answers
  PROVE  /\ ASeq(a.items) /\ Len(a.items) \in Nat
         /\ DOMAIN a.items = 1..Len(a.items)
         /\ a.dialect \in {"chat", "anthropic", "responses", "gemini"}
BY AnswersAssumption, StringsAre

(* The chat frames of an item. *)
LEMMA ChatTrack ==
  ASSUME NEW a \in Answers, a.dialect = "chat", NEW i \in DOMAIN a.items
  PROVE  Track("chat", ChatFramesOf(a, i))
<1> DEFINE item == a.items[i]
           call(id, name, arguments) ==
             [ChatChunk EXCEPT !.calls = <<[index |-> CallIndex(a, i), id |-> id,
                                            name |-> name, arguments |-> arguments]>>]
           chunk(token) ==
             CASE item.kind = "thinking" -> [ChatChunk EXCEPT !.reasoning = token]
               [] item.kind = "text" ->
                    [ChatChunk EXCEPT !.content = token, !.scores = <<token>>]
               [] item.kind = "refusal" -> [ChatChunk EXCEPT !.refusal = token]
               [] item.kind = "tool_call" -> call(Null, Null, token)
           tokens == [k \in DOMAIN item.tokens |-> chunk(item.tokens[k])]
           n == Len(item.tokens)
<1>1. PICK it : it = item
  OBVIOUS
<1>2. /\ it.kind \in {"thinking", "text", "refusal", "tool_call"}
      /\ n \in Nat /\ DOMAIN item.tokens = 1..n
      /\ \A k \in 1..n : ASeq(item.tokens[k])
  <2>1. /\ it.kind \in KindsOf(a.dialect)
        /\ Len(it.tokens) \in Nat /\ DOMAIN it.tokens = 1..Len(it.tokens)
        /\ \A k \in DOMAIN it.tokens : ASeq(it.tokens[k])
    BY <1>1, ItemIs
  <2> QED BY <1>1, <2>1 DEF KindsOf
<1>3. ChatFramesOf(a, i)
        = IF item.kind = "tool_call" THEN <<call(item.id, item.name, <<>>)>> \o tokens
          ELSE tokens
  BY DEF ChatFramesOf
<1>4. ASSUME NEW id, NEW name, NEW arguments PROVE Plain("chat", call(id, name, arguments))
  <2> DEFINE c == <<[index |-> CallIndex(a, i), id |-> id, name |-> name,
                     arguments |-> arguments]>>
  <2>1. ASeq(c)
    BY Short
  <2> HIDE DEF c
  <2>2. ChatPlain([ChatChunk EXCEPT !.calls = c])
    BY <2>1, Short DEF ChatPlain, ChatChunk
  <2> QED BY <2>2 DEF Plain, c
<1>5. ASSUME NEW token, ASeq(token) PROVE Plain("chat", chunk(token))
  <2>1. CASE item.kind = "thinking"
    <3>1. chunk(token) = [ChatChunk EXCEPT !.reasoning = token]
      BY <2>1
    <3> HIDE DEF chunk
    <3> QED BY <3>1, Short DEF ChatPlain, ChatChunk, Plain
  <2>2. CASE item.kind = "text"
    <3>1. chunk(token) = [ChatChunk EXCEPT !.content = token, !.scores = <<token>>]
      BY <2>2
    <3> HIDE DEF chunk
    <3> QED BY <1>5, <3>1, Short DEF ChatPlain, ChatChunk, Plain
  <2>3. CASE item.kind = "refusal"
    <3>1. chunk(token) = [ChatChunk EXCEPT !.refusal = token]
      BY <2>3
    <3> HIDE DEF chunk
    <3> QED BY <3>1, Short DEF ChatPlain, ChatChunk, Plain
  <2>4. CASE item.kind = "tool_call"
    <3> HIDE DEF call
    <3>1. chunk(token) = call(Null, Null, token)
      BY <2>4
    <3> HIDE DEF chunk
    <3> QED BY <3>1, <1>4
  <2> QED BY <1>1, <1>2, <2>1, <2>2, <2>3, <2>4
<1> HIDE DEF call, chunk
<1>6. Track("chat", tokens)
  <2>1. tokens = [k \in 1..n |-> tokens[k]] /\ \A k \in 1..n : tokens[k] = chunk(item.tokens[k])
    BY <1>2
  <2> HIDE DEF tokens
  <2>2. \A k \in 1..n : Plain("chat", tokens[k])
    BY <1>2, <1>5, <2>1
  <2> HIDE DEF n
  <2> QED BY <1>2, <2>1, <2>2, TrackOfEach
<1>7. Track("chat", <<call(item.id, item.name, <<>>)>>)
  BY <1>4, Tracks
<1> HIDE DEF tokens
<1> QED BY <1>3, <1>6, <1>7, Tracks

(* The Anthropic frames of an item. *)
LEMMA AnthropicTrack ==
  ASSUME NEW a \in Answers, a.dialect = "anthropic", NEW i \in DOMAIN a.items
  PROVE  Track("anthropic", AnthropicFramesOf(a, i))
<1> DEFINE item == a.items[i]
           kind == CASE item.kind = "text" -> "text_delta"
                     [] item.kind = "thinking" -> "thinking_delta"
                     [] item.kind = "tool_call" -> "input_json_delta"
                     [] item.kind \in {"redacted", "server_tool"} -> "other"
           delta(token) == [type |-> kind, index |-> i - 1, text |-> token]
           cite(source) == [type |-> "citations_delta", index |-> i - 1, source |-> source]
           signed == item.kind = "thinking" /\ item.state # Null
           first == [type |-> "content_block_start", index |-> i - 1, block |-> item]
           sign == [type |-> "signature_delta", index |-> i - 1, state |-> item.state]
           last == [type |-> "content_block_stop", index |-> i - 1]
           tokens == [k \in DOMAIN item.tokens |-> delta(item.tokens[k])]
           sources == [k \in DOMAIN item.sources |-> cite(item.sources[k])]
           n == Len(item.tokens)
           m == Len(item.sources)
<1>1. PICK it : it = item
  OBVIOUS
<1>2. /\ it.kind \in {"thinking", "text", "tool_call", "redacted", "server_tool"}
      /\ n \in Nat /\ DOMAIN item.tokens = 1..n
      /\ m \in Nat /\ DOMAIN item.sources = 1..m
      /\ \A k \in 1..n : ASeq(item.tokens[k])
  <2>1. /\ it.kind \in KindsOf(a.dialect)
        /\ Len(it.tokens) \in Nat /\ DOMAIN it.tokens = 1..Len(it.tokens)
        /\ Len(it.sources) \in Nat /\ DOMAIN it.sources = 1..Len(it.sources)
        /\ \A k \in DOMAIN it.tokens : ASeq(it.tokens[k])
    BY <1>1, ItemIs
  <2> QED BY <1>1, <2>1 DEF KindsOf
<1>3. AnthropicFramesOf(a, i)
        = <<first>> \o tokens \o sources \o Optional(signed, sign) \o <<last>>
  BY DEF AnthropicFramesOf
<1>4. kind \in {"text_delta", "thinking_delta", "input_json_delta", "other"}
  <2>1. item.kind \in {"thinking", "text", "tool_call", "redacted", "server_tool"}
    BY <1>1, <1>2
  <2> HIDE DEF item
  <2> QED BY <2>1
<1> HIDE DEF kind
<1>5. ASSUME NEW token, ASeq(token) PROVE Plain("anthropic", delta(token))
  BY <1>4, <1>5 DEF Plain, AnthropicPlain
<1>6. ASSUME NEW source PROVE Plain("anthropic", cite(source))
  BY DEF Plain, AnthropicPlain
<1>7. Plain("anthropic", first) /\ Plain("anthropic", sign) /\ Plain("anthropic", last)
  BY DEF Plain, AnthropicPlain
<1> HIDE DEF delta, cite, signed, first, sign, last
<1>8. Track("anthropic", tokens)
  <2>1. tokens = [k \in 1..n |-> tokens[k]] /\ \A k \in 1..n : tokens[k] = delta(item.tokens[k])
    BY <1>2
  <2> HIDE DEF tokens
  <2>2. \A k \in 1..n : Plain("anthropic", tokens[k])
    BY <1>2, <1>5, <2>1
  <2> HIDE DEF n
  <2> QED BY <1>2, <2>1, <2>2, TrackOfEach
<1>9. Track("anthropic", sources)
  <2>1. sources = [k \in 1..m |-> sources[k]] /\ \A k \in 1..m : sources[k] = cite(item.sources[k])
    BY <1>2
  <2> HIDE DEF sources
  <2>2. \A k \in 1..m : Plain("anthropic", sources[k])
    BY <1>2, <1>6, <2>1
  <2> HIDE DEF m
  <2> QED BY <1>2, <2>1, <2>2, TrackOfEach
<1> DEFINE some == Optional(signed, sign)
           one == <<first>>
           end == <<last>>
<1>10. Track("anthropic", one) /\ Track("anthropic", end) /\ Track("anthropic", some)
  BY <1>7, Tracks
<1> HIDE DEF tokens, sources, some, one, end
<1>11. Track("anthropic", one \o tokens)
  BY <1>8, <1>10, Tracks
<1>12. Track("anthropic", one \o tokens \o sources)
  BY <1>9, <1>11, Tracks
<1>13. Track("anthropic", one \o tokens \o sources \o some)
  BY <1>10, <1>12, Tracks
<1>14. Track("anthropic", one \o tokens \o sources \o some \o end)
  BY <1>10, <1>13, Tracks
<1> QED BY <1>3, <1>14 DEF some, one, end

(* An Anthropic frame before the closing gives no end. *)
LEMMA AnthropicPlainRead ==
  ASSUME NEW f, AnthropicPlain(f)
  PROVE  Mid(AnthropicEvents(f))
<1> DEFINE at == f.index
<1>1. CASE f.type = "message_start"
  <2>1. AnthropicEvents(f) = <<Start(f.model)>>
    BY <1>1 DEF AnthropicEvents
  <2> QED BY <2>1, Sounds, Mids
<1>2. CASE f.type = "content_block_start"
  <2>1. CASE f.block.kind = "tool_call"
    <3>1. AnthropicEvents(f) = <<ToolCall(<<>>, at, f.block.id, f.block.name)>>
      BY <1>2, <2>1 DEF AnthropicEvents
    <3> QED BY <3>1, Sounds, Mids
  <2>2. CASE f.block.kind = "redacted" /\ f.block.state # Null
    <3> DEFINE e == Thinking(<<>>, at)
               g == Continuation(f.block.state, at)
    <3>1. AnthropicEvents(f) = <<e, g>>
      BY <1>2, <2>2 DEF AnthropicEvents
    <3>2. Sound(e) /\ Sound(g) /\ e.type # "end" /\ g.type # "end"
      BY Sounds
    <3> HIDE DEF e, g
    <3> DEFINE s == <<e, g>>
    <3>3. ASeq(s) /\ DOMAIN s = 1..2 /\ s[1] = e /\ s[2] = g
      BY DEF ASeq
    <3> HIDE DEF s
    <3>4. \A i \in DOMAIN s : i = 1 \/ i = 2
      BY <3>3
    <3>5. Mid(s)
      BY <3>2, <3>3, <3>4 DEF Mid, Kin
    <3> QED BY <3>1, <3>5 DEF s
  <2>3. CASE f.block.kind # "tool_call" /\ ~(f.block.kind = "redacted" /\ f.block.state # Null)
    <3>1. AnthropicEvents(f) = <<>>
      BY <1>2, <2>3 DEF AnthropicEvents
    <3> QED BY <3>1, Mids
  <2> QED BY <2>1, <2>2, <2>3
<1>3. CASE f.type = "text_delta"
  <2>1. AnthropicEvents(f) = <<Text(f.text, at, <<>>)>> /\ ASeq(f.text)
    BY <1>3 DEF AnthropicEvents, AnthropicPlain
  <2> QED BY <2>1, Sounds, Mids
<1>4. CASE f.type = "thinking_delta"
  <2>1. AnthropicEvents(f) = <<Thinking(f.text, at)>>
    BY <1>4 DEF AnthropicEvents
  <2> QED BY <2>1, Sounds, Mids
<1>5. CASE f.type = "input_json_delta"
  <2>1. AnthropicEvents(f) = <<ToolCall(f.text, at, Null, Null)>>
    BY <1>5 DEF AnthropicEvents
  <2> QED BY <2>1, Sounds, Mids
<1>6. CASE f.type = "citations_delta"
  <2>1. AnthropicEvents(f) = <<Citation(f.source, at)>>
    BY <1>6 DEF AnthropicEvents
  <2> QED BY <2>1, Sounds, Mids
<1>7. CASE f.type = "signature_delta"
  <2>1. AnthropicEvents(f) = <<Continuation(f.state, at)>>
    BY <1>7 DEF AnthropicEvents
  <2> QED BY <2>1, Sounds, Mids
<1>8. CASE f.type \in {"other", "content_block_stop"}
  <2>1. AnthropicEvents(f) = <<>>
    BY <1>8 DEF AnthropicEvents
  <2> QED BY <2>1, Mids
<1> QED BY <1>1, <1>2, <1>3, <1>4, <1>5, <1>6, <1>7, <1>8 DEF AnthropicPlain

(* A row of one event that tells the usage tells it. *)
LEMMA OneTells ==
  ASSUME NEW e, Telling(e)
  PROVE  \E i \in DOMAIN <<e>> : Telling(<<e>>[i])
<1>1. 1 \in DOMAIN <<e>> /\ <<e>>[1] = e
  OBVIOUS
<1> QED BY <1>1

(* The Anthropic closing: its first frame tells the usage. *)
LEMMA AnthropicClosingRead ==
  ASSUME NEW a, a.usage # Null => a.usage \in Counters
  PROVE  /\ ASeq(AnthropicClosing(a)) /\ Len(AnthropicClosing(a)) = 2
         /\ \A k \in 1..2 : Kin(AnthropicEvents(AnthropicClosing(a)[k]))
         /\ a.usage # Null =>
              \E i \in DOMAIN AnthropicEvents(AnthropicClosing(a)[1]) :
                Telling(AnthropicEvents(AnthropicClosing(a)[1])[i])
<1> DEFINE f == [type |-> "message_delta", index |-> 0, finish |-> a.finish, usage |-> a.usage]
           g == [type |-> "message_stop", index |-> 0]
           e == End(IF a.finish = Null THEN Null ELSE AnthropicFinish(a.finish),
                    UsageOfMessage(a.usage), "usage")
<1>1. /\ ASeq(AnthropicClosing(a)) /\ Len(AnthropicClosing(a)) = 2
      /\ AnthropicClosing(a)[1] = f /\ AnthropicClosing(a)[2] = g
  <2>1. AnthropicClosing(a) = <<f, g>>
    BY DEF AnthropicClosing
  <2> HIDE DEF f, g
  <2> QED BY <2>1 DEF ASeq
<1>2. Kin(AnthropicEvents(g))
  <2>1. AnthropicEvents(g) = <<End(Null, Null, Null)>>
    BY DEF AnthropicEvents
  <2> QED BY <2>1, Sounds, Mids
<1>3. AnthropicEvents(f) = IF a.finish # Null \/ a.usage # Null THEN <<e>> ELSE <<>>
  BY DEF AnthropicEvents
<1>4. Sound(e) /\ (UsageOfMessage(a.usage) # Null => Telling(e))
  BY Sounds
<1>5. ASSUME a.usage # Null PROVE UsageOfMessage(a.usage) # Null
  <2> DEFINE w == a.usage
             u == [Unreported EXCEPT
                     !.input = WireSum(w.input, w.cacheRead, w.cacheWrite),
                     !.output = w.output, !.total = w.total, !.cacheRead = w.cacheRead,
                     !.cacheWrite = w.cacheWrite, !.reasoning = w.reasoning]
  <2>1. UsageOfMessage(a.usage) = SettleUsage(u)
    BY <1>5 DEF UsageOfMessage, UsageFromAnthropic
  <2>2. u \in Counters
    <3>1. /\ w.input \in Count /\ w.output \in Count /\ w.total \in Count
          /\ w.cacheRead \in Count /\ w.cacheWrite \in Count /\ w.reasoning \in Count
      BY <1>5 DEF Counters
    <3>2. WireSum(w.input, w.cacheRead, w.cacheWrite) \in Count
      <4> HIDE DEF w
      <4> QED BY <3>1 DEF WireSum, Count
    <3>3. Null \in Count
      BY DEF Count
    <3> HIDE DEF w
    <3> QED BY <3>1, <3>2, <3>3 DEF Unreported, Counters
  <2> HIDE DEF u
  <2> QED BY <2>1, <2>2, UsageIsSome
<1> HIDE DEF e, f, g
<1>6. Kin(AnthropicEvents(f))
  BY <1>3, <1>4, Mids
<1>7. a.usage # Null => \E i \in DOMAIN AnthropicEvents(f) : Telling(AnthropicEvents(f)[i])
  BY <1>3, <1>4, <1>5, OneTells
<1> QED BY <1>1, <1>2, <1>6, <1>7

(* The Gemini chunks of an item. *)
LEMMA GeminiTrack ==
  ASSUME NEW a \in Answers, a.dialect = "gemini", NEW i \in DOMAIN a.items
  PROVE  Track("gemini", GeminiFramesOf(a, i))
<1> DEFINE item == a.items[i]
           piece(k) == [GeminiPart(item, item.tokens[k]) EXCEPT
                          !.state = IF k = Len(item.tokens) THEN item.state ELSE Null]
           entire == [GeminiPart(item, TextOf(item)) EXCEPT !.state = item.state]
           chunk(part) == [GeminiChunk EXCEPT !.parts = <<part>>]
           pieces == [k \in DOMAIN item.tokens |-> chunk(piece(k))]
           n == Len(item.tokens)
<1>1. PICK it : it = item
  OBVIOUS
<1>2. /\ ASeq(item.tokens) /\ n \in Nat /\ DOMAIN item.tokens = 1..n
      /\ \A k \in 1..n : ASeq(item.tokens[k])
  <2>1. /\ ASeq(it.tokens) /\ Len(it.tokens) \in Nat /\ DOMAIN it.tokens = 1..Len(it.tokens)
        /\ \A k \in DOMAIN it.tokens : ASeq(it.tokens[k])
    BY <1>1, ItemIs
  <2> QED BY <1>1, <2>1
<1>3. GeminiFramesOf(a, i) = IF item.kind \in {"text", "thinking"} THEN pieces
                             ELSE <<chunk(entire)>>
  BY DEF GeminiFramesOf
<1>4. \A k \in 1..n : piece(k).text = item.tokens[k]
  BY DEF GeminiPart
<1>5. entire.text = TextOf(item)
  BY DEF GeminiPart
<1>6. ASeq(TextOf(item))
  <2>1. Cuts!ASeq(item.tokens) /\ \A k \in DOMAIN item.tokens : Cuts!ASeq(item.tokens[k])
    BY <1>2, OneNotion
  <2> DEFINE tokens == item.tokens
  <2>2. TextOf(item) = Cuts!FlattenSeq(tokens)
    BY FlattenIs DEF TextOf
  <2>3. Cuts!ASeq(tokens) /\ \A k \in DOMAIN tokens : Cuts!ASeq(tokens[k])
    BY <2>1
  <2> HIDE DEF tokens
  <2>4. Cuts!ASeq(Cuts!FlattenSeq(tokens))
    BY <2>3, Cuts!Flattened
  <2> QED BY <2>2, <2>4, OneNotion
<1> HIDE DEF piece, entire
<1>7. ASSUME NEW part, ASeq(part.text) PROVE Plain("gemini", chunk(part))
  <2> DEFINE parts == <<part>>
  <2>1. ASeq(parts) /\ DOMAIN parts = 1..1 /\ parts[1] = part
    BY Short
  <2> HIDE DEF parts
  <2>2. \A k \in DOMAIN parts : ASeq(parts[k].text)
    BY <1>7, <2>1
  <2>3. GeminiPlain([GeminiChunk EXCEPT !.parts = parts])
    BY <2>1, <2>2 DEF GeminiPlain, GeminiChunk
  <2> QED BY <2>3 DEF Plain, parts
<1> HIDE DEF chunk
<1>8. Track("gemini", pieces)
  <2>1. pieces = [k \in 1..n |-> pieces[k]] /\ \A k \in 1..n : pieces[k] = chunk(piece(k))
    BY <1>2
  <2> HIDE DEF pieces
  <2>2. \A k \in 1..n : Plain("gemini", pieces[k])
    BY <1>2, <1>4, <1>7, <2>1
  <2> HIDE DEF n
  <2> QED BY <1>2, <2>1, <2>2, TrackOfEach
<1>9. Track("gemini", <<chunk(entire)>>)
  BY <1>5, <1>6, <1>7, Tracks
<1> HIDE DEF pieces
<1> QED BY <1>3, <1>8, <1>9

(* Two chunks in one are a chunk. *)
LEMMA JoinedIsPlain ==
  ASSUME NEW f, NEW g, GeminiPlain(f), GeminiPlain(g)
  PROVE  GeminiPlain(GeminiJoined(f, g))
<1>1. PICK u : Joins(u, f.parts, g.parts)
  BY DEF Joins
<1>2. /\ ASeq(u)
      /\ \A i \in DOMAIN u : \/ \E j \in DOMAIN f.parts : u[i] = f.parts[j]
                             \/ \E j \in DOMAIN g.parts : u[i] = g.parts[j]
  BY <1>1, Joining DEF GeminiPlain
<1>3. GeminiJoined(f, g) = [f EXCEPT !.parts = u]
  BY <1>1 DEF GeminiJoined, Joins
<1>4. \A k \in DOMAIN u : ASeq(u[k].text)
  BY <1>2 DEF GeminiPlain
<1> QED BY <1>2, <1>3, <1>4 DEF GeminiPlain

(* A Gemini part gives deltas only, or an error. *)
LEMMA EventsOfPartAre ==
  ASSUME NEW part, ASeq(part.text), NEW k
  PROVE  Mid(EventsOfPart(part, k))
<1> DEFINE signed == Optional(part.state # Null, Continuation(part.state, k - 1))
<1>1. Mid(signed)
  BY Sounds, Mids
<1>2. EventsOfPart(part, k)
        = CASE part.kind = "thinking" -> <<Thinking(part.text, k - 1)>> \o signed
            [] part.kind = "text" -> <<Text(part.text, k - 1, <<>>)>> \o signed
            [] part.kind = "tool_call" ->
                 <<ToolCall(part.text, k - 1, part.id, part.name)>> \o signed
            [] part.kind \in {"image", "audio"} -> <<Media(part.kind, part.text, k - 1)>>
            [] OTHER -> <<>>
  BY DEF EventsOfPart
<1> HIDE DEF signed
<1>3. CASE part.kind = "thinking"
  <2>1. EventsOfPart(part, k) = <<Thinking(part.text, k - 1)>> \o signed
    BY <1>2, <1>3
  <2>2. Mid(<<Thinking(part.text, k - 1)>>)
    BY Sounds, Mids
  <2> QED BY <1>1, <2>1, <2>2, Mids
<1>4. CASE part.kind = "text"
  <2>1. EventsOfPart(part, k) = <<Text(part.text, k - 1, <<>>)>> \o signed
    BY <1>2, <1>4
  <2>2. Mid(<<Text(part.text, k - 1, <<>>)>>)
    BY Sounds, Mids
  <2> QED BY <1>1, <2>1, <2>2, Mids
<1>5. CASE part.kind = "tool_call"
  <2>1. EventsOfPart(part, k) = <<ToolCall(part.text, k - 1, part.id, part.name)>> \o signed
    BY <1>2, <1>5
  <2>2. Mid(<<ToolCall(part.text, k - 1, part.id, part.name)>>)
    BY Sounds, Mids
  <2> QED BY <1>1, <2>1, <2>2, Mids
<1>6. CASE part.kind = "image"
  <2>1. EventsOfPart(part, k) = <<Media("image", part.text, k - 1)>>
    BY <1>2, <1>6
  <2> QED BY <2>1, Sounds, Mids
<1>7. CASE part.kind = "audio"
  <2>1. EventsOfPart(part, k) = <<Media("audio", part.text, k - 1)>>
    BY <1>2, <1>7
  <2> QED BY <2>1, Sounds, Mids
<1>8. CASE part.kind \notin {"thinking", "text", "tool_call", "image", "audio"}
  <2>1. EventsOfPart(part, k) = <<>>
    BY <1>2, <1>8
  <2> QED BY <2>1, Mids
<1> QED BY <1>3, <1>4, <1>5, <1>6, <1>7, <1>8

(* Scores added to a row of events leave them what they are. *)
LEMMA ScoredIsMid ==
  ASSUME NEW events, Mid(events), NEW scores
  PROVE  Mid(Scored(events, scores))
<1> DEFINE texts == {i \in DOMAIN events : events[i].type = "text"}
           x == Min(texts)
           more == [events EXCEPT ![x].scores = scores]
           n == Len(events)
<1>1. Scored(events, scores) = IF texts = {} THEN events ELSE more
  BY DEF Scored
<1> HIDE DEF x
<1>2. n \in Nat /\ DOMAIN events = 1..n /\ DOMAIN more = 1..n
  BY SeqLen DEF Mid, Kin
<1>3. \A i \in DOMAIN events :
        more[i] = IF i = x THEN [events[i] EXCEPT !.scores = scores] ELSE events[i]
  OBVIOUS
<1>4. more = [i \in 1..n |-> more[i]]
  BY <1>2
<1> HIDE DEF more, n
<1>5. ASeq(more)
  BY <1>2, <1>4, Tabled
<1>6. ASSUME NEW i \in DOMAIN more PROVE Sound(more[i]) /\ more[i].type # "end"
  <2>1. Sound(events[i]) /\ events[i].type # "end"
    BY <1>2 DEF Mid, Kin
  <2> DEFINE e == events[i]
             g == [e EXCEPT !.scores = scores]
  <2>2. Sound(e) /\ e.type # "end"
    BY <2>1
  <2>3. more[i] = g \/ more[i] = e
    BY <1>2, <1>3
  <2> HIDE DEF e
  <2>4. Sound(g) /\ g.type # "end"
    BY <2>2 DEF Sound
  <2> QED BY <2>2, <2>3, <2>4
<1> QED BY <1>1, <1>5, <1>6 DEF Mid, Kin

GeminiDeltas(f) == FlattenSeq([k \in DOMAIN f.parts |-> EventsOfPart(f.parts[k], k)])

(* The parts of a chunk give no end. *)
LEMMA GeminiDeltasAre ==
  ASSUME NEW f, ASeq(f.parts), \A k \in DOMAIN f.parts : ASeq(f.parts[k].text)
  PROVE  /\ Mid(GeminiDeltas(f))
         /\ f.parts = <<>> => GeminiDeltas(f) = <<>>
<1> DEFINE n == Len(f.parts)
           all == [k \in DOMAIN f.parts |-> EventsOfPart(f.parts[k], k)]
<1>1. n \in Nat /\ DOMAIN f.parts = 1..n /\ (n = 0 <=> f.parts = <<>>)
  BY SeqLen
<1>2. GeminiDeltas(f) = Cuts!FlattenSeq(all)
  BY FlattenIs DEF GeminiDeltas
<1>3. \A k \in DOMAIN f.parts : Mid(EventsOfPart(f.parts[k], k))
  BY EventsOfPartAre
<1>4. all = [k \in 1..n |-> all[k]] /\ DOMAIN all = 1..n /\ \A k \in DOMAIN all : Mid(all[k])
  BY <1>1, <1>3
<1> HIDE DEF all, n
<1>5. ASeq(all) /\ Len(all) = n
  BY <1>1, <1>4, Tabled
<1>6. Cuts!ASeq(all) /\ \A k \in DOMAIN all : Cuts!ASeq(all[k])
  BY <1>4, <1>5, OneNotion DEF Mid, Kin
<1> DEFINE flat == Cuts!FlattenSeq(all)
<1>7. /\ Cuts!ASeq(flat)
      /\ \A k \in DOMAIN flat : \E i \in DOMAIN all : \E j \in DOMAIN all[i] : flat[k] = all[i][j]
  BY <1>6, Cuts!Flattened
<1>8. f.parts = <<>> => flat = <<>>
  <2>1. f.parts = <<>> => all = <<>>
    BY <1>1, <1>5, SeqLen
  <2> QED BY <2>1, Cuts!FlattenOfNone
<1> HIDE DEF flat
<1>9. Mid(flat)
  <2>1. ASSUME NEW k \in DOMAIN flat PROVE Sound(flat[k]) /\ flat[k].type # "end"
    <3>1. PICK i \in DOMAIN all : \E j \in DOMAIN all[i] : flat[k] = all[i][j]
      BY <1>7
    <3> QED BY <1>4, <3>1 DEF Mid, Kin
  <2> QED BY <1>7, <2>1, OneNotion DEF Mid, Kin
<1> QED BY <1>2, <1>8, <1>9 DEF flat

(* What a chunk's finish and usage add to its parts' events. *)
LEMMA GeminiEventsAre ==
  ASSUME NEW f
  PROVE  GeminiEvents(f)
           = IF f.finish \in CandidateErrors THEN <<ErrorEvent>>
             ELSE Scored(GeminiDeltas(f), ScoresOfChunk(f))
                  \o (IF f.finish # Null
                      THEN <<End(GeminiFinish(f.finish,
                                   \E part \in ToSet(f.parts) : part.kind = "tool_call"),
                                 UsageOfMetadata(f.usage), "usage")>>
                      ELSE Optional(GeminiDeltas(f) = <<>> /\ f.usage # Null,
                                    End("stop", UsageOfMetadata(f.usage), "usage")))
BY DEF GeminiEvents, GeminiDeltas

(* A Gemini chunk without a finish gives no end. *)
LEMMA GeminiPlainRead ==
  ASSUME NEW f, GeminiPlain(f)
  PROVE  Mid(GeminiEvents(f))
<1>1. Mid(GeminiDeltas(f))
  BY GeminiDeltasAre DEF GeminiPlain
<1>2. Mid(<<ErrorEvent>>)
  BY Sounds, Mids
<1> DEFINE deltas == Scored(GeminiDeltas(f), ScoresOfChunk(f))
<1>3. Mid(deltas)
  BY <1>1, ScoredIsMid
<1> HIDE DEF deltas
<1>4. GeminiEvents(f) = IF f.finish \in CandidateErrors THEN <<ErrorEvent>> ELSE deltas \o <<>>
  <2>1. Optional(GeminiDeltas(f) = <<>> /\ f.usage # Null,
                 End("stop", UsageOfMetadata(f.usage), "usage")) = <<>>
    BY DEF Optional, GeminiPlain
  <2> QED BY <2>1, GeminiEventsAre DEF deltas, GeminiPlain
<1> QED BY <1>2, <1>3, <1>4, Mids

(* Gemini's usage metadata are counts. *)
LEMMA MetadataCounts ==
  ASSUME NEW w \in Metadata
  PROVE  GeminiUsage(w) # Null
<1> DEFINE u == [Unreported EXCEPT
                   !.input = Or0(w.prompt) + Or0(w.toolUse),
                   !.output = Or0(w.answer) + Or0(w.thoughts),
                   !.total = w.total, !.cacheRead = Or0(w.cached),
                   !.reasoning = Or0(w.thoughts),
                   !.inputAudio = w.inputAudio, !.outputAudio = w.outputAudio]
           input == Or0(w.prompt) + Or0(w.toolUse)
           output == Or0(w.answer) + Or0(w.thoughts)
<1>1. GeminiUsage(w) = SettleUsage(u)
  BY DEF GeminiUsage
<1>2. /\ w.prompt \in Count /\ w.toolUse \in Count /\ w.answer \in Count
      /\ w.thoughts \in Count /\ w.total \in Count /\ w.cached \in Count
      /\ w.inputAudio \in Count /\ w.outputAudio \in Count
  BY DEF Metadata
<1>3. /\ Or0(w.prompt) \in Nat /\ Or0(w.toolUse) \in Nat /\ Or0(w.answer) \in Nat
      /\ Or0(w.thoughts) \in Nat /\ Or0(w.cached) \in Nat
  BY <1>2, Or0Natural
<1>4. input \in Count /\ output \in Count /\ Or0(w.cached) \in Count /\ Or0(w.thoughts) \in Count
      /\ Null \in Count
  BY <1>3 DEF Count
<1>5. u = [Unreported EXCEPT !.input = input, !.output = output,
             !.total = w.total, !.cacheRead = Or0(w.cached), !.reasoning = Or0(w.thoughts),
             !.inputAudio = w.inputAudio, !.outputAudio = w.outputAudio]
  OBVIOUS
<1> HIDE DEF u, input, output
<1>6. u \in Counters
  BY <1>2, <1>4, <1>5 DEF Unreported, Counters
<1> QED BY <1>1, <1>6, UsageIsSome

(* The Gemini closing tells the usage, or is an error. *)
LEMMA GeminiClosingRead ==
  ASSUME NEW a, a.usage # Null => a.usage \in Metadata
  PROVE  /\ ASeq(GeminiClosing(a)) /\ Len(GeminiClosing(a)) = 1
         /\ Kin(GeminiEvents(GeminiClosing(a)[1]))
         /\ a.usage # Null =>
              \E i \in DOMAIN GeminiEvents(GeminiClosing(a)[1]) :
                \/ Telling(GeminiEvents(GeminiClosing(a)[1])[i])
                \/ GeminiEvents(GeminiClosing(a)[1])[i].type = "error"
<1> DEFINE f == [GeminiChunk EXCEPT !.finish = a.finish, !.usage = a.usage]
           e == End(GeminiFinish(f.finish, \E part \in ToSet(f.parts) : part.kind = "tool_call"),
                    UsageOfMetadata(f.usage), "usage")
           g == End("stop", UsageOfMetadata(f.usage), "usage")
<1>1. f.parts = <<>> /\ f.finish = a.finish /\ f.usage = a.usage
  BY DEF GeminiChunk
<1>2. ASeq(GeminiClosing(a)) /\ Len(GeminiClosing(a)) = 1 /\ GeminiClosing(a)[1] = f
  BY Short DEF GeminiClosing
<1> HIDE DEF f
<1>3. Mid(GeminiDeltas(f)) /\ GeminiDeltas(f) = <<>>
  <2>1. ASeq(f.parts) /\ \A k \in DOMAIN f.parts : ASeq(f.parts[k].text)
    BY <1>1, Short
  <2> QED BY <1>1, <2>1, GeminiDeltasAre
<1> DEFINE deltas == Scored(GeminiDeltas(f), ScoresOfChunk(f))
<1>4. Mid(deltas)
  BY <1>3, ScoredIsMid
<1>5. Sound(e) /\ Sound(g) /\ (UsageOfMetadata(f.usage) # Null => Telling(e) /\ Telling(g))
  BY Sounds
<1>6. a.usage # Null => UsageOfMetadata(f.usage) # Null
  BY <1>1, MetadataCounts DEF UsageOfMetadata
<1> HIDE DEF deltas, e, g
<1>7. GeminiEvents(f) = IF f.finish \in CandidateErrors THEN <<ErrorEvent>>
                        ELSE deltas \o (IF f.finish # Null THEN <<e>>
                                        ELSE IF a.usage # Null THEN <<g>> ELSE <<>>)
  BY <1>1, <1>3, GeminiEventsAre DEF Optional, deltas, e, g
<1>8. Kin(<<ErrorEvent>>) /\ Kin(<<e>>) /\ Kin(<<g>>) /\ Kin(<<>>) /\ Kin(deltas)
  BY <1>4, <1>5, Sounds, Mids DEF Mid
<1>9. ASSUME NEW h, Kin(<<h>>), Telling(h)
      PROVE  \E i \in DOMAIN (deltas \o <<h>>) : Telling((deltas \o <<h>>)[i])
  <2> DEFINE one == <<h>>
  <2>1. ASeq(one) /\ 1 \in DOMAIN one /\ one[1] = h
    BY Short
  <2> HIDE DEF one
  <2>2. PICK all : Joins(all, deltas, one)
    BY DEF Joins
  <2>3. \A j \in DOMAIN one : \E i \in DOMAIN all : all[i] = one[j]
    <3>1. ASeq(deltas)
      BY <1>8 DEF Kin
    <3> QED BY <2>1, <2>2, <3>1, Joining
  <2>4. \E i \in DOMAIN all : Telling(all[i])
    BY <1>9, <2>1, <2>3
  <2> QED BY <2>2, <2>4 DEF Joins, one
<1>10. Kin(GeminiEvents(f))
  BY <1>7, <1>8, Mids
<1>11. ASSUME a.usage # Null
       PROVE  \E i \in DOMAIN GeminiEvents(f) :
                Telling(GeminiEvents(f)[i]) \/ GeminiEvents(f)[i].type = "error"
  <2>1. CASE f.finish \in CandidateErrors
    <3>1. GeminiEvents(f) = <<ErrorEvent>>
      BY <1>7, <2>1
    <3>2. ErrorEvent.type = "error" /\ 1 \in DOMAIN <<ErrorEvent>> /\ <<ErrorEvent>>[1] = ErrorEvent
      BY DEF ErrorEvent
    <3> QED BY <3>1, <3>2
  <2>2. CASE f.finish \notin CandidateErrors
    <3>1. Telling(e) /\ Telling(g)
      BY <1>5, <1>6, <1>11
    <3>2. GeminiEvents(f) = deltas \o <<e>> \/ GeminiEvents(f) = deltas \o <<g>>
      BY <1>7, <1>11, <2>2
    <3> QED BY <1>8, <1>9, <3>1, <3>2
  <2> QED BY <2>1, <2>2
<1> QED BY <1>2, <1>10, <1>11

(* To place the parts changes neither what an event is nor what it says. *)
LEMMA GeminiFeedIs ==
  ASSUME NEW r, NEW f, Kin(GeminiEvents(f))
  PROVE  /\ DOMAIN GeminiFeed(r, f) = {"events", "reader"}
         /\ Kin(GeminiFeed(r, f).events)
         /\ DOMAIN GeminiFeed(r, f).events = DOMAIN GeminiEvents(f)
         /\ \A i \in DOMAIN GeminiEvents(f) :
              /\ GeminiFeed(r, f).events[i].type = GeminiEvents(f)[i].type
              /\ Telling(GeminiEvents(f)[i]) => Telling(GeminiFeed(r, f).events[i])
<1> DEFINE placed == Placed(r, f)
           moved(e) == IF IsDelta(e) THEN [e EXCEPT !.at = placed.slots[@ + 1]] ELSE e
           events == GeminiEvents(f)
           all == [i \in DOMAIN events |-> moved(events[i])]
           n == Len(events)
<1>1. GeminiFeed(r, f) = [events |-> all, reader |-> [last |-> placed.last, next |-> placed.next]]
  BY DEF GeminiFeed
<1>2. n \in Nat /\ DOMAIN events = 1..n
  BY SeqLen DEF Kin
<1>3. ASSUME NEW e, Sound(e)
      PROVE  /\ Sound(moved(e)) /\ moved(e).type = e.type
             /\ Telling(e) => Telling(moved(e))
  <2>1. CASE IsDelta(e)
    <3>1. PICK x : moved(e) = [e EXCEPT !.at = x]
      BY <2>1
    <3> HIDE DEF moved
    <3>2. Sound(moved(e)) /\ moved(e).type = e.type
      BY <1>3, <3>1, <2>1 DEF Sound, IsDelta
    <3> QED BY <2>1, <3>2 DEF Telling, IsDelta
  <2>2. CASE ~IsDelta(e)
    BY <1>3, <2>2
  <2> QED BY <2>1, <2>2
<1> HIDE DEF moved
<1>4. /\ all = [i \in 1..n |-> all[i]] /\ DOMAIN all = 1..n
      /\ \A i \in DOMAIN all : all[i] = moved(events[i])
  BY <1>2
<1> HIDE DEF all
<1>5. \A i \in DOMAIN all : /\ Sound(all[i]) /\ all[i].type = events[i].type
                            /\ Telling(events[i]) => Telling(all[i])
  BY <1>2, <1>3, <1>4 DEF Kin
<1>6. ASeq(all)
  BY <1>2, <1>4, Tabled
<1> HIDE DEF n
<1> QED BY <1>1, <1>2, <1>4, <1>5, <1>6 DEF Kin

-----------------------------------------------------------------------------
(* The Responses reader keeps what it saw of each item. *)
Puts(p, f, key, v) == p = Put(f, key, v)

PutAt(p, f, key, v) ==
  /\ DOMAIN p = DOMAIN f \cup {key} /\ p[key] = v
  /\ \A d : At(p, key, d) = v
  /\ \A j : j # key => \A d : At(p, j, d) = At(f, j, d)
  /\ \A k \in DOMAIN p : k # key => p[k] = f[k]

(* A function with one key put. *)
LEMMA PutIs ==
  ASSUME NEW p, NEW f, NEW key, NEW v, Puts(p, f, key, v)
  PROVE  PutAt(p, f, key, v)
BY DEF Puts, Put, At, PutAt

Greater(m, n) == Max({m, n})
Lesser(m, n) == Min({m, n})

(* The greater and the lesser of two numbers. *)
LEMMA GreaterOf ==
  ASSUME NEW first \in Int, NEW second \in Int
  PROVE  /\ Greater(first, second) = IF first >= second THEN first ELSE second
         /\ Lesser(first, second) = IF first <= second THEN first ELSE second
BY DEF Max, Min, Greater, Lesser

(* Newlines are a text. *)
LEMMA NewlinesAre ==
  ASSUME NEW n \in Nat
  PROVE  ASeq(Newlines(n)) /\ (n = 0 => Newlines(n) = <<>>)
<1> DEFINE s == Newlines(n)
<1>1. s = [k \in 1..n |-> s[k]] /\ DOMAIN s = 1..n
  BY DEF Newlines
<1> HIDE DEF s
<1>2. ASeq(s) /\ Len(s) = n
  BY <1>1, Tabled
<1> QED BY <1>2, SeqLen DEF s

RShape(r) ==
  /\ DOMAIN r = {"seen", "part", "named"}
  /\ \A k \in DOMAIN r.seen : ASeq(r.seen[k])
  /\ \A k \in DOMAIN r.part : r.part[k] \in Nat

(* What the reader saw of an item is a text, and the part it is in a       *)
(* number.                                                                 *)
LEMMA SeenIs ==
  ASSUME NEW r, RShape(r), NEW at
  PROVE  ASeq(At(r.seen, at, <<>>)) /\ At(r.part, at, 0) \in Nat
BY Short DEF RShape, At

(* Nothing but the item of the frame is seen otherwise. *)
Elsewhere(r, q, at) ==
  \A j : j # at => /\ At(q.seen, j, <<>>) = At(r.seen, j, <<>>)
                   /\ At(q.part, j, 0) = At(r.part, j, 0)

(* A fragment is added to what was seen of its item, and to no other's. *)
LEMMA SawIs ==
  ASSUME NEW r, RShape(r), NEW at, NEW text, ASeq(text), NEW q, q = Saw(r, at, text)
  PROVE  /\ RShape(q) /\ Elsewhere(r, q, at)
         /\ Joins(At(q.seen, at, <<>>), At(r.seen, at, <<>>), text)
         /\ q.part = r.part
<1> DEFINE all == At(r.seen, at, <<>>) \o text
           seen == Put(r.seen, at, all)
<1>1. ASeq(all)
  BY SeenIs, Concatenated
<1>2. q = [r EXCEPT !.seen = seen]
  BY DEF Saw
<1>3. all = At(r.seen, at, <<>>) \o text
  OBVIOUS
<1> HIDE DEF all
<1>4. /\ DOMAIN seen = DOMAIN r.seen \cup {at}
      /\ At(seen, at, <<>>) = all
      /\ \A j : j # at => At(seen, j, <<>>) = At(r.seen, j, <<>>)
      /\ \A k \in DOMAIN seen : seen[k] = IF k = at THEN all ELSE r.seen[k]
  <2>1. PICK g, u : g = r.seen /\ u = seen
    OBVIOUS
  <2>2. Puts(u, g, at, all)
    BY <2>1 DEF Puts
  <2>3. PutAt(u, g, at, all)
    BY <2>2, PutIs
  <2> HIDE DEF seen
  <2> QED BY <2>1, <2>3 DEF PutAt
<1> HIDE DEF seen
<1>5. q.seen = seen /\ q.part = r.part /\ DOMAIN q = DOMAIN r
  BY <1>2 DEF RShape
<1>6. \A k \in DOMAIN seen : ASeq(seen[k])
  BY <1>1, <1>4 DEF RShape
<1> QED BY <1>3, <1>4, <1>5, <1>6 DEF RShape, Elsewhere, Joins

(* A fragment of a summary, with the newlines of the parts before it. *)
LEMMA SummaryIs ==
  ASSUME NEW r, RShape(r), NEW f, f.type = "summary_delta", ResponsesPlain(f),
         NEW x, x = ResponsesFeed(r, f)
  PROVE  /\ DOMAIN x = {"events", "reader"} /\ Mid(x.events)
         /\ RShape(x.reader) /\ Elsewhere(r, x.reader, f.index)
         /\ Joins(At(x.reader.seen, f.index, <<>>), At(r.seen, f.index, <<>>), Prefixed(r, f))
         /\ ASeq(Prefixed(r, f))
         /\ At(x.reader.part, f.index, 0)
              = IF f.part >= At(r.part, f.index, 0) THEN f.part ELSE At(r.part, f.index, 0)
<1> DEFINE at == f.index
           was == At(r.part, at, 0)
           text == Prefixed(r, f)
           mid == Saw(r, at, text)
           now == IF f.part >= was THEN f.part ELSE was
           part == Put(mid.part, at, now)
           q == [mid EXCEPT !.part = part]
<1>1. was \in Nat /\ f.part \in Nat /\ ASeq(f.text)
  BY SeenIs DEF ResponsesPlain
<1>2. ASeq(text)
  <2>1. Max({0, f.part - was}) \in Nat
    <3> HIDE DEF was
    <3>1. f.part - was \in Int /\ 0 \in Int
      BY <1>1
    <3>2. Greater(0, f.part - was) = IF 0 >= f.part - was THEN 0 ELSE f.part - was
      BY <3>1, GreaterOf
    <3> QED BY <1>1, <3>2 DEF Greater
  <2>2. ASeq(Newlines(Max({0, f.part - was})))
    BY <2>1, NewlinesAre
  <2>3. text = Newlines(Max({0, f.part - was})) \o f.text
    BY DEF Prefixed
  <2> QED BY <1>1, <2>2, <2>3, Concatenated
<1> HIDE DEF text
<1>3. /\ RShape(mid) /\ Elsewhere(r, mid, at) /\ mid.part = r.part
      /\ Joins(At(mid.seen, at, <<>>), At(r.seen, at, <<>>), text)
  BY <1>2, SawIs
<1>4. x = [events |-> <<Thinking(text, at)>>, reader |-> q]
  <2>1. Max({f.part, At(mid.part, at, 0)}) = now
    <3>1. PICK m, n : m = f.part /\ n = was
      OBVIOUS
    <3>2. Greater(m, n) = IF m >= n THEN m ELSE n
      BY <1>1, <3>1, GreaterOf
    <3>3. At(mid.part, at, 0) = was
      BY <1>3
    <3> QED BY <3>1, <3>2, <3>3 DEF Greater
  <2>2. x = [events |-> <<Thinking(Prefixed(r, f), f.index)>>,
             reader |-> [Saw(r, f.index, Prefixed(r, f)) EXCEPT
                           !.part = Put(@, f.index, Max({f.part, At(@, f.index, 0)}))]]
    BY DEF ResponsesFeed
  <2> QED BY <2>1, <2>2 DEF text
<1>5. Mid(<<Thinking(text, at)>>)
  BY Sounds, Mids
<1> HIDE DEF mid
<1>6. /\ DOMAIN part = DOMAIN r.part \cup {at}
      /\ At(part, at, 0) = now
      /\ \A j : j # at => At(part, j, 0) = At(r.part, j, 0)
      /\ \A k \in DOMAIN part : part[k] = IF k = at THEN now ELSE r.part[k]
  <2> HIDE DEF at, now
  <2>1. PICK g, p : g = r.part /\ p = part
    OBVIOUS
  <2>2. Puts(p, g, at, now)
    BY <1>3, <2>1 DEF Puts
  <2>3. PutAt(p, g, at, now)
    BY <2>2, PutIs
  <2> HIDE DEF part
  <2> QED BY <2>1, <2>3 DEF PutAt
<1>7. now \in Nat
  BY <1>1
<1> HIDE DEF part, now
<1>8. q.part = part /\ q.seen = mid.seen /\ DOMAIN q = DOMAIN mid
  BY <1>3 DEF RShape
<1> HIDE DEF q
<1>9. RShape(q)
  <2>1. \A k \in DOMAIN part : part[k] \in Nat
    BY <1>6, <1>7 DEF RShape
  <2> QED BY <1>3, <1>8, <2>1 DEF RShape
<1>10. Elsewhere(r, q, at)
  BY <1>3, <1>6, <1>8 DEF Elsewhere
<1>11. x.reader = q /\ x.events = <<Thinking(text, at)>> /\ DOMAIN x = {"events", "reader"}
  BY <1>4
<1> QED BY <1>2, <1>3, <1>5, <1>6, <1>8, <1>9, <1>10, <1>11 DEF text, now

(* What CompleteItem takes for granted when it does not refuse the item. *)
Complete(got, item) ==
  IsPrefix(got, item.final) \/ (item.kind = "tool_call" /\ SameJson(got, item.final))

(* A remainder is there only for fragments that do not contradict the      *)
(* final copy.                                                             *)
LEMMA RemainderIs ==
  ASSUME NEW got, ASeq(got), NEW item, ASeq(item.final), NEW rest,
         rest = Remainder(got, item.final, item.kind = "tool_call"), rest # Null
  PROVE  ASeq(rest) /\ Complete(got, item)
<1> DEFINE call == item.kind = "tool_call"
           final == item.final
           slice == SubSeq(final, Len(got) + 1, Len(final))
<1>1. rest = IF IsPrefix(got, final) THEN slice
             ELSE IF call /\ SameJson(got, final) THEN <<>> ELSE Null
  BY DEF Remainder
<1>2. ASeq(slice)
  <2> DEFINE m == Len(got) + 1
             n == Len(final)
  <2>1. m \in Nat \ {0} /\ n \in Nat /\ n <= Len(final)
    BY SeqLen
  <2> HIDE DEF m, n
  <2>2. ASeq(SubSeq(final, m, n))
    BY <2>1, Sliced
  <2> QED BY <2>2 DEF m, n
<1> HIDE DEF slice
<1>3. CASE IsPrefix(got, final)
  BY <1>1, <1>2, <1>3 DEF Complete
<1>4. CASE ~IsPrefix(got, final)
  <2>1. call /\ SameJson(got, final) /\ rest = <<>>
    BY <1>1, <1>4
  <2> QED BY <2>1, Short DEF Complete
<1> QED BY <1>3, <1>4

(* An item completed without a failure was not contradicted. *)
LEMMA CompleteItemIs ==
  ASSUME NEW r, RShape(r), NEW at, NEW item, ASeq(item.final),
         NEW x, x = CompleteItem(r, at, item), ~Failed(x)
  PROVE  /\ DOMAIN x = {"events", "reader"} /\ Mid(x.events)
         /\ RShape(x.reader) /\ Elsewhere(r, x.reader, at)
         /\ Complete(At(r.seen, at, <<>>), item)
<1> DEFINE call == item.kind = "tool_call"
           got == At(r.seen, at, <<>>)
           rest == Remainder(got, item.final, call)
           event == CASE call -> ToolCall(rest, at, item.id, item.name)
                      [] item.kind = "thinking" -> Thinking(rest, at)
                      [] OTHER -> Text(rest, at, <<>>)
           needed == rest # <<>> \/ (call /\ at \notin r.named)
           put == Put(r.seen, at, item.final)
           seen == IF IsPrefix(got, item.final) THEN put ELSE r.seen
           named == IF call /\ needed /\ item.name # Null THEN r.named \cup {at} ELSE r.named
           q == [r EXCEPT !.seen = seen, !.named = named]
           kept == [events |-> Optional(needed, event), reader |-> q]
<1>1. x = IF rest = Null THEN Failure("contradiction") ELSE kept
  BY DEF CompleteItem
<1>2. rest # Null
  BY <1>1, FailureIsSome
<1>3. ASeq(got)
  BY SeenIs
<1>4. ASeq(rest) /\ Complete(got, item)
  BY <1>2, <1>3, RemainderIs
<1>5. Sound(event) /\ event.type # "end"
  <2> HIDE DEF rest
  <2>1. CASE call
    <3>1. event = ToolCall(rest, at, item.id, item.name)
      BY <2>1
    <3> QED BY <3>1, Sounds
  <2>2. CASE ~call /\ item.kind = "thinking"
    <3>1. event = Thinking(rest, at)
      BY <2>2
    <3> QED BY <3>1, Sounds
  <2>3. CASE ~call /\ item.kind # "thinking"
    <3>1. event = Text(rest, at, <<>>)
      BY <2>3
    <3> QED BY <1>4, <3>1, Sounds
  <2> QED BY <2>1, <2>2, <2>3
<1> HIDE DEF rest, event, needed
<1>6. Mid(Optional(needed, event))
  BY <1>5, Mids
<1> DEFINE final == item.final
<1>7. /\ \A k \in DOMAIN seen : ASeq(seen[k])
      /\ \A j : j # at => At(seen, j, <<>>) = At(r.seen, j, <<>>)
  <2>1. PICK g, u : g = r.seen /\ u = put
    OBVIOUS
  <2>2. Puts(u, g, at, final)
    BY <2>1 DEF Puts
  <2>3. ASeq(final)
    OBVIOUS
  <2> HIDE DEF final, put
  <2>4. /\ DOMAIN u = DOMAIN g \cup {at} /\ u[at] = final
        /\ \A j : j # at => \A d : At(u, j, d) = At(g, j, d)
        /\ \A k \in DOMAIN u : k # at => u[k] = g[k]
    <3>1. PutAt(u, g, at, final)
      BY <2>2, PutIs
    <3> QED BY <3>1 DEF PutAt
  <2>5. \A k \in DOMAIN put : ASeq(put[k])
    BY <2>1, <2>3, <2>4 DEF RShape
  <2> QED BY <2>1, <2>4, <2>5 DEF RShape
<1> HIDE DEF seen, named, final
<1>8. q.seen = seen /\ q.part = r.part /\ DOMAIN q = DOMAIN r
  BY DEF RShape
<1> HIDE DEF q
<1>9. RShape(q) /\ Elsewhere(r, q, at)
  BY <1>7, <1>8 DEF RShape, Elsewhere
<1>10. x = kept
  BY <1>1, <1>2
<1> QED BY <1>4, <1>6, <1>9, <1>10

(* Every other event of the server. *)
LEMMA FeedIs ==
  ASSUME NEW r, RShape(r), NEW f, ResponsesPlain(f), f.type # "summary_delta",
         NEW x, x = ResponsesFeed(r, f), ~Failed(x)
  PROVE  /\ DOMAIN x = {"events", "reader"} /\ Mid(x.events)
         /\ RShape(x.reader) /\ Elsewhere(r, x.reader, f.index)
         /\ f.type \in {"text_delta", "arguments_delta"} =>
              /\ Joins(At(x.reader.seen, f.index, <<>>), At(r.seen, f.index, <<>>), f.text)
              /\ x.reader.part = r.part
         /\ f.type \in {"created", "item_added", "annotation_added"} =>
              x.reader.seen = r.seen /\ x.reader.part = r.part
         /\ f.type = "item_done" => Complete(At(r.seen, f.index, <<>>), f.item)
<1> DEFINE events == ResponsesEvents(f)
<1>1. CASE f.type \in {"text_delta", "arguments_delta"}
  <2>1. x = [events |-> events, reader |-> Saw(r, f.index, f.text)]
    BY <1>1 DEF ResponsesFeed
  <2>2. ASeq(f.text)
    BY <1>1 DEF ResponsesPlain
  <2>3. Mid(events)
    <3>1. CASE f.type = "text_delta"
      <4>1. events = <<Text(f.text, f.index, f.scores)>>
        BY <3>1 DEF ResponsesEvents
      <4> QED BY <2>2, <4>1, Sounds, Mids
    <3>2. CASE f.type = "arguments_delta"
      <4>1. events = <<ToolCall(f.text, f.index, Null, Null)>>
        BY <3>2 DEF ResponsesEvents
      <4> QED BY <4>1, Sounds, Mids
    <3> QED BY <1>1, <3>1, <3>2
  <2>4. PICK q, at, text : q = Saw(r, f.index, f.text) /\ at = f.index /\ text = f.text
    OBVIOUS
  <2>5. q = Saw(r, at, text) /\ ASeq(text)
    BY <2>2, <2>4
  <2>6. /\ RShape(q) /\ Elsewhere(r, q, at) /\ q.part = r.part
        /\ Joins(At(q.seen, at, <<>>), At(r.seen, at, <<>>), text)
    BY <2>5, SawIs
  <2> HIDE DEF events
  <2> QED BY <1>1, <2>1, <2>3, <2>4, <2>6
<1>2. CASE f.type = "created"
  <2>1. x = [events |-> events, reader |-> r]
    BY <1>2 DEF ResponsesFeed
  <2>2. events = <<Start(f.model)>>
    BY <1>2 DEF ResponsesEvents
  <2>3. Mid(events)
    BY <2>2, Sounds, Mids
  <2> HIDE DEF events
  <2> QED BY <1>2, <2>1, <2>3 DEF Elsewhere
<1>3. CASE f.type = "annotation_added"
  <2>1. x = [events |-> events, reader |-> r]
    BY <1>3 DEF ResponsesFeed
  <2>2. events = <<Citation(f.source, f.index)>>
    BY <1>3 DEF ResponsesEvents
  <2>3. Mid(events)
    BY <2>2, Sounds, Mids
  <2> HIDE DEF events
  <2> QED BY <1>3, <2>1, <2>3 DEF Elsewhere
<1>4. CASE f.type = "item_added"
  <2> DEFINE q == [r EXCEPT !.named = @ \cup {f.index}]
  <2>1. x = [events |-> events, reader |-> r] \/ x = [events |-> events, reader |-> q]
    BY <1>4 DEF ResponsesFeed
  <2>2. RShape(q) /\ q.seen = r.seen /\ q.part = r.part
    BY DEF RShape
  <2>3. Mid(events)
    <3>1. CASE f.item.kind = "thinking"
      <4>1. events = <<Thinking(<<>>, f.index)>>
        BY <1>4, <3>1 DEF ResponsesEvents
      <4> QED BY <4>1, Sounds, Mids
    <3>2. CASE f.item.kind = "tool_call"
      <4>1. events = <<ToolCall(<<>>, f.index, f.item.id, f.item.name)>>
        BY <1>4, <3>2 DEF ResponsesEvents
      <4> QED BY <4>1, Sounds, Mids
    <3>3. CASE f.item.kind \notin {"thinking", "tool_call"}
      <4>1. events = <<>>
        BY <1>4, <3>3 DEF ResponsesEvents
      <4> QED BY <4>1, Mids
    <3> QED BY <3>1, <3>2, <3>3
  <2> HIDE DEF events, q
  <2> QED BY <1>4, <2>1, <2>2, <2>3 DEF Elsewhere
<1>5. CASE f.type = "item_done"
  <2> DEFINE done == CompleteItem(r, f.index, f.item)
             more == [done EXCEPT !.events = @ \o events]
  <2>1. x = IF Failed(done) THEN done ELSE more
    BY <1>5 DEF ResponsesFeed
  <2>2. ~Failed(done)
    BY <2>1
  <2>3. Mid(events)
    <3>1. CASE f.item.kind = "thinking"
      <4>1. events = Optional(f.item.state # Null, Continuation(f.item.state, f.index))
        BY <1>5, <3>1 DEF ResponsesEvents
      <4> QED BY <4>1, Sounds, Mids
    <3>2. CASE f.item.kind # "thinking"
      <4>1. events = <<>>
        BY <1>5, <3>2 DEF ResponsesEvents
      <4> QED BY <4>1, Mids
    <3> QED BY <3>1, <3>2
  <2>4. PICK at, item : at = f.index /\ item = f.item
    OBVIOUS
  <2>5. /\ DOMAIN done = {"events", "reader"} /\ Mid(done.events)
        /\ RShape(done.reader) /\ Elsewhere(r, done.reader, at)
        /\ Complete(At(r.seen, at, <<>>), item)
    <3>1. done = CompleteItem(r, at, item) /\ ASeq(item.final)
      BY <1>5, <2>4 DEF ResponsesPlain
    <3> HIDE DEF done
    <3> QED BY <2>2, <3>1, CompleteItemIs
  <2> HIDE DEF done, events
  <2>6. more.events = done.events \o events /\ more.reader = done.reader
        /\ DOMAIN more = {"events", "reader"}
    BY <2>5
  <2>7. Mid(more.events)
    BY <2>3, <2>5, <2>6, Mids
  <2> HIDE DEF more
  <2> QED BY <1>5, <2>1, <2>2, <2>4, <2>5, <2>6, <2>7
<1> QED BY <1>1, <1>2, <1>3, <1>4, <1>5 DEF ResponsesPlain

-----------------------------------------------------------------------------
(* The fragments of an item. *)
Reach(item, k) == Min({k * item.size, item.sent})
Fragments(item) == (item.sent + item.size - 1) \div item.size
Fragment(item, k) ==
  FlattenSeq(SubSeq(item.tokens, (k - 1) * item.size + 1, Reach(item, k)))

(* Division with a remainder. *)
LEMMA QuotientIs ==
  ASSUME NEW n \in Nat, NEW d \in Nat \ {0}, NEW q, q = n \div d
  PROVE  q \in Nat /\ q * d <= n /\ n < (q + 1) * d
OBVIOUS

(* Count tokens in fragments of size: how many, and where each begins. *)
LEMMA FragmentsAre ==
  ASSUME NEW size \in Nat \ {0}, NEW count \in Nat, NEW q,
         q = (count + size - 1) \div size
  PROVE  /\ q \in Nat /\ count <= q * size
         /\ \A k \in 1..q : k * size \in Nat /\ (k - 1) * size \in Nat
                            /\ (k - 1) * size < count /\ (k - 1) * size < k * size
<1> DEFINE n == count + size - 1
<1>1. n \in Nat
  OBVIOUS
<1> HIDE DEF n
<1>2. q \in Nat /\ q * size <= n /\ n < (q + 1) * size
  BY <1>1, QuotientIs DEF n
<1>3. (q + 1) * size = q * size + size /\ q * size \in Nat
  BY <1>2
<1>4. ASSUME NEW k \in 1..q
      PROVE  /\ k * size \in Nat /\ (k - 1) * size \in Nat
             /\ (k - 1) * size <= q * size - size /\ (k - 1) * size < k * size
  <2>1. k - 1 \in Nat /\ k - 1 <= q - 1
    BY <1>2
  <2>2. (k - 1) * size <= (q - 1) * size /\ (q - 1) * size = q * size - size
    BY <1>2, <2>1
  <2>3. (k - 1) * size = k * size - size
    BY <1>2
  <2>4. k * size \in Nat /\ (k - 1) * size \in Nat
    BY <1>2, <2>1
  <2> QED BY <2>2, <2>3, <2>4
<1>5. n = count + size - 1
  BY DEF n
<1>6. ASSUME NEW k \in 1..q PROVE (k - 1) * size < count
  <2> DEFINE x == (k - 1) * size
             y == q * size
  <2>1. x \in Nat /\ y \in Nat /\ x <= y - size /\ y <= n
    BY <1>2, <1>3, <1>4
  <2> HIDE DEF x, y
  <2>2. x < count
    BY <1>5, <2>1
  <2> QED BY <2>2 DEF x
<1>7. count <= q * size
  <2> DEFINE y == q * size
  <2>1. y \in Nat /\ n < y + size
    BY <1>2, <1>3
  <2> HIDE DEF y
  <2>2. count <= y
    BY <1>5, <2>1
  <2> QED BY <2>2 DEF y
<1> QED BY <1>2, <1>4, <1>6, <1>7

(* How far each fragment of an item reaches. *)
LEMMA ReachIs ==
  ASSUME NEW item, Fragmented(item), Len(item.tokens) \in Nat
  PROVE  /\ Fragments(item) \in Nat
         /\ Reach(item, 0) = 0 /\ Reach(item, Fragments(item)) = item.sent
         /\ \A k \in 1..Fragments(item) :
              /\ Reach(item, k - 1) = (k - 1) * item.size
              /\ Reach(item, k - 1) \in Nat /\ Reach(item, k) \in Nat
              /\ Reach(item, k - 1) < Reach(item, k)
              /\ Reach(item, k) <= Len(item.tokens)
<1> DEFINE n == Fragments(item)
           size == item.size
           count == item.sent
<1>1. size \in Nat \ {0} /\ count \in Nat /\ count <= Len(item.tokens)
  BY DEF Fragmented
<1>2. n = (count + size - 1) \div size
  BY DEF Fragments
<1> HIDE DEF size, count, n
<1>3. /\ n \in Nat /\ count <= n * size
      /\ \A k \in 1..n : /\ k * size \in Nat /\ (k - 1) * size \in Nat
                         /\ (k - 1) * size < count /\ (k - 1) * size < k * size
  BY <1>1, <1>2, FragmentsAre
<1>4. \A k : Reach(item, k) = Min({k * size, count})
  BY DEF Reach, size, count
<1>5. Reach(item, 0) = 0
  <2>1. 0 * size = 0
    BY <1>1
  <2>2. Min({0, count}) = 0
    <3>1. Lesser(0, count) = 0
      BY <1>1, GreaterOf
    <3> QED BY <3>1 DEF Lesser
  <2> QED BY <1>4, <2>1, <2>2
<1>6. Reach(item, n) = count
  <2> DEFINE y == n * size
  <2>1. y \in Nat /\ count <= y
    BY <1>1, <1>3
  <2> HIDE DEF y
  <2>2. Min({y, count}) = IF y <= count THEN y ELSE count
    <3>1. Lesser(y, count) = IF y <= count THEN y ELSE count
      BY <1>1, <2>1, GreaterOf
    <3> QED BY <3>1 DEF Lesser
  <2> QED BY <1>1, <1>4, <2>1, <2>2 DEF y
<1>7. ASSUME NEW k \in 1..n
      PROVE  /\ Reach(item, k - 1) = (k - 1) * size
             /\ Reach(item, k - 1) \in Nat /\ Reach(item, k) \in Nat
             /\ Reach(item, k - 1) < Reach(item, k)
             /\ Reach(item, k) <= Len(item.tokens)
  <2> DEFINE x == (k - 1) * size
             y == k * size
  <2>1. x \in Nat /\ y \in Nat /\ x < count /\ x < y
    BY <1>3
  <2>2. Reach(item, k - 1) = Min({x, count}) /\ Reach(item, k) = Min({y, count})
    BY <1>4
  <2> HIDE DEF x, y
  <2>3. Min({x, count}) = x
    <3>1. Lesser(x, count) = x
      BY <1>1, <2>1, GreaterOf
    <3> QED BY <3>1 DEF Lesser
  <2>4. Min({y, count}) = IF y <= count THEN y ELSE count
    <3>1. Lesser(y, count) = IF y <= count THEN y ELSE count
      BY <1>1, <2>1, GreaterOf
    <3> QED BY <3>1 DEF Lesser
  <2>5. Reach(item, k) \in Nat /\ x < Reach(item, k) /\ Reach(item, k) <= count
    BY <1>1, <2>1, <2>2, <2>4
  <2>6. Reach(item, k) <= Len(item.tokens)
    BY <1>1, <2>5
  <2>7. Reach(item, k - 1) = x
    BY <2>2, <2>3
  <2> QED BY <2>1, <2>5, <2>6, <2>7 DEF x
<1> QED BY <1>3, <1>5, <1>6, <1>7 DEF n, size, count

(* Sequences flattened are a sequence. *)
LEMMA FlatIsASeq ==
  ASSUME NEW seqs, ASeq(seqs), \A i \in DOMAIN seqs : ASeq(seqs[i])
  PROVE  ASeq(FlattenSeq(seqs))
<1>1. Cuts!ASeq(seqs) /\ \A i \in DOMAIN seqs : Cuts!ASeq(seqs[i])
  BY OneNotion
<1>2. Cuts!ASeq(Cuts!FlattenSeq(seqs))
  BY <1>1, Cuts!Flattened
<1> QED BY <1>2, OneNotion, FlattenIs

(* A slice of sequences is of sequences. *)
LEMMA SliceOfSeqs ==
  ASSUME NEW seqs, ASeq(seqs), \A i \in DOMAIN seqs : ASeq(seqs[i]),
         NEW m \in Nat \ {0}, NEW n \in Nat, n <= Len(seqs)
  PROVE  /\ ASeq(SubSeq(seqs, m, n))
         /\ \A i \in DOMAIN SubSeq(seqs, m, n) : ASeq(SubSeq(seqs, m, n)[i])
<1> DEFINE s == SubSeq(seqs, m, n)
<1>1. /\ ASeq(s) /\ Len(s) = IF m <= n THEN n - m + 1 ELSE 0
      /\ \A i \in 1..(n - m + 1) : s[i] = seqs[m + i - 1]
  BY Sliced
<1>2. Len(seqs) \in Nat /\ DOMAIN seqs = 1..Len(seqs)
  BY SeqLen
<1> HIDE DEF s
<1>3. DOMAIN s = 1..Len(s)
  BY <1>1, SeqLen
<1>4. ASSUME NEW i \in DOMAIN s PROVE ASeq(s[i])
  <2>1. i \in 1..(n - m + 1) /\ m + i - 1 \in DOMAIN seqs
    BY <1>1, <1>2, <1>3
  <2> QED BY <1>1, <2>1
<1> QED BY <1>1, <1>4 DEF s

(* A fragment is a text. *)
LEMMA FragmentIsASeq ==
  ASSUME NEW item, Fragmented(item), ASeq(item.tokens),
         \A i \in DOMAIN item.tokens : ASeq(item.tokens[i]),
         NEW k \in 1..Fragments(item)
  PROVE  ASeq(Fragment(item, k))
<1> DEFINE seqs == item.tokens
           m == (k - 1) * item.size + 1
           n == Reach(item, k)
<1>1. Len(seqs) \in Nat
  BY SeqLen
<1>2. m \in Nat \ {0} /\ n \in Nat /\ n <= Len(seqs)
  <2>1. /\ Reach(item, k - 1) = (k - 1) * item.size
        /\ Reach(item, k - 1) \in Nat /\ Reach(item, k) \in Nat
        /\ Reach(item, k) <= Len(item.tokens)
    BY <1>1, ReachIs
  <2> DEFINE x == (k - 1) * item.size
  <2>2. x \in Nat
    BY <2>1
  <2> HIDE DEF x
  <2>3. x + 1 \in Nat \ {0}
    BY <2>2
  <2> QED BY <2>1, <2>3 DEF x
<1>3. Fragment(item, k) = FlattenSeq(SubSeq(seqs, m, n))
  BY DEF Fragment
<1>4. ASeq(seqs) /\ \A i \in DOMAIN seqs : ASeq(seqs[i])
  OBVIOUS
<1> HIDE DEF seqs, m, n
<1> DEFINE s == SubSeq(seqs, m, n)
<1>5. ASeq(s) /\ \A i \in DOMAIN s : ASeq(s[i])
  BY <1>2, <1>4, SliceOfSeqs
<1> HIDE DEF s
<1>6. ASeq(FlattenSeq(s))
  BY <1>5, FlatIsASeq
<1> QED BY <1>3, <1>6 DEF s

(* A first, some, some more and a last. *)
Four(all, x, s, t, y) == all = <<x>> \o s \o t \o <<y>>

InFour(all, x, s, t, y) ==
  /\ ASeq(all) /\ Len(all) = Len(s) + Len(t) + 2
  /\ all[1] = x /\ all[Len(s) + Len(t) + 2] = y
  /\ \A k \in 1..Len(s) : all[k + 1] = s[k]
  /\ \A k \in 1..Len(t) : all[Len(s) + k + 1] = t[k]

(* The places of all four. *)
LEMMA FourJoined ==
  ASSUME NEW all, NEW x, NEW s, NEW t, NEW y, ASeq(s), ASeq(t), Four(all, x, s, t, y)
  PROVE  InFour(all, x, s, t, y)
<1>1. PICK one, end : one = <<x>> /\ end = <<y>>
  OBVIOUS
<1>2. ASeq(one) /\ Len(one) = 1 /\ one[1] = x /\ ASeq(end) /\ Len(end) = 1 /\ end[1] = y
  BY <1>1, Short
<1>3. PICK a : Joins(a, one, s)
  BY DEF Joins
<1>4. PICK b : Joins(b, a, t)
  BY DEF Joins
<1>5. Joins(all, b, end)
  BY <1>1, <1>3, <1>4 DEF Joins, Four
<1>6. PICK n, m : n = Len(s) /\ m = Len(t) /\ n \in Nat /\ m \in Nat
  BY SeqLen
<1>7. /\ ASeq(a) /\ Len(a) = 1 + n
      /\ \A i \in 1..(1 + n) : a[i] = IF i <= 1 THEN one[i] ELSE s[i - 1]
  <2>1. /\ ASeq(a) /\ Len(a) = Len(one) + Len(s)
        /\ \A i \in 1..(Len(one) + Len(s)) :
             a[i] = IF i <= Len(one) THEN one[i] ELSE s[i - Len(one)]
    <3>1. ASeq(one)
      BY <1>2
    <3> QED BY <1>3, <3>1, JoinedAt
  <2> QED BY <1>2, <1>6, <2>1
<1>8. /\ ASeq(b) /\ Len(b) = Len(a) + m
      /\ \A i \in 1..(Len(a) + m) : b[i] = IF i <= Len(a) THEN a[i] ELSE t[i - Len(a)]
  <2>1. /\ ASeq(b) /\ Len(b) = Len(a) + Len(t)
        /\ \A i \in 1..(Len(a) + Len(t)) :
             b[i] = IF i <= Len(a) THEN a[i] ELSE t[i - Len(a)]
    <3>1. ASeq(a)
      BY <1>7
    <3> QED BY <1>4, <3>1, JoinedAt
  <2> QED BY <1>6, <2>1
<1>9. /\ ASeq(all) /\ Len(all) = Len(b) + 1
      /\ \A i \in 1..(Len(b) + 1) : all[i] = IF i <= Len(b) THEN b[i] ELSE end[i - Len(b)]
  <2>1. /\ ASeq(all) /\ Len(all) = Len(b) + Len(end)
        /\ \A i \in 1..(Len(b) + Len(end)) :
             all[i] = IF i <= Len(b) THEN b[i] ELSE end[i - Len(b)]
    <3>1. ASeq(b) /\ ASeq(end)
      BY <1>2, <1>8
    <3> QED BY <1>5, <3>1, JoinedAt
  <2> QED BY <1>2, <2>1
<1>10. all[1] = x /\ all[n + m + 2] = y /\ Len(all) = n + m + 2
  BY <1>2, <1>6, <1>7, <1>8, <1>9
<1>11. ASSUME NEW k \in 1..n PROVE all[k + 1] = s[k]
  <2>1. k + 1 \in 1..(1 + n) /\ ~(k + 1 <= 1) /\ k + 1 - 1 = k
    BY <1>6
  <2>2. a[k + 1] = s[k]
    BY <1>7, <2>1
  <2>3. b[k + 1] = a[k + 1]
    BY <1>6, <1>7, <1>8, <2>1
  <2>4. all[k + 1] = b[k + 1]
    BY <1>6, <1>7, <1>8, <1>9, <2>1
  <2> QED BY <2>2, <2>3, <2>4
<1>12. ASSUME NEW k \in 1..m PROVE all[n + k + 1] = t[k]
  <2>1. PICK i : i = n + k + 1
    OBVIOUS
  <2>2. i \in 1..(Len(a) + m) /\ ~(i <= Len(a)) /\ i - Len(a) = k
    BY <1>6, <1>7, <2>1
  <2>3. b[i] = t[k]
    BY <1>8, <2>2
  <2>4. all[i] = b[i]
    BY <1>6, <1>7, <1>8, <1>9, <2>2
  <2> QED BY <2>1, <2>3, <2>4
<1> QED BY <1>6, <1>9, <1>10, <1>11, <1>12 DEF InFour

(* The frames of an item of the Responses wire: it is added, its           *)
(* fragments, its annotations, it is done.                                 *)
LEMMA ResponsesTrackIs ==
  ASSUME NEW a \in Answers, a.dialect = "responses", NEW i \in DOMAIN a.items,
         NEW item, item = a.items[i], NEW track, track = ResponsesFramesOf(a, i)
  PROVE  /\ Track("responses", track)
         /\ Len(track) = Fragments(item) + Len(item.sources) + 2
         /\ \A k \in DOMAIN track : track[k].index = i - 1
         /\ track[1].type = "item_added"
         /\ \A k \in 1..Fragments(item) :
              /\ track[k + 1].text = Fragment(item, k)
              /\ item.kind = "thinking" => /\ track[k + 1].type = "summary_delta"
                                           /\ track[k + 1].part = PartOfToken(item, k)
              /\ item.kind # "thinking" =>
                   track[k + 1].type \in {"text_delta", "arguments_delta"}
              /\ track[k + 1].type = "text_delta" <=> item.kind \in {"text", "refusal"}
         /\ \A k \in 1..Len(item.sources) :
              track[Fragments(item) + k + 1].type = "annotation_added"
         /\ track[Len(track)].type = "item_done" /\ track[Len(track)].item = item
<1> DEFINE tokens(k) == SubSeq(item.tokens, (k - 1) * item.size + 1,
                               Min({k * item.size, item.sent}))
           delta(k) ==
             CASE item.kind \in {"text", "refusal"} ->
                    [type |-> "text_delta", index |-> i - 1, text |-> FlattenSeq(tokens(k)),
                     scores |-> ScoresOf(item, tokens(k))]
               [] item.kind = "tool_call" ->
                    [type |-> "arguments_delta", index |-> i - 1,
                     text |-> FlattenSeq(tokens(k))]
               [] item.kind = "thinking" ->
                    [type |-> "summary_delta", index |-> i - 1,
                     text |-> FlattenSeq(tokens(k)), part |-> PartOfToken(item, k)]
           annotation(source) ==
             [type |-> "annotation_added", index |-> i - 1, source |-> source]
           first == [type |-> "item_added", index |-> i - 1, item |-> item]
           last == [type |-> "item_done", index |-> i - 1, item |-> item]
           n == Fragments(item)
           m == Len(item.sources)
           deltas == [k \in 1..n |-> delta(k)]
           sources == [k \in DOMAIN item.sources |-> annotation(item.sources[k])]
<1>1. /\ item.kind \in {"thinking", "text", "refusal", "tool_call"}
      /\ ASeq(item.tokens) /\ Len(item.tokens) \in Nat
      /\ DOMAIN item.tokens = 1..Len(item.tokens)
      /\ \A k \in DOMAIN item.tokens : ASeq(item.tokens[k])
      /\ ASeq(item.final) /\ Fragmented(item)
      /\ m \in Nat /\ DOMAIN item.sources = 1..m
  <2>1. item.kind \in KindsOf(a.dialect)
    BY ItemIs
  <2> QED BY Zenon, <2>1, ItemIs DEF KindsOf
<1>2. Four(track, first, deltas, sources, last)
  <2>1. track = FramesOfItem(item, i - 1)
    BY DEF ResponsesFramesOf
  <2> QED BY Zenon, <2>1 DEF FramesOfItem, Fragments, Four
<1>3. n \in Nat
  BY <1>1, ReachIs
<1>4. \A k : FlattenSeq(tokens(k)) = Fragment(item, k)
  BY DEF Fragment, Reach
<1> HIDE DEF tokens
<1>5. \A k \in 1..n : ASeq(Fragment(item, k))
  BY <1>1, FragmentIsASeq
<1>6. \A k \in 1..n : PartOfToken(item, k) \in Nat \/ item.kind # "thinking"
  <2> SUFFICES ASSUME NEW k \in 1..n, item.kind = "thinking"
               PROVE  PartOfToken(item, k) \in Nat
    OBVIOUS
  <2>1. /\ Reach(item, k - 1) = (k - 1) * item.size
        /\ Reach(item, k - 1) < Reach(item, k) /\ Reach(item, k) <= Len(item.tokens)
        /\ Reach(item, k) \in Nat
    BY <1>1, ReachIs
  <2>2. item.size = 1 /\ \A j \in DOMAIN item.tokens : item.part[j] \in Nat
    BY <1>1 DEF Fragmented
  <2>3. k \in DOMAIN item.tokens
    BY <1>1, <1>3, <2>1, <2>2
  <2> QED BY <2>2, <2>3 DEF PartOfToken
<1>7. \A k \in 1..n :
        /\ delta(k).index = i - 1 /\ delta(k).text = Fragment(item, k)
        /\ item.kind = "thinking" => /\ delta(k).type = "summary_delta"
                                     /\ delta(k).part = PartOfToken(item, k)
        /\ item.kind # "thinking" => delta(k).type \in {"text_delta", "arguments_delta"}
        /\ delta(k).type = "text_delta" <=> item.kind \in {"text", "refusal"}
  <2> SUFFICES ASSUME NEW k \in 1..n
               PROVE  /\ delta(k).index = i - 1 /\ delta(k).text = Fragment(item, k)
                      /\ item.kind = "thinking" =>
                           delta(k).type = "summary_delta" /\ delta(k).part = PartOfToken(item, k)
                      /\ item.kind # "thinking" =>
                           delta(k).type \in {"text_delta", "arguments_delta"}
                      /\ delta(k).type = "text_delta" <=> item.kind \in {"text", "refusal"}
    OBVIOUS
  <2>1. CASE item.kind \in {"text", "refusal"}
    <3>1. delta(k) = [type |-> "text_delta", index |-> i - 1, text |-> FlattenSeq(tokens(k)),
                      scores |-> ScoresOf(item, tokens(k))]
      BY <2>1
    <3> HIDE DEF delta
    <3> QED BY <1>4, <2>1, <3>1
  <2>2. CASE item.kind = "tool_call"
    <3>1. delta(k) = [type |-> "arguments_delta", index |-> i - 1,
                      text |-> FlattenSeq(tokens(k))]
      BY <2>2
    <3> HIDE DEF delta
    <3> QED BY <1>4, <2>2, <3>1
  <2>3. CASE item.kind = "thinking"
    <3>1. delta(k) = [type |-> "summary_delta", index |-> i - 1,
                      text |-> FlattenSeq(tokens(k)), part |-> PartOfToken(item, k)]
      BY <2>3
    <3> HIDE DEF delta
    <3> QED BY <1>4, <2>3, <3>1
  <2> QED BY <1>1, <2>1, <2>2, <2>3
<1> HIDE DEF delta
<1>8. \A k \in 1..n : Plain("responses", delta(k))
  <2> SUFFICES ASSUME NEW k \in 1..n PROVE ResponsesPlain(delta(k))
    BY DEF Plain
  <2> QED BY <1>5, <1>6, <1>7 DEF ResponsesPlain
<1>9. \A source : /\ Plain("responses", annotation(source)) /\ annotation(source).index = i - 1
                  /\ annotation(source).type = "annotation_added"
  BY DEF Plain, ResponsesPlain
<1>10. /\ Plain("responses", first) /\ first.index = i - 1 /\ first.type = "item_added"
       /\ Plain("responses", last) /\ last.index = i - 1 /\ last.type = "item_done"
       /\ last.item = item
  BY <1>1 DEF Plain, ResponsesPlain
<1> HIDE DEF annotation, first, last
<1>11. /\ ASeq(deltas) /\ Len(deltas) = n /\ \A k \in 1..n : deltas[k] = delta(k)
  <2>1. deltas = [k \in 1..n |-> deltas[k]] /\ \A k \in 1..n : deltas[k] = delta(k)
    OBVIOUS
  <2> HIDE DEF deltas, n
  <2> QED BY <1>3, <2>1, Tabled
<1>12. /\ ASeq(sources) /\ Len(sources) = m
       /\ \A k \in 1..m : sources[k] = annotation(item.sources[k])
  <2>1. /\ sources = [k \in 1..m |-> sources[k]]
        /\ \A k \in 1..m : sources[k] = annotation(item.sources[k])
    BY <1>1
  <2> HIDE DEF sources, m
  <2> QED BY <1>1, <2>1, Tabled
<1> HIDE DEF deltas, sources, n, m
<1>13. /\ ASeq(track) /\ Len(track) = n + m + 2
       /\ track[1] = first /\ track[n + m + 2] = last
       /\ \A k \in 1..n : track[k + 1] = delta(k)
       /\ \A k \in 1..m : track[n + k + 1] = annotation(item.sources[k])
  <2>1. PICK d, c, f, l : d = deltas /\ c = sources /\ f = first /\ l = last
    OBVIOUS
  <2>2. Four(track, f, d, c, l)
    BY <1>2, <2>1
  <2>3. ASeq(d) /\ ASeq(c)
    BY <1>11, <1>12, <2>1
  <2>4. InFour(track, f, d, c, l)
    BY <2>2, <2>3, FourJoined
  <2>5. /\ ASeq(track) /\ Len(track) = Len(d) + Len(c) + 2
        /\ track[1] = f /\ track[Len(d) + Len(c) + 2] = l
        /\ \A k \in 1..Len(d) : track[k + 1] = d[k]
        /\ \A k \in 1..Len(c) : track[Len(d) + k + 1] = c[k]
    BY <2>4 DEF InFour
  <2> QED BY <1>11, <1>12, <2>1, <2>5
<1>14. ASSUME NEW k \in DOMAIN track
       PROVE  Plain("responses", track[k]) /\ track[k].index = i - 1
  <2>1. k \in 1..(n + m + 2)
    BY <1>13, SeqLen
  <2>2. CASE k = 1
    BY <1>10, <1>13, <2>2
  <2>3. CASE k = n + m + 2
    BY <1>10, <1>13, <2>3
  <2>4. CASE k - 1 \in 1..n
    <3>1. track[(k - 1) + 1] = delta(k - 1) /\ (k - 1) + 1 = k
      BY <1>13, <2>1, <2>4
    <3> QED BY <1>7, <1>8, <2>4, <3>1
  <2>5. CASE k - n - 1 \in 1..m
    <3>1. n + (k - n - 1) + 1 = k
      BY <1>3, <2>1
    <3>2. track[k] = annotation(item.sources[k - n - 1])
      BY <1>13, <2>5, <3>1
    <3> QED BY <1>9, <3>2
  <2> QED BY <1>1, <1>3, <2>1, <2>2, <2>3, <2>4, <2>5
<1>15. Track("responses", track)
  BY <1>13, <1>14 DEF Track
<1> QED BY <1>7, <1>9, <1>10, <1>13, <1>14, <1>15 DEF n, m

(* The closings; which of their frames tells the usage. *)
Teller(d) == IF d = "chat" THEN 2 ELSE 1

(* The Responses closing tells the usage and leaves the reader as it is. *)
LEMMA ResponsesClosingRead ==
  ASSUME NEW a, a.usage # Null => a.usage \in Counters, NEW r
  PROVE  /\ ASeq(ResponsesClosing(a)) /\ Len(ResponsesClosing(a)) = 1
         /\ ResponsesFeed(r, ResponsesClosing(a)[1]) =
              [events |-> ResponsesEvents(ResponsesClosing(a)[1]), reader |-> r]
         /\ Kin(ResponsesEvents(ResponsesClosing(a)[1]))
         /\ \E i \in DOMAIN ResponsesEvents(ResponsesClosing(a)[1]) :
              Telling(ResponsesEvents(ResponsesClosing(a)[1])[i])
<1>1. PICK f : f = [type |-> "completed", index |-> 0, response |-> a]
  OBVIOUS
<1>2. PICK u : u = UsageOfResponse(a.usage)
  OBVIOUS
<1>3. PICK e : e = End(ResponsesFinish(a.finish, HasFunctionCall(a.items)), u, "usage")
  OBVIOUS
<1>4. ResponsesClosing(a) = <<f>> /\ f.type = "completed" /\ f.response = a
  BY <1>1 DEF ResponsesClosing
<1>5. ASeq(ResponsesClosing(a)) /\ Len(ResponsesClosing(a)) = 1 /\ ResponsesClosing(a)[1] = f
  BY <1>4, Short
<1>6. ResponsesEvents(f) = <<e>>
  BY <1>2, <1>3, <1>4 DEF ResponsesEvents
<1>7. ResponsesFeed(r, f) = [events |-> ResponsesEvents(f), reader |-> r]
  <2> DEFINE es == ResponsesEvents(f)
  <2>1. es = ResponsesEvents(f)
    OBVIOUS
  <2> HIDE DEF es
  <2> QED BY <1>4, <2>1 DEF ResponsesFeed
<1>8. u # Null
  <2>1. PICK w : w = IF a.usage = Null THEN Unreported ELSE a.usage
    OBVIOUS
  <2>2. w \in Counters
    BY <2>1 DEF Counters, Unreported, Count
  <2>3. u = SettleUsage(w)
    BY <1>2, <2>1 DEF UsageOfResponse, UsageFromResponses
  <2> QED BY <2>2, <2>3, UsageIsSome
<1>9. Sound(e) /\ Telling(e)
  BY <1>3, <1>8, Sounds
<1>10. Kin(<<e>>) /\ \E i \in DOMAIN <<e>> : Telling(<<e>>[i])
  BY <1>9, Mids, OneTells
<1> QED BY <1>5, <1>6, <1>7, <1>10

(* The opening has no end in it. *)
LEMMA OpeningTrack ==
  ASSUME NEW a \in Answers
  PROVE  Track(a.dialect, OpeningOf(a))
<1>1. a.dialect \in {"chat", "anthropic", "responses", "gemini"}
  BY ItemsAre
<1>2. CASE a.dialect = "anthropic"
  <2>1. PICK f : f = [type |-> "message_start", index |-> 0, model |-> a.model]
    OBVIOUS
  <2>2. OpeningOf(a) = <<f>>
    BY <1>2, <2>1 DEF OpeningOf, AnthropicOpening
  <2>3. Plain(a.dialect, f)
    BY <1>2, <2>1 DEF Plain, AnthropicPlain
  <2> QED BY <2>2, <2>3, Tracks
<1>3. CASE a.dialect = "responses"
  <2>1. PICK f : f = [type |-> "created", index |-> 0, model |-> a.model]
    OBVIOUS
  <2>2. OpeningOf(a) = <<f>>
    BY <1>3, <2>1 DEF OpeningOf, ResponsesOpening
  <2>3. Plain(a.dialect, f)
    BY <1>3, <2>1 DEF Plain, ResponsesPlain
  <2> QED BY <2>2, <2>3, Tracks
<1>4. CASE a.dialect \in {"chat", "gemini"}
  <2>1. OpeningOf(a) = <<>>
    BY <1>4 DEF OpeningOf
  <2> QED BY <2>1, Tracks
<1> QED BY <1>1, <1>2, <1>3, <1>4

(* Nor has an item, on any wire. *)
LEMMA ItemTrack ==
  ASSUME NEW a \in Answers, NEW i \in DOMAIN a.items
  PROVE  Track(a.dialect, FramesOf(a, i))
<1>1. a.dialect \in {"chat", "anthropic", "responses", "gemini"}
  BY ItemsAre
<1>2. CASE a.dialect = "chat"
  <2>1. FramesOf(a, i) = ChatFramesOf(a, i)
    BY <1>2 DEF FramesOf
  <2> QED BY <1>2, <2>1, ChatTrack
<1>3. CASE a.dialect = "anthropic"
  <2>1. FramesOf(a, i) = AnthropicFramesOf(a, i)
    BY <1>3 DEF FramesOf
  <2> QED BY <1>3, <2>1, AnthropicTrack
<1>4. CASE a.dialect = "responses"
  <2>1. FramesOf(a, i) = ResponsesFramesOf(a, i)
    BY <1>4 DEF FramesOf
  <2>2. PICK item, track : item = a.items[i] /\ track = ResponsesFramesOf(a, i)
    OBVIOUS
  <2>3. Track("responses", track)
    BY <1>4, <2>2, ResponsesTrackIs
  <2> QED BY <1>4, <2>1, <2>2, <2>3
<1>5. CASE a.dialect = "gemini"
  <2>1. FramesOf(a, i) = GeminiFramesOf(a, i)
    BY <1>5 DEF FramesOf
  <2> QED BY <1>5, <2>1, GeminiTrack
<1> QED BY <1>1, <1>2, <1>3, <1>4, <1>5

(* The closing is not empty, and has a frame that tells the usage. *)
LEMMA ClosingIs ==
  ASSUME NEW a \in Answers
  PROVE  ASeq(ClosingOf(a)) /\ Teller(a.dialect) \in 1..Len(ClosingOf(a))
<1>1. /\ a.dialect \in {"chat", "anthropic", "responses", "gemini"}
      /\ a.usage # Null /\ a.dialect # "gemini" => a.usage \in Counters
      /\ a.usage # Null /\ a.dialect = "gemini" => a.usage \in Metadata
  BY AnswersAssumption
<1>2. CASE a.dialect = "chat"
  <2>1. ClosingOf(a) = ChatClosing(a)
    BY <1>2 DEF ClosingOf
  <2>2. ASeq(ChatClosing(a)) /\ Len(ChatClosing(a)) = 3
    BY <1>1, <1>2, ChatClosingRead
  <2> QED BY <1>2, <2>1, <2>2 DEF Teller
<1>3. CASE a.dialect = "anthropic"
  <2>1. ClosingOf(a) = AnthropicClosing(a)
    BY <1>3 DEF ClosingOf
  <2>2. ASeq(AnthropicClosing(a)) /\ Len(AnthropicClosing(a)) = 2
    BY <1>1, <1>3, AnthropicClosingRead
  <2> QED BY <1>3, <2>1, <2>2 DEF Teller
<1>4. CASE a.dialect = "responses"
  <2>1. ClosingOf(a) = ResponsesClosing(a)
    BY <1>4 DEF ClosingOf
  <2>2. ASeq(ResponsesClosing(a)) /\ Len(ResponsesClosing(a)) = 1
    BY <1>1, <1>4, ResponsesClosingRead
  <2> QED BY <1>4, <2>1, <2>2 DEF Teller
<1>5. CASE a.dialect = "gemini"
  <2>1. ClosingOf(a) = GeminiClosing(a)
    BY <1>5 DEF ClosingOf
  <2>2. ASeq(GeminiClosing(a)) /\ Len(GeminiClosing(a)) = 1
    BY <1>1, <1>5, GeminiClosingRead
  <2> QED BY <1>5, <2>1, <2>2 DEF Teller
<1> QED BY <1>1, <1>2, <1>3, <1>4, <1>5

(* All of an answer's tracks. *)
LEMMA TracksAre ==
  ASSUME NEW a \in Answers, NEW all, all = TracksOf(a)
  PROVE  /\ ASeq(all) /\ Len(all) = Len(a.items) + 2 /\ Len(all) \in Nat
         /\ DOMAIN all = 1..Len(all) /\ Len(a.items) \in Nat
         /\ all[1] = OpeningOf(a) /\ all[Len(all)] = ClosingOf(a)
         /\ \A i \in DOMAIN a.items : i \in 1..Len(a.items) /\ all[i + 1] = FramesOf(a, i)
         /\ \A k \in 1..(Len(all) - 1) : Track(a.dialect, all[k])
         /\ \A k \in DOMAIN all : ASeq(all[k]) /\ Len(all[k]) \in Nat
                                  /\ DOMAIN all[k] = 1..Len(all[k])
<1>1. PICK x, y, one, end, n, s :
        /\ x = OpeningOf(a) /\ y = ClosingOf(a) /\ one = <<x>> /\ end = <<y>>
        /\ n = Len(a.items) /\ s = [i \in DOMAIN a.items |-> FramesOf(a, i)]
  OBVIOUS
<1>2. n \in Nat /\ DOMAIN a.items = 1..n
  BY <1>1, ItemsAre
<1>3. ASeq(s) /\ Len(s) = n /\ \A i \in 1..n : s[i] = FramesOf(a, i)
  <2>1. s = [i \in 1..n |-> s[i]]
    BY <1>1, <1>2
  <2>2. \A i \in 1..n : s[i] = FramesOf(a, i)
    BY <1>1, <1>2
  <2> QED BY <1>2, <2>1, <2>2, Tabled
<1>4. ASeq(one) /\ Len(one) = 1 /\ one[1] = x /\ ASeq(end) /\ Len(end) = 1 /\ end[1] = y
  BY <1>1, Short
<1>5. PICK u : Joins(u, one, s)
  BY DEF Joins
<1>6. Joins(all, u, end)
  <2>1. all = <<OpeningOf(a)>> \o [i \in DOMAIN a.items |-> FramesOf(a, i)]
              \o <<ClosingOf(a)>>
    BY DEF TracksOf
  <2> QED BY <1>1, <1>5, <2>1 DEF Joins
<1>7. /\ ASeq(u) /\ Len(u) = 1 + n
      /\ \A i \in 1..(1 + n) : u[i] = IF i <= 1 THEN one[i] ELSE s[i - 1]
  <2>1. ASeq(one) /\ ASeq(s)
    BY <1>3, <1>4
  <2>2. /\ ASeq(u) /\ Len(u) = Len(one) + Len(s)
        /\ \A i \in 1..(Len(one) + Len(s)) :
             u[i] = IF i <= Len(one) THEN one[i] ELSE s[i - Len(one)]
    BY <1>5, <2>1, JoinedAt
  <2> QED BY <1>3, <1>4, <2>2
<1>8. /\ ASeq(all) /\ Len(all) = n + 2
      /\ \A i \in 1..(n + 2) : all[i] = IF i <= n + 1 THEN u[i] ELSE end[i - (n + 1)]
  <2>1. ASeq(u) /\ ASeq(end)
    BY <1>4, <1>7
  <2>2. /\ ASeq(all) /\ Len(all) = Len(u) + Len(end)
        /\ \A i \in 1..(Len(u) + Len(end)) :
             all[i] = IF i <= Len(u) THEN u[i] ELSE end[i - Len(u)]
    BY <1>6, <2>1, JoinedAt
  <2> QED BY <1>2, <1>4, <1>7, <2>2
<1>9. DOMAIN all = 1..(n + 2)
  BY <1>8, SeqLen
<1>10. all[1] = x /\ all[n + 2] = y
  <2>1. all[1] = u[1] /\ u[1] = x
    BY <1>2, <1>4, <1>7, <1>8
  <2>2. n + 2 \in 1..(n + 2) /\ ~(n + 2 <= n + 1) /\ (n + 2) - (n + 1) = 1
    BY <1>2
  <2> QED BY <1>4, <1>8, <2>1, <2>2
<1>11. ASSUME NEW i \in 1..n PROVE all[i + 1] = FramesOf(a, i)
  <2>1. i + 1 \in 1..(n + 1) /\ i + 1 \in 1..(1 + n) /\ i + 1 \in 1..(n + 2)
        /\ ~(i + 1 <= 1) /\ (i + 1) - 1 = i /\ i + 1 <= n + 1
    BY <1>2
  <2>2. all[i + 1] = u[i + 1]
    BY <1>8, <2>1
  <2>3. u[i + 1] = s[i]
    BY <1>7, <2>1
  <2> QED BY <1>3, <2>2, <2>3
<1>12. ASSUME NEW k \in 1..(n + 1) PROVE Track(a.dialect, all[k])
  <2>1. CASE k = 1
    BY <1>1, <1>10, <2>1, OpeningTrack
  <2>2. CASE k # 1
    <3>1. k - 1 \in 1..n /\ (k - 1) + 1 = k
      BY <1>2, <2>2
    <3>2. all[k] = FramesOf(a, k - 1)
      BY <1>11, <3>1
    <3> QED BY <1>2, <3>1, <3>2, ItemTrack
  <2> QED BY <2>1, <2>2
<1>13. ASSUME NEW k \in DOMAIN all PROVE ASeq(all[k])
  <2>1. CASE k = n + 2
    BY <1>1, <1>10, <2>1, ClosingIs
  <2>2. CASE k # n + 2
    <3>1. k \in 1..(n + 1)
      BY <1>2, <1>9, <2>2
    <3> QED BY <1>12, <3>1 DEF Track
  <2> QED BY <2>1, <2>2
<1>14. \A k \in DOMAIN all : Len(all[k]) \in Nat /\ DOMAIN all[k] = 1..Len(all[k])
  BY <1>13, SeqLen
<1>15. (n + 2) - 1 = n + 1 /\ n + 2 \in Nat
  BY <1>2
<1> QED BY <1>1, <1>2, <1>8, <1>9, <1>10, <1>11, <1>12, <1>13, <1>14, <1>15

(* What the dialect's reader makes of a frame that is not of the closing. *)
Reading == answer.dialect = "responses" => RShape(reader)

(* The Responses reader fails only for a contradiction. *)
LEMMA CompletionFails ==
  ASSUME NEW r, NEW f, ResponsesPlain(f), NEW x, x = ResponsesFeed(r, f), Failed(x)
  PROVE  x = Failure("contradiction")
<1>1. CASE f.type = "item_done"
  <2>1. PICK done : done = CompleteItem(r, f.index, f.item)
    OBVIOUS
  <2>2. x = IF Failed(done) THEN done
            ELSE [done EXCEPT !.events = @ \o ResponsesEvents(f)]
    BY <1>1, <2>1 DEF ResponsesFeed
  <2>3. done = Failure("contradiction") \/ DOMAIN done = {"events", "reader"}
    BY <2>1 DEF CompleteItem
  <2>4. CASE ~Failed(done)
    <3>1. DOMAIN x = DOMAIN done
      BY <2>2, <2>4
    <3> QED BY <2>4, <3>1 DEF Failed
  <2>5. CASE Failed(done)
    <3>1. DOMAIN done # {"events", "reader"}
      BY <2>5 DEF Failed
    <3> QED BY <2>2, <2>3, <2>5, <3>1
  <2> QED BY <2>4, <2>5
<1>2. CASE f.type # "item_done"
  <2>1. PICK es : es = ResponsesEvents(f)
    OBVIOUS
  <2>2. f.type \in {"created", "item_added", "text_delta", "arguments_delta",
                    "summary_delta", "annotation_added"}
    BY <1>2 DEF ResponsesPlain
  <2>3. \E g, q : x = [events |-> g, reader |-> q]
    BY <2>1, <2>2 DEF ResponsesFeed
  <2> QED BY <2>3 DEF Failed
<1> QED BY <1>1, <1>2

(* A frame that is not of the closing gives no end, whatever the dialect. *)
LEMMA ReadPlain ==
  ASSUME answer \in Answers, Reading, NEW f, Plain(answer.dialect, f), NEW x, x = Read(f)
  PROVE  IF Failed(x) THEN x = Failure("contradiction")
         ELSE /\ DOMAIN x = {"events", "reader"} /\ Mid(x.events)
              /\ answer.dialect = "responses" => RShape(x.reader)
<1>1. answer.dialect \in {"chat", "anthropic", "responses", "gemini"}
  BY ItemsAre
<1>2. CASE answer.dialect = "chat"
  <2>1. x = [events |-> ChatEvents(f), reader |-> reader]
    BY <1>2 DEF Read
  <2>2. Mid(ChatEvents(f))
    BY <1>2, ChatPlainRead DEF Plain
  <2> QED BY <1>2, <2>1, <2>2 DEF Failed
<1>3. CASE answer.dialect = "anthropic"
  <2>1. x = [events |-> AnthropicEvents(f), reader |-> reader]
    BY <1>3 DEF Read
  <2>2. Mid(AnthropicEvents(f))
    BY <1>3, AnthropicPlainRead DEF Plain
  <2> QED BY <1>3, <2>1, <2>2 DEF Failed
<1>4. CASE answer.dialect = "responses"
  <2>1. x = ResponsesFeed(reader, f)
    BY <1>4 DEF Read
  <2>2. RShape(reader) /\ ResponsesPlain(f)
    BY <1>4 DEF Reading, Plain
  <2>3. CASE Failed(x)
    BY <2>1, <2>2, <2>3, CompletionFails
  <2>4. CASE ~Failed(x)
    <3>1. PICK r, g : r = reader /\ g = f
      OBVIOUS
    <3>2. RShape(r) /\ ResponsesPlain(g) /\ x = ResponsesFeed(r, g)
      BY <2>1, <2>2, <3>1
    <3>3. DOMAIN x = {"events", "reader"} /\ Mid(x.events) /\ RShape(x.reader)
      <4>1. CASE g.type = "summary_delta"
        BY <3>2, <4>1, SummaryIs
      <4>2. CASE g.type # "summary_delta"
        BY <2>4, <3>2, <4>2, FeedIs
      <4> QED BY <4>1, <4>2
    <3> QED BY <2>4, <3>3
  <2> QED BY <2>3, <2>4
<1>5. CASE answer.dialect = "gemini"
  <2>1. x = GeminiFeed(reader, f)
    BY <1>5 DEF Read
  <2>2. Mid(GeminiEvents(f))
    BY <1>5, GeminiPlainRead DEF Plain
  <2>3. Kin(GeminiEvents(f)) /\ \A i \in DOMAIN GeminiEvents(f) :
                                   GeminiEvents(f)[i].type # "end"
    BY <2>2 DEF Mid
  <2>4. PICK r, g : r = reader /\ g = f
    OBVIOUS
  <2>5. /\ DOMAIN GeminiFeed(r, g) = {"events", "reader"}
        /\ Kin(GeminiFeed(r, g).events)
        /\ DOMAIN GeminiFeed(r, g).events = DOMAIN GeminiEvents(g)
        /\ \A i \in DOMAIN GeminiEvents(g) :
             GeminiFeed(r, g).events[i].type = GeminiEvents(g)[i].type
    BY <2>3, <2>4, GeminiFeedIs
  <2>6. Mid(x.events) /\ DOMAIN x = {"events", "reader"}
    BY <2>1, <2>3, <2>4, <2>5 DEF Mid
  <2> QED BY <1>5, <2>6 DEF Failed
<1> QED BY <1>1, <1>2, <1>3, <1>4, <1>5

(* The closing never fails, and its teller tells the usage. *)
LEMMA ReadClosing ==
  ASSUME answer \in Answers, Reading, NEW k \in 1..Len(ClosingOf(answer)),
         NEW f, f = ClosingOf(answer)[k], NEW x, x = Read(f)
  PROVE  /\ ~Failed(x) /\ DOMAIN x = {"events", "reader"} /\ Kin(x.events)
         /\ answer.dialect = "responses" => x.reader = reader
         /\ answer.usage # Null /\ k = Teller(answer.dialect) =>
              \E i \in DOMAIN x.events : Telling(x.events[i]) \/ x.events[i].type = "error"
<1>1. /\ answer.dialect \in {"chat", "anthropic", "responses", "gemini"}
      /\ answer.usage # Null /\ answer.dialect # "gemini" => answer.usage \in Counters
      /\ answer.usage # Null /\ answer.dialect = "gemini" => answer.usage \in Metadata
  BY AnswersAssumption
<1>2. CASE answer.dialect = "chat"
  <2>1. x = [events |-> ChatEvents(f), reader |-> reader] /\ ClosingOf(answer) = ChatClosing(answer)
    BY <1>2 DEF Read, ClosingOf
  <2>2. /\ Len(ChatClosing(answer)) = 3
        /\ \A j \in 1..3 : Kin(ChatEvents(ChatClosing(answer)[j]))
        /\ answer.usage # Null =>
             \E i \in DOMAIN ChatEvents(ChatClosing(answer)[2]) :
               Telling(ChatEvents(ChatClosing(answer)[2])[i])
    BY <1>1, <1>2, ChatClosingRead
  <2>3. x.events = ChatEvents(f) /\ Kin(x.events)
    BY <2>1, <2>2
  <2>4. answer.usage # Null /\ k = 2 => \E i \in DOMAIN x.events : Telling(x.events[i])
    BY <2>1, <2>2, <2>3
  <2> QED BY <1>2, <2>1, <2>3, <2>4 DEF Failed, Teller
<1>3. CASE answer.dialect = "anthropic"
  <2>1. /\ x = [events |-> AnthropicEvents(f), reader |-> reader]
        /\ ClosingOf(answer) = AnthropicClosing(answer)
    BY <1>3 DEF Read, ClosingOf
  <2>2. /\ Len(AnthropicClosing(answer)) = 2
        /\ \A j \in 1..2 : Kin(AnthropicEvents(AnthropicClosing(answer)[j]))
        /\ answer.usage # Null =>
             \E i \in DOMAIN AnthropicEvents(AnthropicClosing(answer)[1]) :
               Telling(AnthropicEvents(AnthropicClosing(answer)[1])[i])
    BY <1>1, <1>3, AnthropicClosingRead
  <2>3. x.events = AnthropicEvents(f) /\ Kin(x.events)
    BY <2>1, <2>2
  <2>4. answer.usage # Null /\ k = 1 => \E i \in DOMAIN x.events : Telling(x.events[i])
    BY <2>1, <2>2, <2>3
  <2> QED BY <1>3, <2>1, <2>3, <2>4 DEF Failed, Teller
<1>4. CASE answer.dialect = "responses"
  <2>1. x = ResponsesFeed(reader, f) /\ ClosingOf(answer) = ResponsesClosing(answer)
    BY <1>4 DEF Read, ClosingOf
  <2>2. PICK r, a : r = reader /\ a = answer
    OBVIOUS
  <2>3. /\ Len(ResponsesClosing(a)) = 1
        /\ ResponsesFeed(r, ResponsesClosing(a)[1]) =
             [events |-> ResponsesEvents(ResponsesClosing(a)[1]), reader |-> r]
        /\ Kin(ResponsesEvents(ResponsesClosing(a)[1]))
        /\ \E i \in DOMAIN ResponsesEvents(ResponsesClosing(a)[1]) :
             Telling(ResponsesEvents(ResponsesClosing(a)[1])[i])
    BY <1>1, <1>4, <2>2, ResponsesClosingRead
  <2>4. PICK es : es = ResponsesEvents(ResponsesClosing(a)[1])
    OBVIOUS
  <2>5. k = 1 /\ x = [events |-> es, reader |-> reader]
    BY <2>1, <2>2, <2>3, <2>4
  <2>6. Kin(es) /\ \E i \in DOMAIN es : Telling(es[i])
    BY <2>3, <2>4
  <2>7. x.events = es /\ x.reader = reader /\ DOMAIN x = {"events", "reader"}
    BY <2>5
  <2> QED BY <2>6, <2>7 DEF Failed
<1>5. CASE answer.dialect = "gemini"
  <2>1. x = GeminiFeed(reader, f) /\ ClosingOf(answer) = GeminiClosing(answer)
    BY <1>5 DEF Read, ClosingOf
  <2>2. /\ Len(GeminiClosing(answer)) = 1
        /\ Kin(GeminiEvents(GeminiClosing(answer)[1]))
        /\ answer.usage # Null =>
             \E i \in DOMAIN GeminiEvents(GeminiClosing(answer)[1]) :
               \/ Telling(GeminiEvents(GeminiClosing(answer)[1])[i])
               \/ GeminiEvents(GeminiClosing(answer)[1])[i].type = "error"
    BY <1>1, <1>5, GeminiClosingRead
  <2>3. k = 1 /\ f = GeminiClosing(answer)[1]
    BY <2>1, <2>2
  <2>4. PICK r, g : r = reader /\ g = f
    OBVIOUS
  <2>5. /\ DOMAIN GeminiFeed(r, g) = {"events", "reader"}
        /\ Kin(GeminiFeed(r, g).events)
        /\ DOMAIN GeminiFeed(r, g).events = DOMAIN GeminiEvents(g)
        /\ \A i \in DOMAIN GeminiEvents(g) :
             /\ GeminiFeed(r, g).events[i].type = GeminiEvents(g)[i].type
             /\ Telling(GeminiEvents(g)[i]) => Telling(GeminiFeed(r, g).events[i])
    BY <2>2, <2>3, <2>4, GeminiFeedIs
  <2>6. x = GeminiFeed(r, g) /\ g = GeminiClosing(answer)[1]
    BY <2>1, <2>3, <2>4
  <2>7. answer.usage # Null =>
          \E i \in DOMAIN x.events : Telling(x.events[i]) \/ x.events[i].type = "error"
    BY <2>2, <2>5, <2>6
  <2> QED BY <1>5, <2>5, <2>6, <2>7 DEF Failed
<1> QED BY <1>1, <1>2, <1>3, <1>4, <1>5

-----------------------------------------------------------------------------
(* The end of the body, and the state the client is in. *)
Lasting(s, x, e) ==
  /\ Cuts!Folded(s, <<>>) = s
  /\ Cuts!Folded(s, <<e>>) = Cut(s, e)
  /\ Cuts!Folded(s, <<x>> \o <<e>>) = Cut(Cut(s, x), e)

(* The cutter folded over none, one and two events. *)
LEMMA CutsAre ==
  ASSUME NEW s, NEW x, NEW e
  PROVE  Lasting(s, x, e)
<1>1. Cuts!Folded(s, <<>>) = s
  BY Cuts!FoldOfNone
<1>2. Cuts!Folded(s, <<e>>) = Cut(s, e) /\ Cuts!Folded(s, <<x>>) = Cut(s, x)
  BY Cuts!FoldOfOne
<1>3. Cuts!Folded(s, <<x>> \o <<e>>) = Cut(Cut(s, x), e)
  <2>1. PICK one : one = <<x>>
    OBVIOUS
  <2>2. ASeq(one) /\ Cuts!ASeq(one)
    BY <2>1, Short, OneNotion
  <2>3. Append(one, e) = <<x>> \o <<e>>
    BY <2>1
  <2>4. Cuts!Folded(s, Append(one, e)) = Cut(Cuts!Folded(s, one), e)
    BY <2>2, Cuts!FoldOfMore
  <2> QED BY <1>2, <2>1, <2>3, <2>4
<1> QED BY <1>1, <1>2, <1>3 DEF Lasting

(* The end of the body: an answer only after an end of the server's, with  *)
(* its data.                                                               *)
LEMMA EndIs ==
  ASSUME NEW s, Flow(s), s.outcome = Null,
         NEW r, r = FoldLeft(Cut, s, EmittedLast(s.coalescer, Requested))
  PROVE  /\ PShape(r) /\ Order(r.given)
         /\ r.outcome # Null =>
              \/ Failed(r.outcome)
              \/ /\ s.coalescer.sawEnd /\ ~s.cutter.cut /\ ~r.cutter.cut /\ Ended(r.given)
                 /\ s.coalescer.data # Null => r.outcome.data = s.coalescer.data
<1>1. PICK c, e, x : /\ c = s.coalescer /\ e = End(c.finish, c.usage, c.data)
                     /\ x = Start(Requested)
  OBVIOUS
<1>2. Line(s) /\ PShape(s) /\ Order(s.given) /\ CShape(c)
  BY <1>1 DEF Flow, Line
<1>3. e.type = "end" /\ e.data = c.data /\ x.type = "start"
  BY <1>1 DEF End, Start
<1>4. EmittedLast(c, Requested) =
        IF c.sawEnd THEN IF c.started THEN <<e>> ELSE <<x>> \o <<e>> ELSE <<>>
  <2>1. <<>> \o <<e>> = <<e>>
    OBVIOUS
  <2> QED BY <1>1, <1>2, <2>1 DEF EmittedLast, Optional, CShape
<1>5. r = IF c.sawEnd THEN IF c.started THEN Cut(s, e) ELSE Cut(Cut(s, x), e) ELSE s
  <2>1. r = Cuts!Folded(s, EmittedLast(s.coalescer, Requested))
    BY Zenon DEF FoldLeft, MapThenFoldSet, Max, Cuts!Folded, Cuts!FoldLeft,
       Cuts!MapThenFoldSet, Cuts!Max
  <2>2. Lasting(s, x, e)
    BY CutsAre
  <2> QED BY <1>1, <1>4, <2>1, <2>2 DEF Lasting
<1>6. CASE ~c.sawEnd
  BY <1>2, <1>5, <1>6
<1>7. CASE c.sawEnd /\ s.cutter.cut
  <2>1. \A g : Cut(s, g) = s
    BY <1>7 DEF Cut
  <2>2. r = s
    BY <1>5, <1>7, <2>1
  <2> QED BY <1>2, <2>2
<1>8. CASE c.sawEnd /\ ~s.cutter.cut
  <2>1. PICK q : q = IF c.started THEN s ELSE Cut(s, x)
    OBVIOUS
  <2>2. r = Cut(q, e)
    BY <1>5, <1>8, <2>1
  <2>3. ~Quiet(s)
    BY <1>8 DEF Quiet
  <2>4. Line(q) /\ Spoken(q) /\ ~Quiet(q)
    <3>1. CASE c.started
      <4>1. Spoken(s)
        BY <1>1, <3>1 DEF Flow
      <4> QED BY <1>2, <2>1, <2>3, <3>1, <4>1
    <3>2. CASE ~c.started
      <4>1. Silent(s)
        BY <1>1, <3>2 DEF Flow
      <4>2. Line(Cut(s, x)) /\ Spoken(Cut(s, x)) /\ ~Quiet(Cut(s, x))
        BY <1>2, <1>3, <2>3, <4>1, CutStart
      <4> QED BY <2>1, <3>2, <4>2
    <3> QED BY <3>1, <3>2
  <2>5. q.outcome = Null /\ ~q.cutter.cut
    BY <2>4 DEF Quiet
  <2>6. /\ PShape(Cut(q, e)) /\ ~Cut(q, e).cutter.cut
        /\ Order(Cut(q, e).given) /\ Ended(Cut(q, e).given)
        /\ e.data # Null => Failed(Cut(q, e).outcome) \/ Cut(q, e).outcome.data = e.data
    BY <1>3, <2>4, <2>5, CutLast
  <2> QED BY <1>1, <1>3, <1>8, <2>2, <2>6
<1> QED BY <1>6, <1>7, <1>8

(* The flow depends on the fields of the pipeline only. *)
LEMMA FlowOfFields ==
  ASSUME NEW r, Flow(r), NEW s, PShape(s), s.coalescer = r.coalescer,
         s.cutter = r.cutter, s.accumulator = r.accumulator, s.given = r.given,
         s.outcome = r.outcome
  PROVE  Flow(s)
BY DEF Flow, Line, Spoken, Silent, Quiet

(* The script of the server, and how far it is. *)
Scripted == answer \in Answers /\ tracks = TracksOf(answer)

Counted ==
  /\ DOMAIN sent = DOMAIN tracks /\ sent = [t \in DOMAIN tracks |-> sent[t]]
  /\ \A t \in DOMAIN tracks : sent[t] \in 0..Len(tracks[t])
  /\ sent[Len(tracks)] > 0 => ItemsSent

(* While the body is read there is no outcome, what the consumer has was   *)
(* begun if anything was, and the coalescer has what the closing told.     *)
Streaming ==
  body = "open" =>
    /\ outcome = Null /\ Flow(Pipeline) /\ Reading
    /\ coalescer.sawEnd => sent[Len(tracks)] > 0
    /\ /\ answer.usage # Null /\ ~cutter.cut
       /\ sent[Len(tracks)] >= Teller(answer.dialect)
       => Informed(coalescer)

Concluded ==
  body # "open" =>
    /\ Order(given)
    /\ Answered => Ended(given)
    /\ Answered /\ ~cutter.cut =>
         body \in {"whole", "broken"} /\ ItemsSent /\ sent[Len(tracks)] > 0
    /\ body = "whole" /\ Answered /\ answer.usage # Null => outcome.data = "usage"

AnswerInv == Scripted /\ Counted /\ Streaming /\ Concluded

-----------------------------------------------------------------------------
(* One step of the client, whatever the server's frame was. *)
LEMMA TakenIs ==
  ASSUME Flow(Pipeline), outcome = Null, NEW x, Took(x),
         IF Failed(x) THEN x = Failure("contradiction") ELSE Kin(x.events)
  PROVE  IF body' = "open"
         THEN /\ ~Failed(x) /\ reader' = x.reader
              /\ outcome' = Null /\ Flow(Pipeline)'
              /\ coalescer'.sawEnd =>
                   coalescer.sawEnd \/ \E i \in DOMAIN x.events : x.events[i].type = "end"
              /\ Informed(coalescer) => Informed(coalescer')
              /\ ~cutter'.cut /\ (cutter.cut => cutter'.cut)
              /\ (\E i \in DOMAIN x.events : Telling(x.events[i])) => Informed(coalescer')
              /\ (\E i \in DOMAIN x.events : x.events[i].type = "error") => cutter'.cut
         ELSE /\ body' = "closed" /\ Order(given')
              /\ outcome' # Null => Failed(outcome') \/ (cutter'.cut /\ Ended(given'))
<1>1. PICK s : s = Pipeline
  OBVIOUS
<1>2. /\ Flow(s) /\ PShape(s) /\ Order(s.given)
      /\ s.coalescer = coalescer /\ s.cutter = cutter /\ s.given = given
      /\ s.accumulator = accumulator /\ s.outcome = Null
  BY <1>1 DEF Pipeline, Flow, Line
<1>3. CASE Failed(x)
  <2>1. PICK q : q = [Pipeline EXCEPT !.outcome = x]
    OBVIOUS
  <2>2. q.outcome = x /\ q.given = given
    BY <2>1 DEF Pipeline
  <2>3. Settle(q)
    BY <1>3, <2>1 DEF Took
  <2>4. outcome' = x /\ given' = given /\ (x # Null => body' = "closed")
    BY <2>2, <2>3 DEF Settle, Becomes
  <2>5. x # Null
    BY <1>3, FailureIsSome
  <2> QED BY <1>2, <1>3, <2>4, <2>5
<1>4. CASE ~Failed(x)
  <2>1. PICK r, events : /\ events = x.events /\ Pushing(s, events, r)
                         /\ Settle(r) /\ reader' = x.reader
    BY <1>1, <1>4, Zenon DEF Took, Pushing
  <2>2. /\ Flow(r) /\ Monotone(s, r)
        /\ r.coalescer.sawEnd =>
             s.coalescer.sawEnd \/ \E i \in DOMAIN events : events[i].type = "end"
        /\ Informed(s.coalescer) => Informed(r.coalescer)
        /\ (\E i \in DOMAIN events : Telling(events[i])) => Informed(r.coalescer)
        /\ (\E i \in DOMAIN events : events[i].type = "error") =>
             r.cutter.cut \/ r.outcome # Null
    <3>1. Kin(events)
      BY <1>4, <2>1
    <3> QED BY <1>2, <2>1, <3>1, PushedAll
  <2>3. /\ coalescer' = r.coalescer /\ cutter' = r.cutter /\ accumulator' = r.accumulator
        /\ given' = r.given /\ outcome' = r.outcome
        /\ body' = IF r.outcome = Null /\ ~r.cutter.cut THEN "open" ELSE "closed"
    BY <2>1 DEF Settle, Becomes
  <2>4. PICK q : q = Pipeline'
    OBVIOUS
  <2>5. Flow(q)
    <3>1. /\ PShape(q) /\ q.coalescer = r.coalescer /\ q.cutter = r.cutter
          /\ q.accumulator = r.accumulator /\ q.given = r.given /\ q.outcome = r.outcome
      BY <2>3, <2>4 DEF Pipeline, PShape
    <3> QED BY <2>2, <3>1, FlowOfFields
  <2>6. Line(r)
    BY <2>2 DEF Flow
  <2>7. CASE r.outcome = Null /\ ~r.cutter.cut
    BY <1>2, <1>4, <2>1, <2>2, <2>3, <2>4, <2>5, <2>7 DEF Monotone
  <2>8. CASE r.outcome # Null \/ r.cutter.cut
    <3>1. /\ Order(r.given)
          /\ r.outcome # Null => Failed(r.outcome) \/ (r.cutter.cut /\ Ended(r.given))
      BY <2>6 DEF Line
    <3> QED BY <2>3, <2>8, <3>1
  <2> QED BY <2>7, <2>8
<1> QED BY <1>3, <1>4

(* The tracks of the answer that is being sent. *)
LEMMA ScriptIs ==
  ASSUME Scripted, NEW n, n = Len(tracks)
  PROVE  /\ n \in Nat /\ n >= 2 /\ DOMAIN tracks = 1..n
         /\ \A t \in 1..n : /\ ASeq(tracks[t]) /\ Len(tracks[t]) \in Nat
                            /\ DOMAIN tracks[t] = 1..Len(tracks[t])
         /\ \A t \in 1..(n - 1) : \A k \in 1..Len(tracks[t]) :
              Plain(answer.dialect, tracks[t][k])
         /\ tracks[n] = ClosingOf(answer)
         /\ \A t \in Nat : IsItem(t) => t \in 2..(n - 1)
         /\ DOMAIN answer.items = 1..(n - 2)
         /\ \A i \in 1..(n - 2) : tracks[i + 1] = FramesOf(answer, i)
<1>1. PICK all, a : all = tracks /\ a = answer
  OBVIOUS
<1>2. a \in Answers /\ all = TracksOf(a)
  BY <1>1 DEF Scripted
<1>3. /\ Len(all) = Len(a.items) + 2 /\ Len(all) \in Nat
      /\ DOMAIN all = 1..Len(all) /\ Len(a.items) \in Nat
      /\ all[Len(all)] = ClosingOf(a)
      /\ \A i \in DOMAIN a.items : i \in 1..Len(a.items) /\ all[i + 1] = FramesOf(a, i)
      /\ \A k \in 1..(Len(all) - 1) : Track(a.dialect, all[k])
      /\ \A k \in DOMAIN all : ASeq(all[k]) /\ Len(all[k]) \in Nat
                               /\ DOMAIN all[k] = 1..Len(all[k])
  BY <1>2, TracksAre
<1>4. DOMAIN a.items = 1..Len(a.items)
  BY <1>2, ItemsAre
<1>5. \A t \in 1..(Len(all) - 1) : t \in DOMAIN all
  BY <1>3
<1>6. \A t \in 1..(Len(all) - 1) : \A k \in 1..Len(all[t]) : Plain(a.dialect, all[t][k])
  BY <1>3, <1>5 DEF Track
<1>7. ASSUME NEW t \in Nat, IsItem(t) PROVE t \in 2..(n - 1)
  <2>1. t - 1 \in 1..Len(a.items)
    BY <1>1, <1>4, <1>7 DEF IsItem
  <2>2. t - 1 \in Nat /\ t - 1 >= 1 /\ t - 1 <= n - 2
    BY <1>1, <1>3, <2>1
  <2> QED BY <1>1, <1>3, <2>2
<1>8. /\ n \in Nat /\ n >= 2 /\ n = Len(all) /\ DOMAIN all = 1..n
      /\ Len(a.items) = n - 2 /\ DOMAIN a.items = 1..(n - 2)
  BY <1>1, <1>3, <1>4
<1>9. \A i \in 1..(n - 2) : all[i + 1] = FramesOf(a, i)
  BY <1>3, <1>8
<1>10. all[n] = ClosingOf(a)
  BY <1>3, <1>8
<1>11. \A t \in 1..(n - 1) : \A k \in 1..Len(all[t]) : Plain(a.dialect, all[t][k])
  BY <1>6, <1>8
<1>12. \A t \in 1..n : /\ ASeq(all[t]) /\ Len(all[t]) \in Nat
                       /\ DOMAIN all[t] = 1..Len(all[t])
  BY <1>3, <1>8
<1> QED BY <1>1, <1>7, <1>8, <1>9, <1>10, <1>11, <1>12

(* A track that may be sent has a frame left; the closing comes after all  *)
(* else.                                                                   *)
LEMMA SendingIs ==
  ASSUME Scripted, Counted, NEW t \in DOMAIN tracks, MaySend(t), NEW n, n = Len(tracks)
  PROVE  /\ sent[t] \in Nat /\ sent[t] + 1 \in 1..Len(tracks[t]) /\ sent[n] \in Nat
         /\ t # n => sent[n] = 0
         /\ t = n => ItemsSent
<1>1. /\ n \in Nat /\ n >= 2 /\ DOMAIN tracks = 1..n /\ Len(tracks[t]) \in Nat
      /\ Len(tracks[n]) \in Nat
      /\ \A u \in Nat : IsItem(u) => u \in 2..(n - 1)
  BY ScriptIs
<1>2. sent[t] \in 0..Len(tracks[t]) /\ sent[n] \in 0..Len(tracks[n])
  BY <1>1 DEF Counted
<1>3. sent[t] # Len(tracks[t])
  BY DEF MaySend, TrackSent
<1>4. ASSUME t # n PROVE sent[n] = 0
  <2>1. t \in 1..(Len(tracks) - 1)
    BY <1>1, <1>4
  <2>2. ~ItemsSent
    BY <1>3, <2>1 DEF ItemsSent, TrackSent
  <2>3. ~(sent[n] > 0)
    BY <2>2 DEF Counted
  <2> QED BY <1>1, <1>2, <2>3
<1>5. ASSUME t = n PROVE ItemsSent
  <2>1. ~IsItem(t)
    BY <1>1, <1>5
  <2>2. \A u \in 1..(n - 1) : TrackSent(u)
    BY <1>5, <2>1 DEF MaySend, Parallel
  <2> QED BY <2>2 DEF ItemsSent
<1> QED BY <1>1, <1>2, <1>3, <1>4, <1>5

(* One frame sent. *)
LEMMA CountedOne ==
  ASSUME Scripted, Counted, NEW t \in DOMAIN tracks, MaySend(t), NEW n, n = Len(tracks),
         sent' = [sent EXCEPT ![t] = @ + 1], UNCHANGED script
  PROVE  /\ Scripted' /\ Counted'
         /\ sent'[t] = sent[t] + 1
         /\ \A u \in 1..n : u # t => sent'[u] = sent[u]
<1>1. /\ n \in Nat /\ n >= 2 /\ DOMAIN tracks = 1..n
      /\ \A u \in 1..n : Len(tracks[u]) \in Nat
  BY ScriptIs
<1>2. /\ sent[t] \in Nat /\ sent[t] + 1 \in 1..Len(tracks[t]) /\ sent[n] \in Nat
      /\ t # n => sent[n] = 0
      /\ t = n => ItemsSent
  BY SendingIs
<1>3. /\ DOMAIN sent = DOMAIN tracks /\ sent = [u \in DOMAIN tracks |-> sent[u]]
      /\ \A u \in DOMAIN tracks : sent[u] \in 0..Len(tracks[u])
      /\ sent[n] > 0 => ItemsSent
  BY DEF Counted
<1>4. answer' = answer /\ tracks' = tracks
  BY DEF script
<1>5. /\ sent' = [u \in DOMAIN tracks |-> sent'[u]] /\ DOMAIN sent' = DOMAIN tracks
      /\ sent'[t] = sent[t] + 1 /\ \A u \in DOMAIN tracks : u # t => sent'[u] = sent[u]
  BY <1>3
<1>6. \A u \in DOMAIN tracks : sent'[u] \in 0..Len(tracks[u])
  BY <1>2, <1>3, <1>5
<1>7. ASSUME sent'[n] > 0 PROVE ItemsSent'
  <2>1. t = n
    BY <1>1, <1>2, <1>5, <1>7
  <2>2. \A u \in 1..(n - 1) : sent[u] = Len(tracks[u]) /\ u # n /\ u \in DOMAIN tracks
    BY <1>1, <1>2, <2>1 DEF ItemsSent, TrackSent
  <2>3. \A u \in 1..(n - 1) : sent'[u] = Len(tracks[u])
    BY <1>5, <2>1, <2>2
  <2> QED BY <1>4, <2>3 DEF ItemsSent, TrackSent
<1> QED BY <1>1, <1>4, <1>5, <1>6, <1>7 DEF Counted, Scripted

(* Two Gemini chunks joined and sent. *)
LEMMA CountedTwo ==
  ASSUME Scripted, Counted, NEW t \in DOMAIN tracks, MaySend(t), NEW n, n = Len(tracks),
         Joined(t), sent' = [sent EXCEPT ![t] = @ + 1, ![t + 1] = 1], UNCHANGED script
  PROVE  /\ Scripted' /\ Counted'
         /\ t \in 1..(n - 1) /\ t + 1 \in 1..(n - 1) /\ Len(tracks[t + 1]) >= 1
         /\ sent'[t] = sent[t] + 1 /\ sent'[n] = 0 /\ sent[n] = 0
<1>1. /\ n \in Nat /\ n >= 2 /\ DOMAIN tracks = 1..n
      /\ \A u \in 1..n : ASeq(tracks[u]) /\ Len(tracks[u]) \in Nat
      /\ \A u \in Nat : IsItem(u) => u \in 2..(n - 1)
  BY ScriptIs
<1>2. t \in Nat /\ t + 1 \in Nat /\ IsItem(t) /\ IsItem(t + 1) /\ tracks[t + 1] # <<>>
  BY <1>1 DEF Joined
<1>3. t \in 1..(n - 1) /\ t + 1 \in 1..(n - 1) /\ t + 1 \in 1..n /\ t # n /\ t + 1 # n
      /\ t + 1 # t
  BY <1>1, <1>2
<1>4. Len(tracks[t + 1]) >= 1
  <2>1. Len(tracks[t + 1]) # 0 /\ Len(tracks[t + 1]) \in Nat
    BY <1>1, <1>2, <1>3, SeqLen
  <2> QED BY <2>1
<1>5. /\ sent[t] \in Nat /\ sent[t] + 1 \in 1..Len(tracks[t]) /\ sent[n] = 0
  BY <1>3, SendingIs
<1>6. /\ DOMAIN sent = DOMAIN tracks /\ sent = [u \in DOMAIN tracks |-> sent[u]]
      /\ \A u \in DOMAIN tracks : sent[u] \in 0..Len(tracks[u])
  BY DEF Counted
<1>7. answer' = answer /\ tracks' = tracks
  BY DEF script
<1>8. /\ sent' = [u \in DOMAIN tracks |-> sent'[u]] /\ DOMAIN sent' = DOMAIN tracks
      /\ sent'[t] = sent[t] + 1 /\ sent'[t + 1] = 1
      /\ \A u \in DOMAIN tracks : u # t /\ u # t + 1 => sent'[u] = sent[u]
  BY <1>1, <1>3, <1>6
<1>9. \A u \in DOMAIN tracks : sent'[u] \in 0..Len(tracks[u])
  BY <1>1, <1>3, <1>4, <1>5, <1>6, <1>8
<1>10. sent'[n] = 0
  BY <1>1, <1>3, <1>5, <1>8
<1>11. Scripted'
  BY <1>7 DEF Scripted
<1>12. Counted'
  <2>1. ~(sent'[Len(tracks')] > 0)
    BY <1>7, <1>10
  <2> QED BY <1>7, <1>8, <1>9, <2>1 DEF Counted
<1> QED BY <1>3, <1>4, <1>5, <1>8, <1>10, <1>11, <1>12

(* A frame that is not of the closing leaves no end behind. *)
LEMMA PlainIsTaken ==
  ASSUME AnswerInv, body = "open", NEW f, Plain(answer.dialect, f), Receive(f),
         sent[Len(tracks)] = 0, sent'[Len(tracks)] = 0, UNCHANGED script
  PROVE  Streaming' /\ Concluded'
<1>1. PICK x : x = Read(f) /\ Took(x)
  BY DEF Receive
<1>2. answer' = answer /\ tracks' = tracks
  BY DEF script
<1>3. outcome = Null /\ Flow(Pipeline) /\ Reading /\ ~coalescer.sawEnd
      /\ coalescer.sawEnd \in BOOLEAN /\ answer \in Answers
  <2>1. outcome = Null /\ Flow(Pipeline) /\ Reading /\ (coalescer.sawEnd => sent[Len(tracks)] > 0)
    BY DEF AnswerInv, Streaming
  <2>2. Pipeline.coalescer = coalescer
    BY DEF Pipeline
  <2>3. coalescer.sawEnd \in BOOLEAN
    BY <2>1, <2>2 DEF Flow, CShape
  <2> QED BY <2>1, <2>3 DEF AnswerInv, Scripted
<1>4. IF Failed(x) THEN x = Failure("contradiction")
      ELSE /\ DOMAIN x = {"events", "reader"} /\ Mid(x.events)
           /\ answer.dialect = "responses" => RShape(x.reader)
  BY <1>1, <1>3, ReadPlain
<1>5. IF Failed(x) THEN x = Failure("contradiction") ELSE Kin(x.events)
  BY <1>4 DEF Mid
<1>6. IF body' = "open"
      THEN /\ ~Failed(x) /\ reader' = x.reader
           /\ outcome' = Null /\ Flow(Pipeline)'
           /\ coalescer'.sawEnd =>
                coalescer.sawEnd \/ \E i \in DOMAIN x.events : x.events[i].type = "end"
      ELSE /\ body' = "closed" /\ Order(given')
           /\ outcome' # Null => Failed(outcome') \/ (cutter'.cut /\ Ended(given'))
  BY <1>1, <1>3, <1>5, TakenIs
<1>7. CASE body' = "open"
  <2>1. ~coalescer'.sawEnd
    BY <1>3, <1>4, <1>6, <1>7 DEF Mid
  <2>2. Reading'
    BY <1>2, <1>4, <1>6, <1>7 DEF Reading
  <2>3. ~(sent'[Len(tracks')] >= Teller(answer'.dialect))
    BY <1>2 DEF Teller
  <2> QED BY <1>6, <1>7, <2>1, <2>2, <2>3 DEF Streaming, Concluded
<1>8. CASE body' # "open"
  BY <1>6, <1>8 DEF Streaming, Concluded, Answered
<1> QED BY <1>7, <1>8

(* A frame of the closing: what told the usage is remembered. *)
LEMMA ClosingIsTaken ==
  ASSUME AnswerInv, body = "open", NEW n, n = Len(tracks), NEW k \in 1..Len(ClosingOf(answer)),
         Receive(ClosingOf(answer)[k]), sent[n] \in Nat, k = sent[n] + 1, sent'[n] = k,
         UNCHANGED script
  PROVE  Streaming' /\ Concluded'
<1>1. PICK x, f : f = ClosingOf(answer)[k] /\ x = Read(f) /\ Took(x)
  BY DEF Receive
<1>2. answer' = answer /\ tracks' = tracks
  BY DEF script
<1>3. /\ outcome = Null /\ Flow(Pipeline) /\ Reading /\ answer \in Answers
      /\ /\ answer.usage # Null /\ ~cutter.cut
         /\ sent[n] >= Teller(answer.dialect)
         => Informed(coalescer)
  BY DEF AnswerInv, Streaming, Scripted
<1>4. /\ ~Failed(x) /\ DOMAIN x = {"events", "reader"} /\ Kin(x.events)
      /\ answer.dialect = "responses" => x.reader = reader
      /\ answer.usage # Null /\ k = Teller(answer.dialect) =>
           \E i \in DOMAIN x.events : Telling(x.events[i]) \/ x.events[i].type = "error"
  BY <1>1, <1>3, ReadClosing
<1>5. IF body' = "open"
      THEN /\ ~Failed(x) /\ reader' = x.reader
           /\ outcome' = Null /\ Flow(Pipeline)'
           /\ Informed(coalescer) => Informed(coalescer')
           /\ cutter.cut => cutter'.cut
           /\ (\E i \in DOMAIN x.events : Telling(x.events[i])) => Informed(coalescer')
           /\ (\E i \in DOMAIN x.events : x.events[i].type = "error") => cutter'.cut
      ELSE /\ body' = "closed" /\ Order(given')
           /\ outcome' # Null => Failed(outcome') \/ (cutter'.cut /\ Ended(given'))
  BY <1>1, <1>3, <1>4, TakenIs
<1>6. CASE body' = "open"
  <2>1. Reading'
    BY <1>2, <1>3, <1>4, <1>5, <1>6 DEF Reading
  <2>2. ASSUME answer.usage # Null, ~cutter'.cut, k >= Teller(answer.dialect)
        PROVE  Informed(coalescer')
    <3>1. CASE k = Teller(answer.dialect)
      BY <1>4, <1>5, <1>6, <2>2, <3>1
    <3>2. CASE k # Teller(answer.dialect)
      <4>1. Teller(answer.dialect) \in Nat
        BY DEF Teller
      <4>2. sent[n] >= Teller(answer.dialect)
        BY <2>2, <3>2, <4>1
      <4>3. ~cutter.cut
        BY <1>5, <1>6, <2>2
      <4> QED BY <1>3, <1>5, <1>6, <2>2, <4>2, <4>3
    <3> QED BY <3>1, <3>2
  <2>3. sent'[Len(tracks')] = k /\ k > 0
    BY <1>2
  <2> QED BY <1>2, <1>5, <1>6, <2>1, <2>2, <2>3 DEF Streaming, Concluded
<1>7. CASE body' # "open"
  BY <1>5, <1>7 DEF Streaming, Concluded, Answered
<1> QED BY <1>6, <1>7

(* A frame sent keeps the invariant. *)
LEMMA SendKeeps ==
  ASSUME AnswerInv, NEW t \in DOMAIN tracks, Send(t)
  PROVE  AnswerInv'
<1>1. PICK n : n = Len(tracks)
  OBVIOUS
<1>2. body = "open" /\ MaySend(t) /\ UNCHANGED script /\ Scripted /\ Counted
  BY DEF Send, AnswerInv
<1>3. /\ n \in Nat /\ n >= 2 /\ DOMAIN tracks = 1..n
      /\ \A u \in 1..n : /\ ASeq(tracks[u]) /\ Len(tracks[u]) \in Nat
                         /\ DOMAIN tracks[u] = 1..Len(tracks[u])
      /\ \A u \in 1..(n - 1) : \A k \in 1..Len(tracks[u]) :
           Plain(answer.dialect, tracks[u][k])
      /\ tracks[n] = ClosingOf(answer)
  BY <1>1, <1>2, ScriptIs
<1>4. /\ sent[t] \in Nat /\ sent[t] + 1 \in 1..Len(tracks[t]) /\ sent[n] \in Nat
      /\ t # n => sent[n] = 0
  BY <1>1, <1>2, SendingIs
<1>5. CASE sent' = [sent EXCEPT ![t] = @ + 1] /\ Receive(tracks[t][sent'[t]])
  <2>1. /\ Scripted' /\ Counted' /\ sent'[t] = sent[t] + 1
        /\ \A u \in 1..n : u # t => sent'[u] = sent[u]
    BY <1>1, <1>2, <1>5, CountedOne
  <2>2. PICK k : k = sent[t] + 1
    OBVIOUS
  <2>3. CASE t = n
    <3>1. k \in 1..Len(ClosingOf(answer)) /\ sent'[n] = k /\ k = sent[n] + 1
          /\ Receive(ClosingOf(answer)[k])
      BY <1>3, <1>4, <1>5, <2>1, <2>2, <2>3
    <3> QED BY <1>1, <1>2, <1>4, <2>1, <3>1, ClosingIsTaken DEF AnswerInv
  <2>4. CASE t # n
    <3>1. PICK f : f = tracks[t][sent'[t]]
      OBVIOUS
    <3>2. t \in 1..(n - 1)
      BY <1>3, <2>4
    <3>3. Plain(answer.dialect, f) /\ Receive(f)
      BY <1>3, <1>4, <1>5, <2>1, <3>1, <3>2
    <3>4. sent[n] = 0 /\ sent'[n] = 0
      BY <1>3, <1>4, <2>1, <2>4
    <3> QED BY <1>1, <1>2, <2>1, <3>3, <3>4, PlainIsTaken DEF AnswerInv
  <2> QED BY <2>3, <2>4
<1>6. CASE /\ Joined(t) /\ sent' = [sent EXCEPT ![t] = @ + 1, ![t + 1] = 1]
           /\ Receive(GeminiJoined(Last(tracks[t]), Head(tracks[t + 1])))
  <2>1. /\ Scripted' /\ Counted'
        /\ t \in 1..(n - 1) /\ t + 1 \in 1..(n - 1) /\ Len(tracks[t + 1]) >= 1
        /\ sent'[n] = 0 /\ sent[n] = 0
    BY <1>1, <1>2, <1>6, CountedTwo
  <2>2. PICK f, g : f = Last(tracks[t]) /\ g = Head(tracks[t + 1])
    OBVIOUS
  <2>3. /\ f = tracks[t][Len(tracks[t])] /\ g = tracks[t + 1][1]
    BY <2>2 DEF Last
  <2>4. Len(tracks[t]) \in 1..Len(tracks[t]) /\ 1 \in 1..Len(tracks[t + 1])
    BY <1>3, <1>4, <2>1
  <2>5. Plain(answer.dialect, f) /\ Plain(answer.dialect, g)
    BY <1>3, <2>1, <2>3, <2>4
  <2>6. answer.dialect = "gemini"
    BY <1>6 DEF Joined
  <2>7. PICK both : both = GeminiJoined(f, g)
    OBVIOUS
  <2>8. GeminiPlain(both)
    BY <2>5, <2>6, <2>7, JoinedIsPlain DEF Plain
  <2>9. Plain(answer.dialect, both) /\ Receive(both)
    BY <1>6, <2>2, <2>6, <2>7, <2>8 DEF Plain
  <2> QED BY <1>1, <1>2, <2>1, <2>9, PlainIsTaken DEF AnswerInv
<1> QED BY <1>5, <1>6 DEF Send

(* An error of the server keeps it. *)
LEMMA SendErrorKeeps ==
  ASSUME AnswerInv, SendError
  PROVE  AnswerInv'
<1>1. PICK s, r : s = Pipeline /\ r = Pushed(s, ErrorEvent)
  OBVIOUS
<1>2. body = "open" /\ body' = "closed" /\ Becomes(r)
      /\ UNCHANGED <<answer, tracks, sent>>
  BY <1>1 DEF SendError, script
<1>3. Flow(s) /\ ErrorEvent.type # "end" /\ Sound(ErrorEvent)
  BY <1>1, <1>2, Sounds DEF AnswerInv, Streaming
<1>4. Flow(r)
  BY <1>1, <1>3, PushedKeeps
<1>5. Order(r.given) /\ (r.outcome # Null => Failed(r.outcome) \/ (r.cutter.cut /\ Ended(r.given)))
  BY <1>4 DEF Flow, Line
<1>6. given' = r.given /\ outcome' = r.outcome /\ cutter' = r.cutter
  BY <1>2 DEF Becomes
<1>7. Concluded' /\ Streaming'
  BY <1>2, <1>5, <1>6 DEF Concluded, Streaming, Answered
<1>8. Scripted' /\ Counted'
  BY <1>2 DEF AnswerInv, Scripted, Counted, ItemsSent, TrackSent
<1> QED BY <1>7, <1>8 DEF AnswerInv

(* The end of the body keeps it. *)
LEMMA EndBodyKeeps ==
  ASSUME AnswerInv, EndBody
  PROVE  AnswerInv'
<1>1. PICK s : s = Pipeline
  OBVIOUS
<1>2. PICK r : /\ r = FoldLeft(Cut, s, EmittedLast(s.coalescer, Requested))
               /\ Becomes(OrIncomplete(r))
  <2>1. s.coalescer = coalescer
    BY <1>1 DEF Pipeline
  <2>2. Becomes(OrIncomplete(FoldLeft(Cut, s, EmittedLast(s.coalescer, Requested))))
    BY <1>1, <2>1, Zenon DEF EndBody
  <2> QED BY <2>2, Zenon
<1>3. /\ body = "open" /\ body' = IF AllSent THEN "whole" ELSE "broken"
      /\ UNCHANGED <<answer, tracks, sent>>
  BY DEF EndBody, script
<1>4. /\ Flow(s) /\ s.outcome = Null /\ s.coalescer = coalescer /\ s.cutter = cutter
      /\ coalescer.sawEnd => sent[Len(tracks)] > 0
      /\ /\ answer.usage # Null /\ ~cutter.cut
         /\ sent[Len(tracks)] >= Teller(answer.dialect)
         => Informed(coalescer)
  BY <1>1, <1>3 DEF AnswerInv, Streaming, Pipeline
<1>5. /\ PShape(r) /\ Order(r.given)
      /\ r.outcome # Null =>
           \/ Failed(r.outcome)
           \/ /\ s.coalescer.sawEnd /\ ~s.cutter.cut /\ ~r.cutter.cut /\ Ended(r.given)
              /\ s.coalescer.data # Null => r.outcome.data = s.coalescer.data
  BY <1>2, <1>4, EndIs
<1>6. PICK q : q = OrIncomplete(r)
  OBVIOUS
<1>7. /\ q.given = r.given /\ q.cutter = r.cutter
      /\ q.outcome = IF r.outcome = Null THEN Failure("incomplete") ELSE r.outcome
  BY <1>5, <1>6 DEF OrIncomplete, PShape
<1>8. given' = r.given /\ cutter' = r.cutter
      /\ outcome' = IF r.outcome = Null THEN Failure("incomplete") ELSE r.outcome
  BY <1>2, <1>6, <1>7 DEF Becomes
<1>9. Failed(Failure("incomplete"))
  BY FailureIsSome
<1>10. Answered' =>
         /\ coalescer.sawEnd /\ ~cutter.cut /\ ~cutter'.cut /\ Ended(given')
         /\ coalescer.data # Null => outcome'.data = coalescer.data
  BY <1>4, <1>5, <1>8, <1>9 DEF Answered
<1>11. ASSUME Answered' PROVE ItemsSent' /\ sent'[Len(tracks')] > 0
  <2>1. sent[Len(tracks)] > 0
    BY <1>4, <1>10, <1>11
  <2>2. ItemsSent
    BY <2>1 DEF AnswerInv, Counted
  <2> QED BY <1>3, <2>1, <2>2 DEF ItemsSent, TrackSent
<1>12. ASSUME Answered', body' = "whole", answer'.usage # Null PROVE outcome'.data = "usage"
  <2>1. AllSent
    BY <1>3, <1>12
  <2>2. PICK n : n = Len(tracks)
    OBVIOUS
  <2>3. n \in DOMAIN tracks /\ tracks[n] = ClosingOf(answer) /\ answer \in Answers
    BY <2>2, ScriptIs DEF AnswerInv, Scripted
  <2>4. sent[n] = Len(ClosingOf(answer))
    BY <2>1, <2>3 DEF AllSent, TrackSent
  <2>5. sent[n] >= Teller(answer.dialect)
    <3>1. Teller(answer.dialect) \in 1..Len(ClosingOf(answer)) /\ ASeq(ClosingOf(answer))
      BY <2>3, ClosingIs
    <3>2. Len(ClosingOf(answer)) \in Nat
      BY <3>1, SeqLen
    <3> QED BY <2>4, <3>1, <3>2
  <2>6. Informed(coalescer)
    BY <1>3, <1>4, <1>10, <1>12, <2>2, <2>5
  <2> QED BY <1>10, <1>12, <2>6, AbsenceAssumption DEF Informed
<1>13. Concluded' /\ Streaming'
  BY <1>3, <1>5, <1>8, <1>10, <1>11, <1>12 DEF Concluded, Streaming
<1>14. Scripted' /\ Counted'
  BY <1>3 DEF AnswerInv, Scripted, Counted, ItemsSent, TrackSent
<1> QED BY <1>13, <1>14 DEF AnswerInv

(* A body that ends inside an event keeps it. *)
LEMMA BreakEventKeeps ==
  ASSUME AnswerInv, BreakEvent
  PROVE  AnswerInv'
<1>1. /\ body = "open" /\ body' = "failed" /\ outcome' = Failure("malformed")
      /\ UNCHANGED <<answer, tracks, sent, given>>
  BY DEF BreakEvent, script
<1>2. Order(given)
  <2>1. Flow(Pipeline) /\ Pipeline.given = given
    BY <1>1 DEF AnswerInv, Streaming, Pipeline
  <2> QED BY <2>1 DEF Flow, Line
<1>3. Failed(Failure("malformed"))
  BY FailureIsSome
<1>4. Concluded' /\ Streaming'
  BY <1>1, <1>2, <1>3 DEF Concluded, Streaming, Answered
<1>5. Scripted' /\ Counted'
  BY <1>1 DEF AnswerInv, Scripted, Counted, ItemsSent, TrackSent
<1> QED BY <1>4, <1>5 DEF AnswerInv

-----------------------------------------------------------------------------
(* The invariant holds at the start. *)
LEMMA AnswerInvStarts ==
  ASSUME Init
  PROVE  AnswerInv
<1>1. /\ answer \in Answers /\ tracks = TracksOf(answer)
      /\ sent = [t \in DOMAIN tracks |-> 0] /\ reader = NewReader(answer.dialect)
      /\ coalescer = NewCoalescer /\ accumulator = NewAccumulator
      /\ given = <<>> /\ body = "open" /\ outcome = Null
  BY DEF Init
<1>2. PICK stop : cutter = NewCutter(stop)
  BY DEF Init
<1>3. Scripted
  BY <1>1 DEF Scripted
<1>4. PICK n : n = Len(tracks)
  OBVIOUS
<1>5. /\ n \in DOMAIN tracks
      /\ \A t \in DOMAIN tracks : Len(tracks[t]) \in Nat /\ 0 \in 0..Len(tracks[t])
  BY <1>3, <1>4, ScriptIs
<1>6. Counted /\ sent[n] = 0
  <2>1. \A t \in DOMAIN tracks : sent[t] = 0
    BY <1>1
  <2>2. DOMAIN sent = DOMAIN tracks /\ sent = [t \in DOMAIN tracks |-> sent[t]]
    BY <1>1
  <2> QED BY <1>4, <1>5, <2>1, <2>2 DEF Counted
<1>7. Reading
  BY <1>1 DEF Reading, NewReader, NewResponsesReader, RShape
<1>8. CShape(coalescer) /\ ~coalescer.started /\ ~coalescer.sawEnd
  BY <1>1 DEF NewCoalescer, CShape
<1>9. KShape(cutter) /\ cutter.held = <<>> /\ cutter.cut = FALSE
  <2>1. ASeq(<<>>) /\ DOMAIN <<>> = {}
    BY Short
  <2> QED BY <1>2, <2>1 DEF NewCutter, KShape, Deltas
<1>10. AShape(accumulator)
  BY <1>1 DEF NewAccumulator, AShape
<1>11. Flow(Pipeline)
  <2>1. PICK s : s = Pipeline
    OBVIOUS
  <2>2. /\ PShape(s) /\ s.coalescer = coalescer /\ s.cutter = cutter
        /\ s.accumulator = accumulator /\ s.given = <<>> /\ s.outcome = Null
    BY <1>1, <2>1 DEF Pipeline, PShape
  <2>3. Order(<<>>) /\ Unended(<<>>)
    BY Short DEF Order, Unended
  <2>4. Line(s) /\ Silent(s)
    BY <1>9, <1>10, <2>2, <2>3 DEF Line, Silent
  <2> QED BY <1>8, <2>1, <2>2, <2>4 DEF Flow
<1>12. Teller(answer.dialect) \in {1, 2}
  BY DEF Teller
<1>13. Streaming
  <2>1. ~(sent[n] >= Teller(answer.dialect))
    BY <1>6, <1>12
  <2> QED BY <1>1, <1>4, <1>7, <1>8, <1>11, <2>1 DEF Streaming
<1>14. Concluded
  BY <1>1 DEF Concluded
<1> QED BY <1>3, <1>6, <1>13, <1>14 DEF AnswerInv

(* And no step breaks it. *)
LEMMA AnswerInvKeeps ==
  ASSUME AnswerInv, [Next]_vars
  PROVE  AnswerInv'
<1>1. CASE \E t \in DOMAIN tracks : Send(t)
  BY <1>1, SendKeeps
<1>2. CASE SendError
  BY <1>2, SendErrorKeeps
<1>3. CASE EndBody
  BY <1>3, EndBodyKeeps
<1>4. CASE BreakEvent
  BY <1>4, BreakEventKeeps
<1>5. CASE UNCHANGED vars
  <2>1. /\ answer' = answer /\ tracks' = tracks /\ sent' = sent /\ reader' = reader
        /\ coalescer' = coalescer /\ cutter' = cutter /\ accumulator' = accumulator
        /\ given' = given /\ body' = body /\ outcome' = outcome
    BY <1>5 DEF vars
  <2>2. Scripted' /\ Counted'
    BY <2>1 DEF AnswerInv, Scripted, Counted, ItemsSent, TrackSent
  <2>3. Pipeline' = Pipeline
    BY <2>1 DEF Pipeline
  <2>4. Streaming'
    BY <2>1, <2>3 DEF AnswerInv, Streaming, Reading, Flow, Line, Spoken, Silent, Quiet
  <2>5. Concluded'
    BY <2>1 DEF AnswerInv, Concluded, Answered, ItemsSent, TrackSent
  <2> QED BY <2>2, <2>4, <2>5 DEF AnswerInv
<1> QED BY <1>1, <1>2, <1>3, <1>4, <1>5 DEF Next

(* Every streamed answer: the server's frames in order, the client's flow  *)
(* from the first event to the last, and what an outcome is made of.       *)
THEOREM AnswerInvHolds == Spec => []AnswerInv
<1>1. Init => AnswerInv
  BY AnswerInvStarts
<1>2. AnswerInv /\ [Next]_vars => AnswerInv'
  BY AnswerInvKeeps
<1> QED BY <1>1, <1>2, PTL DEF Spec

(* The consumer is given one start and one end, in their places, and the   *)
(* end has the data of the frame that told the usage (MAP-3, MAP-4,        *)
(* adapter.ts:528): for every answer, dialect, stop and interleaving of    *)
(* parallel calls.                                                         *)
THEOREM OneStartOneEndHolds == Spec => []OneStartOneEnd
<1>1. AnswerInv => OneStartOneEnd
  <2> SUFFICES ASSUME AnswerInv PROVE OneStartOneEnd
    OBVIOUS
  <2>1. Order(given)
    <3>1. CASE body = "open"
      <4>1. Flow(Pipeline) /\ Pipeline.given = given
        BY <3>1 DEF AnswerInv, Streaming, Pipeline
      <4> QED BY <4>1 DEF Flow, Line
    <3>2. CASE body # "open"
      BY <3>2 DEF AnswerInv, Concluded
    <3> QED BY <3>1, <3>2
  <2>2. Answered =>
          /\ Ended(given)
          /\ ~cutter.cut => body \in {"whole", "broken"}
          /\ body = "whole" /\ answer.usage # Null => outcome.data = "usage"
    BY DEF AnswerInv, Streaming, Concluded, Answered
  <2>3. Ended(given) => Last(given).type = "end"
    BY DEF Ended, Last
  <2> QED BY <2>1, <2>2, <2>3 DEF OneStartOneEnd, Order, Final
<1> QED BY <1>1, AnswerInvHolds, PTL

-----------------------------------------------------------------------------
(* What the reader of the Responses wire saw of an item: the text of the   *)
(* tokens that its fragments carried, and the part of the summary it is in.*)
TextTo(item, n) == ItemText([item EXCEPT !.tokens = SubSeq(@, 1, n)])

Carrying(k, item) == IF k = 0 THEN 0 ELSE IF k - 1 <= Fragments(item) THEN k - 1
                                          ELSE Fragments(item)

SeenAt(r, item, at, m) ==
  /\ At(r.seen, at, <<>>) = TextTo(item, Reach(item, m))
  /\ item.kind = "thinking" => At(r.part, at, 0) = PartOfToken(item, m)

DeliveredBy(r, item, at, count, size) ==
  IF count < size THEN SeenAt(r, item, at, Carrying(count, item))
  ELSE Complete(FragmentsOf(item), item)

ItemDelivered(i) ==
  DeliveredBy(reader, answer.items[i], i - 1, sent[i + 1], Len(tracks[i + 1]))

(* An item that is done was not contradicted by its fragments. *)
Delivered ==
  answer.dialect = "responses" /\ body \in {"open", "whole", "broken"} =>
    \A i \in DOMAIN answer.items : ItemDelivered(i)

(* Sequences with the same elements are the same. *)
LEMMA SameSeq ==
  ASSUME NEW s, NEW t, ASeq(s), ASeq(t), Len(s) = Len(t), \A i \in 1..Len(s) : s[i] = t[i]
  PROVE  s = t
BY OneNotion, Cuts!SameSeq

(* Nothing before or after a sequence is that sequence. *)
LEMMA NothingAdded ==
  ASSUME NEW s, ASeq(s)
  PROVE  s \o <<>> = s /\ <<>> \o s = s
BY OneNotion, Cuts!NothingAdded

(* Flattened up to m, and from there to k. *)
LEMMA FlatOfParts ==
  ASSUME NEW seqs, ASeq(seqs), \A i \in DOMAIN seqs : ASeq(seqs[i]),
         NEW m \in Nat, NEW k \in Nat, m <= k, k <= Len(seqs)
  PROVE  FlattenSeq(SubSeq(seqs, 1, k))
           = FlattenSeq(SubSeq(seqs, 1, m)) \o FlattenSeq(SubSeq(seqs, m + 1, k))
<1>1. PICK d : d = k - m
  OBVIOUS
<1>2. d \in Nat /\ m + d = k /\ m + d <= Len(seqs)
  BY <1>1
<1>3. Cuts!ASeq(seqs) /\ \A i \in DOMAIN seqs : Cuts!ASeq(seqs[i])
  BY OneNotion
<1>4. Cuts!FlattenSeq(SubSeq(seqs, 1, m + d))
        = Cuts!FlattenSeq(SubSeq(seqs, 1, m)) \o Cuts!FlattenSeq(SubSeq(seqs, m + 1, m + d))
  BY <1>2, <1>3, Cuts!FlattenOfParts
<1> QED BY <1>2, <1>4, FlattenIs

(* None and one, flattened. *)
LEMMA FlatOfFew ==
  /\ FlattenSeq(<<>>) = <<>>
  /\ \A t : ASeq(t) => FlattenSeq(<<t>>) = t
<1>1. FlattenSeq(<<>>) = <<>>
  BY FlattenIs, Cuts!FlattenOfNone
<1>2. ASSUME NEW t, ASeq(t) PROVE FlattenSeq(<<t>>) = t
  <2>1. Cuts!ASeq(<<>>) /\ Cuts!ASeq(t)
    BY <1>2, OneNotion, Short
  <2>2. Cuts!FlattenSeq(Append(<<>>, t)) = Cuts!FlattenSeq(<<>>) \o t
    BY <2>1, Cuts!FlattenOfMore
  <2>3. FlattenSeq(<<t>>) = <<>> \o t
    BY <2>2, Short, FlattenIs, Cuts!FlattenOfNone
  <2> QED BY <1>2, <2>3, NothingAdded
<1> QED BY <1>1, <1>2

(* The one element of a slice, and the slice of nothing. *)
LEMMA SliceOfOne ==
  ASSUME NEW s, ASeq(s), NEW k \in 1..Len(s)
  PROVE  SubSeq(s, k, k) = <<s[k]>> /\ SubSeq(s, 1, 0) = <<>>
BY OneNotion, Cuts!SliceOfOne

(* An item that comes in fragments. *)
Streamable(item) ==
  /\ {"kind", "tokens", "part"} \subseteq DOMAIN item
  /\ Fragmented(item) /\ ASeq(item.tokens)
  /\ \A i \in DOMAIN item.tokens : ASeq(item.tokens[i])

Risen(item, k) == PartOfToken(item, k) - PartOfToken(item, k - 1)
Piece(item, k) == Newlines(Risen(item, k)) \o item.tokens[k]
Pieces(item) == [k \in DOMAIN item.tokens |-> Piece(item, k)]

(* The parts of a summary come in order. *)
LEMMA PartsRise ==
  ASSUME NEW item, Streamable(item), NEW k \in 1..Len(item.tokens)
  PROVE  /\ PartOfToken(item, k) \in Nat /\ PartOfToken(item, k - 1) \in Nat
         /\ PartOfToken(item, k - 1) <= PartOfToken(item, k)
         /\ Risen(item, k) \in Nat
         /\ item.kind # "thinking" => Risen(item, k) = 0
<1>1. Len(item.tokens) \in Nat /\ DOMAIN item.tokens = 1..Len(item.tokens)
  BY SeqLen DEF Streamable
<1>2. CASE item.kind # "thinking"
  BY <1>2 DEF PartOfToken, Risen
<1>3. CASE item.kind = "thinking"
  <2>1. /\ \A j \in DOMAIN item.tokens : item.part[j] \in Nat
        /\ \A i, j \in DOMAIN item.tokens : i <= j => item.part[i] <= item.part[j]
    BY <1>3 DEF Streamable, Fragmented
  <2>2. PartOfToken(item, k) = item.part[k] /\ item.part[k] \in Nat
    BY <1>1, <1>3, <2>1 DEF PartOfToken
  <2>3. CASE k = 1
    <3>1. PartOfToken(item, k - 1) = 0
      BY <2>3 DEF PartOfToken
    <3> QED BY <1>3, <2>2, <3>1 DEF Risen
  <2>4. CASE k # 1
    <3>1. k - 1 \in DOMAIN item.tokens /\ k \in DOMAIN item.tokens /\ k - 1 <= k /\ k - 1 # 0
      BY <1>1, <2>4
    <3>2. PartOfToken(item, k - 1) = item.part[k - 1]
      BY <1>3, <3>1 DEF PartOfToken
    <3>3. item.part[k - 1] \in Nat /\ item.part[k - 1] <= item.part[k]
      BY <2>1, <3>1
    <3> QED BY <1>3, <2>2, <3>2, <3>3 DEF Risen
  <2> QED BY <2>3, <2>4
<1> QED BY <1>2, <1>3

(* The pieces of an item: its tokens, with newlines before a later part. *)
LEMMA PiecesAre ==
  ASSUME NEW item, Streamable(item)
  PROVE  /\ ASeq(Pieces(item)) /\ Len(Pieces(item)) = Len(item.tokens)
         /\ \A k \in 1..Len(item.tokens) :
              /\ Pieces(item)[k] = Piece(item, k) /\ ASeq(Piece(item, k))
              /\ item.kind # "thinking" => Piece(item, k) = item.tokens[k]
         /\ \A k \in DOMAIN Pieces(item) : ASeq(Pieces(item)[k])
         /\ item.kind # "thinking" => Pieces(item) = item.tokens
<1> DEFINE n == Len(item.tokens)
           s == Pieces(item)
<1>1. n \in Nat /\ DOMAIN item.tokens = 1..n /\ ASeq(item.tokens)
  BY SeqLen DEF Streamable
<1>2. ASSUME NEW k \in 1..n
      PROVE  /\ s[k] = Piece(item, k) /\ ASeq(Piece(item, k))
             /\ item.kind # "thinking" => Piece(item, k) = item.tokens[k]
  <2>1. Risen(item, k) \in Nat /\ (item.kind # "thinking" => Risen(item, k) = 0)
    BY PartsRise
  <2>2. PICK u, v : u = Newlines(Risen(item, k)) /\ v = item.tokens[k]
    OBVIOUS
  <2>3. ASeq(u) /\ (item.kind # "thinking" => u = <<>>) /\ ASeq(v)
    BY <1>1, <2>1, <2>2, NewlinesAre DEF Streamable
  <2>4. ASeq(u \o v) /\ <<>> \o v = v
    BY <2>3, Concatenated, NothingAdded
  <2>5. Piece(item, k) = u \o v
    BY <2>2 DEF Piece
  <2>6. s[k] = Piece(item, k)
    BY <1>1 DEF Pieces
  <2> QED BY <2>2, <2>3, <2>4, <2>5, <2>6
<1>3. s = [k \in 1..n |-> s[k]] /\ DOMAIN s = 1..n
  BY <1>1 DEF Pieces
<1> HIDE DEF s
<1>4. ASeq(s) /\ Len(s) = n
  <2> HIDE DEF n
  <2> QED BY <1>1, <1>3, Tabled
<1>5. ASSUME item.kind # "thinking" PROVE s = item.tokens
  <2>1. PICK t : t = item.tokens
    OBVIOUS
  <2>2. Len(s) = Len(t) /\ ASeq(t) /\ \A i \in 1..Len(s) : s[i] = t[i]
    BY <1>1, <1>2, <1>4, <1>5, <2>1
  <2> QED BY <1>4, <2>1, <2>2, SameSeq
<1> QED BY <1>2, <1>3, <1>4, <1>5 DEF s

(* The text of the first tokens is that of the first pieces. *)
LEMMA TextToIs ==
  ASSUME NEW item, Streamable(item), NEW n \in Nat, n <= Len(item.tokens)
  PROVE  TextTo(item, n) = FlattenSeq(SubSeq(Pieces(item), 1, n))
<1>1. PICK s, t, all : s = SubSeq(item.tokens, 1, n) /\ all = Pieces(item)
                       /\ t = SubSeq(all, 1, n)
  OBVIOUS
<1>2. /\ ASeq(item.tokens) /\ Len(item.tokens) \in Nat
      /\ ASeq(all) /\ Len(all) = Len(item.tokens)
      /\ \A k \in 1..Len(item.tokens) : all[k] = Piece(item, k)
  BY <1>1, PiecesAre, SeqLen DEF Streamable
<1>3. 1 \in Nat \ {0} /\ (IF 1 <= n THEN n - 1 + 1 ELSE 0) = n /\ 1..(n - 1 + 1) = 1..n
      /\ \A i \in 1..n : 1 + i - 1 = i
  OBVIOUS
<1>4. ASeq(s) /\ Len(s) = n /\ \A i \in 1..n : s[i] = item.tokens[i]
  BY <1>1, <1>2, <1>3, Sliced
<1>5. ASeq(t) /\ Len(t) = n /\ \A i \in 1..n : t[i] = all[i]
  BY <1>1, <1>2, <1>3, Sliced
<1>6. DOMAIN s = 1..n
  BY <1>4, SeqLen
<1>7. PICK cut : cut = [item EXCEPT !.tokens = SubSeq(@, 1, n)]
  OBVIOUS
<1>8. cut.tokens = s /\ cut.kind = item.kind /\ cut.part = item.part
  BY <1>1, <1>7 DEF Streamable
<1>9. \A k : PartOfToken(cut, k) = PartOfToken(item, k)
  BY <1>8 DEF PartOfToken
<1>10. PICK u : u = [k \in DOMAIN cut.tokens |->
         Newlines(PartOfToken(cut, k) - PartOfToken(cut, k - 1)) \o cut.tokens[k]]
  OBVIOUS
<1>11. u = [k \in 1..n |-> u[k]] /\ \A k \in 1..n : u[k] = Piece(item, k)
  <2>1. DOMAIN cut.tokens = 1..n
    BY <1>6, <1>8
  <2>2. u = [k \in 1..n |->
          Newlines(PartOfToken(cut, k) - PartOfToken(cut, k - 1)) \o cut.tokens[k]]
    BY <1>10, <2>1
  <2>3. u = [k \in 1..n |-> u[k]]
    BY <2>2
  <2>4. ASSUME NEW k \in 1..n PROVE u[k] = Piece(item, k)
    <3>1. u[k] = Newlines(PartOfToken(cut, k) - PartOfToken(cut, k - 1)) \o cut.tokens[k]
      BY <2>2
    <3>2. cut.tokens[k] = item.tokens[k]
      BY <1>4, <1>8
    <3>3. PartOfToken(cut, k) = PartOfToken(item, k)
          /\ PartOfToken(cut, k - 1) = PartOfToken(item, k - 1)
      BY <1>9
    <3> QED BY <3>1, <3>2, <3>3 DEF Piece, Risen
  <2> QED BY <2>3, <2>4
<1>12. ASeq(u) /\ Len(u) = n
  BY <1>11, Tabled
<1>13. \A i \in 1..n : i \in 1..Len(item.tokens)
  BY <1>2
<1>14. u = t
  <2>1. \A i \in 1..Len(u) : u[i] = t[i]
    BY <1>2, <1>5, <1>11, <1>12, <1>13
  <2> QED BY <1>5, <1>12, <2>1, SameSeq
<1>15. TextTo(item, n) = FlattenSeq(u)
  BY <1>7, <1>10 DEF TextTo, ItemText
<1> QED BY <1>1, <1>14, <1>15

(* Each fragment adds to the text exactly what the reader adds. *)
LEMMA TextGrows ==
  ASSUME NEW item, Streamable(item), NEW k \in 1..Fragments(item)
  PROVE  /\ item.kind # "thinking" =>
              Joins(TextTo(item, Reach(item, k)), TextTo(item, Reach(item, k - 1)),
                    Fragment(item, k))
         /\ item.kind = "thinking" =>
              /\ k \in 1..Len(item.tokens)
              /\ Joins(TextTo(item, Reach(item, k)), TextTo(item, Reach(item, k - 1)),
                       Newlines(Risen(item, k)) \o Fragment(item, k))
<1>1. /\ Len(item.tokens) \in Nat /\ DOMAIN item.tokens = 1..Len(item.tokens)
      /\ ASeq(item.tokens) /\ Fragmented(item)
      /\ \A i \in DOMAIN item.tokens : ASeq(item.tokens[i])
  BY SeqLen DEF Streamable
<1>2. PICK x, y, all : x = Reach(item, k - 1) /\ y = Reach(item, k) /\ all = Pieces(item)
  OBVIOUS
<1>3. /\ x = (k - 1) * item.size /\ x \in Nat /\ y \in Nat /\ x < y
      /\ y <= Len(item.tokens)
  BY <1>1, <1>2, ReachIs
<1>4. /\ ASeq(all) /\ Len(all) = Len(item.tokens)
      /\ \A i \in 1..Len(item.tokens) : all[i] = Piece(item, i) /\ ASeq(Piece(item, i))
      /\ \A i \in DOMAIN all : ASeq(all[i])
      /\ item.kind # "thinking" => all = item.tokens
  BY <1>2, PiecesAre
<1>5. FlattenSeq(SubSeq(all, 1, y))
        = FlattenSeq(SubSeq(all, 1, x)) \o FlattenSeq(SubSeq(all, x + 1, y))
  <2>1. x <= y /\ y <= Len(all)
    BY <1>3, <1>4
  <2>2. ASeq(all) /\ \A i \in DOMAIN all : ASeq(all[i])
    BY <1>4
  <2> QED BY <1>3, <2>1, <2>2, FlatOfParts
<1>6. TextTo(item, x) = FlattenSeq(SubSeq(all, 1, x))
      /\ TextTo(item, y) = FlattenSeq(SubSeq(all, 1, y))
  <2>1. x <= Len(item.tokens)
    BY <1>1, <1>3
  <2> QED BY <1>2, <1>3, <2>1, TextToIs
<1>7. Joins(TextTo(item, y), TextTo(item, x), FlattenSeq(SubSeq(all, x + 1, y)))
  BY <1>5, <1>6 DEF Joins
<1>8. Fragment(item, k) = FlattenSeq(SubSeq(item.tokens, x + 1, y))
  BY <1>2, <1>3 DEF Fragment
<1>9. ASSUME item.kind = "thinking"
      PROVE  /\ k \in 1..Len(item.tokens)
             /\ FlattenSeq(SubSeq(all, x + 1, y))
                  = Newlines(Risen(item, k)) \o Fragment(item, k)
  <2>1. item.size = 1
    BY <1>1, <1>9 DEF Fragmented
  <2>2. x = k - 1
    BY <1>3, <2>1
  <2>3. y = k
    <3>1. y <= k * item.size
      <4>1. k * item.size = k /\ k \in Nat /\ item.sent \in Nat
        BY <1>1, <2>1 DEF Fragmented
      <4>2. y = Lesser(k, item.sent)
        BY <1>2, <4>1 DEF Reach, Lesser
      <4>3. Lesser(k, item.sent) = IF k <= item.sent THEN k ELSE item.sent
        BY <4>1, GreaterOf
      <4> QED BY <4>1, <4>2, <4>3
    <3>2. k * item.size = k
      BY <2>1
    <3> QED BY <1>3, <2>2, <3>1, <3>2
  <2>4. k \in 1..Len(item.tokens)
    BY <1>1, <1>3, <2>3
  <2>5. x + 1 = k
    BY <2>2
  <2>6. /\ SubSeq(all, k, k) = <<all[k]>> /\ SubSeq(item.tokens, k, k) = <<item.tokens[k]>>
    <3>1. k \in 1..Len(all) /\ ASeq(all) /\ ASeq(item.tokens)
      BY <1>1, <1>4, <2>4
    <3> QED BY <2>4, <3>1, SliceOfOne
  <2>7. all[k] = Piece(item, k) /\ ASeq(all[k]) /\ ASeq(item.tokens[k])
    BY <1>1, <1>4, <2>4
  <2>8. FlattenSeq(SubSeq(all, k, k)) = all[k]
        /\ FlattenSeq(SubSeq(item.tokens, k, k)) = item.tokens[k]
    BY <2>6, <2>7, FlatOfFew
  <2> QED BY <1>8, <2>3, <2>4, <2>5, <2>7, <2>8 DEF Piece
<1>10. ASSUME item.kind # "thinking"
       PROVE  FlattenSeq(SubSeq(all, x + 1, y)) = Fragment(item, k)
  BY <1>4, <1>8, <1>10
<1> QED BY <1>2, <1>7, <1>9, <1>10

(* Before the first fragment there is none; after the last, all of them. *)
LEMMA TextStarts ==
  ASSUME NEW item, Streamable(item)
  PROVE  /\ TextTo(item, Reach(item, 0)) = <<>> /\ PartOfToken(item, 0) = 0
         /\ TextTo(item, Reach(item, Fragments(item))) = FragmentsOf(item)
         /\ Fragments(item) \in Nat
<1>1. Len(item.tokens) \in Nat /\ ASeq(item.tokens) /\ Fragmented(item)
  BY SeqLen DEF Streamable
<1>2. /\ Reach(item, 0) = 0 /\ Reach(item, Fragments(item)) = item.sent
      /\ Fragments(item) \in Nat
  BY <1>1, ReachIs
<1>3. TextTo(item, 0) = <<>>
  <2>1. SubSeq(Pieces(item), 1, 0) = <<>>
    OBVIOUS
  <2>2. TextTo(item, 0) = FlattenSeq(SubSeq(Pieces(item), 1, 0))
    BY <1>1, TextToIs
  <2> QED BY <2>1, <2>2, FlatOfFew
<1> QED BY <1>2, <1>3 DEF PartOfToken, TextTo, FragmentsOf

(* The reader follows the frames of an item. *)
LEMMA ItemFollowed ==
  ASSUME NEW a \in Answers, a.dialect = "responses", NEW i \in DOMAIN a.items,
         NEW item, item = a.items[i], NEW track, track = ResponsesFramesOf(a, i),
         NEW r, RShape(r), NEW k \in Nat, k < Len(track),
         SeenAt(r, item, i - 1, Carrying(k, item)),
         NEW x, x = ResponsesFeed(r, track[k + 1]), ~Failed(x)
  PROVE  /\ Elsewhere(r, x.reader, i - 1)
         /\ k + 1 < Len(track) => SeenAt(x.reader, item, i - 1, Carrying(k + 1, item))
         /\ k + 1 = Len(track) => Complete(FragmentsOf(item), item)
<1>1. PICK n, m, f, at : n = Fragments(item) /\ m = Len(item.sources)
                         /\ f = track[k + 1] /\ at = i - 1
  OBVIOUS
<1>2. /\ Streamable(item) /\ m \in Nat
      /\ item.kind \in {"thinking", "text", "refusal", "tool_call"}
  BY ZenonT(30), <1>1, ItemIs DEF Streamable, KindsOf
<1>3. n \in Nat /\ TextTo(item, Reach(item, n)) = FragmentsOf(item)
  BY <1>1, <1>2, TextStarts
<1>4. /\ Track("responses", track) /\ Len(track) = n + m + 2
      /\ \A j \in DOMAIN track : track[j].index = at
      /\ track[1].type = "item_added"
      /\ \A j \in 1..n :
           /\ track[j + 1].text = Fragment(item, j)
           /\ item.kind = "thinking" => /\ track[j + 1].type = "summary_delta"
                                        /\ track[j + 1].part = PartOfToken(item, j)
           /\ item.kind # "thinking" =>
                track[j + 1].type \in {"text_delta", "arguments_delta"}
      /\ \A j \in 1..m : track[n + j + 1].type = "annotation_added"
      /\ track[n + m + 2].type = "item_done" /\ track[n + m + 2].item = item
  BY SMTT(20), <1>1, ResponsesTrackIs
<1>5. DOMAIN track = 1..(n + m + 2) /\ k + 1 \in 1..(n + m + 2)
  <2>1. ASeq(track)
    BY <1>4 DEF Track
  <2>2. DOMAIN track = 1..(n + m + 2)
    BY <1>4, <2>1, SeqLen
  <2> QED BY <1>2, <1>3, <1>4, <2>2
<1>6. ResponsesPlain(f) /\ f.index = at /\ x = ResponsesFeed(r, f)
  BY <1>1, <1>4, <1>5 DEF Track, Plain
<1>7. f.type # "summary_delta" =>
        /\ Elsewhere(r, x.reader, at)
        /\ f.type \in {"text_delta", "arguments_delta"} =>
             /\ Joins(At(x.reader.seen, at, <<>>), At(r.seen, at, <<>>), f.text)
             /\ x.reader.part = r.part
        /\ f.type \in {"created", "item_added", "annotation_added"} =>
             x.reader.seen = r.seen /\ x.reader.part = r.part
        /\ f.type = "item_done" => Complete(At(r.seen, at, <<>>), f.item)
  BY <1>6, FeedIs
<1>8. f.type = "summary_delta" =>
        /\ Elsewhere(r, x.reader, at)
        /\ Joins(At(x.reader.seen, at, <<>>), At(r.seen, at, <<>>), Prefixed(r, f))
        /\ At(x.reader.part, at, 0)
             = IF f.part >= At(r.part, at, 0) THEN f.part ELSE At(r.part, at, 0)
  BY <1>6, SummaryIs
<1>9. Elsewhere(r, x.reader, at)
  BY <1>7, <1>8
<1>10. SeenAt(r, item, at, Carrying(k, item))
  BY <1>1
<1>11. CASE k = 0
  <2>1. f.type = "item_added"
    BY <1>1, <1>4, <1>11
  <2>2. x.reader.seen = r.seen /\ x.reader.part = r.part
    BY <1>7, <2>1
  <2>3. Carrying(k, item) = 0 /\ Carrying(k + 1, item) = 0
    BY <1>1, <1>3, <1>11 DEF Carrying
  <2>4. SeenAt(x.reader, item, at, Carrying(k + 1, item))
    BY <1>10, <2>2, <2>3 DEF SeenAt
  <2>5. k + 1 # Len(track)
    BY <1>2, <1>3, <1>4, <1>11
  <2> QED BY <1>1, <1>9, <2>4, <2>5
<1>12. CASE k \in 1..n
  <2>1. Carrying(k, item) = k - 1 /\ Carrying(k + 1, item) = k /\ k + 1 # Len(track)
    BY <1>1, <1>2, <1>3, <1>4, <1>12 DEF Carrying
  <2>2. /\ f.text = Fragment(item, k)
        /\ item.kind = "thinking" => f.type = "summary_delta" /\ f.part = PartOfToken(item, k)
        /\ item.kind # "thinking" => f.type \in {"text_delta", "arguments_delta"}
    BY <1>1, <1>4, <1>12
  <2>3. PICK old, new, was : /\ old = TextTo(item, Reach(item, k - 1))
                             /\ new = TextTo(item, Reach(item, k))
                             /\ was = PartOfToken(item, k - 1)
    OBVIOUS
  <2>4. At(r.seen, at, <<>>) = old /\ (item.kind = "thinking" => At(r.part, at, 0) = was)
    BY <1>10, <2>1, <2>3 DEF SeenAt
  <2>5. /\ item.kind # "thinking" => Joins(new, old, f.text)
        /\ item.kind = "thinking" =>
             /\ k \in 1..Len(item.tokens)
             /\ Joins(new, old, Newlines(Risen(item, k)) \o f.text)
    BY <1>1, <1>2, <1>12, <2>2, <2>3, TextGrows
  <2>6. CASE item.kind # "thinking"
    <3>1. Joins(At(x.reader.seen, at, <<>>), old, f.text)
      BY <1>7, <2>2, <2>4, <2>6
    <3>2. At(x.reader.seen, at, <<>>) = new
      BY <2>5, <2>6, <3>1 DEF Joins
    <3>3. SeenAt(x.reader, item, at, Carrying(k + 1, item))
      BY <2>1, <2>3, <2>6, <3>2 DEF SeenAt
    <3> QED BY <1>1, <1>9, <2>1, <3>3
  <2>7. CASE item.kind = "thinking"
    <3>1. /\ f.part \in Nat /\ was \in Nat /\ was <= f.part /\ Risen(item, k) = f.part - was
      BY <1>2, <2>2, <2>3, <2>5, <2>7, PartsRise DEF Risen
    <3>2. Max({0, f.part - was}) = f.part - was
      <4>1. PICK d : d = f.part - was
        OBVIOUS
      <4>2. d \in Int /\ 0 \in Int /\ d >= 0
        BY <3>1, <4>1
      <4>3. Greater(0, d) = d
        BY <4>2, GreaterOf
      <4> QED BY <4>1, <4>3 DEF Greater
    <3>3. Prefixed(r, f) = Newlines(Risen(item, k)) \o f.text
      BY <1>6, <2>4, <2>7, <3>1, <3>2 DEF Prefixed
    <3>4. Joins(At(x.reader.seen, at, <<>>), old, Newlines(Risen(item, k)) \o f.text)
      BY <1>8, <2>2, <2>4, <2>7, <3>3
    <3>5. At(x.reader.seen, at, <<>>) = new
      BY <2>5, <2>7, <3>4 DEF Joins
    <3>6. At(x.reader.part, at, 0) = f.part
      BY <1>8, <2>2, <2>4, <2>7, <3>1
    <3>7. SeenAt(x.reader, item, at, Carrying(k + 1, item))
      BY <2>1, <2>2, <2>3, <2>7, <3>5, <3>6 DEF SeenAt
    <3> QED BY <1>1, <1>9, <2>1, <3>7
  <2> QED BY <2>6, <2>7
<1>13. CASE k \in (n + 1)..(n + m)
  <2>1. k - n \in 1..m /\ n + (k - n) + 1 = k + 1
    BY <1>2, <1>3, <1>13
  <2>2. f.type = "annotation_added"
    BY <1>1, <1>4, <2>1
  <2>3. x.reader.seen = r.seen /\ x.reader.part = r.part
    BY <1>7, <2>2
  <2>4. Carrying(k, item) = n /\ Carrying(k + 1, item) = n /\ k + 1 # Len(track)
    BY <1>1, <1>2, <1>3, <1>4, <1>13 DEF Carrying
  <2>5. SeenAt(x.reader, item, at, Carrying(k + 1, item))
    BY <1>10, <2>3, <2>4 DEF SeenAt
  <2> QED BY <1>1, <1>9, <2>4, <2>5
<1>14. CASE k = n + m + 1
  <2>1. f.type = "item_done" /\ f.item = item
    BY SMTT(20), <1>1, <1>2, <1>3, <1>4, <1>14
  <2>2. Carrying(k, item) = n /\ ~(k + 1 < Len(track))
    BY SMTT(20), <1>1, <1>2, <1>3, <1>4, <1>14 DEF Carrying
  <2>3. At(r.seen, at, <<>>) = FragmentsOf(item)
    BY <1>3, <1>10, <2>2 DEF SeenAt
  <2>4. Complete(FragmentsOf(item), item)
    BY <1>7, <2>1, <2>3
  <2> QED BY <1>1, <1>9, <2>2, <2>4
<1> QED BY <1>2, <1>3, <1>4, <1>5, <1>11, <1>12, <1>13, <1>14

(* What was delivered of an item depends on what was seen of it. *)
LEMMA DeliveredElsewhere ==
  ASSUME NEW r, NEW q, NEW at, NEW item, NEW count, NEW size,
         DeliveredBy(r, item, at, count, size),
         At(q.seen, at, <<>>) = At(r.seen, at, <<>>), At(q.part, at, 0) = At(r.part, at, 0)
  PROVE  DeliveredBy(q, item, at, count, size)
BY DEF DeliveredBy, SeenAt

(* Nothing is delivered at the start. *)
LEMMA DeliveredStarts ==
  ASSUME Init
  PROVE  Delivered
<1>1. /\ answer \in Answers /\ tracks = TracksOf(answer)
      /\ sent = [t \in DOMAIN tracks |-> 0] /\ reader = NewReader(answer.dialect)
  BY DEF Init
<1>2. Scripted
  BY <1>1 DEF Scripted
<1> SUFFICES ASSUME answer.dialect = "responses", NEW i \in DOMAIN answer.items
             PROVE  ItemDelivered(i)
  BY DEF Delivered
<1>3. PICK n, a, item, at, len : /\ n = Len(tracks) /\ a = answer /\ item = a.items[i]
                                 /\ at = i - 1 /\ len = Len(tracks[i + 1])
  OBVIOUS
<1>4. /\ n \in Nat /\ n >= 2 /\ DOMAIN tracks = 1..n
      /\ DOMAIN answer.items = 1..(n - 2)
      /\ \A j \in 1..(n - 2) : tracks[j + 1] = FramesOf(answer, j)
  BY <1>2, <1>3, ScriptIs
<1>5. i + 1 \in DOMAIN tracks /\ i \in 1..(n - 2)
  BY <1>4
<1>6. sent[i + 1] = 0
  BY <1>1, <1>5
<1>7. /\ Streamable(item) /\ Len(item.sources) \in Nat
  BY <1>1, <1>3, ItemIs DEF Streamable
<1>8. /\ TextTo(item, Reach(item, 0)) = <<>> /\ PartOfToken(item, 0) = 0
      /\ Fragments(item) \in Nat
  BY <1>7, TextStarts
<1>9. 0 < len
  <2>1. len = Len(ResponsesFramesOf(a, i))
    BY <1>3, <1>4, <1>5 DEF FramesOf
  <2>2. Len(ResponsesFramesOf(a, i)) = Fragments(item) + Len(item.sources) + 2
    BY <1>1, <1>3, ResponsesTrackIs
  <2> QED BY <1>7, <1>8, <2>1, <2>2
<1>10. reader.seen = <<>> /\ reader.part = <<>>
  BY <1>1 DEF NewReader, NewResponsesReader
<1>11. \A d : At(<<>>, at, d) = d
  BY DEF At
<1>12. SeenAt(reader, item, at, Carrying(0, item))
  BY <1>8, <1>10, <1>11 DEF SeenAt, Carrying
<1> QED BY <1>3, <1>6, <1>9, <1>12 DEF ItemDelivered, DeliveredBy

(* A frame delivers its item, and no other. *)
LEMMA DeliveredBySend ==
  ASSUME AnswerInv, Delivered, NEW t \in DOMAIN tracks, Send(t)
  PROVE  Delivered'
<1>1. PICK n, a : n = Len(tracks) /\ a = answer
  OBVIOUS
<1>2. body = "open" /\ MaySend(t) /\ UNCHANGED script /\ Scripted /\ Counted
      /\ answer' = answer /\ tracks' = tracks /\ a \in Answers
  BY <1>1 DEF Send, AnswerInv, script, Scripted
<1> SUFFICES ASSUME answer.dialect = "responses", body' \in {"open", "whole", "broken"},
                    NEW i \in DOMAIN answer.items
             PROVE  ItemDelivered(i)'
  BY <1>2 DEF Delivered
<1>3. /\ n \in Nat /\ n >= 2 /\ DOMAIN tracks = 1..n
      /\ \A u \in 1..n : /\ ASeq(tracks[u]) /\ Len(tracks[u]) \in Nat
                         /\ DOMAIN tracks[u] = 1..Len(tracks[u])
      /\ \A u \in 1..(n - 1) : \A k \in 1..Len(tracks[u]) :
           Plain(answer.dialect, tracks[u][k])
      /\ tracks[n] = ClosingOf(answer)
      /\ DOMAIN answer.items = 1..(n - 2)
      /\ \A j \in 1..(n - 2) : tracks[j + 1] = FramesOf(answer, j)
  BY <1>1, <1>2, ScriptIs
<1>4. sent' = [sent EXCEPT ![t] = @ + 1] /\ Receive(tracks[t][sent'[t]])
  BY DEF Send, Joined
<1>5. /\ sent[t] \in Nat /\ sent[t] + 1 \in 1..Len(tracks[t])
  BY <1>1, <1>2, SendingIs
<1>6. /\ sent'[t] = sent[t] + 1
      /\ \A u \in 1..n : u # t => sent'[u] = sent[u]
  BY <1>1, <1>2, <1>4, CountedOne
<1>7. PICK k, f, r : k = sent[t] /\ f = tracks[t][k + 1] /\ r = reader
  OBVIOUS
<1>8. PICK x : x = Read(f) /\ Took(x)
  BY <1>4, <1>6, <1>7 DEF Receive
<1>9. outcome = Null /\ Flow(Pipeline) /\ Reading /\ RShape(r) /\ answer \in Answers
  BY <1>2, <1>7 DEF AnswerInv, Streaming, Reading, Scripted
<1>10. ItemDelivered(i) /\ i \in 1..(n - 2) /\ i + 1 \in 1..n /\ i + 1 # n
  BY <1>2, <1>3 DEF Delivered
<1>11. PICK item, at, size, count :
         item = a.items[i] /\ at = i - 1 /\ size = Len(tracks[i + 1]) /\ count = sent[i + 1]
  OBVIOUS
<1>12. DeliveredBy(r, item, at, count, size)
  BY <1>1, <1>7, <1>10, <1>11 DEF ItemDelivered
<1>13. ItemDelivered(i)' <=> DeliveredBy(reader', item, at, sent'[i + 1], size)
  BY <1>1, <1>2, <1>11 DEF ItemDelivered
<1>14. CASE t = n
  <2>1. k + 1 \in 1..Len(ClosingOf(answer)) /\ f = ClosingOf(answer)[k + 1]
    BY <1>3, <1>5, <1>7, <1>14
  <2>2. ~Failed(x) /\ Kin(x.events) /\ x.reader = r
    BY <1>7, <1>8, <1>9, <2>1, ReadClosing
  <2>3. IF body' = "open" THEN reader' = x.reader ELSE body' = "closed"
    BY <1>8, <1>9, <2>2, TakenIs
  <2>4. reader' = r
    BY <2>2, <2>3
  <2>5. sent'[i + 1] = count
    BY <1>6, <1>10, <1>11, <1>14
  <2> QED BY <1>12, <1>13, <2>4, <2>5
<1>15. CASE t # n
  <2>1. t \in 1..(n - 1) /\ k + 1 \in 1..Len(tracks[t])
    BY SMTT(20), <1>3, <1>5, <1>7, <1>15
  <2>2. Plain(answer.dialect, f)
    BY <1>3, <1>7, <2>1
  <2>3. IF Failed(x) THEN x = Failure("contradiction") ELSE Mid(x.events)
    BY <1>8, <1>9, <2>2, ReadPlain
  <2>4. IF Failed(x) THEN x = Failure("contradiction") ELSE Kin(x.events)
    BY <2>3 DEF Mid
  <2>5. IF body' = "open" THEN ~Failed(x) /\ reader' = x.reader ELSE body' = "closed"
    BY <1>8, <1>9, <2>4, TakenIs
  <2>6. ~Failed(x) /\ reader' = x.reader /\ x = ResponsesFeed(r, f)
    BY <1>7, <1>8, <2>5 DEF Read
  <2>7. CASE t = 1
    <3>1. f.type = "created"
      <4>1. PICK g : g = [type |-> "created", index |-> 0, model |-> a.model]
        OBVIOUS
      <4>2. tracks[1] = OpeningOf(a)
        BY <1>1, <1>2, TracksAre DEF Scripted
      <4>3. tracks[1] = <<g>>
        BY <1>1, <4>1, <4>2 DEF OpeningOf, ResponsesOpening
      <4>4. Len(tracks[1]) = 1 /\ tracks[1][1] = g
        BY <4>3, Short
      <4>5. k + 1 = 1
        BY <1>5, <1>7, <2>7, <4>4
      <4> QED BY <1>7, <2>7, <4>1, <4>4, <4>5
    <3>2. ResponsesPlain(f)
      BY <2>2 DEF Plain
    <3>3. reader'.seen = r.seen /\ reader'.part = r.part
      BY <1>9, <2>6, <3>1, <3>2, FeedIs
    <3>4. sent'[i + 1] = count
      BY <1>6, <1>10, <1>11, <2>7
    <3>5. DeliveredBy(reader', item, at, count, size)
      BY <1>12, <3>3 DEF DeliveredBy, SeenAt
    <3> QED BY <1>13, <3>4, <3>5
  <2>8. CASE t # 1
    <3>1. PICK j, own, track : j = t - 1 /\ own = a.items[j] /\ track = tracks[t]
      OBVIOUS
    <3>2. j \in DOMAIN a.items /\ j \in 1..(n - 2) /\ j + 1 = t /\ j \in Nat
      BY <1>1, <1>3, <2>1, <2>8, <3>1
    <3>3. track = ResponsesFramesOf(a, j)
      BY <1>1, <1>3, <3>1, <3>2 DEF FramesOf
    <3>4. k \in Nat /\ k < Len(track) /\ f = track[k + 1]
      <4>1. PICK len : len = Len(track) /\ len \in Nat
        BY <1>3, <3>1
      <4>2. k \in Nat /\ k + 1 \in 1..len
        BY <1>5, <1>7, <3>1, <4>1
      <4> QED BY <1>7, <3>1, <4>1, <4>2
    <3>5. ItemDelivered(j)
      BY <1>1, <1>2, <3>2 DEF Delivered
    <3>6. DeliveredBy(r, own, j - 1, k, Len(track))
      BY <1>1, <1>7, <3>1, <3>2, <3>5 DEF ItemDelivered
    <3>7. SeenAt(r, own, j - 1, Carrying(k, own))
      BY <3>4, <3>6 DEF DeliveredBy
    <3>8. /\ Elsewhere(r, x.reader, j - 1)
          /\ k + 1 < Len(track) => SeenAt(x.reader, own, j - 1, Carrying(k + 1, own))
          /\ k + 1 = Len(track) => Complete(FragmentsOf(own), own)
      BY <1>1, <1>2, <1>9, <2>6, <3>1, <3>2, <3>3, <3>4, <3>7, ItemFollowed
    <3>9. CASE i = j
      <4>1. sent'[i + 1] = k + 1 /\ item = own /\ at = j - 1 /\ size = Len(track)
        BY <1>6, <1>7, <1>11, <3>1, <3>2, <3>9
      <4>2. Len(track) \in Nat
        BY <1>3, <3>1
      <4>3. DeliveredBy(reader', item, at, k + 1, size)
        BY <2>6, <3>4, <3>8, <4>1, <4>2 DEF DeliveredBy
      <4> QED BY <1>13, <4>1, <4>3
    <3>10. CASE i # j
      <4>1. sent'[i + 1] = count
        BY <1>6, <1>10, <1>11, <3>2, <3>10
      <4>2. at # j - 1
        BY <1>10, <1>11, <3>2, <3>10
      <4>3. /\ At(x.reader.seen, at, <<>>) = At(r.seen, at, <<>>)
            /\ At(x.reader.part, at, 0) = At(r.part, at, 0)
        BY <3>8, <4>2 DEF Elsewhere
      <4>4. DeliveredBy(x.reader, item, at, count, size)
        BY <1>12, <4>3, DeliveredElsewhere
      <4> QED BY <1>13, <2>6, <4>1, <4>4
    <3> QED BY <3>9, <3>10
  <2> QED BY <2>7, <2>8
<1> QED BY <1>14, <1>15

(* No step breaks that. *)
LEMMA DeliveredKeeps ==
  ASSUME AnswerInv, Delivered, [Next]_vars
  PROVE  Delivered'
<1>1. CASE \E t \in DOMAIN tracks : Send(t)
  BY <1>1, DeliveredBySend
<1>2. CASE SendError \/ BreakEvent
  BY <1>2 DEF SendError, BreakEvent, Delivered
<1>3. CASE EndBody \/ UNCHANGED vars
  <2>1. /\ UNCHANGED <<answer, tracks, sent, reader>>
        /\ body' \in {"open", "whole", "broken"} => body \in {"open", "whole", "broken"}
    BY <1>3 DEF EndBody, vars, script
  <2>2. \A i : ItemDelivered(i)' <=> ItemDelivered(i)
    BY <2>1 DEF ItemDelivered
  <2> QED BY <2>1, <2>2 DEF Delivered
<1> QED BY <1>1, <1>2, <1>3 DEF Next

(* No Response is made of a part of an answer, nor of an answer whose      *)
(* fragments contradict the final copy of an item (MAP-20,                 *)
(* openai_responses.ts FinalCopies): for every answer and every place the  *)
(* body may end.                                                           *)
THEOREM NoPartialAnswerHolds == Spec => []NoPartialAnswer
<1>1. Init => Delivered
  BY DeliveredStarts
<1>2. AnswerInv /\ Delivered /\ [Next]_vars => Delivered'
  BY DeliveredKeeps
<1>3. AnswerInv /\ Delivered => NoPartialAnswer
  <2> SUFFICES ASSUME AnswerInv, Delivered, Answered, ~cutter.cut
               PROVE  ItemsSent /\ Last(sent) > 0 /\ ~Contradicts
    BY DEF NoPartialAnswer
  <2>1. body # "open"
    BY DEF AnswerInv, Streaming, Answered
  <2>2. body \in {"whole", "broken"} /\ ItemsSent /\ sent[Len(tracks)] > 0
    BY <2>1 DEF AnswerInv, Concluded
  <2>3. PICK n : n = Len(tracks)
    OBVIOUS
  <2>4. n \in Nat /\ DOMAIN tracks = 1..n /\ DOMAIN answer.items = 1..(n - 2)
        /\ \A t \in 1..n : Len(tracks[t]) \in Nat
    BY <2>3, ScriptIs DEF AnswerInv
  <2>5. Last(sent) = sent[n]
    <3>1. sent = [t \in 1..n |-> sent[t]]
      BY <2>4 DEF AnswerInv, Counted
    <3>2. Len(sent) = n
      BY <2>4, <3>1, Tabled
    <3> QED BY <3>2 DEF Last
  <2>6. ASSUME NEW i \in DOMAIN answer.items PROVE ~Contradicted(answer.items[i])
    <3>1. CASE answer.dialect # "responses"
      BY <3>1 DEF Contradicted
    <3>2. CASE answer.dialect = "responses"
      <4>1. ItemDelivered(i)
        BY <2>2, <3>2 DEF Delivered
      <4>2. i + 1 \in 1..(n - 1) /\ i + 1 \in 1..n
        BY <2>4
      <4>3. sent[i + 1] = Len(tracks[i + 1])
        BY <2>2, <2>3, <4>2 DEF ItemsSent, TrackSent
      <4>4. ~(sent[i + 1] < Len(tracks[i + 1]))
        BY <2>4, <4>2, <4>3
      <4>5. Complete(FragmentsOf(answer.items[i]), answer.items[i])
        BY <4>1, <4>4 DEF ItemDelivered, DeliveredBy
      <4> QED BY <4>5 DEF Complete, Contradicted
    <3> QED BY <3>1, <3>2
  <2> QED BY <2>2, <2>3, <2>5, <2>6 DEF Contradicts
<1> QED BY <1>1, <1>2, <1>3, AnswerInvHolds, PTL DEF Spec

-----------------------------------------------------------------------------
(* Stop sequences, letter by letter: where one of them is in a text, and   *)
(* what it is for a text to begin another.                                 *)
Occurs(text, seq, at) ==
  at + Len(seq) <= Len(text) /\ \A i \in 1..Len(seq) : text[at + i] = seq[i]

Begins(part, text) ==
  Len(part) <= Len(text) /\ \A i \in 1..Len(part) : text[i] = part[i]

(* What the cutter has to stop at: none of it is a part of another. *)
Stops(stop) ==
  /\ IsFiniteSet(stop)
  /\ \A a \in stop : ASeq(a) /\ a # <<>>
  /\ \A a, b \in stop : \A d \in Nat : Occurs(b, a, d) => a = b

(* A slice is what its letters are. *)
LEMMA SliceIs ==
  ASSUME NEW text, ASeq(text), NEW seq, ASeq(seq), NEW at \in Nat, at + Len(seq) <= Len(text)
  PROVE  SubSeq(text, at + 1, at + Len(seq)) = seq <=> Occurs(text, seq, at)
<1>1. PICK n, m, first : n = at + Len(seq) /\ m = Len(seq) /\ first = at + 1
  OBVIOUS
<1>2. m \in Nat /\ n \in Nat /\ first \in Nat \ {0} /\ n - first + 1 = m /\ n = at + m
      /\ (first <= n <=> m # 0)
  BY <1>1, SeqLen
<1>3. PICK slice : slice = SubSeq(text, first, n)
  OBVIOUS
<1>4. /\ ASeq(slice) /\ Len(slice) = m
      /\ \A i \in 1..m : slice[i] = text[at + i]
  <2>1. /\ ASeq(SubSeq(text, first, n))
        /\ Len(SubSeq(text, first, n)) = IF first <= n THEN n - first + 1 ELSE 0
        /\ \A i \in 1..(n - first + 1) : SubSeq(text, first, n)[i] = text[first + i - 1]
    BY <1>1, <1>2, Sliced
  <2>2. \A i \in 1..m : first + i - 1 = at + i
    BY <1>1, <1>2
  <2> QED BY <1>2, <1>3, <2>1, <2>2
<1>5. (\A i \in 1..m : slice[i] = seq[i]) => slice = seq
  BY <1>1, <1>4, SameSeq
<1>6. Occurs(text, seq, at) <=> \A i \in 1..m : text[at + i] = seq[i]
  BY <1>1 DEF Occurs
<1>7. slice = seq => \A i \in 1..m : slice[i] = seq[i]
  OBVIOUS
<1> QED BY <1>1, <1>3, <1>4, <1>5, <1>6, <1>7

(* Where the stop sequences start. *)
LEMMA StartsAre ==
  ASSUME NEW text, ASeq(text), NEW stop, Stops(stop)
  PROVE  /\ Starts(text, stop) \in SUBSET (0..Len(text)) /\ Len(text) \in Nat
         /\ \A at \in Nat : at \in Starts(text, stop) <=> \E seq \in stop : Occurs(text, seq, at)
<1>1. Len(text) \in Nat
  BY SeqLen
<1>2. Starts(text, stop) \in SUBSET (0..Len(text))
  BY DEF Starts
<1>3. ASSUME NEW at \in Nat, at \in Starts(text, stop) PROVE \E seq \in stop : Occurs(text, seq, at)
  <2>1. PICK seq \in stop : /\ at + Len(seq) <= Len(text)
                            /\ SubSeq(text, at + 1, at + Len(seq)) = seq
    BY <1>3 DEF Starts
  <2>2. ASeq(seq)
    BY DEF Stops
  <2>3. Occurs(text, seq, at)
    BY <2>1, <2>2, SliceIs
  <2> QED BY <2>3
<1>4. ASSUME NEW at \in Nat, NEW seq \in stop, Occurs(text, seq, at) PROVE at \in Starts(text, stop)
  <2>1. ASeq(seq) /\ seq # <<>> /\ Len(seq) \in Nat
    BY SeqLen DEF Stops
  <2>2. at + Len(seq) <= Len(text)
    BY <1>4 DEF Occurs
  <2>3. SubSeq(text, at + 1, at + Len(seq)) = seq
    BY <1>4, <2>1, <2>2, SliceIs
  <2>4. at \in 0..Len(text)
    BY <1>1, <2>1, <2>2
  <2> QED BY <2>1, <2>2, <2>3, <2>4 DEF Starts
<1> QED BY <1>1, <1>2, <1>3, <1>4

(* Nothing a stop is asked for is longer than what is held, by one letter. *)
LEMMA HoldIs ==
  ASSUME NEW stop, Stops(stop)
  PROVE  /\ Hold(stop) \in Nat
         /\ \A a \in stop : ASeq(a) /\ Len(a) \in Nat \ {0} /\ Len(a) <= Hold(stop) + 1
<1>1. \A a \in stop : ASeq(a) /\ Len(a) \in Nat \ {0}
  BY SeqLen DEF Stops
<1>2. PICK Good : Good = {T \in SUBSET stop : \E n \in Nat : \A a \in T : Len(a) <= n}
  OBVIOUS
<1>3. {} \in Good
  BY <1>2
<1>4. ASSUME NEW T \in SUBSET stop, NEW a \in stop \ T, T \in Good PROVE T \cup {a} \in Good
  <2>1. PICK n \in Nat : \A b \in T : Len(b) <= n
    BY <1>2, <1>4
  <2>2. PICK m \in Nat : m = n + Len(a)
    BY <1>1
  <2>3. ASSUME NEW b \in T \cup {a} PROVE Len(b) <= m
    <3>1. b \in stop /\ Len(b) \in Nat /\ Len(a) \in Nat
      BY <1>1
    <3>2. CASE b = a
      BY <2>2, <3>1, <3>2
    <3>3. CASE b # a
      BY <2>1, <2>2, <3>1, <3>3
    <3> QED BY <3>2, <3>3
  <2>4. T \cup {a} \in SUBSET stop
    OBVIOUS
  <2> QED BY <1>2, <2>3, <2>4
<1>5. stop \in Good
  <2>1. Cuts!IsFiniteSet(stop)
    BY DEF Stops, IsFiniteSet, Cuts!IsFiniteSet
  <2>2. SUBSET stop \subseteq Good
    BY <1>3, <1>4, <2>1, Cuts!SubsetInduction
  <2> QED BY <2>2
<1>6. PICK n \in Nat : \A a \in stop : Len(a) <= n
  BY <1>2, <1>5
<1>7. PICK S, m : S = {1} \cup {Len(a) : a \in stop} /\ m = n + 1
  OBVIOUS
<1>8. S \in SUBSET (0..m) /\ S # {} /\ 1 \in S /\ m \in Nat
  BY <1>1, <1>6, <1>7
<1>9. Max(S) \in S /\ \A x \in S : x <= Max(S)
  BY <1>8, Extremes
<1>10. Hold(stop) = Max(S) - 1
  BY <1>7 DEF Hold
<1>11. Max(S) \in Nat \ {0}
  <2>1. PICK l : l = Max(S)
    OBVIOUS
  <2>2. l \in 0..m /\ 1 <= l
    BY <1>8, <1>9, <2>1
  <2> QED BY <1>8, <2>1, <2>2
<1>12. \A a \in stop : Len(a) \in S
  BY <1>7
<1> QED BY <1>1, <1>9, <1>10, <1>11, <1>12

(* How much of a text can no longer be the beginning of a stop sequence. *)
LEMMA ReleasedIs ==
  ASSUME NEW stop, Stops(stop), NEW text, ASeq(text)
  PROVE  /\ Released(text, stop) \in Nat
         /\ Released(text, stop)
              = IF Len(text) >= Hold(stop) THEN Len(text) - Hold(stop) ELSE 0
<1>1. PICK n, m : n = Len(text) /\ m = Hold(stop)
  OBVIOUS
<1>2. n \in Nat /\ m \in Nat
  BY <1>1, HoldIs, SeqLen
<1>3. 0 \in Int /\ n - m \in Int
  BY <1>2
<1>4. Greater(0, n - m) = IF 0 >= n - m THEN 0 ELSE n - m
  BY <1>3, GreaterOf
<1>5. Released(text, stop) = Greater(0, n - m)
  BY <1>1 DEF Released, Greater
<1> QED BY <1>1, <1>2, <1>4, <1>5

(* What starts in a part of the text starts in the text, and inside the part. *)
LEMMA PartStarts ==
  ASSUME NEW stop, Stops(stop), NEW part, ASeq(part), NEW text, ASeq(text), Begins(part, text)
  PROVE  \A at \in Starts(part, stop) : at \in Starts(text, stop) /\ at < Len(part)
<1> SUFFICES ASSUME NEW at \in Starts(part, stop)
             PROVE  at \in Starts(text, stop) /\ at < Len(part)
  OBVIOUS
<1>1. at \in Nat /\ Len(part) \in Nat /\ Len(text) \in Nat
  BY StartsAre
<1>2. PICK seq \in stop : Occurs(part, seq, at)
  BY <1>1, StartsAre
<1>3. Len(seq) \in Nat \ {0}
  BY HoldIs
<1>4. Occurs(text, seq, at)
  BY <1>1, <1>2, <1>3 DEF Occurs, Begins
<1>5. at \in Starts(text, stop)
  BY <1>1, <1>4, StartsAre
<1>6. at < Len(part)
  BY <1>1, <1>2, <1>3 DEF Occurs
<1> QED BY <1>5, <1>6

(* What starts in the text and not in the part is not before the letters   *)
(* of the part that can still begin a stop sequence.                       *)
LEMMA LateStarts ==
  ASSUME NEW stop, Stops(stop), NEW part, ASeq(part), NEW text, ASeq(text), Begins(part, text),
         Starts(part, stop) = {}
  PROVE  \A at \in Starts(text, stop) : at \in Nat /\ Released(part, stop) <= at
<1> SUFFICES ASSUME NEW at \in Starts(text, stop)
             PROVE  at \in Nat /\ Released(part, stop) <= at
  OBVIOUS
<1>1. at \in Nat /\ Len(part) \in Nat /\ Len(text) \in Nat
  BY StartsAre
<1>2. PICK seq \in stop : Occurs(text, seq, at)
  BY <1>1, StartsAre
<1>3. Len(seq) \in Nat \ {0} /\ Hold(stop) \in Nat /\ Len(seq) <= Hold(stop) + 1
  BY HoldIs
<1>4. ~(at + Len(seq) <= Len(part))
  <2> SUFFICES ASSUME at + Len(seq) <= Len(part) PROVE FALSE
    OBVIOUS
  <2>1. Occurs(part, seq, at)
    BY <1>1, <1>2, <1>3 DEF Occurs, Begins
  <2> QED BY <1>1, <2>1, StartsAre
<1>5. Released(part, stop) = IF Len(part) >= Hold(stop) THEN Len(part) - Hold(stop) ELSE 0
  BY ReleasedIs
<1> QED BY <1>1, <1>3, <1>4, <1>5

(* The first that starts in a text is the first that starts in a longer    *)
(* one: what started before it would have it as a part.                    *)
LEMMA FirstStays ==
  ASSUME NEW stop, Stops(stop), NEW part, ASeq(part), NEW text, ASeq(text), Begins(part, text),
         Starts(part, stop) # {}
  PROVE  /\ Starts(text, stop) # {}
         /\ Min(Starts(text, stop)) = Min(Starts(part, stop))
         /\ Min(Starts(part, stop)) \in Nat /\ Min(Starts(part, stop)) < Len(part)
<1>1. PICK m, l : m = Min(Starts(part, stop)) /\ l = Min(Starts(text, stop))
  OBVIOUS
<1>2. Starts(text, stop) # {}
  BY PartStarts
<1>3. /\ Len(part) \in Nat /\ Len(text) \in Nat
      /\ Starts(part, stop) \in SUBSET (0..Len(part))
      /\ Starts(text, stop) \in SUBSET (0..Len(text))
  BY StartsAre
<1>4. m \in Starts(part, stop) /\ \A x \in Starts(part, stop) : m <= x
  BY <1>1, <1>3, Extremes
<1>5. l \in Starts(text, stop) /\ \A x \in Starts(text, stop) : l <= x
  BY <1>1, <1>2, <1>3, Extremes
<1>6. m \in Starts(text, stop) /\ m < Len(part)
  BY <1>4, PartStarts
<1>7. m \in Nat /\ l \in Nat /\ l <= m
  BY <1>3, <1>4, <1>5, <1>6
<1>8. ASSUME l # m PROVE FALSE
  <2>1. PICK a \in stop : Occurs(part, a, m)
    BY <1>4, <1>7, StartsAre
  <2>2. PICK b \in stop : Occurs(text, b, l)
    BY <1>5, <1>7, StartsAre
  <2>3. Len(a) \in Nat \ {0} /\ Len(b) \in Nat \ {0}
    BY HoldIs
  <2>4. ~(l + Len(b) <= Len(part))
    <3> SUFFICES ASSUME l + Len(b) <= Len(part) PROVE FALSE
      OBVIOUS
    <3>1. Occurs(part, b, l)
      BY <1>3, <1>7, <2>2, <2>3 DEF Occurs, Begins
    <3>2. l \in Starts(part, stop)
      BY <1>7, <3>1, StartsAre
    <3> QED BY <1>4, <1>7, <1>8, <3>2
  <2>5. PICK d \in Nat : l + d = m
    BY <1>7
  <2>6. m + Len(a) <= Len(part) /\ \A i \in 1..Len(a) : part[m + i] = a[i]
    BY <2>1 DEF Occurs
  <2>7. d + Len(a) <= Len(b)
    BY <1>3, <1>7, <2>3, <2>4, <2>5, <2>6
  <2>8. ASSUME NEW i \in 1..Len(a) PROVE b[d + i] = a[i]
    <3>1. m + i \in 1..Len(part) /\ d + i \in 1..Len(b) /\ l + (d + i) = m + i
      BY <1>3, <1>7, <2>3, <2>5, <2>6, <2>7
    <3>2. text[m + i] = part[m + i]
      BY <3>1 DEF Begins
    <3>3. text[l + (d + i)] = b[d + i]
      BY <2>2, <3>1 DEF Occurs
    <3> QED BY <2>6, <3>1, <3>2, <3>3
  <2>9. Occurs(b, a, d)
    BY <2>7, <2>8 DEF Occurs
  <2>10. a = b
    BY <2>9 DEF Stops
  <2> QED BY <1>3, <1>7, <1>8, <2>3, <2>4, <2>5, <2>6, <2>10
<1> QED BY <1>1, <1>2, <1>6, <1>7, <1>8
-----------------------------------------------------------------------------
(* Texts after one another. *)
LEMMA JoinedBegins ==
  ASSUME NEW text, NEW left, NEW right, ASeq(left), ASeq(right), Joins(text, left, right)
  PROVE  ASeq(text) /\ Begins(left, text)
<1>1. /\ ASeq(text) /\ Len(text) = Len(left) + Len(right)
      /\ \A i \in 1..(Len(left) + Len(right)) :
           text[i] = IF i <= Len(left) THEN left[i] ELSE right[i - Len(left)]
  BY JoinedAt
<1>2. Len(left) \in Nat /\ Len(right) \in Nat
  BY SeqLen
<1> QED BY <1>1, <1>2 DEF Begins

(* Up to a place in the second of two texts. *)
LEMMA JoinedUpTo ==
  ASSUME NEW text, NEW left, NEW right, ASeq(left), ASeq(right), Joins(text, left, right),
         NEW k \in Nat, k <= Len(right)
  PROVE  SubSeq(text, 1, Len(left) + k) = left \o SubSeq(right, 1, k)
BY OneNotion, Cuts!SliceAcross DEF Joins

(* What begins a text is that much of it. *)
LEMMA BeginningIs ==
  ASSUME NEW part, ASeq(part), NEW text, ASeq(text)
  PROVE  /\ Begins(part, text) => part = SubSeq(text, 1, Len(part))
         /\ Begins(part, text) <=> IsPrefix(part, text)
         /\ \A k \in 0..Len(text) : /\ Begins(SubSeq(text, 1, k), text)
                                    /\ ASeq(SubSeq(text, 1, k)) /\ Len(SubSeq(text, 1, k)) = k
<1>1. Len(text) \in Nat /\ Len(part) \in Nat
  BY SeqLen
<1>2. ASSUME NEW s, ASeq(s), NEW k \in 0..Len(s)
      PROVE  /\ ASeq(SubSeq(s, 1, k)) /\ Len(SubSeq(s, 1, k)) = k
             /\ \A i \in 1..k : SubSeq(s, 1, k)[i] = s[i]
  BY <1>2, OneNotion, SeqLen, Cuts!StartOf
<1>3. ASSUME NEW k \in 0..Len(text) PROVE Begins(SubSeq(text, 1, k), text)
  BY <1>1, <1>2 DEF Begins
<1>4. PICK own : own = SubSeq(part, 1, Len(part))
  OBVIOUS
<1>5. own = part
  <2>1. ASeq(own) /\ Len(own) = Len(part) /\ \A i \in 1..Len(part) : own[i] = part[i]
    BY <1>1, <1>2, <1>4
  <2> QED BY <2>1, SameSeq
<1>6. ASSUME Len(part) <= Len(text)
      PROVE  part = SubSeq(text, 1, Len(part)) <=> Begins(part, text)
  <2>1. PICK first : first = SubSeq(text, 1, Len(part))
    OBVIOUS
  <2>2. ASeq(first) /\ Len(first) = Len(part) /\ \A i \in 1..Len(part) : first[i] = text[i]
    BY <1>1, <1>2, <1>6, <2>1
  <2>3. (\A i \in 1..Len(part) : part[i] = first[i]) => part = first
    BY <2>2, SameSeq
  <2> QED BY <1>6, <2>1, <2>2, <2>3 DEF Begins
<1>7. Begins(part, text) => part = SubSeq(text, 1, Len(part))
  BY <1>6 DEF Begins
<1>8. Begins(part, text) <=> IsPrefix(part, text)
  BY <1>4, <1>5, <1>6 DEF Begins, IsPrefix
<1> QED BY <1>2, <1>3, <1>7, <1>8

(* A beginning of a beginning is one, of the two that begin a text the     *)
(* shorter begins the longer, and the longest is the text.                 *)
LEMMA BeginningsOf ==
  ASSUME NEW text, ASeq(text), NEW part, ASeq(part), Begins(part, text), NEW s, ASeq(s)
  PROVE  /\ Begins(s, part) => Begins(s, text)
         /\ Begins(s, text) /\ Len(s) <= Len(part) => Begins(s, part)
         /\ Begins(text, text) /\ Begins(<<>>, text)
<1>1. Len(text) \in Nat /\ Len(part) \in Nat /\ Len(s) \in Nat
  BY SeqLen
<1> QED BY <1>1, Short DEF Begins

(* Where stop sequences start in a text that another precedes. *)
LEMMA LaterStarts ==
  ASSUME NEW stop, Stops(stop), NEW text, NEW left, NEW right, ASeq(left), ASeq(right),
         Joins(text, left, right), NEW at \in Nat
  PROVE  at \in Starts(right, stop) <=> Len(left) + at \in Starts(text, stop)
<1>1. PICK n, m : n = Len(left) /\ m = Len(right)
  OBVIOUS
<1>2. n \in Nat /\ m \in Nat /\ n + at \in Nat
  BY <1>1, SeqLen
<1>3. /\ ASeq(text) /\ Len(text) = n + m
      /\ \A i \in 1..(n + m) : text[i] = IF i <= n THEN left[i] ELSE right[i - n]
  BY <1>1, JoinedAt
<1>4. ASSUME NEW seq \in stop PROVE Occurs(right, seq, at) <=> Occurs(text, seq, n + at)
  <2>1. Len(seq) \in Nat \ {0}
    BY HoldIs
  <2>2. at + Len(seq) <= m <=> (n + at) + Len(seq) <= Len(text)
    BY <1>2, <1>3, <2>1
  <2>3. ASSUME at + Len(seq) <= m, NEW i \in 1..Len(seq)
        PROVE  text[(n + at) + i] = right[at + i]
    <3>1. PICK j, k : j = (n + at) + i /\ k = at + i
      OBVIOUS
    <3>2. j \in 1..(n + m) /\ ~(j <= n) /\ j - n = k
      BY <1>2, <2>1, <2>3, <3>1
    <3>3. text[j] = right[k]
      BY <1>3, <3>2
    <3> QED BY <3>1, <3>3
  <2> QED BY <1>1, <2>2, <2>3 DEF Occurs
<1>5. /\ at \in Starts(right, stop) <=> \E seq \in stop : Occurs(right, seq, at)
      /\ n + at \in Starts(text, stop) <=> \E seq \in stop : Occurs(text, seq, n + at)
  BY <1>2, <1>3, StartsAre
<1> QED BY <1>1, <1>4, <1>5
(* The text spoken is given and held; more of it comes.  No stop sequence  *)
(* was in it: the first that now is, is the first in what was held and     *)
(* what came.                                                              *)
LEMMA MoreSpoken ==
  ASSUME NEW stop, Stops(stop), NEW given0, NEW held0, NEW more, ASeq(given0), ASeq(held0),
         ASeq(more), NEW spoken, Joins(spoken, given0, held0),
         NEW held1, Joins(held1, held0, more), NEW text, Joins(text, spoken, more),
         Starts(spoken, stop) = {}, Len(given0) <= Released(spoken, stop)
  PROVE  /\ ASeq(text) /\ ASeq(held1) /\ Joins(text, given0, held1)
         /\ Starts(held1, stop) = {} => Starts(text, stop) = {}
         /\ Starts(held1, stop) # {} =>
              /\ Starts(text, stop) # {}
              /\ Min(Starts(held1, stop)) \in 0..Len(held1)
              /\ Min(Starts(text, stop)) = Len(given0) + Min(Starts(held1, stop))
<1>1. ASeq(spoken) /\ ASeq(text) /\ ASeq(held1) /\ Begins(spoken, text)
  BY JoinedBegins
<1>2. Joins(text, given0, held1)
  <2>1. /\ spoken = given0 \o held0 /\ held1 = held0 \o more /\ text = spoken \o more
    BY DEF Joins
  <2>2. Cuts!ASeq(given0) /\ Cuts!ASeq(held0) /\ Cuts!ASeq(more)
    BY OneNotion
  <2>3. (given0 \o held0) \o more = given0 \o (held0 \o more)
    BY <2>2, Cuts!Reassociated
  <2> QED BY <2>1, <2>3 DEF Joins
<1>3. PICK n : n = Len(given0) /\ n \in Nat
  BY SeqLen
<1>4. \A at \in Nat : at \in Starts(held1, stop) <=> n + at \in Starts(text, stop)
  BY <1>1, <1>2, <1>3, LaterStarts
<1>5. \A at \in Starts(text, stop) : at \in Nat /\ Released(spoken, stop) <= at
  BY <1>1, LateStarts
<1>6. Released(spoken, stop) \in Nat
  BY <1>1, ReleasedIs
<1>7. ASSUME NEW at \in Starts(text, stop) PROVE at - n \in Nat /\ at - n \in Starts(held1, stop)
  <2>1. PICK k \in Nat : n + k = at
    BY <1>3, <1>5, <1>6
  <2>2. k = at - n
    BY <1>3, <2>1
  <2> QED BY <1>4, <2>1, <2>2
<1>8. Starts(held1, stop) = {} => Starts(text, stop) = {}
  BY <1>7
<1>9. ASSUME Starts(held1, stop) # {}
      PROVE  /\ Starts(text, stop) # {}
             /\ Min(Starts(held1, stop)) \in 0..Len(held1)
             /\ Min(Starts(text, stop)) = n + Min(Starts(held1, stop))
  <2>1. /\ Len(held1) \in Nat /\ Starts(held1, stop) \in SUBSET (0..Len(held1))
        /\ Len(text) \in Nat /\ Starts(text, stop) \in SUBSET (0..Len(text))
    BY <1>1, StartsAre
  <2>2. PICK m : m = Min(Starts(held1, stop))
    OBVIOUS
  <2>3. m \in Starts(held1, stop) /\ \A x \in Starts(held1, stop) : m <= x
    BY <1>9, <2>1, <2>2, Extremes
  <2>4. m \in Nat /\ m \in 0..Len(held1)
    BY <2>1, <2>3
  <2>5. n + m \in Starts(text, stop)
    BY <1>4, <2>3, <2>4
  <2>6. PICK l : l = Min(Starts(text, stop))
    OBVIOUS
  <2>7. l \in Starts(text, stop) /\ \A x \in Starts(text, stop) : l <= x
    BY <2>1, <2>5, <2>6, Extremes
  <2>8. l - n \in Nat /\ l - n \in Starts(held1, stop) /\ l \in Nat
    BY <1>5, <1>7, <2>7
  <2>9. l = n + m
    BY <1>3, <2>3, <2>4, <2>5, <2>7, <2>8
  <2> QED BY <2>2, <2>4, <2>5, <2>6, <2>9
<1> QED BY <1>1, <1>2, <1>3, <1>8, <1>9

(* What is let go of the letters that can no longer begin a stop sequence. *)
LEMMA MoreGiven ==
  ASSUME NEW stop, Stops(stop), NEW given0, NEW spoken, ASeq(spoken), ASeq(given0),
         Len(given0) <= Released(spoken, stop),
         NEW text, ASeq(text), Len(spoken) <= Len(text),
         NEW held1, ASeq(held1), Len(text) = Len(given0) + Len(held1),
         NEW n \in Nat, n <= Released(held1, stop)
  PROVE  Len(given0) + n <= Released(text, stop)
<1>1. /\ Len(given0) \in Nat /\ Len(spoken) \in Nat /\ Len(text) \in Nat /\ Len(held1) \in Nat
      /\ Hold(stop) \in Nat
  BY SeqLen, HoldIs
<1>2. \A s : ASeq(s) => Released(s, stop) = IF Len(s) >= Hold(stop) THEN Len(s) - Hold(stop) ELSE 0
  BY ReleasedIs
<1> QED BY <1>1, <1>2
-----------------------------------------------------------------------------
(* A sequence is the slices of it, and the slices of two after one another *)
(* are the two.                                                            *)
LEMMA SlicesOfBoth ==
  ASSUME NEW s, NEW t, ASeq(s), ASeq(t), NEW all, Joins(all, s, t)
  PROVE  SubSeq(all, 1, Len(s)) = s /\ SubSeq(all, Len(s) + 1, Len(s) + Len(t)) = t
BY OneNotion, Cuts!SlicesOfBoth DEF Joins

(* Two after one another, flattened. *)
LEMMA FlatOfBoth ==
  ASSUME NEW s, NEW t, ASeq(s), ASeq(t), \A i \in DOMAIN s : ASeq(s[i]),
         \A i \in DOMAIN t : ASeq(t[i])
  PROVE  FlattenSeq(s \o t) = FlattenSeq(s) \o FlattenSeq(t)
BY OneNotion, FlattenIs, Cuts!FlattenOfBoth

(* The visible text of one event. *)
Saying(e) == IF IsText(e) THEN e.text ELSE <<>>
Says(events) == [i \in DOMAIN events |-> Saying(events[i])]

LEMMA SaysAre ==
  ASSUME NEW events, Kin(events)
  PROVE  /\ HeldText(events) = FlattenSeq(Says(events)) /\ ASeq(HeldText(events))
         /\ ASeq(Says(events)) /\ Len(Says(events)) = Len(events)
         /\ DOMAIN Says(events) = DOMAIN events
         /\ \A i \in DOMAIN events : Says(events)[i] = Saying(events[i])
         /\ \A i \in DOMAIN Says(events) : ASeq(Says(events)[i])
<1>1. PICK texts : texts = Says(events)
  OBVIOUS
<1>2. ASeq(events) /\ Len(events) \in Nat /\ DOMAIN events = 1..Len(events)
  BY SeqLen DEF Kin
<1>3. /\ texts = [i \in 1..Len(events) |-> texts[i]]
      /\ \A i \in DOMAIN events : texts[i] = Saying(events[i])
  BY <1>1, <1>2 DEF Says
<1>4. ASeq(texts) /\ Len(texts) = Len(events)
  BY <1>2, <1>3, Tabled
<1>5. ASSUME NEW i \in DOMAIN events PROVE ASeq(Saying(events[i]))
  BY Short DEF Kin, Sound, Saying, IsText
<1>6. HeldText(events) = FlattenSeq(texts)
  BY <1>1 DEF HeldText, Says, Saying
<1>7. ASeq(HeldText(events))
  BY <1>2, HeldTexts DEF Kin
<1>8. DOMAIN texts = DOMAIN events
  BY <1>2, <1>3
<1> QED BY <1>1, <1>3, <1>4, <1>5, <1>6, <1>7, <1>8

(* The visible text of events after others. *)
LEMMA HeldOfBoth ==
  ASSUME NEW s, NEW t, Kin(s), Kin(t)
  PROVE  Kin(s \o t) /\ HeldText(s \o t) = HeldText(s) \o HeldText(t)
<1>1. PICK n, m, all : n = Len(s) /\ m = Len(t) /\ all = s \o t
  OBVIOUS
<1>2. n \in Nat /\ m \in Nat /\ DOMAIN s = 1..n /\ DOMAIN t = 1..m /\ ASeq(s) /\ ASeq(t)
  BY <1>1, SeqLen DEF Kin
<1>3. /\ ASeq(all) /\ Len(all) = n + m /\ DOMAIN all = 1..(n + m)
      /\ \A i \in 1..(n + m) : all[i] = IF i <= n THEN s[i] ELSE t[i - n]
  <2>1. Joins(all, s, t)
    BY <1>1 DEF Joins
  <2>2. /\ ASeq(all) /\ Len(all) = n + m
        /\ \A i \in 1..(n + m) : all[i] = IF i <= n THEN s[i] ELSE t[i - n]
    BY <1>1, <1>2, <2>1, JoinedAt
  <2> QED BY <2>2, SeqLen
<1>4. Kin(all)
  BY <1>1, Mids
<1>5. PICK a, b, c : a = Says(s) /\ b = Says(t) /\ c = Says(all)
  OBVIOUS
<1>6. /\ HeldText(s) = FlattenSeq(a) /\ ASeq(a) /\ Len(a) = n
      /\ \A i \in 1..n : a[i] = Saying(s[i])
      /\ \A i \in DOMAIN a : ASeq(a[i])
  BY <1>1, <1>2, <1>5, SaysAre
<1>7. /\ HeldText(t) = FlattenSeq(b) /\ ASeq(b) /\ Len(b) = m
      /\ \A i \in 1..m : b[i] = Saying(t[i])
      /\ \A i \in DOMAIN b : ASeq(b[i])
  BY <1>1, <1>2, <1>5, SaysAre
<1>8. /\ HeldText(all) = FlattenSeq(c) /\ ASeq(c) /\ Len(c) = n + m
      /\ \A i \in 1..(n + m) : c[i] = Saying(all[i])
  BY <1>3, <1>4, <1>5, SaysAre
<1>9. c = a \o b
  <2>1. PICK d : d = a \o b
    OBVIOUS
  <2>2. /\ ASeq(d) /\ Len(d) = n + m
        /\ \A i \in 1..(n + m) : d[i] = IF i <= n THEN a[i] ELSE b[i - n]
    BY <1>6, <1>7, <2>1, Concatenated
  <2>3. ASSUME NEW i \in 1..(n + m) PROVE c[i] = d[i]
    <3>1. CASE i <= n
      BY <1>2, <1>3, <1>6, <1>8, <2>2, <3>1
    <3>2. CASE ~(i <= n)
      <4>1. i - n \in 1..m
        BY <1>2, <3>2
      <4> QED BY <1>3, <1>7, <1>8, <2>2, <3>2, <4>1
    <3> QED BY <3>1, <3>2
  <2>4. Len(c) = Len(d)
    BY <1>8, <2>2
  <2>5. \A i \in 1..Len(c) : c[i] = d[i]
    BY <1>8, <2>3
  <2> QED BY <1>8, <2>1, <2>2, <2>4, <2>5, SameSeq
<1>10. FlattenSeq(a \o b) = FlattenSeq(a) \o FlattenSeq(b)
  BY <1>6, <1>7, FlatOfBoth
<1> QED BY <1>1, <1>4, <1>6, <1>7, <1>8, <1>9, <1>10

(* Of none, of one, of one more, and of the events to a place and after it.*)
LEMMA HeldOfFew ==
  /\ HeldText(<<>>) = <<>> /\ Kin(<<>>)
  /\ \A e : Sound(e) => HeldText(<<e>>) = Saying(e) /\ Kin(<<e>>) /\ ASeq(Saying(e))
<1>1. Kin(<<>>) /\ \A e : Sound(e) => Kin(<<e>>)
  BY Mids
<1>2. HeldText(<<>>) = <<>>
  <2>1. PICK s : s = Says(<<>>)
    OBVIOUS
  <2>2. HeldText(<<>>) = FlattenSeq(s) /\ ASeq(s) /\ Len(s) = 0
    BY <1>1, <2>1, SaysAre, Short
  <2>3. s = <<>>
    BY <2>2, SeqLen
  <2> QED BY <2>2, <2>3, FlatOfFew
<1>3. ASSUME NEW e, Sound(e) PROVE HeldText(<<e>>) = Saying(e) /\ ASeq(Saying(e))
  <2>1. PICK s, x, one : s = Says(one) /\ x = Saying(e) /\ one = <<e>>
    OBVIOUS
  <2>2. Kin(one) /\ Len(one) = 1 /\ one[1] = e /\ DOMAIN one = 1..1
    BY <1>1, <1>3, <2>1, Short
  <2>3. HeldText(one) = FlattenSeq(s) /\ ASeq(s) /\ Len(s) = 1 /\ s[1] = x
    BY <2>1, <2>2, SaysAre
  <2>4. PICK t : t = <<x>>
    OBVIOUS
  <2>5. ASeq(t) /\ Len(t) = 1 /\ t[1] = x
    BY <2>4, Short
  <2>6. s = t
    BY <2>3, <2>5, SameSeq
  <2>7. ASeq(x)
    BY <1>3, <2>1, Short DEF Sound, Saying, IsText
  <2> QED BY <2>1, <2>3, <2>4, <2>6, <2>7, FlatOfFew
<1> QED BY <1>1, <1>2, <1>3

LEMMA HeldOfMore ==
  ASSUME NEW events, Kin(events), NEW e, Sound(e)
  PROVE  /\ Kin(Append(events, e)) /\ ASeq(HeldText(events)) /\ ASeq(Saying(e))
         /\ Joins(HeldText(Append(events, e)), HeldText(events), Saying(e))
<1>1. PICK one : one = <<e>>
  OBVIOUS
<1>2. Kin(one) /\ HeldText(one) = Saying(e) /\ ASeq(Saying(e))
  BY <1>1, HeldOfFew
<1>3. events \o one = Append(events, e)
  <2>1. Cuts!ASeq(events)
    BY OneNotion DEF Kin
  <2> QED BY <1>1, <2>1, Cuts!OneAdded
<1>4. Kin(events \o one) /\ HeldText(events \o one) = HeldText(events) \o HeldText(one)
  BY <1>2, HeldOfBoth
<1>5. ASeq(HeldText(events))
  BY SaysAre
<1> QED BY <1>2, <1>3, <1>4, <1>5 DEF Joins

LEMMA HeldOfParts ==
  ASSUME NEW events, Kin(events), NEW k \in 0..Len(events)
  PROVE  /\ Kin(SubSeq(events, 1, k)) /\ Kin(SubSeq(events, k + 1, Len(events)))
         /\ Joins(HeldText(events), HeldText(SubSeq(events, 1, k)),
                  HeldText(SubSeq(events, k + 1, Len(events))))
         /\ Begins(HeldText(SubSeq(events, 1, k)), HeldText(events))
<1>1. PICK n, f : n = Len(events) /\ f = k + 1
  OBVIOUS
<1>2. n \in Nat /\ ASeq(events) /\ DOMAIN events = 1..n /\ k \in 0..n
  BY <1>1, SeqLen DEF Kin
<1>3. PICK a, b : a = SubSeq(events, 1, k) /\ b = SubSeq(events, f, n)
  OBVIOUS
<1>4. ASeq(a) /\ Len(a) = k /\ \A i \in 1..k : a[i] = events[i]
  <2>1. k \in Nat /\ k <= Len(events)
    BY <1>1, <1>2
  <2>2. /\ ASeq(SubSeq(events, 1, k)) /\ Len(SubSeq(events, 1, k)) = IF 1 <= k THEN k - 1 + 1 ELSE 0
        /\ \A i \in 1..(k - 1 + 1) : SubSeq(events, 1, k)[i] = events[1 + i - 1]
    BY <1>2, <2>1, Sliced
  <2> QED BY <1>3, <2>1, <2>2
<1>5. ASeq(b) /\ Len(b) = n - k /\ \A i \in 1..(n - k) : b[i] = events[k + i]
  <2>1. f \in Nat \ {0} /\ n <= Len(events) /\ n - f + 1 = n - k /\ (f <= n <=> n - k # 0)
    BY <1>1, <1>2
  <2>2. /\ ASeq(SubSeq(events, f, n)) /\ Len(SubSeq(events, f, n)) = IF f <= n THEN n - f + 1 ELSE 0
        /\ \A i \in 1..(n - f + 1) : SubSeq(events, f, n)[i] = events[f + i - 1]
    BY <1>2, <2>1, Sliced
  <2>3. \A i \in 1..(n - k) : f + i - 1 = k + i
    BY <1>1, <1>2
  <2>4. Len(b) = n - k
    BY <1>2, <1>3, <2>1, <2>2
  <2>5. \A i \in 1..(n - k) : b[i] = events[f + i - 1]
    BY <1>3, <2>1, <2>2
  <2> QED BY <1>3, <2>2, <2>3, <2>4, <2>5
<1>6. DOMAIN a = 1..k /\ DOMAIN b = 1..(n - k)
  BY <1>4, <1>5, SeqLen
<1>7. Kin(a)
  <2>1. \A i \in 1..k : i \in 1..n
    BY <1>2
  <2> QED BY <1>2, <1>4, <1>6, <2>1 DEF Kin
<1>8. Kin(b)
  <2>1. \A i \in 1..(n - k) : k + i \in 1..n
    BY <1>2
  <2> QED BY <1>2, <1>5, <1>6, <2>1 DEF Kin
<1>9. events = a \o b
  <2>1. PICK d : d = a \o b
    OBVIOUS
  <2>2. Len(a) + Len(b) = n
    BY <1>2, <1>4, <1>5
  <2>3. /\ ASeq(d) /\ Len(d) = n
        /\ \A i \in 1..n : d[i] = IF i <= k THEN a[i] ELSE b[i - k]
    BY <1>4, <1>5, <2>1, <2>2, Concatenated
  <2>4. ASSUME NEW i \in 1..n PROVE d[i] = events[i]
    <3>1. CASE i <= k
      BY <1>2, <1>4, <2>3, <3>1
    <3>2. CASE ~(i <= k)
      <4>1. PICK j : j = i - k
        OBVIOUS
      <4>2. j \in 1..(n - k) /\ k + j = i
        BY <1>2, <3>2, <4>1
      <4> QED BY <1>5, <2>3, <3>2, <4>1, <4>2
    <3> QED BY <3>1, <3>2
  <2> QED BY <1>1, <1>2, <2>1, <2>3, <2>4, SameSeq
<1>10. HeldText(events) = HeldText(a) \o HeldText(b) /\ ASeq(HeldText(a)) /\ ASeq(HeldText(b))
  BY <1>7, <1>8, <1>9, HeldOfBoth, SaysAre
<1>11. Joins(HeldText(events), HeldText(a), HeldText(b))
  BY <1>10 DEF Joins
<1>12. Begins(HeldText(a), HeldText(events))
  BY <1>10, <1>11, JoinedBegins
<1> QED BY <1>1, <1>3, <1>7, <1>8, <1>11, <1>12
-----------------------------------------------------------------------------
(* One element more of a sequence. *)
LEMMA SliceOfMore ==
  ASSUME NEW s, ASeq(s), NEW k \in Nat, k + 1 <= Len(s)
  PROVE  SubSeq(s, 1, k + 1) = Append(SubSeq(s, 1, k), s[k + 1])
BY OneNotion, Cuts!SliceOfMore

(* The events that go hold no more letters than are let go, and the next   *)
(* would not fit.                                                          *)
LEMMA FittingText ==
  ASSUME NEW events, Kin(events), NEW count \in Nat, NEW cutting,
         NEW n, n = Fitting(events, count, cutting)
  PROVE  /\ n \in 0..Len(events) /\ Len(HeldText(SubSeq(events, 1, n))) <= count
         /\ n # Len(events) => ~Fits(events, n + 1, count, cutting)
<1>1. PICK l : l = Len(events)
  OBVIOUS
<1>2. l \in Nat /\ ASeq(events) /\ DOMAIN events = 1..l
  BY <1>1, SeqLen DEF Kin
<1>3. PICK S : S = {k \in 0..l : \A i \in 1..k : Fits(events, i, count, cutting)}
  OBVIOUS
<1>4. S \in SUBSET (0..l) /\ 0 \in S /\ n = Max(S)
  BY <1>1, <1>2, <1>3 DEF Fitting
<1>5. n \in S /\ \A x \in S : x <= n
  <2>1. S # {}
    BY <1>4
  <2>2. Max(S) \in S /\ \A x \in S : x <= Max(S)
    BY <1>2, <1>4, <2>1, Extremes
  <2> QED BY <1>4, <2>2
<1>6. n \in 0..l /\ \A i \in 1..n : Fits(events, i, count, cutting)
  BY <1>3, <1>5
<1>7. ASSUME n # l PROVE ~Fits(events, n + 1, count, cutting)
  <2> SUFFICES ASSUME Fits(events, n + 1, count, cutting) PROVE FALSE
    OBVIOUS
  <2>1. n + 1 \in 0..l
    BY <1>2, <1>6, <1>7
  <2>2. \A i \in 1..(n + 1) : i \in 1..n \/ i = n + 1
    BY <1>2, <1>6
  <2>3. n + 1 \in S
    BY <1>3, <1>6, <2>1, <2>2
  <2> QED BY <1>2, <1>5, <1>6, <2>3
<1>8. PICK A : A = {k \in Nat : k <= n => Len(HeldText(SubSeq(events, 1, k))) <= count}
  OBVIOUS
<1>9. 0 \in A
  <2>1. SubSeq(events, 1, 0) = <<>>
    OBVIOUS
  <2>2. Len(HeldText(SubSeq(events, 1, 0))) = 0
    BY <2>1, HeldOfFew, Short
  <2> QED BY <1>8, <2>2
<1>10. ASSUME NEW k \in Nat, k \in A PROVE k + 1 \in A
  <2> SUFFICES ASSUME k + 1 <= n PROVE Len(HeldText(SubSeq(events, 1, k + 1))) <= count
    BY <1>8
  <2>1. PICK m, e, before, after : /\ m = k + 1 /\ e = events[m] /\ before = SubSeq(events, 1, k)
                                   /\ after = SubSeq(events, 1, m)
    OBVIOUS
  <2>2. k \in 0..l /\ m \in 1..n /\ m \in 1..l /\ k <= n /\ m <= Len(events)
    BY <1>1, <1>2, <1>6, <2>1
  <2>3. Kin(before)
    BY <1>1, <2>1, <2>2, HeldOfParts
  <2>4. Sound(e)
    BY <1>2, <2>1, <2>2 DEF Kin
  <2>5. after = Append(before, e)
    BY <1>2, <2>1, <2>2, SliceOfMore
  <2>6. /\ ASeq(HeldText(before)) /\ ASeq(Saying(e))
        /\ Joins(HeldText(after), HeldText(before), Saying(e))
    BY <2>3, <2>4, <2>5, HeldOfMore
  <2>7. Len(HeldText(after)) = Len(HeldText(before)) + Len(Saying(e))
    BY <2>6, JoinedAt
  <2>8. Len(HeldText(before)) <= count
    BY <1>8, <1>10, <2>1, <2>2
  <2>9. Fits(events, m, count, cutting)
    BY <1>6, <2>2
  <2>10. Len(HeldText(before)) \in Nat
    BY <2>6, SeqLen
  <2>11. CASE IsText(e)
    <3>1. LettersBefore(events, m) + Len(events[m].text) <= count
      BY <2>1, <2>9, <2>11 DEF Fits
    <3>2. LettersBefore(events, m) = Len(HeldText(before)) /\ Saying(e) = events[m].text
      <4>1. m - 1 = k
        BY <2>1
      <4> QED BY <2>1, <2>11, <4>1 DEF LettersBefore, Saying
    <3> QED BY <2>1, <2>7, <3>1, <3>2
  <2>12. CASE ~IsText(e)
    <3>1. Len(Saying(e)) = 0
      BY <2>12, Short DEF Saying
    <3> QED BY <2>1, <2>7, <2>8, <2>10, <3>1
  <2> QED BY <2>11, <2>12
<1>11. Nat \subseteq A
  BY <1>9, <1>10, SetInduction
<1>12. n \in Nat /\ n \in A
  BY <1>6, <1>11
<1>13. Len(HeldText(SubSeq(events, 1, n))) <= count
  BY <1>8, <1>12
<1> QED BY <1>1, <1>6, <1>7, <1>13

(* Up to a cut goes the text up to it. *)
LEMMA TakenText ==
  ASSUME NEW events, Kin(events), NEW hit \in 0..Len(HeldText(events)),
         NEW taken, taken = TakenToCut(events, hit)
  PROVE  Kin(taken) /\ HeldText(taken) = SubSeq(HeldText(events), 1, hit)
<1>1. PICK all, n, l, first, a : /\ all = HeldText(events) /\ n = Fitting(events, hit, TRUE)
                                 /\ l = Len(events) /\ first = SubSeq(events, 1, n)
                                 /\ a = HeldText(first)
  OBVIOUS
<1>2. ASeq(all) /\ Len(all) \in Nat /\ l \in Nat /\ hit \in Nat /\ ASeq(events)
      /\ DOMAIN events = 1..l
  <2>1. ASeq(events) /\ ASeq(all)
    BY <1>1, SaysAre DEF Kin
  <2>2. Len(all) \in Nat /\ l \in Nat /\ DOMAIN events = 1..l
    BY <1>1, <2>1, SeqLen
  <2> QED BY <1>1, <2>1, <2>2
<1>3. /\ n \in 0..l /\ Len(a) <= hit
      /\ n # l => ~Fits(events, n + 1, hit, TRUE)
  BY <1>1, <1>2, FittingText
<1>4. PICK rest : rest = HeldText(SubSeq(events, n + 1, l))
  OBVIOUS
<1>5. Kin(first) /\ Kin(SubSeq(events, n + 1, l)) /\ Joins(all, a, rest) /\ Begins(a, all)
  BY <1>1, <1>3, <1>4, HeldOfParts
<1>6. ASeq(a) /\ ASeq(rest) /\ Len(a) \in Nat
  BY <1>1, <1>4, <1>5, SaysAre, SeqLen
<1>7. PICK left : left = hit - Len(a) /\ left \in Nat
  BY <1>2, <1>3, <1>6
<1>8. taken = first \o (IF left > 0 THEN <<Shortened(events[n + 1], left)>> ELSE <<>>)
  BY <1>1, <1>7 DEF TakenToCut
<1>9. CASE left = 0
  <2>1. taken = first
    <3>1. taken = first \o <<>> /\ ASeq(first)
      BY <1>5, <1>8, <1>9 DEF Kin
    <3> QED BY <3>1, NothingAdded
  <2>2. Len(a) = hit
    BY <1>2, <1>6, <1>7, <1>9
  <2>3. a = SubSeq(all, 1, hit)
    BY <1>2, <1>5, <1>6, <2>2, BeginningIs
  <2> QED BY <1>1, <1>5, <2>1, <2>3
<1>10. CASE left # 0
  <2>1. n # l
    <3> SUFFICES ASSUME n = l PROVE FALSE
      OBVIOUS
    <3>1. first = events
      <4>1. Begins(events, events)
        BY <1>1, <1>2 DEF Begins
      <4> QED BY <1>1, <1>2, <4>1, BeginningIs
    <3>2. a = all
      BY <1>1, <3>1
    <3>3. hit \in 0..Len(all)
      BY <1>1
    <3> QED BY <1>2, <1>7, <1>10, <3>2, <3>3
  <2>2. PICK e, m, cut : e = events[m] /\ m = n + 1 /\ cut = Shortened(e, left)
    OBVIOUS
  <2>3. m \in 1..l /\ Sound(e) /\ m - 1 = n
    BY <1>2, <1>3, <2>1, <2>2 DEF Kin
  <2>4. ~Fits(events, m, hit, TRUE)
    BY <1>3, <2>1, <2>2
  <2>5. LettersBefore(events, m) = Len(a)
    BY <1>1, <2>3 DEF LettersBefore
  <2>6. Len(a) < hit
    BY <1>2, <1>6, <1>7, <1>10
  <2>7. IsText(e) /\ ~(Len(a) + Len(e.text) <= hit)
    BY <2>2, <2>4, <2>5, <2>6 DEF Fits
  <2>8. ASeq(e.text) /\ "type" \in DOMAIN e /\ e.type = "text" /\ "text" \in DOMAIN e
    BY <2>3, <2>7 DEF Sound, IsText
  <2>9. PICK text : text = e.text /\ ASeq(text) /\ Len(text) \in Nat
    BY <2>8, SeqLen
  <2>10. left \in 0..Len(text)
    BY <1>2, <1>6, <1>7, <2>7, <2>9
  <2>11. PICK kept : kept = SubSeq(text, 1, left)
    OBVIOUS
  <2>12. Begins(kept, text) /\ ASeq(kept) /\ Len(kept) = left
    BY <2>9, <2>10, <2>11, BeginningIs
  <2>13. "type" \in DOMAIN cut /\ cut.type = "text" /\ "text" \in DOMAIN cut /\ cut.text = kept
    BY <2>2, <2>8, <2>9, <2>11 DEF Shortened
  <2>14. Sound(cut) /\ Saying(cut) = kept
    BY <2>12, <2>13 DEF Sound, Saying, IsText
  <2>15. taken = Append(first, cut)
    <3>1. PICK one : one = <<cut>>
      OBVIOUS
    <3>2. taken = first \o one
      BY <1>7, <1>8, <1>10, <2>2, <3>1
    <3>3. Cuts!ASeq(first)
      BY <1>5, OneNotion DEF Kin
    <3> QED BY <3>1, <3>2, <3>3, Cuts!OneAdded
  <2>16. Kin(taken) /\ Joins(HeldText(taken), a, kept)
    BY <1>1, <1>5, <2>14, <2>15, HeldOfMore
  <2>17. PICK upto : upto = SubSeq(events, 1, m)
    OBVIOUS
  <2>18. upto = Append(first, e)
    <3>1. n \in Nat /\ n + 1 <= Len(events)
      <4>1. n \in Nat /\ n + 1 <= l
        BY <1>2, <1>3, <2>2, <2>3
      <4> QED BY <1>1, <4>1
    <3> QED BY <1>1, <1>2, <2>2, <2>17, <3>1, SliceOfMore
  <2>19. Joins(HeldText(upto), a, text)
    <3>1. Saying(e) = text
      BY <2>7, <2>9 DEF Saying
    <3> QED BY <1>1, <1>5, <2>3, <2>18, <3>1, HeldOfMore
  <2>20. Begins(HeldText(upto), all)
    <3>1. m \in 0..Len(events)
      BY <1>1, <1>2, <2>3
    <3> QED BY <1>1, <2>17, <3>1, HeldOfParts
  <2>21. HeldText(taken) = SubSeq(HeldText(upto), 1, hit)
    <3>1. left <= Len(text) /\ Len(a) + left = hit
      BY <1>2, <1>6, <1>7, <2>10
    <3>2. SubSeq(HeldText(upto), 1, Len(a) + left) = a \o kept
      <4>1. PICK u : u = HeldText(upto)
        OBVIOUS
      <4>2. Joins(u, a, text) /\ ASeq(a) /\ ASeq(text) /\ left \in Nat /\ left <= Len(text)
        BY <1>6, <1>7, <2>9, <2>19, <3>1, <4>1
      <4>3. SubSeq(u, 1, Len(a) + left) = a \o SubSeq(text, 1, left)
        BY <4>2, JoinedUpTo
      <4> QED BY <2>11, <4>1, <4>3
    <3> QED BY <2>16, <3>1, <3>2 DEF Joins
  <2>22. /\ ASeq(HeldText(upto)) /\ Len(HeldText(upto)) = Len(a) + Len(text)
    BY <1>6, <2>9, <2>19, JoinedAt
  <2>23. HeldText(taken) = SubSeq(all, 1, hit)
    <3>1. PICK part : part = SubSeq(HeldText(upto), 1, hit)
      OBVIOUS
    <3>2. hit \in 0..Len(HeldText(upto))
      BY <1>2, <1>6, <1>7, <2>9, <2>10, <2>22
    <3>3. Begins(part, HeldText(upto)) /\ ASeq(part) /\ Len(part) = hit
      BY <2>22, <3>1, <3>2, BeginningIs
    <3>4. Begins(part, all)
      BY <1>2, <2>20, <2>22, <3>3, BeginningsOf
    <3>5. part = SubSeq(all, 1, hit)
      BY <1>2, <3>3, <3>4, BeginningIs
    <3> QED BY <2>21, <3>1, <3>5
  <2> QED BY <1>1, <2>16, <2>23
<1> QED BY <1>9, <1>10
-----------------------------------------------------------------------------
(* All the deltas that go on are given, in their order. *)
LEMMA TakingAll ==
  ASSUME NEW s, PShape(s), ASeq(s.given), s.outcome = Null, NEW out, Deltas(out),
         NEW r, r = Takes!Folded(s, out)
  PROVE  /\ PShape(r) /\ r.outcome = Null /\ r.coalescer = s.coalescer /\ r.cutter = s.cutter
         /\ Joins(r.given, s.given, out)
<1>1. PICK n, before : n = Len(out) /\ before = s.given
  OBVIOUS
<1>2. n \in Nat /\ DOMAIN out = 1..n /\ ASeq(out)
  BY <1>1, SeqLen DEF Deltas
<1>3. PICK h : /\ h[0] = s
               /\ \A i \in 1..n : h[i] = Consumed(h[i - 1], out[i])
               /\ h[n] = Takes!Folded(s, out)
  BY <1>2, Takes!FoldTrace, Z3T(30)
<1> DEFINE Good(q, k) == /\ PShape(q) /\ q.outcome = Null
                         /\ q.coalescer = s.coalescer /\ q.cutter = s.cutter
                         /\ q.given = before \o SubSeq(out, 1, k)
           A == {k \in Nat : k <= n => Good(h[k], k)}
<1>4. 0 \in A
  <2>1. SubSeq(out, 1, 0) = <<>>
    OBVIOUS
  <2>2. before \o <<>> = before
    BY <1>1, NothingAdded
  <2> QED BY <1>1, <1>3, <2>1, <2>2
<1>5. ASSUME NEW k \in Nat, k \in A PROVE k + 1 \in A
  <2> SUFFICES ASSUME k + 1 <= n PROVE Good(h[k + 1], k + 1)
    OBVIOUS
  <2>1. PICK m, q, e, part : /\ m = k + 1 /\ q = h[k] /\ e = out[m]
                             /\ part = SubSeq(out, 1, k)
    OBVIOUS
  <2>2. Good(q, k)
    BY <1>2, <1>5, <2>1
  <2>3. m \in 1..n /\ m - 1 = k
    BY <1>2, <2>1
  <2>4. h[m] = Consumed(q, e) /\ IsDelta(e)
    BY <1>2, <1>3, <2>1, <2>3 DEF Deltas
  <2>5. Consumed(q, e) = Kept(q, e, Accumulated(q.accumulator, e))
    BY <2>2 DEF Consumed
  <2>6. e.type # "error" /\ e.type # "end"
    BY <2>4 DEF IsDelta
  <2>7. /\ PShape(h[m]) /\ h[m].outcome = Null
        /\ h[m].coalescer = s.coalescer /\ h[m].cutter = s.cutter
        /\ h[m].given = Append(q.given, e)
    <3>1. PICK a : a = Accumulated(q.accumulator, e)
      OBVIOUS
    <3>2. PICK kept : kept = Kept(q, e, a)
      OBVIOUS
    <3>3. h[m] = kept
      BY <2>4, <2>5, <3>1, <3>2
    <3>4. PShape(q)
      BY <2>2
    <3>5. /\ PShape(kept) /\ kept.coalescer = q.coalescer /\ kept.cutter = q.cutter
          /\ kept.given = Append(q.given, e) /\ kept.outcome = q.outcome
      BY <2>6, <3>2, <3>4, KeptFields
    <3> QED BY <2>2, <3>3, <3>5
  <2>8. Append(before \o part, e) = before \o Append(part, e)
    <3>1. PICK one : one = <<e>>
      OBVIOUS
    <3>2. k \in 0..Len(out)
      BY <1>1, <1>2, <2>1, <2>3
    <3>3. ASeq(part) /\ ASeq(before) /\ ASeq(one)
      BY <1>1, <1>2, <2>1, <3>1, <3>2, BeginningIs, Short
    <3>4. ASeq(before \o part)
      BY <3>3, Concatenated
    <3>5. Cuts!ASeq(part) /\ Cuts!ASeq(before) /\ Cuts!ASeq(one) /\ Cuts!ASeq(before \o part)
      BY <3>3, <3>4, OneNotion
    <3>6. (before \o part) \o one = before \o (part \o one)
      BY <3>5, Cuts!Reassociated
    <3>7. part \o one = Append(part, e) /\ (before \o part) \o one = Append(before \o part, e)
      BY <3>1, <3>5, Cuts!OneAdded
    <3> QED BY <3>6, <3>7
  <2>9. SubSeq(out, 1, m) = Append(part, e)
    BY <1>1, <1>2, <2>1, <2>3, SliceOfMore
  <2> QED BY <2>1, <2>2, <2>7, <2>8, <2>9
<1> HIDE DEF A
<1>6. n \in A
  BY <1>2, <1>4, <1>5, SetInduction
<1>7. Good(h[n], n)
  BY <1>2, <1>6 DEF A
<1>8. SubSeq(out, 1, n) = out
  <2>1. Begins(out, out)
    BY <1>1, <1>2 DEF Begins
  <2> QED BY <1>1, <1>2, <2>1, BeginningIs
<1> QED BY <1>1, <1>3, <1>7, <1>8 DEF Joins
-----------------------------------------------------------------------------
(* The cutter has not cut: no stop sequence is in what was spoken, given   *)
(* or held, and what is held is all that may begin one.                    *)
Holding(c, given0, spoken, stop) ==
  /\ KShape(c) /\ ~c.cut /\ c.stop = stop
  /\ ASeq(given0) /\ Joins(spoken, given0, HeldText(c.held))
  /\ Starts(spoken, stop) = {} /\ Len(given0) <= Released(spoken, stop)

(* It has: what is given is the text before the first stop sequence. *)
Halving(given0, spoken, stop) ==
  Starts(spoken, stop) # {} /\ given0 = SubSeq(spoken, 1, Min(Starts(spoken, stop)))

(* A stop that is found is the first that starts. *)
LEMMA FirstStopIs ==
  ASSUME NEW stop, Stops(stop), NEW text, ASeq(text), NEW hit, hit = FirstStop(text, stop)
  PROVE  IF hit = Null THEN Starts(text, stop) = {}
         ELSE Starts(text, stop) # {} /\ hit = Min(Starts(text, stop)) /\ hit \in 0..Len(text)
<1>1. Starts(text, stop) \in SUBSET (0..Len(text)) /\ Len(text) \in Nat
  BY StartsAre
<1>2. CASE Starts(text, stop) = {}
  BY <1>2 DEF FirstStop
<1>3. CASE Starts(text, stop) # {}
  <2>1. hit = Min(Starts(text, stop))
    BY <1>3 DEF FirstStop
  <2>2. Min(Starts(text, stop)) \in Starts(text, stop)
    BY <1>1, <1>3, Extremes
  <2>3. hit \in 0..Len(text)
    BY <1>1, <2>1, <2>2
  <2>4. hit # Null
    BY <1>1, <2>3, NullAssumption
  <2> QED BY <1>3, <2>1, <2>3, <2>4
<1> QED BY <1>2, <1>3

(* Three texts, the middle one to the left or to the right. *)
LEMMA JoinedThree ==
  ASSUME NEW a, NEW b, NEW c, ASeq(a), ASeq(b), ASeq(c), NEW text, NEW both,
         Joins(both, b, c), Joins(text, a, both)
  PROVE  ASeq(a \o b) /\ Len(a \o b) = Len(a) + Len(b) /\ Joins(text, a \o b, c)
<1>1. Cuts!ASeq(a) /\ Cuts!ASeq(b) /\ Cuts!ASeq(c)
  BY OneNotion
<1>2. (a \o b) \o c = a \o (b \o c)
  BY <1>1, Cuts!Reassociated
<1> QED BY <1>2, Concatenated DEF Joins

(* A delta that says nothing is given, or held with the rest. *)
LEMMA FedSilence ==
  ASSUME NEW stop, Stops(stop), stop # {}, NEW c, NEW given0, NEW spoken,
         Holding(c, given0, spoken, stop),
         NEW e, IsDelta(e), Sound(e), ~IsText(e), NEW x, x = Step(c, e)
  PROVE  /\ Deltas(x.out) /\ Kin(x.out) /\ HeldText(x.out) = <<>>
         /\ Saying(e) = <<>> /\ Holding(x.cutter, given0, spoken, stop)
<1>1. e.type \notin {"end", "error"} /\ Saying(e) = <<>>
  BY DEF IsDelta, Saying
<1>2. PICK held : held = Append(c.held, e)
  OBVIOUS
<1>3. Kin(c.held) /\ Deltas(c.held) /\ ASeq(HeldText(c.held))
  BY SaysAre DEF Holding, KShape, Deltas, Kin
<1>4. CASE c.held = <<>>
  <2>1. PICK one : one = <<e>>
    OBVIOUS
  <2>2. Feed(c, e) = [out |-> one, cutter |-> c]
    BY <1>4, <2>1 DEF Feed
  <2>3. x.out = one /\ x.cutter = c
    BY <1>1, <2>2 DEF Step, Holding
  <2>4. Deltas(one)
    BY <2>1, ShortDeltas
  <2>5. Kin(one) /\ HeldText(one) = <<>>
    BY <1>1, <2>1, HeldOfFew
  <2> QED BY <1>1, <2>3, <2>4, <2>5
<1>5. CASE c.held # <<>>
  <2>1. PICK k : k = [c EXCEPT !.held = held]
    OBVIOUS
  <2>2. Feed(c, e) = [out |-> <<>>, cutter |-> k]
    BY <1>2, <1>5, <2>1 DEF Feed
  <2>3. DOMAIN c = {"stop", "held", "cut"}
    BY DEF Holding, KShape
  <2>4. k.stop = c.stop /\ k.held = held /\ k.cut = c.cut /\ DOMAIN k = DOMAIN c
    BY <2>1, <2>3
  <2>5. x.out = <<>> /\ x.cutter = k
    BY <1>1, <2>2, <2>4 DEF Step, Holding
  <2>6. Deltas(held) /\ \A i \in DOMAIN held : Sound(held[i])
    BY <1>2, <1>3, MoreDeltas DEF Kin
  <2>7. KShape(k)
    BY <2>3, <2>4, <2>6 DEF Holding, KShape
  <2>8. HeldText(held) = HeldText(c.held)
    <3>1. Joins(HeldText(held), HeldText(c.held), <<>>)
      BY <1>1, <1>2, <1>3, HeldOfMore
    <3> QED BY <1>3, <3>1, NothingAdded DEF Joins
  <2>9. Holding(k, given0, spoken, stop)
    BY <2>4, <2>7, <2>8 DEF Holding
  <2>10. Deltas(<<>>)
    BY ShortDeltas
  <2> QED BY <1>1, <2>5, <2>9, <2>10, HeldOfFew
<1> QED BY <1>4, <1>5

(* A text gives what can no longer begin a stop sequence, or is cut at one.*)
LEMMA FedText ==
  ASSUME NEW stop, Stops(stop), stop # {}, NEW c, NEW given0, NEW spoken,
         Holding(c, given0, spoken, stop),
         NEW e, IsDelta(e), Sound(e), IsText(e), NEW x, x = Step(c, e),
         NEW text, Joins(text, spoken, Saying(e))
  PROVE  \/ /\ Deltas(x.out) /\ Kin(x.out)
            /\ Holding(x.cutter, given0 \o HeldText(x.out), text, stop)
         \/ /\ x.cutter.cut /\ x.cutter.stop = stop
            /\ \E y : /\ Deltas(y) /\ Kin(y) /\ x.out = Append(y, CutEnd)
                      /\ Halving(given0 \o HeldText(y), text, stop)
<1>1. e.type \notin {"end", "error"} /\ CutEnd.type = "end"
  BY DEF IsDelta, CutEnd, End
<1>2. PICK held, all, old : held = Append(c.held, e) /\ all = HeldText(held) /\ old = HeldText(c.held)
  OBVIOUS
<1>3. /\ Kin(c.held) /\ Deltas(c.held) /\ DOMAIN c = {"stop", "held", "cut"} /\ ~c.cut
      /\ c.stop = stop /\ ASeq(given0) /\ Joins(spoken, given0, old)
      /\ Starts(spoken, stop) = {} /\ Len(given0) <= Released(spoken, stop)
  BY <1>2 DEF Holding, KShape, Deltas, Kin
<1>4. Kin(held) /\ ASeq(old) /\ ASeq(Saying(e)) /\ Joins(all, old, Saying(e))
  BY <1>2, <1>3, HeldOfMore
<1>5. Deltas(held) /\ \A i \in DOMAIN held : Sound(held[i])
  BY <1>2, <1>3, MoreDeltas DEF Kin
<1>6. /\ ASeq(text) /\ ASeq(all) /\ Joins(text, given0, all)
      /\ Starts(all, stop) = {} => Starts(text, stop) = {}
      /\ Starts(all, stop) # {} =>
           /\ Starts(text, stop) # {}
           /\ Min(Starts(all, stop)) \in 0..Len(all)
           /\ Min(Starts(text, stop)) = Len(given0) + Min(Starts(all, stop))
  BY <1>3, <1>4, MoreSpoken
<1>7. PICK hit : hit = FirstStop(all, stop)
  OBVIOUS
<1>8. IF hit = Null THEN Starts(all, stop) = {}
      ELSE Starts(all, stop) # {} /\ hit = Min(Starts(all, stop)) /\ hit \in 0..Len(all)
  BY <1>6, <1>7, FirstStopIs
<1>9. CASE hit # Null
  <2>1. PICK k, y : k = [c EXCEPT !.held = <<>>, !.cut = TRUE] /\ y = TakenToCut(held, hit)
    OBVIOUS
  <2>2. Feed(c, e) = [out |-> y, cutter |-> k]
    BY <1>2, <1>3, <1>7, <1>9, <2>1 DEF Feed
  <2>3. k.cut /\ k.stop = stop
    BY <1>3, <2>1
  <2>4. x.cutter = k /\ x.out = Append(y, CutEnd)
    BY <1>1, <1>3, <2>2, <2>3 DEF Step
  <2>5. hit \in 0..Len(HeldText(held)) /\ Len(all) \in Nat
    BY <1>2, <1>6, <1>8, <1>9, SeqLen
  <2>6. Deltas(y)
    BY <1>5, <2>1, <2>5, TakenDeltas
  <2>7. Kin(y) /\ HeldText(y) = SubSeq(all, 1, hit)
    BY <1>2, <1>4, <2>1, <2>5, TakenText
  <2>8. SubSeq(text, 1, Len(given0) + hit) = given0 \o SubSeq(all, 1, hit)
    <3>1. hit \in Nat /\ hit <= Len(all)
      BY <1>2, <2>5
    <3> QED BY <1>3, <1>6, <3>1, JoinedUpTo
  <2>9. Halving(given0 \o HeldText(y), text, stop)
    BY <1>6, <1>8, <1>9, <2>7, <2>8 DEF Halving
  <2> QED BY <2>3, <2>4, <2>6, <2>7, <2>9
<1>10. CASE hit = Null
  <2>1. PICK n, l, first, rest, k :
          /\ n = Fitting(held, Released(all, stop), FALSE) /\ l = Len(held)
          /\ first = SubSeq(held, 1, n) /\ rest = SubSeq(held, n + 1, l)
          /\ k = [c EXCEPT !.held = rest]
    OBVIOUS
  <2>2. Feed(c, e) = [out |-> first, cutter |-> k]
    BY <1>2, <1>3, <1>7, <1>10, <2>1 DEF Feed
  <2>3. ~k.cut /\ k.stop = stop /\ k.held = rest /\ DOMAIN k = {"stop", "held", "cut"}
        /\ k.cut \in BOOLEAN
    BY <1>3, <2>1 DEF Holding, KShape
  <2>4. x.cutter = k /\ x.out = first
    BY <1>1, <1>3, <2>2, <2>3 DEF Step
  <2>5. Released(all, stop) \in Nat
    BY <1>6, ReleasedIs
  <2>6. n \in 0..l /\ Len(HeldText(first)) <= Released(all, stop)
    BY <1>4, <2>1, <2>5, FittingText
  <2>7. Kin(first) /\ Kin(rest) /\ Joins(all, HeldText(first), HeldText(rest))
    BY <1>2, <1>4, <2>1, <2>6, HeldOfParts
  <2>8. l \in Nat /\ n \in Nat /\ n <= l
    <3>1. ASeq(held)
      BY <1>5 DEF Deltas
    <3>2. l \in Nat
      BY <2>1, <3>1, SeqLen
    <3> QED BY <2>6, <3>2
  <2>9. Deltas(first) /\ Deltas(rest)
    <3>1. \A m \in Nat \ {0} : \A j \in Nat : j <= Len(held) => Deltas(SubSeq(held, m, j))
      BY <1>5, PartOfDeltas
    <3>2. n + 1 \in Nat \ {0} /\ 1 \in Nat \ {0} /\ n <= l /\ l <= l
      BY <2>8
    <3>3. n <= Len(held) /\ l <= Len(held)
      BY <2>1, <3>2
    <3> QED BY <2>1, <2>8, <3>1, <3>2, <3>3
  <2>10. KShape(k)
    BY <2>3, <2>7, <2>9 DEF KShape, Kin
  <2>11. PICK a, b, now : a = HeldText(first) /\ b = HeldText(rest) /\ now = given0 \o a
    OBVIOUS
  <2>12. ASeq(a) /\ ASeq(b) /\ Len(a) \in Nat
    BY <2>7, <2>11, SaysAre, SeqLen
  <2>13. ASeq(now) /\ Len(now) = Len(given0) + Len(a) /\ Joins(text, now, b)
    BY <1>3, <1>6, <2>7, <2>11, <2>12, JoinedThree
  <2>14. Len(now) <= Released(text, stop)
    <3>1. ASeq(spoken) /\ Begins(spoken, text)
      BY <1>3, <1>4, JoinedBegins
    <3>2. Len(spoken) <= Len(text)
      BY <3>1 DEF Begins
    <3>3. Len(text) = Len(given0) + Len(all)
      BY <1>3, <1>6, JoinedAt
    <3>4. Len(a) <= Released(all, stop)
      BY <2>6, <2>11
    <3>5. Len(given0) + Len(a) <= Released(text, stop)
      BY <1>3, <1>6, <2>12, <3>1, <3>2, <3>3, <3>4, MoreGiven
    <3> QED BY <2>13, <3>5
  <2>15. Holding(k, now, text, stop)
    BY <1>6, <1>8, <1>10, <2>3, <2>10, <2>11, <2>13, <2>14 DEF Holding
  <2> QED BY <2>4, <2>7, <2>9, <2>11, <2>15
<1> QED BY <1>9, <1>10

-----------------------------------------------------------------------------
(* The consumer's end of the line: what it was given is the beginning of   *)
(* what was spoken that the cutter lets go, or the text up to the stop.    *)
Dry(s, spoken, stop) ==
  /\ PShape(s) /\ s.outcome = Null /\ Kin(s.given)
  /\ Holding(s.cutter, HeldText(s.given), spoken, stop)

Halted(s, spoken, stop) ==
  /\ PShape(s) /\ s.cutter.cut /\ s.cutter.stop = stop /\ Kin(s.given)
  /\ ASeq(spoken) /\ Halving(HeldText(s.given), spoken, stop)

Heeded(s, spoken, stop) == Dry(s, spoken, stop) \/ Halted(s, spoken, stop)

(* What was spoken is a text. *)
LEMMA HoldingText ==
  ASSUME NEW c, NEW given0, NEW spoken, NEW stop, Holding(c, given0, spoken, stop)
  PROVE  ASeq(spoken) /\ ASeq(HeldText(c.held)) /\ Kin(c.held) /\ Begins(given0, spoken)
<1>1. Kin(c.held)
  BY DEF Holding, KShape, Kin, Deltas
<1>2. ASeq(HeldText(c.held))
  BY <1>1, SaysAre
<1>3. ASeq(given0) /\ Joins(spoken, given0, HeldText(c.held))
  BY DEF Holding
<1> QED BY <1>1, <1>2, <1>3, JoinedBegins

(* A delta through the cutter. *)
LEMMA CutHeeds ==
  ASSUME NEW stop, Stops(stop), stop # {}, NEW s, NEW spoken, Dry(s, spoken, stop),
         NEW e, IsDelta(e), Sound(e), NEW text, Joins(text, spoken, Saying(e)),
         NEW r, r = Cut(s, e)
  PROVE  r.coalescer = s.coalescer /\ Heeded(r, text, stop)
<1>1. PICK c, given0, x : c = s.cutter /\ given0 = HeldText(s.given) /\ x = Step(c, e)
  OBVIOUS
<1>2. /\ PShape(s) /\ ~s.cutter.cut /\ s.outcome = Null /\ Kin(s.given) /\ ASeq(s.given)
      /\ Holding(c, given0, spoken, stop) /\ ASeq(spoken)
  <2>1. Holding(c, given0, spoken, stop)
    BY <1>1 DEF Dry
  <2>2. ASeq(spoken)
    BY <2>1, HoldingText
  <2> QED BY <1>1, <2>1, <2>2 DEF Dry, Holding, Kin
<1>3. PICK base : /\ PShape(base) /\ base.coalescer = s.coalescer
                  /\ base.cutter = x.cutter
                  /\ base.given = s.given /\ base.outcome = Null
                  /\ r = Takes!Folded(base, x.out)
  BY <1>1, <1>2, CutIs
<1>4. CASE ~IsText(e)
  <2>1. /\ Deltas(x.out) /\ Kin(x.out) /\ HeldText(x.out) = <<>>
        /\ Saying(e) = <<>> /\ Holding(x.cutter, given0, spoken, stop)
    BY <1>1, <1>2, <1>4, FedSilence
  <2>2. text = spoken
    BY <1>2, <2>1, NothingAdded DEF Joins
  <2>3. /\ PShape(r) /\ r.outcome = Null /\ r.coalescer = base.coalescer
        /\ r.cutter = base.cutter /\ Joins(r.given, base.given, x.out)
    BY <1>2, <1>3, <2>1, TakingAll
  <2>4. Kin(r.given) /\ HeldText(r.given) = given0
    <3>1. Kin(s.given \o x.out) /\ HeldText(s.given \o x.out) = HeldText(s.given) \o HeldText(x.out)
      BY <1>2, <2>1, HeldOfBoth
    <3>2. ASeq(given0)
      BY <1>2 DEF Holding
    <3>3. given0 \o <<>> = given0
      BY <3>2, NothingAdded
    <3> QED BY <1>1, <1>3, <2>1, <2>3, <3>1, <3>3 DEF Joins
  <2>5. Dry(r, text, stop)
    BY <1>3, <2>1, <2>2, <2>3, <2>4 DEF Dry
  <2> QED BY <1>3, <2>3, <2>5 DEF Heeded
<1>5. CASE IsText(e) /\ Deltas(x.out) /\ Kin(x.out)
           /\ Holding(x.cutter, given0 \o HeldText(x.out), text, stop)
  <2>1. /\ PShape(r) /\ r.outcome = Null /\ r.coalescer = base.coalescer
        /\ r.cutter = base.cutter /\ Joins(r.given, base.given, x.out)
    BY <1>2, <1>3, <1>5, TakingAll
  <2>2. Kin(s.given \o x.out) /\ HeldText(s.given \o x.out) = HeldText(s.given) \o HeldText(x.out)
    BY <1>2, <1>5, HeldOfBoth
  <2>3. Kin(r.given) /\ HeldText(r.given) = given0 \o HeldText(x.out)
    BY <1>1, <1>3, <2>1, <2>2 DEF Joins
  <2>4. Dry(r, text, stop)
    BY <1>3, <1>5, <2>1, <2>3 DEF Dry
  <2> QED BY <1>3, <2>1, <2>4 DEF Heeded
<1>6. CASE IsText(e) /\ x.cutter.cut /\ x.cutter.stop = stop
           /\ \E y : /\ Deltas(y) /\ Kin(y) /\ x.out = Append(y, CutEnd)
                     /\ Halving(given0 \o HeldText(y), text, stop)
  <2>1. PICK y : /\ Deltas(y) /\ Kin(y) /\ x.out = Append(y, CutEnd)
                 /\ Halving(given0 \o HeldText(y), text, stop)
    BY <1>6
  <2>2. PICK mid, a : mid = Takes!Folded(base, y) /\ a = Accumulated(mid.accumulator, CutEnd)
    OBVIOUS
  <2>3. /\ PShape(mid) /\ mid.outcome = Null /\ mid.coalescer = base.coalescer
        /\ mid.cutter = base.cutter /\ Joins(mid.given, base.given, y)
    BY <1>2, <1>3, <2>1, <2>2, TakingAll
  <2>4. PICK kept : kept = Kept(mid, CutEnd, a)
    OBVIOUS
  <2>5. r = kept
    <3>1. r = Consumed(mid, CutEnd)
      BY <1>3, <2>1, <2>2, TakingMore DEF Deltas
    <3> QED BY <2>2, <2>3, <2>4, <3>1 DEF Consumed
  <2>6. /\ PShape(r) /\ r.coalescer = mid.coalescer /\ r.cutter = mid.cutter
        /\ r.given = Append(mid.given, CutEnd)
    BY <2>3, <2>4, <2>5, KeptFields
  <2>7. Kin(mid.given) /\ HeldText(mid.given) = given0 \o HeldText(y)
    <3>1. Kin(s.given \o y) /\ HeldText(s.given \o y) = HeldText(s.given) \o HeldText(y)
      BY <1>2, <2>1, HeldOfBoth
    <3> QED BY <1>1, <1>3, <2>3, <3>1 DEF Joins
  <2>8. Sound(CutEnd) /\ Saying(CutEnd) = <<>>
    BY DEF Sound, CutEnd, End, Saying, IsText
  <2>9. PICK g, h : g = mid.given /\ h = Append(g, CutEnd)
    OBVIOUS
  <2>10. Kin(h) /\ HeldText(h) = HeldText(g)
    <3>1. Kin(h) /\ ASeq(HeldText(g)) /\ Joins(HeldText(h), HeldText(g), Saying(CutEnd))
      BY <2>7, <2>8, <2>9, HeldOfMore
    <3>2. HeldText(g) \o <<>> = HeldText(g)
      BY <3>1, NothingAdded
    <3> QED BY <2>8, <3>1, <3>2 DEF Joins
  <2>11. ASeq(text)
    <3>1. ASeq(Saying(e))
      BY HeldOfFew
    <3> QED BY <1>2, <3>1, JoinedBegins
  <2>12. Halted(r, text, stop)
    BY <1>3, <1>6, <2>1, <2>3, <2>6, <2>7, <2>9, <2>10, <2>11 DEF Halted
  <2> QED BY <1>3, <2>3, <2>6, <2>12 DEF Heeded
<1> QED
  <2>1. IsText(e) =>
          \/ /\ Deltas(x.out) /\ Kin(x.out)
             /\ Holding(x.cutter, given0 \o HeldText(x.out), text, stop)
          \/ /\ x.cutter.cut /\ x.cutter.stop = stop
             /\ \E y : /\ Deltas(y) /\ Kin(y) /\ x.out = Append(y, CutEnd)
                       /\ Halving(given0 \o HeldText(y), text, stop)
    BY <1>1, <1>2, FedText
  <2> QED BY <1>4, <1>5, <1>6, <2>1

(* A start goes through a cutter that holds nothing. *)
LEMMA CutHeedsStart ==
  ASSUME NEW stop, NEW s, NEW spoken, Dry(s, spoken, stop), s.cutter.held = <<>>,
         NEW e, e.type = "start", Sound(e), NEW r, r = Cut(s, e)
  PROVE  r.coalescer = s.coalescer /\ r.cutter = s.cutter /\ Dry(r, spoken, stop)
<1>1. PShape(s) /\ ~s.cutter.cut /\ KShape(s.cutter) /\ s.outcome = Null /\ Kin(s.given)
  BY DEF Dry, Holding
<1>2. PICK x : x = Step(s.cutter, e)
  OBVIOUS
<1>3. x = [out |-> <<e>>, cutter |-> s.cutter]
  BY <1>1, <1>2, StepStart
<1>4. PICK base : /\ PShape(base) /\ base.coalescer = s.coalescer
                  /\ base.cutter = x.cutter
                  /\ base.given = s.given /\ base.outcome = Null
                  /\ r = Takes!Folded(base, x.out)
  BY <1>1, <1>2, CutIs
<1>5. r = Consumed(base, e)
  <2>1. Takes!Folded(base, <<e>>) = Consumed(base, e)
    BY Takes!FoldOfOne
  <2> QED BY <1>3, <1>4, <2>1
<1>6. PICK a, kept : a = Accumulated(base.accumulator, e) /\ kept = Kept(base, e, a)
  OBVIOUS
<1>7. r = kept
  BY <1>4, <1>5, <1>6 DEF Consumed
<1>8. /\ PShape(r) /\ r.coalescer = base.coalescer /\ r.cutter = base.cutter
      /\ r.given = Append(base.given, e) /\ r.outcome = Null
  <2>1. e.type # "error" /\ e.type # "end"
    OBVIOUS
  <2> QED BY <1>4, <1>6, <1>7, <2>1, KeptFields
<1>9. PICK g, h : g = s.given /\ h = Append(g, e)
  OBVIOUS
<1>10. Kin(h) /\ HeldText(h) = HeldText(g)
  <2>1. Saying(e) = <<>>
    BY DEF Saying, IsText
  <2>2. Kin(h) /\ ASeq(HeldText(g)) /\ Joins(HeldText(h), HeldText(g), Saying(e))
    BY <1>1, <1>9, HeldOfMore
  <2>3. HeldText(g) \o <<>> = HeldText(g)
    BY <2>2, NothingAdded
  <2> QED BY <2>1, <2>2, <2>3 DEF Joins
<1>11. Holding(r.cutter, HeldText(h), spoken, stop)
  BY <1>3, <1>4, <1>8, <1>9, <1>10 DEF Dry
<1> QED BY <1>3, <1>4, <1>8, <1>9, <1>10, <1>11 DEF Dry

(* What comes after the stop changes nothing of what the consumer has. *)
LEMMA HaltedStays ==
  ASSUME NEW stop, Stops(stop), NEW s, NEW spoken, Halted(s, spoken, stop),
         NEW more, ASeq(more), NEW text, Joins(text, spoken, more)
  PROVE  Halted(s, text, stop)
<1>1. PICK given0 : given0 = HeldText(s.given)
  OBVIOUS
<1>2. ASeq(spoken) /\ Starts(spoken, stop) # {}
      /\ given0 = SubSeq(spoken, 1, Min(Starts(spoken, stop)))
  BY <1>1 DEF Halted, Halving
<1>3. ASeq(text) /\ Begins(spoken, text)
  BY <1>2, JoinedBegins
<1>4. PICK at : at = Min(Starts(spoken, stop))
  OBVIOUS
<1>5. /\ Starts(text, stop) # {} /\ Min(Starts(text, stop)) = at
      /\ at \in Nat /\ at < Len(spoken)
  BY <1>2, <1>3, <1>4, FirstStays
<1>6. SubSeq(text, 1, at) = given0
  <2>1. Len(spoken) \in Nat /\ Len(text) \in Nat /\ Len(spoken) <= Len(text)
    BY <1>2, <1>3, SeqLen DEF Begins
  <2>2. at \in 0..Len(spoken) /\ at \in 0..Len(text)
    BY <1>5, <2>1
  <2>3. Begins(given0, spoken) /\ ASeq(given0) /\ Len(given0) = at
    BY <1>2, <1>4, <2>2, BeginningIs
  <2>4. Begins(given0, text)
    BY <1>2, <1>3, <2>3, BeginningsOf
  <2> QED BY <1>3, <2>3, <2>4, BeginningIs
<1> QED BY <1>1, <1>3, <1>5, <1>6 DEF Halted, Halving

(* An event of the dialect, the start before it included. *)
LEMMA PushedHeeds ==
  ASSUME NEW stop, Stops(stop), stop # {}, NEW s, NEW spoken, Flow(s), Heeded(s, spoken, stop),
         NEW e, Sound(e), e.type # "error", NEW text, Joins(text, spoken, Saying(e)),
         NEW r, r = Pushed(s, e)
  PROVE  Heeded(r, text, stop)
<1>1. PICK c, out : c = Coalesced(s.coalescer, e) /\ out = Emitted(s.coalescer, e, Requested)
  OBVIOUS
<1>2. PICK base : base = [s EXCEPT !.coalescer = c]
  OBVIOUS
<1>3. r = Cuts!Folded(base, out)
  BY <1>1, <1>2, PushedIs
<1>4. /\ PShape(base) /\ base.coalescer = c /\ base.cutter = s.cutter
      /\ base.given = s.given /\ base.outcome = s.outcome
  BY <1>2 DEF Flow, Line, PShape
<1>5. ASeq(Saying(e))
  BY HeldOfFew
<1>6. CASE s.cutter.cut
  <2>1. Halted(s, spoken, stop)
    BY <1>6 DEF Heeded, Dry, Holding
  <2>2. Halted(s, text, stop)
    BY <1>5, <2>1, HaltedStays
  <2>3. \A x : Cut(base, x) = base
    BY <1>4, <1>6 DEF Cut
  <2>4. out = <<>> \/ \E x : out = <<x>> \/ out = Append(<<Start(Requested)>>, x)
    BY <1>1, EmittedIs DEF IsDelta
  <2>5. r = base
    <3>1. CASE out = <<>>
      BY <1>3, <3>1, CutsAre DEF Lasting
    <3>2. CASE \E x : out = <<x>>
      BY <1>3, <2>3, <3>2, CutsAre DEF Lasting
    <3>3. CASE \E x : out = Append(<<Start(Requested)>>, x)
      <4>1. PICK x : out = Append(<<Start(Requested)>>, x)
        BY <3>3
      <4>2. out = <<Start(Requested)>> \o <<x>>
        BY <4>1
      <4>3. r = Cut(Cut(base, Start(Requested)), x)
        BY <1>3, <4>2, CutsAre DEF Lasting
      <4> QED BY <2>3, <4>3
    <3> QED BY <2>4, <3>1, <3>2, <3>3
  <2> QED BY <1>4, <2>2, <2>5 DEF Heeded, Halted
<1>7. CASE ~s.cutter.cut
  <2>1. Dry(s, spoken, stop)
    BY <1>7 DEF Heeded, Halted
  <2>2. Dry(base, spoken, stop)
    BY <1>4, <2>1 DEF Dry
  <2>3. ASeq(spoken)
    BY <2>1, HoldingText DEF Dry
  <2>4. ASSUME ~IsText(e) PROVE text = spoken
    BY <2>3, <2>4, NothingAdded DEF Saying, Joins
  <2>5. ~s.coalescer.started => s.cutter.held = <<>>
    BY DEF Flow, Silent
  <2>6. CASE e.type = "end" \/ (e.type = "start" /\ s.coalescer.started)
    <3>1. out = <<>>
      BY <1>1, <2>6, EmittedIs
    <3>2. r = base
      BY <1>3, <3>1, CutsAre DEF Lasting
    <3> QED BY <2>2, <2>4, <2>6, <3>2 DEF Heeded, IsText
  <2>7. CASE e.type = "start" /\ ~s.coalescer.started
    <3>1. out = <<e>>
      BY <1>1, <2>7, EmittedIs
    <3>2. r = Cut(base, e)
      BY <1>3, <3>1, CutsAre DEF Lasting
    <3>3. Dry(r, spoken, stop)
      BY <1>4, <2>2, <2>5, <2>7, <3>2, CutHeedsStart
    <3> QED BY <2>4, <2>7, <3>3 DEF Heeded, IsText
  <2>8. CASE IsDelta(e) /\ s.coalescer.started
    <3>1. out = <<e>>
      BY <1>1, <2>8, EmittedIs
    <3>2. r = Cut(base, e)
      BY <1>3, <3>1, CutsAre DEF Lasting
    <3> QED BY <2>2, <2>8, <3>2, CutHeeds
  <2>9. CASE IsDelta(e) /\ ~s.coalescer.started
    <3>1. PICK x, mid : x = Start(Requested) /\ mid = Cut(base, x)
      OBVIOUS
    <3>2. out = Append(<<x>>, e)
      BY <1>1, <2>9, <3>1, EmittedIs
    <3>3. out = <<x>> \o <<e>>
      BY <3>2
    <3>4. r = Cut(mid, e)
      BY <1>3, <3>1, <3>3, CutsAre DEF Lasting
    <3>5. x.type = "start" /\ Sound(x)
      BY <3>1, Sounds DEF Start
    <3>6. Dry(mid, spoken, stop)
      BY <1>4, <2>2, <2>5, <2>9, <3>1, <3>5, CutHeedsStart
    <3> QED BY <2>9, <3>4, <3>6, CutHeeds
  <2> QED BY <2>6, <2>7, <2>8, <2>9 DEF IsDelta
<1> QED BY <1>6, <1>7

(* All that one frame of the server gives. *)
LEMMA PushedAllHeeds ==
  ASSUME NEW stop, Stops(stop), stop # {}, NEW s, NEW spoken, Flow(s), Heeded(s, spoken, stop),
         NEW events, Kin(events), \A i \in DOMAIN events : events[i].type # "error",
         NEW r, Pushing(s, events, r), NEW text, Joins(text, spoken, HeldText(events))
  PROVE  Heeded(r, text, stop)
<1>1. PICK n : n = Len(events)
  OBVIOUS
<1>2. n \in Nat /\ DOMAIN events = 1..n /\ ASeq(events)
  BY <1>1, SeqLen DEF Kin
<1>3. r = Pushes!Folded(s, events)
  BY Zenon DEF Pushing, FoldLeft, MapThenFoldSet, Max, Pushes!Folded, Pushes!FoldLeft,
     Pushes!MapThenFoldSet, Pushes!Max
<1>4. PICK h : /\ h[0] = s /\ (\A i \in 1..n : h[i] = Pushed(h[i - 1], events[i]))
               /\ h[n] = Pushes!Folded(s, events)
  BY <1>2, Pushes!FoldTrace
<1>5. ASeq(spoken)
  BY HoldingText DEF Heeded, Dry, Halted
<1> DEFINE Up(k) == HeldText(SubSeq(events, 1, k))
           Good(q, k) == Flow(q) /\ Heeded(q, spoken \o Up(k), stop)
           A == {k \in Nat : k <= n => Good(h[k], k)}
<1>6. 0 \in A
  <2>1. SubSeq(events, 1, 0) = <<>>
    OBVIOUS
  <2>2. Up(0) = <<>>
    BY <2>1, HeldOfFew
  <2>3. spoken \o <<>> = spoken
    BY <1>5, NothingAdded
  <2> QED BY <1>4, <2>2, <2>3
<1>7. ASSUME NEW k \in Nat, k \in A PROVE k + 1 \in A
  <2> SUFFICES ASSUME k + 1 <= n PROVE Good(h[k + 1], k + 1)
    OBVIOUS
  <2>1. PICK m, q, e, part : /\ m = k + 1 /\ q = h[k] /\ e = events[m]
                             /\ part = SubSeq(events, 1, k)
    OBVIOUS
  <2>2. Flow(q) /\ Heeded(q, spoken \o HeldText(part), stop)
    BY <1>2, <1>7, <2>1
  <2>3. m \in 1..n /\ m - 1 = k /\ k \in 0..n
    BY <1>2, <2>1
  <2>4. PICK p : p = h[m]
    OBVIOUS
  <2>5. p = Pushed(q, e) /\ Sound(e) /\ e.type # "error"
    BY <1>2, <1>4, <2>1, <2>3, <2>4 DEF Kin
  <2>6. Flow(p)
    BY <2>2, <2>5, PushedKeeps
  <2>7. SubSeq(events, 1, m) = Append(part, e)
    BY <1>1, <1>2, <2>1, <2>3, SliceOfMore
  <2>8. Kin(part)
    BY <1>1, <2>1, <2>3, HeldOfParts
  <2>9. PICK whole1 : whole1 = Append(part, e)
    OBVIOUS
  <2>10. /\ ASeq(HeldText(part)) /\ ASeq(Saying(e))
         /\ Joins(HeldText(whole1), HeldText(part), Saying(e))
    BY <2>5, <2>8, <2>9, HeldOfMore
  <2>11. PICK a, b, d, now, next : /\ a = HeldText(part) /\ b = Saying(e)
                                   /\ d = HeldText(whole1)
                                   /\ now = spoken \o a /\ next = spoken \o d
    OBVIOUS
  <2>12. Joins(next, now, b)
    <3>1. Cuts!ASeq(spoken) /\ Cuts!ASeq(a) /\ Cuts!ASeq(b)
      BY <1>5, <2>10, <2>11, OneNotion
    <3>2. (spoken \o a) \o b = spoken \o (a \o b)
      BY <3>1, Cuts!Reassociated
    <3> QED BY <2>10, <2>11, <3>2 DEF Joins
  <2>13. Heeded(p, next, stop)
    BY <2>2, <2>5, <2>11, <2>12, PushedHeeds
  <2> QED BY <2>1, <2>4, <2>6, <2>7, <2>9, <2>11, <2>13
<1> HIDE DEF A
<1>8. n \in A
  BY <1>2, <1>6, <1>7, SetInduction
<1>9. Good(h[n], n)
  BY <1>2, <1>8 DEF A
<1>10. SubSeq(events, 1, n) = events
  <2>1. n \in 0..n /\ SubSeq(events, 1, n) = events
    BY <1>1, <1>2, BeginningIs, BeginningsOf
  <2> QED BY <2>1
<1> QED BY <1>3, <1>4, <1>9, <1>10 DEF Joins

(* An end or an error through the cutter: what was held goes before it. *)
LEMMA LastHeeds ==
  ASSUME NEW stop, stop # {}, NEW s, NEW spoken, Dry(s, spoken, stop),
         NEW e, Final(e), NEW r, r = Cut(s, e)
  PROVE  /\ PShape(r) /\ ~r.cutter.cut /\ r.cutter.stop = stop
         /\ HeldText(r.given) = spoken
         /\ r.given # <<>> /\ r.given[Len(r.given)] = e
<1>1. PICK c, given0, x, held : /\ c = s.cutter /\ given0 = HeldText(s.given)
                                /\ x = Step(c, e) /\ held = c.held
  OBVIOUS
<1>2. /\ PShape(s) /\ ~c.cut /\ s.outcome = Null /\ Kin(s.given) /\ ASeq(s.given)
      /\ KShape(c) /\ c.stop = stop /\ ASeq(given0) /\ Joins(spoken, given0, HeldText(held))
      /\ Deltas(held) /\ Kin(held)
  BY <1>1 DEF Dry, Holding, KShape, Kin, Deltas
<1>3. x.out = Append(held, e) /\ x.cutter = [c EXCEPT !.held = <<>>]
  BY <1>1, <1>2 DEF Step, Final
<1>4. PICK base : /\ PShape(base) /\ base.coalescer = s.coalescer
                  /\ base.cutter = x.cutter
                  /\ base.given = s.given /\ base.outcome = Null
                  /\ r = Takes!Folded(base, x.out)
  BY <1>1, <1>2, CutIs
<1>5. PICK mid, a : mid = Takes!Folded(base, held) /\ a = Accumulated(mid.accumulator, e)
  OBVIOUS
<1>6. /\ PShape(mid) /\ mid.outcome = Null /\ mid.coalescer = base.coalescer
      /\ mid.cutter = base.cutter /\ Joins(mid.given, base.given, held)
  BY <1>2, <1>4, <1>5, TakingAll
<1>7. PICK kept : kept = Kept(mid, e, a)
  OBVIOUS
<1>8. r = kept
  <2>1. r = Consumed(mid, e)
    BY <1>2, <1>3, <1>4, <1>5, TakingMore DEF Deltas
  <2> QED BY <1>5, <1>6, <1>7, <2>1 DEF Consumed
<1>9. PShape(r) /\ r.cutter = mid.cutter /\ r.given = Append(mid.given, e)
  BY <1>6, <1>7, <1>8, KeptFields
<1>10. Kin(mid.given) /\ HeldText(mid.given) = spoken
  <2>1. Kin(s.given \o held) /\ HeldText(s.given \o held) = HeldText(s.given) \o HeldText(held)
    BY <1>2, HeldOfBoth
  <2> QED BY <1>1, <1>2, <1>4, <1>6, <2>1 DEF Joins
<1>11. PICK d : d = [type |-> "end", usage |-> Null]
  OBVIOUS
<1>12. PICK g, h, i : g = mid.given /\ h = Append(g, e) /\ i = Append(g, d)
  OBVIOUS
<1>13. HeldText(h) = HeldText(g)
  <2>1. Sound(d) /\ Saying(d) = <<>> /\ ~IsText(d) /\ ~IsText(e)
    BY <1>11 DEF Sound, Saying, IsText, Final
  <2>2. ASeq(HeldText(g)) /\ Joins(HeldText(i), HeldText(g), Saying(d))
    BY <1>10, <1>12, <2>1, HeldOfMore
  <2>3. HeldText(i) = HeldText(g)
    <3>1. HeldText(g) \o <<>> = HeldText(g)
      BY <2>2, NothingAdded
    <3> QED BY <2>1, <2>2, <3>1 DEF Joins
  <2>4. ASeq(g) /\ Len(g) \in Nat /\ DOMAIN g = 1..Len(g)
    BY <1>10, <1>12, SeqLen DEF Kin
  <2>5. /\ DOMAIN h = 1..(Len(g) + 1) /\ h[Len(g) + 1] = e
        /\ \A k \in 1..Len(g) : h[k] = g[k]
    BY <1>12, <2>4, Appended, SeqLen
  <2>6. /\ DOMAIN i = 1..(Len(g) + 1) /\ i[Len(g) + 1] = d
        /\ \A k \in 1..Len(g) : i[k] = g[k]
    BY <1>12, <2>4, Appended, SeqLen
  <2>7. ASSUME NEW k \in DOMAIN h
        PROVE  (IF IsText(h[k]) THEN h[k].text ELSE <<>>)
                 = IF IsText(i[k]) THEN i[k].text ELSE <<>>
    <3>1. CASE k = Len(g) + 1
      BY <2>1, <2>5, <2>6, <3>1
    <3>2. CASE k # Len(g) + 1
      <4>1. k \in 1..Len(g)
        BY <2>4, <2>5, <2>7, <3>2
      <4>2. h[k] = i[k]
        BY <2>5, <2>6, <4>1
      <4> QED BY <4>2
    <3> QED BY <3>1, <3>2
  <2>8. HeldText(h) = HeldText(i)
    BY <2>5, <2>6, <2>7 DEF HeldText
  <2> QED BY <2>3, <2>8
<1>14. h # <<>> /\ h[Len(h)] = e
  <2>1. ASeq(g) /\ Len(g) \in Nat
    BY <1>10, <1>12, SeqLen DEF Kin
  <2>2. ASeq(h) /\ Len(h) = Len(g) + 1 /\ h[Len(g) + 1] = e
    BY <1>12, <2>1, Appended
  <2>3. Len(h) # 0
    BY <2>1, <2>2
  <2> QED BY <2>2, <2>3, Short
<1>15. r.given = h /\ r.cutter = x.cutter
  BY <1>4, <1>6, <1>9, <1>12
<1>16. ~x.cutter.cut /\ x.cutter.stop = stop
  BY <1>2, <1>3 DEF KShape
<1> QED BY <1>9, <1>10, <1>12, <1>13, <1>14, <1>15, <1>16

-----------------------------------------------------------------------------
(* What that is worth when all is said. *)
Due(full, stop) ==
  IF FirstStop(full, stop) = Null THEN full ELSE SubSeq(full, 1, FirstStop(full, stop))

(* While the text is held, what was given is the beginning of what is due. *)
LEMMA HoldingIsFaithful ==
  ASSUME NEW stop, Stops(stop), NEW c, NEW given0, NEW spoken, Holding(c, given0, spoken, stop),
         NEW full, ASeq(full), Begins(spoken, full)
  PROVE  Starts(given0, stop) = {} /\ IsPrefix(given0, Due(full, stop))
<1>1. /\ ASeq(given0) /\ ASeq(spoken) /\ Starts(spoken, stop) = {}
      /\ Begins(given0, spoken) /\ Len(given0) <= Released(spoken, stop)
  BY HoldingText DEF Holding
<1>2. Starts(given0, stop) = {}
  BY <1>1, PartStarts
<1>3. Begins(given0, full)
  BY <1>1, BeginningsOf
<1>4. PICK hit : hit = FirstStop(full, stop)
  OBVIOUS
<1>5. CASE hit = Null
  <2>1. IsPrefix(given0, full)
    BY <1>1, <1>3, BeginningIs
  <2> QED BY <1>2, <1>4, <1>5, <2>1 DEF Due
<1>6. CASE hit # Null
  <2>1. Starts(full, stop) # {} /\ hit = Min(Starts(full, stop)) /\ hit \in 0..Len(full)
    BY <1>4, <1>6, FirstStopIs
  <2>2. hit \in Starts(full, stop)
    <3>1. Len(full) \in Nat /\ Starts(full, stop) \in SUBSET (0..Len(full))
      BY StartsAre
    <3> QED BY <2>1, <3>1, Extremes
  <2>3. Released(spoken, stop) <= hit
    BY <1>1, <2>2, LateStarts
  <2>4. PICK due : due = SubSeq(full, 1, hit)
    OBVIOUS
  <2>5. Begins(due, full) /\ ASeq(due) /\ Len(due) = hit
    BY <2>1, <2>4, BeginningIs
  <2>6. Len(given0) <= Len(due)
    <3>1. Released(spoken, stop) \in Nat /\ Len(given0) \in Nat /\ hit \in Nat
      BY <1>1, <2>1, ReleasedIs, SeqLen
    <3> QED BY <1>1, <2>3, <2>5, <3>1
  <2>7. Begins(given0, due)
    BY <1>1, <1>3, <2>5, <2>6, BeginningsOf
  <2>8. IsPrefix(given0, due)
    BY <1>1, <2>5, <2>7, BeginningIs
  <2> QED BY <1>2, <1>4, <1>6, <2>4, <2>8 DEF Due
<1> QED BY <1>5, <1>6

(* Once it is cut, what was given is what is due. *)
LEMMA HalvingIsFaithful ==
  ASSUME NEW stop, Stops(stop), NEW given0, NEW spoken, ASeq(spoken), Halving(given0, spoken, stop),
         NEW full, ASeq(full), Begins(spoken, full)
  PROVE  /\ Starts(given0, stop) = {} /\ FirstStop(full, stop) # Null
         /\ given0 = Due(full, stop) /\ ASeq(given0)
<1>1. PICK at : at = Min(Starts(spoken, stop))
  OBVIOUS
<1>2. Starts(spoken, stop) # {} /\ given0 = SubSeq(spoken, 1, at)
  BY <1>1 DEF Halving
<1>3. /\ Starts(full, stop) # {} /\ Min(Starts(full, stop)) = at
      /\ at \in Nat /\ at < Len(spoken)
  BY <1>1, <1>2, FirstStays
<1>4. Len(spoken) \in Nat /\ Len(full) \in Nat /\ Len(spoken) <= Len(full)
  BY SeqLen DEF Begins
<1>5. at \in 0..Len(spoken) /\ at \in 0..Len(full)
  BY <1>3, <1>4
<1>6. Begins(given0, spoken) /\ ASeq(given0) /\ Len(given0) = at
  BY <1>2, <1>5, BeginningIs
<1>7. given0 = SubSeq(full, 1, at)
  <2>1. Begins(given0, full)
    BY <1>6, BeginningsOf
  <2> QED BY <1>6, <2>1, BeginningIs
<1>8. PICK hit : hit = FirstStop(full, stop)
  OBVIOUS
<1>9. hit # Null /\ hit = at
  BY <1>3, <1>8, FirstStopIs
<1>10. Starts(given0, stop) = {}
  <2>1. \A k \in Starts(given0, stop) : k \in Starts(spoken, stop) /\ k < Len(given0)
    BY <1>6, PartStarts
  <2>2. \A k \in Starts(spoken, stop) : at <= k
    <3>1. Starts(spoken, stop) \in SUBSET (0..Len(spoken))
      BY StartsAre
    <3> QED BY <1>1, <1>2, <1>4, <3>1, Extremes
  <2>3. Starts(spoken, stop) \in SUBSET (0..Len(spoken))
    BY StartsAre
  <2> QED BY <1>3, <1>4, <1>6, <2>1, <2>2, <2>3
<1> QED BY <1>6, <1>7, <1>8, <1>9, <1>10 DEF Due

-----------------------------------------------------------------------------
(* What the reader of the Responses wire lets be said. *)
TextKinds == {"text", "refusal"}

Voicing(events, text) ==
  /\ Kin(events) /\ HeldText(events) = text
  /\ \A i \in DOMAIN events : events[i].type # "error"

Voice(r, item, at) == IF item.kind \in TextKinds THEN At(r.seen, at, <<>>) ELSE <<>>

(* Nothing, one event and two rows of events. *)
LEMMA VoicesAre ==
  /\ Voicing(<<>>, <<>>)
  /\ \A e : Sound(e) /\ e.type # "error" => Voicing(<<e>>, Saying(e))
  /\ \A e, c : Sound(e) /\ e.type \notin {"error", "text"} => Voicing(Optional(c, e), <<>>)
  /\ \A s, t, a, b : Voicing(s, a) /\ Voicing(t, b) => Voicing(s \o t, a \o b)
<1>1. Voicing(<<>>, <<>>)
  BY HeldOfFew, Short DEF Voicing
<1>2. ASSUME NEW e, Sound(e), e.type # "error" PROVE Voicing(<<e>>, Saying(e))
  <2>1. HeldText(<<e>>) = Saying(e) /\ Kin(<<e>>)
    BY <1>2, HeldOfFew
  <2>2. \A i \in DOMAIN <<e>> : <<e>>[i] = e
    BY Short
  <2> QED BY <1>2, <2>1, <2>2 DEF Voicing
<1>3. ASSUME NEW e, NEW c, Sound(e), e.type \notin {"error", "text"}
      PROVE  Voicing(Optional(c, e), <<>>)
  <2>1. Voicing(<<e>>, Saying(e)) /\ Saying(e) = <<>>
    BY <1>2, <1>3 DEF Saying, IsText
  <2> QED BY <1>1, <2>1 DEF Optional
<1>4. ASSUME NEW s, NEW t, NEW a, NEW b, Voicing(s, a), Voicing(t, b)
      PROVE  Voicing(s \o t, a \o b)
  <2>1. PICK u : Joins(u, s, t)
    BY DEF Joins
  <2>2. Kin(u) /\ HeldText(u) = a \o b
    BY <1>4, <2>1, HeldOfBoth DEF Voicing, Joins
  <2>3. \A i \in DOMAIN u : \/ \E j \in DOMAIN s : u[i] = s[j]
                            \/ \E j \in DOMAIN t : u[i] = t[j]
    BY <1>4, <2>1, Joining DEF Voicing, Kin
  <2>4. Voicing(u, a \o b)
    BY <1>4, <2>2, <2>3 DEF Voicing
  <2> QED BY <2>1, <2>4 DEF Joins
<1> QED BY <1>1, <1>2, <1>3, <1>4

(* A text is two others joined if its letters are theirs. *)
LEMMA JoinedLetters ==
  ASSUME NEW text, NEW left, NEW right, ASeq(text), ASeq(left), ASeq(right),
         Len(text) = Len(left) + Len(right),
         \A i \in 1..Len(left) : text[i] = left[i],
         \A i \in 1..Len(right) : text[Len(left) + i] = right[i]
  PROVE  Joins(text, left, right)
<1>1. PICK all : Joins(all, left, right)
  BY DEF Joins
<1>2. /\ ASeq(all) /\ Len(all) = Len(left) + Len(right)
      /\ \A i \in 1..(Len(left) + Len(right)) :
           all[i] = IF i <= Len(left) THEN left[i] ELSE right[i - Len(left)]
  BY <1>1, JoinedAt
<1>3. Len(left) \in Nat /\ Len(right) \in Nat
  BY SeqLen
<1>4. ASSUME NEW i \in 1..Len(all) PROVE all[i] = text[i]
  <2>1. CASE i <= Len(left)
    BY <1>2, <1>3, <2>1
  <2>2. CASE ~(i <= Len(left))
    <3>1. i - Len(left) \in 1..Len(right) /\ Len(left) + (i - Len(left)) = i
      BY <1>2, <1>3, <2>2
    <3>2. all[i] = right[i - Len(left)]
      BY <1>2, <2>2
    <3> QED BY <3>1, <3>2
  <2> QED BY <2>1, <2>2
<1>5. all = text
  BY <1>2, <1>4, SameSeq
<1> QED BY <1>1, <1>5

(* A text is its beginning and what the beginning leaves of it. *)
LEMMA BeginningLeaves ==
  ASSUME NEW part, ASeq(part), NEW text, ASeq(text), IsPrefix(part, text),
         NEW rest, rest = SubSeq(text, Len(part) + 1, Len(text))
  PROVE  ASeq(rest) /\ Joins(text, part, rest)
<1>1. PICK m, n, first : m = Len(part) /\ n = Len(text) /\ first = m + 1
  OBVIOUS
<1>2. Begins(part, text)
  BY BeginningIs
<1>3. m \in Nat /\ n \in Nat /\ m <= n /\ first \in Nat \ {0} /\ n - first + 1 = n - m
  BY <1>1, <1>2, SeqLen DEF Begins
<1>4. /\ ASeq(rest) /\ Len(rest) = n - m
      /\ \A i \in 1..(n - m) : rest[i] = text[first + i - 1]
  <2>1. /\ ASeq(SubSeq(text, first, n))
        /\ Len(SubSeq(text, first, n)) = IF first <= n THEN n - first + 1 ELSE 0
        /\ \A i \in 1..(n - first + 1) : SubSeq(text, first, n)[i] = text[first + i - 1]
    BY <1>1, <1>3, Sliced
  <2>2. rest = SubSeq(text, first, n)
    BY <1>1
  <2>3. Len(rest) = n - m
    BY <1>1, <1>3, <2>1, <2>2
  <2> QED BY <1>3, <2>1, <2>2, <2>3
<1>5. \A i \in 1..m : text[i] = part[i]
  BY <1>1, <1>2 DEF Begins
<1>6. Len(text) = Len(part) + Len(rest)
  BY <1>1, <1>3, <1>4
<1>7. \A i \in 1..Len(rest) : text[Len(part) + i] = rest[i]
  <2> SUFFICES ASSUME NEW i \in 1..(n - m) PROVE text[m + i] = rest[i]
    BY <1>1, <1>4
  <2>1. first + i - 1 = m + i
    BY <1>1, <1>3
  <2> QED BY <1>4, <2>1
<1> QED BY <1>1, <1>4, <1>5, <1>6, <1>7, JoinedLetters

(* A fragment of an item, or another frame of it but the last. *)
LEMMA FrameVoiced ==
  ASSUME NEW r, RShape(r), NEW f, ResponsesPlain(f), f.type # "item_done",
         NEW item, f.type = "text_delta" => item.kind \in TextKinds,
         f.type \in {"arguments_delta", "summary_delta"} => item.kind \notin TextKinds,
         NEW at, at = f.index, NEW x, x = ResponsesFeed(r, f), ~Failed(x)
  PROVE  \E text : /\ Voicing(x.events, text) /\ ASeq(text)
                   /\ Joins(Voice(x.reader, item, at), Voice(r, item, at), text)
<1>1. PICK events : events = ResponsesEvents(f)
  OBVIOUS
<1>2. ASeq(Voice(r, item, at))
  BY SeenIs, Short DEF Voice
<1>3. ASSUME Voicing(x.events, <<>>), Voice(x.reader, item, at) = Voice(r, item, at)
      PROVE  \E text : /\ Voicing(x.events, text) /\ ASeq(text)
                       /\ Joins(Voice(x.reader, item, at), Voice(r, item, at), text)
  BY <1>2, <1>3, NothingAdded, Short DEF Joins
<1>4. f.type # "summary_delta" =>
        /\ f.type \in {"text_delta", "arguments_delta"} =>
             Joins(At(x.reader.seen, at, <<>>), At(r.seen, at, <<>>), f.text)
        /\ f.type \in {"created", "item_added", "annotation_added"} =>
             x.reader.seen = r.seen
  BY SMTT(20), FeedIs
<1>5. CASE f.type = "text_delta"
  <2>1. PICK e : e = Text(f.text, f.index, f.scores)
    OBVIOUS
  <2>2. x.events = <<e>>
    <3>1. events = <<e>>
      BY <1>1, <1>5, <2>1 DEF ResponsesEvents
    <3>2. x = [events |-> events, reader |-> Saw(r, f.index, f.text)]
      BY <1>1, <1>5 DEF ResponsesFeed
    <3> QED BY <3>1, <3>2
  <2>3. ASeq(f.text)
    BY <1>5 DEF ResponsesPlain
  <2>4. Sound(e) /\ e.type = "text" /\ e.text = f.text
    BY <2>1, <2>3, Sounds DEF Text
  <2>5. Voicing(<<e>>, Saying(e)) /\ Saying(e) = f.text
    BY <2>4, VoicesAre DEF Saying, IsText
  <2>6. Joins(Voice(x.reader, item, at), Voice(r, item, at), f.text)
    BY <1>4, <1>5 DEF Voice
  <2> QED BY <2>2, <2>3, <2>5, <2>6
<1>6. CASE f.type \in {"arguments_delta", "summary_delta"}
  <2>1. PICK e : e = IF f.type = "arguments_delta" THEN ToolCall(f.text, f.index, Null, Null)
                     ELSE Thinking(Prefixed(r, f), f.index)
    OBVIOUS
  <2>2. x.events = <<e>>
    <3>1. CASE f.type = "arguments_delta"
      <4>1. events = <<e>>
        BY <1>1, <2>1, <3>1 DEF ResponsesEvents
      <4>2. x = [events |-> events, reader |-> Saw(r, f.index, f.text)]
        BY <1>1, <3>1 DEF ResponsesFeed
      <4> QED BY <4>1, <4>2
    <3>2. CASE f.type = "summary_delta"
      <4>1. x.events = <<Thinking(Prefixed(r, f), f.index)>>
        BY <3>2 DEF ResponsesFeed
      <4> QED BY <2>1, <3>2, <4>1
    <3> QED BY <1>6, <3>1, <3>2
  <2>3. Sound(e) /\ e.type \notin {"error", "text"}
    BY <2>1, Sounds DEF ToolCall, Thinking
  <2>4. Voicing(<<e>>, <<>>)
    BY <2>3, VoicesAre DEF Optional
  <2>5. Voice(x.reader, item, at) = Voice(r, item, at)
    BY <1>6 DEF Voice
  <2> QED BY <1>3, <2>2, <2>4, <2>5
<1>7. CASE f.type \in {"created", "item_added", "annotation_added"}
  <2>1. x.events = events
    BY <1>1, <1>7 DEF ResponsesFeed
  <2>2. \/ events = <<>>
        \/ \E e : Sound(e) /\ e.type \notin {"error", "text"} /\ events = <<e>>
    <3>1. CASE f.type = "created"
      <4>1. events = <<Start(f.model)>>
        BY <1>1, <3>1 DEF ResponsesEvents
      <4> QED BY <4>1, Sounds DEF Start
    <3>2. CASE f.type = "annotation_added"
      <4>1. events = <<Citation(f.source, f.index)>>
        BY <1>1, <3>2 DEF ResponsesEvents
      <4> QED BY <4>1, Sounds DEF Citation
    <3>3. CASE f.type = "item_added" /\ f.item.kind = "thinking"
      <4>1. events = <<Thinking(<<>>, f.index)>>
        BY <1>1, <3>3 DEF ResponsesEvents
      <4> QED BY <4>1, Sounds DEF Thinking
    <3>4. CASE f.type = "item_added" /\ f.item.kind = "tool_call"
      <4>1. events = <<ToolCall(<<>>, f.index, f.item.id, f.item.name)>>
        BY <1>1, <3>4 DEF ResponsesEvents
      <4> QED BY <4>1, Sounds DEF ToolCall
    <3>5. CASE f.type = "item_added" /\ f.item.kind \notin {"thinking", "tool_call"}
      BY <1>1, <3>5 DEF ResponsesEvents
    <3> QED BY <1>7, <3>1, <3>2, <3>3, <3>4, <3>5
  <2>3. Voicing(events, <<>>)
    BY <2>2, VoicesAre DEF Optional
  <2>4. Voice(x.reader, item, at) = Voice(r, item, at)
    BY <1>4, <1>7 DEF Voice
  <2> QED BY <1>3, <2>1, <2>3, <2>4
<1> QED BY <1>5, <1>6, <1>7 DEF ResponsesPlain

(* The last frame of an item: what its fragments left of it. *)
LEMMA DoneVoiced ==
  ASSUME NEW r, RShape(r), NEW f, ResponsesPlain(f), f.type = "item_done",
         NEW item, item = f.item, item.kind \in {"thinking", "text", "refusal", "tool_call"},
         NEW at, at = f.index, NEW x, x = ResponsesFeed(r, f), ~Failed(x)
  PROVE  /\ \E text : /\ Voicing(x.events, text) /\ ASeq(text)
                      /\ Joins(Voice(x.reader, item, at), Voice(r, item, at), text)
         /\ item.kind \in TextKinds => At(x.reader.seen, at, <<>>) = item.final
<1>1. PICK call, got, done, more :
        /\ call = (item.kind = "tool_call") /\ got = At(r.seen, at, <<>>)
        /\ done = CompleteItem(r, at, item) /\ more = ResponsesEvents(f)
  OBVIOUS
<1>2. PICK rest : rest = Remainder(got, item.final, call)
  OBVIOUS
<1>3. PICK event, needed, q :
        /\ event = CASE call -> ToolCall(rest, at, item.id, item.name)
                     [] item.kind = "thinking" -> Thinking(rest, at)
                     [] OTHER -> Text(rest, at, <<>>)
        /\ needed = (rest # <<>> \/ (call /\ at \notin r.named))
        /\ q = [r EXCEPT !.seen = IF IsPrefix(At(@, at, <<>>), item.final)
                                  THEN Put(@, at, item.final) ELSE @,
                         !.named = IF call /\ needed /\ item.name # Null
                                   THEN @ \cup {at} ELSE @]
  OBVIOUS
<1>4. ASeq(got) /\ ASeq(item.final) /\ ASeq(Voice(r, item, at))
  BY <1>1, SeenIs, Short DEF ResponsesPlain, Voice
<1>5. done = IF rest = Null THEN Failure("contradiction")
             ELSE [events |-> Optional(needed, event), reader |-> q]
  BY Zenon, <1>1, <1>2, <1>3 DEF CompleteItem
<1>6. ~Failed(done) /\ x = [done EXCEPT !.events = @ \o more]
  <2>1. x = IF Failed(done) THEN done ELSE [done EXCEPT !.events = @ \o more]
    BY <1>1 DEF ResponsesFeed
  <2> QED BY <2>1
<1>7. rest # Null /\ done = [events |-> Optional(needed, event), reader |-> q]
  <2>1. rest # Null
    BY <1>5, <1>6, FailureIsSome
  <2> QED BY <1>5, <2>1
<1>8. x.events = Optional(needed, event) \o more /\ x.reader = q
  BY <1>6, <1>7
<1>9. Voicing(more, <<>>)
  <2>1. CASE item.kind = "thinking"
    <3>1. PICK e : e = Continuation(item.state, at)
      OBVIOUS
    <3>2. more = Optional(item.state # Null, e)
      BY <1>1, <2>1, <3>1 DEF ResponsesEvents
    <3>3. Sound(e) /\ e.type \notin {"error", "text"}
      BY <3>1, Sounds DEF Continuation
    <3> QED BY <3>2, <3>3, VoicesAre
  <2>2. CASE item.kind # "thinking"
    <3>1. more = <<>>
      BY <1>1, <2>2 DEF ResponsesEvents
    <3> QED BY <3>1, VoicesAre
  <2> QED BY <2>1, <2>2
<1>10. CASE item.kind \in TextKinds
  <2>1. ~call /\ item.kind # "thinking"
    BY <1>1, <1>10 DEF TextKinds
  <2>2. event = Text(rest, at, <<>>) /\ needed = (rest # <<>>)
    BY <1>3, <2>1
  <2>3. IsPrefix(got, item.final) /\ rest = SubSeq(item.final, Len(got) + 1, Len(item.final))
    BY <1>2, <1>7, <2>1 DEF Remainder
  <2>4. ASeq(rest) /\ Joins(item.final, got, rest)
    <3>1. PICK final : final = item.final
      OBVIOUS
    <3>2. ASeq(final) /\ IsPrefix(got, final) /\ rest = SubSeq(final, Len(got) + 1, Len(final))
      BY <1>4, <2>3, <3>1
    <3>3. ASeq(rest) /\ Joins(final, got, rest)
      BY <1>4, <3>2, BeginningLeaves
    <3> QED BY <3>1, <3>3
  <2>5. Sound(event) /\ event.type = "text" /\ event.text = rest
    BY <2>2, <2>4, Sounds DEF Text
  <2>6. Voicing(Optional(needed, event), rest)
    <3>1. CASE rest = <<>>
      BY <2>2, <3>1, VoicesAre DEF Optional
    <3>2. CASE rest # <<>>
      <4>1. Voicing(<<event>>, Saying(event)) /\ Saying(event) = rest
        BY <2>5, VoicesAre DEF Saying, IsText
      <4> QED BY <2>2, <3>2, <4>1 DEF Optional
    <3> QED BY <3>1, <3>2
  <2>7. Voicing(x.events, rest)
    <3>1. Voicing(Optional(needed, event) \o more, rest \o <<>>)
      BY <1>9, <2>6, VoicesAre
    <3> QED BY <1>8, <2>4, <3>1, NothingAdded
  <2>8. q.seen = Put(r.seen, at, item.final)
    BY <1>1, <1>3, <2>3 DEF RShape
  <2>9. At(q.seen, at, <<>>) = item.final
    <3>1. PICK final, p : final = item.final /\ p = Put(r.seen, at, final)
      OBVIOUS
    <3>2. Puts(p, r.seen, at, final)
      BY <3>1 DEF Puts
    <3>3. PutAt(p, r.seen, at, final)
      BY <3>2, PutIs
    <3> QED BY <2>8, <3>1, <3>3 DEF PutAt, At
  <2>10. Joins(Voice(q, item, at), Voice(r, item, at), rest)
    BY <1>1, <1>10, <2>4, <2>9 DEF Voice
  <2> QED BY <1>8, <2>4, <2>7, <2>9, <2>10
<1>11. CASE item.kind \notin TextKinds
  <2>1. Voice(x.reader, item, at) = <<>> /\ Voice(r, item, at) = <<>>
    BY <1>11 DEF Voice
  <2>2. Sound(event) /\ event.type \notin {"error", "text"}
    <3>1. CASE call
      <4>1. event = ToolCall(rest, at, item.id, item.name)
        BY <1>1, <1>3, <3>1
      <4> QED BY <4>1, Sounds DEF ToolCall
    <3>2. CASE ~call /\ item.kind = "thinking"
      <4>1. event = Thinking(rest, at)
        BY <1>3, <3>2
      <4> QED BY <4>1, Sounds DEF Thinking
    <3> QED BY <1>1, <1>11, <3>1, <3>2 DEF TextKinds
  <2>3. Voicing(Optional(needed, event), <<>>)
    BY <2>2, VoicesAre DEF Optional
  <2>4. Voicing(x.events, <<>>)
    <3>1. Voicing(Optional(needed, event) \o more, <<>> \o <<>>)
      BY <1>9, <2>3, VoicesAre
    <3>2. <<>> \o <<>> = <<>>
      BY Short, NothingAdded
    <3> QED BY <1>8, <3>1, <3>2
  <2> QED BY <1>11, <2>1, <2>4, Short, NothingAdded DEF Joins
<1> QED BY <1>10, <1>11

-----------------------------------------------------------------------------
(* What was spoken, item by item. *)
Rows(seqs) == ASeq(seqs) /\ \A i \in DOMAIN seqs : ASeq(seqs[i])

(* Of rows that are empty nothing is left flattened. *)
LEMMA FlatOfEmpty ==
  ASSUME NEW seqs, Rows(seqs), \A i \in DOMAIN seqs : seqs[i] = <<>>
  PROVE  FlattenSeq(seqs) = <<>>
<1>1. PICK all : all = FlattenSeq(seqs)
  OBVIOUS
<1>2. ASeq(all) /\ \A k \in DOMAIN all : \E i \in DOMAIN seqs : \E j \in DOMAIN seqs[i] : TRUE
  <2>1. Cuts!ASeq(seqs) /\ \A i \in DOMAIN seqs : Cuts!ASeq(seqs[i])
    BY OneNotion DEF Rows
  <2>2. /\ Cuts!ASeq(Cuts!FlattenSeq(seqs))
        /\ \A k \in DOMAIN Cuts!FlattenSeq(seqs) :
             \E i \in DOMAIN seqs : \E j \in DOMAIN seqs[i] :
               Cuts!FlattenSeq(seqs)[k] = seqs[i][j]
    BY <2>1, Cuts!Flattened
  <2>3. all = Cuts!FlattenSeq(seqs)
    BY <1>1, FlattenIs
  <2> QED BY <2>2, <2>3, OneNotion
<1>3. DOMAIN all = {}
  <2>1. \A i \in DOMAIN seqs : \A j \in DOMAIN seqs[i] : FALSE
    BY ShortDeltas
  <2> QED BY <1>2, <2>1
<1>4. Len(all) = 0
  BY <1>2, <1>3, SeqLen
<1> QED BY <1>1, <1>2, <1>4, SeqLen

(* Rows up to one of them, and those after it when they are empty. *)
LEMMA FlatUpTo ==
  ASSUME NEW seqs, Rows(seqs), NEW j \in 1..Len(seqs)
  PROVE  /\ \A k \in 0..Len(seqs) : ASeq(FlattenSeq(SubSeq(seqs, 1, k)))
         /\ FlattenSeq(SubSeq(seqs, 1, j)) = FlattenSeq(SubSeq(seqs, 1, j - 1)) \o seqs[j]
         /\ (\A i \in DOMAIN seqs : i > j => seqs[i] = <<>>) =>
              FlattenSeq(seqs) = FlattenSeq(SubSeq(seqs, 1, j - 1)) \o seqs[j]
<1>1. PICK n, i : n = Len(seqs) /\ i = j - 1
  OBVIOUS
<1>2. n \in Nat /\ DOMAIN seqs = 1..n /\ i \in Nat /\ i <= j /\ j <= n /\ i + 1 = j
      /\ j \in Nat /\ ASeq(seqs) /\ \A k \in DOMAIN seqs : ASeq(seqs[k])
  BY <1>1, SeqLen DEF Rows
<1>3. ASSUME NEW k \in 0..n PROVE ASeq(FlattenSeq(SubSeq(seqs, 1, k)))
  <2>1. k \in Nat /\ k <= Len(seqs) /\ 1 \in Nat \ {0}
    BY <1>1, <1>2
  <2>2. ASeq(SubSeq(seqs, 1, k)) /\ \A x \in DOMAIN SubSeq(seqs, 1, k) : ASeq(SubSeq(seqs, 1, k)[x])
    BY <1>2, <2>1, SliceOfSeqs
  <2>3. PICK part : part = SubSeq(seqs, 1, k)
    OBVIOUS
  <2> QED BY <2>2, <2>3, FlatIsASeq
<1>4. FlattenSeq(SubSeq(seqs, 1, j)) = FlattenSeq(SubSeq(seqs, 1, i)) \o seqs[j]
  <2>1. j <= Len(seqs)
    BY <1>1, <1>2
  <2>2. FlattenSeq(SubSeq(seqs, 1, j))
          = FlattenSeq(SubSeq(seqs, 1, i)) \o FlattenSeq(SubSeq(seqs, i + 1, j))
    BY <1>2, <2>1, FlatOfParts
  <2>3. SubSeq(seqs, j, j) = <<seqs[j]>>
    BY <1>2, SliceOfOne
  <2>4. FlattenSeq(<<seqs[j]>>) = seqs[j]
    <3>1. ASeq(seqs[j])
      BY <1>2
    <3> QED BY <3>1, FlatOfFew
  <2> QED BY <1>2, <2>2, <2>3, <2>4
<1>5. ASSUME \A k \in DOMAIN seqs : k > j => seqs[k] = <<>>
      PROVE  FlattenSeq(seqs) = FlattenSeq(SubSeq(seqs, 1, j))
  <2>1. n <= Len(seqs)
    BY <1>1, <1>2
  <2>2. FlattenSeq(SubSeq(seqs, 1, n))
          = FlattenSeq(SubSeq(seqs, 1, j)) \o FlattenSeq(SubSeq(seqs, j + 1, n))
    BY <1>2, <2>1, FlatOfParts
  <2>3. PICK m, rest : m = j + 1 /\ rest = SubSeq(seqs, m, n)
    OBVIOUS
  <2>4. m \in Nat \ {0} /\ n <= Len(seqs)
    BY <1>1, <1>2, <2>3
  <2>5. ASeq(rest) /\ \A x \in DOMAIN rest : ASeq(rest[x])
    BY <1>2, <2>3, <2>4, SliceOfSeqs
  <2>6. \A x \in DOMAIN rest : rest[x] = <<>>
    <3>1. /\ Len(rest) = IF m <= n THEN n - m + 1 ELSE 0
          /\ \A x \in 1..(n - m + 1) : rest[x] = seqs[m + x - 1]
      BY <1>2, <2>3, <2>4, Sliced
    <3>2. DOMAIN rest = 1..Len(rest)
      BY <2>5, SeqLen
    <3> SUFFICES ASSUME NEW x \in DOMAIN rest PROVE rest[x] = <<>>
      OBVIOUS
    <3>3. x \in 1..(n - m + 1) /\ m + x - 1 \in 1..n /\ m + x - 1 > j
      BY <1>2, <2>3, <2>4, <3>1, <3>2
    <3> QED BY <1>2, <1>5, <3>1, <3>3
  <2>7. FlattenSeq(rest) = <<>>
    BY <2>5, <2>6, FlatOfEmpty DEF Rows
  <2>8. SubSeq(seqs, 1, n) = seqs
    BY <1>1, <1>2, BeginningIs, BeginningsOf
  <2>9. ASeq(FlattenSeq(SubSeq(seqs, 1, j)))
    BY <1>2, <1>3
  <2> QED BY <2>2, <2>3, <2>7, <2>8, <2>9, NothingAdded
<1> QED BY <1>1, <1>3, <1>4, <1>5

(* Slices of rows that are the same up to a place. *)
LEMMA SameUpTo ==
  ASSUME NEW s, NEW t, ASeq(s), ASeq(t), NEW k \in Nat, k <= Len(s), k <= Len(t),
         \A i \in 1..k : s[i] = t[i]
  PROVE  SubSeq(s, 1, k) = SubSeq(t, 1, k)
<1>1. PICK a, b : a = SubSeq(s, 1, k) /\ b = SubSeq(t, 1, k)
  OBVIOUS
<1>2. k \in 0..Len(s) /\ k \in 0..Len(t)
  BY SeqLen
<1>3. ASeq(a) /\ Len(a) = k /\ Begins(a, s) /\ ASeq(b) /\ Len(b) = k /\ Begins(b, t)
  BY <1>1, <1>2, BeginningIs
<1>4. a = b
  BY <1>3, SameSeq DEF Begins
<1> QED BY <1>1, <1>4

(* One row grows, and those after it are empty. *)
LEMMA FlatGrows ==
  ASSUME NEW seqs, NEW next, Rows(seqs), Rows(next), Len(next) = Len(seqs),
         NEW j \in 1..Len(seqs), NEW more, ASeq(more),
         \A i \in DOMAIN seqs : i # j => next[i] = seqs[i],
         \A i \in DOMAIN seqs : i > j => seqs[i] = <<>>,
         Joins(next[j], seqs[j], more)
  PROVE  Joins(FlattenSeq(next), FlattenSeq(seqs), more)
<1>1. PICK n, i : n = Len(seqs) /\ i = j - 1
  OBVIOUS
<1>2. n \in Nat /\ DOMAIN seqs = 1..n /\ DOMAIN next = 1..n /\ i \in 0..n /\ i < j /\ j \in 1..n
      /\ ASeq(seqs) /\ ASeq(next) /\ \A k \in DOMAIN seqs : ASeq(seqs[k])
  BY <1>1, SeqLen DEF Rows
<1>3. SubSeq(next, 1, i) = SubSeq(seqs, 1, i)
  <2>1. i \in Nat /\ i <= Len(next) /\ i <= Len(seqs) /\ \A k \in 1..i : next[k] = seqs[k]
    BY <1>1, <1>2
  <2> QED BY <1>2, <2>1, SameUpTo
<1>4. PICK before : before = FlattenSeq(SubSeq(seqs, 1, i))
  OBVIOUS
<1>5. /\ ASeq(before) /\ FlattenSeq(seqs) = before \o seqs[j]
  <2>1. \A k \in 0..Len(seqs) : ASeq(FlattenSeq(SubSeq(seqs, 1, k)))
    BY FlatUpTo
  <2>2. FlattenSeq(seqs) = FlattenSeq(SubSeq(seqs, 1, j - 1)) \o seqs[j]
    BY FlatUpTo
  <2> QED BY <1>1, <1>2, <1>4, <2>1, <2>2
<1>6. FlattenSeq(next) = before \o next[j]
  <2>1. j \in 1..Len(next)
    BY <1>1, <1>2
  <2>2. \A k \in DOMAIN next : k > j => next[k] = <<>>
    BY <1>2
  <2>3. FlattenSeq(next) = FlattenSeq(SubSeq(next, 1, j - 1)) \o next[j]
    BY <2>1, <2>2, FlatUpTo
  <2> QED BY <1>1, <1>3, <1>4, <2>3
<1>7. PICK a : a = seqs[j] /\ ASeq(a)
  BY <1>2
<1>8. (before \o a) \o more = before \o (a \o more)
  <2>1. Cuts!ASeq(before) /\ Cuts!ASeq(a) /\ Cuts!ASeq(more)
    BY <1>5, <1>7, OneNotion
  <2> QED BY <2>1, Cuts!Reassociated
<1> QED BY <1>5, <1>6, <1>7, <1>8 DEF Joins

(* The same before, and more after. *)
LEMMA JoinedMore ==
  ASSUME NEW a, ASeq(a), NEW s, ASeq(s), NEW t, ASeq(t), Begins(s, t),
         NEW u, Joins(u, a, s), NEW v, Joins(v, a, t)
  PROVE  Begins(u, v) /\ ASeq(u) /\ ASeq(v)
<1>1. /\ ASeq(u) /\ Len(u) = Len(a) + Len(s)
      /\ \A i \in 1..(Len(a) + Len(s)) : u[i] = IF i <= Len(a) THEN a[i] ELSE s[i - Len(a)]
  BY JoinedAt
<1>2. /\ ASeq(v) /\ Len(v) = Len(a) + Len(t)
      /\ \A i \in 1..(Len(a) + Len(t)) : v[i] = IF i <= Len(a) THEN a[i] ELSE t[i - Len(a)]
  BY JoinedAt
<1>3. Len(a) \in Nat /\ Len(s) \in Nat /\ Len(t) \in Nat /\ Len(s) <= Len(t)
      /\ \A i \in 1..Len(s) : t[i] = s[i]
  BY SeqLen DEF Begins
<1>4. ASSUME NEW i \in 1..Len(u) PROVE v[i] = u[i]
  <2>1. i \in 1..(Len(a) + Len(s)) /\ i \in 1..(Len(a) + Len(t))
    BY <1>1, <1>3
  <2>2. CASE i <= Len(a)
    BY <1>1, <1>2, <2>1, <2>2
  <2>3. CASE ~(i <= Len(a))
    <3>1. i - Len(a) \in 1..Len(s)
      BY <1>3, <2>1, <2>3
    <3> QED BY <1>1, <1>2, <1>3, <2>1, <2>3, <3>1
  <2> QED BY <2>2, <2>3
<1>5. Len(u) <= Len(v)
  BY <1>1, <1>2, <1>3
<1> QED BY <1>1, <1>2, <1>4, <1>5 DEF Begins

(* Rows of which each begins another, whole before the last of them that   *)
(* is not empty.                                                           *)
LEMMA FlatBegins ==
  ASSUME NEW seqs, NEW finals, Rows(seqs), Rows(finals), Len(finals) = Len(seqs),
         \A i \in DOMAIN seqs : Begins(seqs[i], finals[i]),
         \A i \in DOMAIN seqs :
           seqs[i] = finals[i] \/ \A k \in DOMAIN seqs : k > i => seqs[k] = <<>>
  PROVE  Begins(FlattenSeq(seqs), FlattenSeq(finals)) /\ ASeq(FlattenSeq(finals))
<1>1. PICK n, full : n = Len(seqs) /\ full = FlattenSeq(finals)
  OBVIOUS
<1>2. n \in Nat /\ DOMAIN seqs = 1..n /\ DOMAIN finals = 1..n
      /\ ASeq(seqs) /\ ASeq(finals) /\ \A k \in DOMAIN seqs : ASeq(seqs[k]) /\ ASeq(finals[k])
  BY <1>1, SeqLen DEF Rows
<1>3. ASeq(full)
  BY <1>1, FlatIsASeq DEF Rows
<1>4. PICK S : S = {i \in 1..n : seqs[i] # finals[i]}
  OBVIOUS
<1>5. CASE S = {}
  <2>1. \A i \in 1..n : seqs[i] = finals[i]
    BY <1>4, <1>5
  <2>2. FlattenSeq(seqs) = full
    BY <1>1, <1>2, <2>1, SameSeq
  <2>3. Begins(full, full)
    BY <1>3, SeqLen DEF Begins
  <2> QED BY <1>1, <1>3, <2>2, <2>3
<1>6. CASE S # {}
  <2>1. S \in SUBSET (0..n)
    BY <1>2, <1>4
  <2>2. PICK j : j = Min(S)
    OBVIOUS
  <2>3. j \in S /\ \A k \in S : j <= k
    BY <1>2, <1>6, <2>1, <2>2, Extremes
  <2>4. j \in 1..n /\ seqs[j] # finals[j]
    BY <1>4, <2>3
  <2>5. PICK i : i = j - 1
    OBVIOUS
  <2>6. i \in 0..n /\ i \in Nat /\ i <= n /\ i < j
    BY <1>2, <2>4, <2>5
  <2>7. SubSeq(seqs, 1, i) = SubSeq(finals, 1, i)
    <3>1. \A k \in 1..i : k \in 1..n /\ ~(j <= k)
      BY <1>2, <2>4, <2>6
    <3>2. \A k \in 1..i : seqs[k] = finals[k]
      BY <1>4, <2>3, <3>1
    <3> QED BY <1>1, <1>2, <2>6, <3>2, SameUpTo
  <2>8. PICK before, u, v : /\ before = FlattenSeq(SubSeq(finals, 1, i))
                            /\ Joins(u, before, seqs[j]) /\ Joins(v, before, finals[j])
    BY DEF Joins
  <2>9. ASeq(before) /\ FlattenSeq(seqs) = u
    <3>1. j \in 1..Len(seqs) /\ \A k \in DOMAIN seqs : k > j => seqs[k] = <<>>
      BY <1>1, <1>2, <2>4
    <3>2. FlattenSeq(seqs) = FlattenSeq(SubSeq(seqs, 1, j - 1)) \o seqs[j]
      BY <3>1, FlatUpTo
    <3>3. \A k \in 0..Len(seqs) : ASeq(FlattenSeq(SubSeq(seqs, 1, k)))
      BY <3>1, FlatUpTo
    <3> QED BY <1>1, <2>5, <2>6, <2>7, <2>8, <3>2, <3>3 DEF Joins
  <2>10. FlattenSeq(SubSeq(finals, 1, j)) = v
    <3>1. j \in 1..Len(finals)
      BY <1>1, <2>4
    <3>2. FlattenSeq(SubSeq(finals, 1, j)) = FlattenSeq(SubSeq(finals, 1, j - 1)) \o finals[j]
      BY <3>1, FlatUpTo
    <3> QED BY <2>5, <2>8, <3>2 DEF Joins
  <2>11. Begins(u, v) /\ ASeq(u) /\ ASeq(v)
    <3>1. PICK s, t : s = seqs[j] /\ t = finals[j]
      OBVIOUS
    <3>2. ASeq(s) /\ ASeq(t) /\ Begins(s, t) /\ Joins(u, before, s) /\ Joins(v, before, t)
      BY <1>2, <2>4, <2>8, <3>1
    <3> QED BY <2>9, <3>2, JoinedMore
  <2>12. Begins(v, full)
    <3>1. j \in Nat /\ n \in Nat /\ j <= n /\ n <= Len(finals)
      BY <1>1, <1>2, <2>4
    <3>2. FlattenSeq(SubSeq(finals, 1, n))
            = FlattenSeq(SubSeq(finals, 1, j)) \o FlattenSeq(SubSeq(finals, j + 1, n))
      BY <1>2, <3>1, FlatOfParts
    <3>3. SubSeq(finals, 1, n) = finals
      BY <1>1, <1>2, BeginningIs, BeginningsOf
    <3>4. PICK rest : rest = SubSeq(finals, j + 1, n)
      OBVIOUS
    <3>5. ASeq(rest) /\ \A x \in DOMAIN rest : ASeq(rest[x])
      <4>1. PICK m : m = j + 1
        OBVIOUS
      <4>2. m \in Nat \ {0}
        BY <3>1, <4>1
      <4> QED BY <1>2, <3>1, <3>4, <4>1, <4>2, SliceOfSeqs
    <3>6. PICK flat : flat = FlattenSeq(rest) /\ ASeq(flat)
      BY <3>5, FlatIsASeq
    <3>7. Joins(full, v, flat)
      BY <1>1, <2>10, <3>2, <3>3, <3>4, <3>6 DEF Joins
    <3> QED BY <2>11, <3>6, <3>7, JoinedBegins
  <2>13. Begins(u, full)
    BY <1>3, <2>11, <2>12, BeginningsOf
  <2> QED BY <1>1, <1>3, <2>9, <2>13
<1> QED BY <1>5, <1>6

-----------------------------------------------------------------------------
(* The texts of an answer: as far as its reader let them be said, and in   *)
(* the end.                                                                *)
Framed(a, i) == Len(ResponsesFramesOf(a, i))

Voiced(a, r) == [i \in DOMAIN a.items |-> Voice(r, a.items[i], i - 1)]
Spoke(a, r) == FlattenSeq(Voiced(a, r))

Finally(item) == IF item.kind \in TextKinds THEN item.final ELSE <<>>
Finals(a) == [i \in DOMAIN a.items |-> Finally(a.items[i])]
Full(a) == FlattenSeq(Finals(a))

(* Of an item that is not done the reader saw what its fragments carried,  *)
(* and of one that is, the final copy.                                     *)
UtteredBy(r, item, at, count, size) ==
  IF count < size THEN SeenAt(r, item, at, Carrying(count, item))
  ELSE item.kind \in TextKinds => At(r.seen, at, <<>>) = item.final

Uttered(a, r, counts) ==
  \A i \in DOMAIN a.items : UtteredBy(r, a.items[i], i - 1, counts[i + 1], Framed(a, i))

CountsOf(a, counts) == \A i \in DOMAIN a.items : counts[i + 1] \in 0..Framed(a, i)

(* Items come one after another, but for calls. *)
Sequent(a, counts) ==
  \A i, j \in DOMAIN a.items : i < j /\ counts[j + 1] > 0 =>
    \/ counts[i + 1] = Framed(a, i)
    \/ a.items[i].kind = "tool_call" /\ a.items[j].kind = "tool_call"

(* What an item of the Responses wire is. *)
LEMMA Fragmental ==
  ASSUME NEW a \in Answers, a.dialect = "responses", NEW i \in DOMAIN a.items,
         NEW item, item = a.items[i]
  PROVE  /\ Streamable(item) /\ Len(item.sources) \in Nat /\ ASeq(item.final)
         /\ item.kind \in {"thinking", "text", "refusal", "tool_call"}
         /\ Fragments(item) \in Nat /\ Framed(a, i) \in Nat /\ Framed(a, i) >= 2
         /\ Framed(a, i) = Fragments(item) + Len(item.sources) + 2
<1>1. /\ Streamable(item) /\ Len(item.sources) \in Nat /\ ASeq(item.final)
      /\ item.kind \in {"thinking", "text", "refusal", "tool_call"}
  BY ZenonT(30), ItemIs DEF Streamable, KindsOf
<1>2. Fragments(item) \in Nat
  BY <1>1, TextStarts
<1>3. Framed(a, i) = Fragments(item) + Len(item.sources) + 2
  BY ResponsesTrackIs DEF Framed
<1> QED BY <1>1, <1>2, <1>3

(* The texts are rows of letters. *)
LEMMA VoicedRows ==
  ASSUME NEW a \in Answers, a.dialect = "responses", NEW r, RShape(r)
  PROVE  /\ Rows(Voiced(a, r)) /\ Len(Voiced(a, r)) = Len(a.items)
         /\ DOMAIN Voiced(a, r) = DOMAIN a.items
         /\ \A i \in DOMAIN a.items : Voiced(a, r)[i] = Voice(r, a.items[i], i - 1)
         /\ Rows(Finals(a)) /\ Len(Finals(a)) = Len(a.items)
         /\ DOMAIN Finals(a) = DOMAIN a.items
         /\ \A i \in DOMAIN a.items : Finals(a)[i] = Finally(a.items[i])
<1>1. PICK n : n = Len(a.items)
  OBVIOUS
<1>2. n \in Nat /\ DOMAIN a.items = 1..n
  BY <1>1, ItemsAre
<1>3. PICK s : s = Voiced(a, r)
  OBVIOUS
<1>4. s = [i \in 1..n |-> s[i]] /\ DOMAIN s = 1..n
      /\ \A i \in 1..n : s[i] = Voice(r, a.items[i], i - 1)
  BY <1>2, <1>3 DEF Voiced
<1>5. ASeq(s) /\ Len(s) = n
  BY <1>2, <1>4, Tabled
<1>6. \A i \in 1..n : ASeq(s[i])
  BY <1>4, SeenIs, Short DEF Voice
<1>7. PICK t : t = Finals(a)
  OBVIOUS
<1>8. t = [i \in 1..n |-> t[i]] /\ DOMAIN t = 1..n
      /\ \A i \in 1..n : t[i] = Finally(a.items[i])
  BY <1>2, <1>7 DEF Finals
<1>9. ASeq(t) /\ Len(t) = n
  BY <1>2, <1>8, Tabled
<1>10. \A i \in 1..n : ASeq(t[i])
  <2> SUFFICES ASSUME NEW i \in 1..n PROVE ASeq(t[i])
    OBVIOUS
  <2>1. ASeq(a.items[i].final)
    BY <1>2, Fragmental
  <2> QED BY <1>8, <2>1, Short DEF Finally
<1> QED BY <1>1, <1>2, <1>3, <1>4, <1>5, <1>6, <1>7, <1>8, <1>9, <1>10 DEF Rows

(* After an item that is not done, nothing was said. *)
LEMMA LaterSilent ==
  ASSUME NEW a \in Answers, a.dialect = "responses", NEW r, NEW counts,
         CountsOf(a, counts), Sequent(a, counts), Uttered(a, r, counts),
         NEW i \in DOMAIN a.items, counts[i + 1] # Framed(a, i),
         NEW j \in DOMAIN a.items, i < j
  PROVE  Voice(r, a.items[j], j - 1) = <<>>
<1>1. PICK item, at, count, size : /\ item = a.items[j] /\ at = j - 1 /\ count = counts[j + 1]
                                   /\ size = Framed(a, j)
  OBVIOUS
<1>2. CASE count > 0
  <2>1. item.kind = "tool_call"
    BY <1>1, <1>2 DEF Sequent
  <2> QED BY <1>1, <2>1 DEF Voice, TextKinds
<1>3. CASE ~(count > 0)
  <2>1. count \in 0..size /\ size \in Nat /\ size >= 2 /\ Streamable(item)
    BY <1>1, Fragmental DEF CountsOf
  <2>2. count = 0 /\ count < size
    BY <1>3, <2>1
  <2>3. SeenAt(r, item, at, Carrying(count, item))
    BY <1>1, <2>2 DEF Uttered, UtteredBy
  <2>4. Carrying(count, item) = 0
    BY <2>2 DEF Carrying
  <2>5. At(r.seen, at, <<>>) = <<>>
    BY <2>1, <2>3, <2>4, TextStarts DEF SeenAt
  <2> QED BY <1>1, <2>5 DEF Voice
<1> QED BY <1>2, <1>3

(* What the fragments carried of an item begins all of them. *)
LEMMA FragmentsBegin ==
  ASSUME NEW item, Streamable(item), NEW m, m \in 0..Fragments(item)
  PROVE  /\ ASeq(TextTo(item, Reach(item, m))) /\ ASeq(FragmentsOf(item))
         /\ Begins(TextTo(item, Reach(item, m)), FragmentsOf(item))
<1>1. Len(item.tokens) \in Nat /\ ASeq(item.tokens) /\ Fragmented(item)
  BY SeqLen DEF Streamable
<1>2. PICK n, x, y, all : /\ n = Fragments(item) /\ x = Reach(item, m) /\ y = item.sent
                          /\ all = Pieces(item)
  OBVIOUS
<1>3. /\ n \in Nat /\ Reach(item, 0) = 0 /\ Reach(item, n) = y /\ y \in Nat
      /\ y <= Len(item.tokens) /\ item.size \in Nat \ {0}
  BY <1>1, <1>2, ReachIs DEF Fragmented
<1>4. x \in Nat /\ x <= y
  <2>1. CASE m = 0
    BY <1>2, <1>3, <2>1
  <2>2. CASE m # 0
    <3>1. m \in 1..n
      BY <1>2, <1>3, <2>2
    <3>2. x \in Nat
      BY <1>1, <1>2, <3>1, ReachIs
    <3>3. m * item.size \in Int /\ y \in Int
      BY <1>3, <3>1
    <3>4. x = Lesser(m * item.size, y)
      BY <1>2 DEF Reach, Lesser
    <3>5. x <= y
      BY <3>3, <3>4, GreaterOf
    <3> QED BY <3>2, <3>5
  <2> QED BY <2>1, <2>2
<1>5. /\ ASeq(all) /\ Len(all) = Len(item.tokens) /\ \A k \in DOMAIN all : ASeq(all[k])
  BY <1>2, PiecesAre
<1>6. TextTo(item, x) = FlattenSeq(SubSeq(all, 1, x))
      /\ TextTo(item, y) = FlattenSeq(SubSeq(all, 1, y))
  <2>1. x <= Len(item.tokens)
    BY <1>1, <1>3, <1>4
  <2> QED BY <1>2, <1>3, <1>4, <2>1, TextToIs
<1>7. FlattenSeq(SubSeq(all, 1, y))
        = FlattenSeq(SubSeq(all, 1, x)) \o FlattenSeq(SubSeq(all, x + 1, y))
  BY <1>3, <1>4, <1>5, FlatOfParts
<1>8. ASeq(FlattenSeq(SubSeq(all, 1, x))) /\ ASeq(FlattenSeq(SubSeq(all, x + 1, y)))
  <2>1. PICK low, high, first : /\ low = SubSeq(all, 1, x) /\ first = x + 1
                                /\ high = SubSeq(all, first, y)
    OBVIOUS
  <2>2. x <= Len(all) /\ y <= Len(all) /\ first \in Nat \ {0} /\ 1 \in Nat \ {0}
    BY <1>1, <1>3, <1>4, <1>5, <2>1
  <2>3. ASeq(low) /\ \A k \in DOMAIN low : ASeq(low[k])
    BY <1>4, <1>5, <2>1, <2>2, SliceOfSeqs
  <2>4. ASeq(high) /\ \A k \in DOMAIN high : ASeq(high[k])
    BY <1>3, <1>5, <2>1, <2>2, SliceOfSeqs
  <2> QED BY <2>1, <2>3, <2>4, FlatIsASeq
<1>9. PICK u, v, w : /\ u = TextTo(item, y) /\ v = TextTo(item, x)
                     /\ w = FlattenSeq(SubSeq(all, x + 1, y))
  OBVIOUS
<1>10. Joins(u, v, w) /\ ASeq(v) /\ ASeq(w)
  BY <1>6, <1>7, <1>8, <1>9 DEF Joins
<1>11. ASeq(u) /\ Begins(v, u)
  BY <1>10, JoinedBegins
<1> QED BY <1>2, <1>9, <1>10, <1>11 DEF TextTo, FragmentsOf

(* What an item let be said begins what it finally says. *)
LEMMA VoiceBegins ==
  ASSUME NEW a \in Answers, a.dialect = "responses", NEW i \in DOMAIN a.items,
         NEW item, item = a.items[i], NEW r, RShape(r), NEW count, count \in 0..Framed(a, i),
         UtteredBy(r, item, i - 1, count, Framed(a, i)), Complete(FragmentsOf(item), item)
  PROVE  /\ Begins(Voice(r, item, i - 1), Finally(item))
         /\ count = Framed(a, i) => Voice(r, item, i - 1) = Finally(item)
<1>1. PICK at, size : at = i - 1 /\ size = Framed(a, i)
  OBVIOUS
<1>2. /\ Streamable(item) /\ ASeq(item.final) /\ size \in Nat /\ count \in 0..size
      /\ Fragments(item) \in Nat
      /\ item.kind \in {"thinking", "text", "refusal", "tool_call"}
  BY <1>1, Fragmental
<1>3. CASE item.kind \notin TextKinds
  BY <1>3, Short DEF Voice, Finally, Begins
<1>4. CASE item.kind \in TextKinds
  <2>1. Voice(r, item, at) = At(r.seen, at, <<>>) /\ Finally(item) = item.final
    BY <1>4 DEF Voice, Finally
  <2>2. CASE ~(count < size)
    <3>1. At(r.seen, at, <<>>) = item.final
      BY <1>1, <1>4, <2>2 DEF UtteredBy
    <3>2. Len(item.final) \in Nat
      BY <1>2, SeqLen
    <3>3. Begins(item.final, item.final)
      BY <3>2 DEF Begins
    <3> QED BY <1>1, <2>1, <3>1, <3>3
  <2>3. CASE count < size
    <3>1. SeenAt(r, item, at, Carrying(count, item))
      BY <1>1, <2>3 DEF UtteredBy
    <3>2. PICK m : m = Carrying(count, item)
      OBVIOUS
    <3>3. m \in 0..Fragments(item)
      BY <1>2, <3>2 DEF Carrying
    <3>4. PICK part, all : part = At(r.seen, at, <<>>) /\ all = FragmentsOf(item)
      OBVIOUS
    <3>5. part = TextTo(item, Reach(item, m))
      BY <3>1, <3>2, <3>4 DEF SeenAt
    <3>6. ASeq(part) /\ ASeq(all) /\ Begins(part, all)
      BY <1>2, <3>3, <3>4, <3>5, FragmentsBegin
    <3>7. IsPrefix(all, item.final)
      BY <1>4, <3>4 DEF Complete, TextKinds
    <3>8. Begins(all, item.final)
      BY <1>2, <3>6, <3>7, BeginningIs
    <3>9. Begins(part, item.final)
      BY <1>2, <3>6, <3>8, BeginningsOf
    <3>10. count # size
      BY <1>2, <2>3
    <3> QED BY <1>1, <2>1, <3>4, <3>9, <3>10
  <2> QED BY <2>2, <2>3
<1> QED BY <1>3, <1>4

(* What was said begins what an answer finally says, and when all of it is *)
(* sent it is that.                                                        *)
LEMMA SpokeBegins ==
  ASSUME NEW a \in Answers, a.dialect = "responses", NEW r, RShape(r), NEW counts,
         CountsOf(a, counts), Sequent(a, counts), Uttered(a, r, counts),
         \A i \in DOMAIN a.items : Complete(FragmentsOf(a.items[i]), a.items[i])
  PROVE  /\ Begins(Spoke(a, r), Full(a)) /\ ASeq(Full(a))
         /\ (\A i \in DOMAIN a.items : counts[i + 1] = Framed(a, i)) => Spoke(a, r) = Full(a)
<1>1. PICK seqs, finals : seqs = Voiced(a, r) /\ finals = Finals(a)
  OBVIOUS
<1>2. /\ Rows(seqs) /\ Len(seqs) = Len(a.items) /\ DOMAIN seqs = DOMAIN a.items
      /\ \A i \in DOMAIN a.items : seqs[i] = Voice(r, a.items[i], i - 1)
      /\ Rows(finals) /\ Len(finals) = Len(a.items) /\ DOMAIN finals = DOMAIN a.items
      /\ \A i \in DOMAIN a.items : finals[i] = Finally(a.items[i])
  BY <1>1, VoicedRows
<1>3. ASSUME NEW i \in DOMAIN a.items
      PROVE  /\ Begins(seqs[i], finals[i])
             /\ counts[i + 1] = Framed(a, i) => seqs[i] = finals[i]
             /\ counts[i + 1] # Framed(a, i) =>
                  \A k \in DOMAIN seqs : k > i => seqs[k] = <<>>
  <2>1. PICK item, count : item = a.items[i] /\ count = counts[i + 1]
    OBVIOUS
  <2>2. /\ count \in 0..Framed(a, i) /\ Complete(FragmentsOf(item), item)
        /\ UtteredBy(r, item, i - 1, count, Framed(a, i))
    BY <2>1 DEF CountsOf, Uttered
  <2>3. /\ Begins(Voice(r, item, i - 1), Finally(item))
        /\ count = Framed(a, i) => Voice(r, item, i - 1) = Finally(item)
    BY <2>1, <2>2, VoiceBegins
  <2>4. ASSUME counts[i + 1] # Framed(a, i), NEW k \in DOMAIN seqs, k > i
        PROVE  seqs[k] = <<>>
    <3>1. k \in DOMAIN a.items /\ i < k
      BY <1>2, <2>4, ItemsAre
    <3>2. Voice(r, a.items[k], k - 1) = <<>>
      BY <2>4, <3>1, LaterSilent
    <3> QED BY <1>2, <3>1, <3>2
  <2> QED BY <1>2, <2>1, <2>3, <2>4
<1>4. Begins(FlattenSeq(seqs), FlattenSeq(finals)) /\ ASeq(FlattenSeq(finals))
  <2>1. \A i \in DOMAIN seqs : Begins(seqs[i], finals[i])
    BY <1>2, <1>3
  <2>2. \A i \in DOMAIN seqs :
          seqs[i] = finals[i] \/ \A k \in DOMAIN seqs : k > i => seqs[k] = <<>>
    BY <1>2, <1>3
  <2>3. Len(finals) = Len(seqs)
    BY <1>2
  <2> QED BY <1>2, <2>1, <2>2, <2>3, FlatBegins
<1>5. ASSUME \A i \in DOMAIN a.items : counts[i + 1] = Framed(a, i)
      PROVE  seqs = finals
  <2>1. \A i \in 1..Len(seqs) : seqs[i] = finals[i]
    BY <1>2, <1>3, <1>5, ItemsAre
  <2> QED BY <1>2, <2>1, SameSeq DEF Rows
<1> QED BY <1>1, <1>4, <1>5 DEF Spoke, Full

(* One frame of an item, read. *)
LEMMA ItemUttered ==
  ASSUME NEW a \in Answers, a.dialect = "responses", NEW i \in DOMAIN a.items,
         NEW item, item = a.items[i], NEW track, track = ResponsesFramesOf(a, i),
         NEW r, RShape(r), NEW k \in Nat, k < Len(track),
         UtteredBy(r, item, i - 1, k, Len(track)),
         NEW x, x = ResponsesFeed(r, track[k + 1]), ~Failed(x)
  PROVE  /\ Elsewhere(r, x.reader, i - 1)
         /\ UtteredBy(x.reader, item, i - 1, k + 1, Len(track))
         /\ \E text : /\ Voicing(x.events, text) /\ ASeq(text)
                      /\ Joins(Voice(x.reader, item, i - 1), Voice(r, item, i - 1), text)
<1>1. PICK n, m, f, at : n = Fragments(item) /\ m = Len(item.sources)
                         /\ f = track[k + 1] /\ at = i - 1
  OBVIOUS
<1>2. /\ n \in Nat /\ m \in Nat /\ Len(track) = n + m + 2
      /\ item.kind \in {"thinking", "text", "refusal", "tool_call"}
  BY <1>1, Fragmental DEF Framed
<1>3. SeenAt(r, item, at, Carrying(k, item))
  BY <1>1 DEF UtteredBy
<1>4. /\ Elsewhere(r, x.reader, at)
      /\ k + 1 < Len(track) => SeenAt(x.reader, item, at, Carrying(k + 1, item))
  BY <1>1, <1>3, ItemFollowed
<1>5. /\ Track("responses", track)
      /\ \A j \in DOMAIN track : track[j].index = at
      /\ track[1].type = "item_added"
      /\ \A j \in 1..n :
           /\ item.kind = "thinking" => track[j + 1].type = "summary_delta"
           /\ item.kind # "thinking" =>
                track[j + 1].type \in {"text_delta", "arguments_delta"}
           /\ track[j + 1].type = "text_delta" <=> item.kind \in {"text", "refusal"}
      /\ \A j \in 1..m : track[n + j + 1].type = "annotation_added"
      /\ track[n + m + 2].type = "item_done" /\ track[n + m + 2].item = item
  <2>1. /\ Track("responses", track)
        /\ Len(track) = Fragments(item) + Len(item.sources) + 2
        /\ \A j \in DOMAIN track : track[j].index = i - 1
        /\ track[1].type = "item_added"
        /\ \A j \in 1..Fragments(item) :
             /\ track[j + 1].text = Fragment(item, j)
             /\ item.kind = "thinking" => /\ track[j + 1].type = "summary_delta"
                                          /\ track[j + 1].part = PartOfToken(item, j)
             /\ item.kind # "thinking" =>
                  track[j + 1].type \in {"text_delta", "arguments_delta"}
             /\ track[j + 1].type = "text_delta" <=> item.kind \in {"text", "refusal"}
        /\ \A j \in 1..Len(item.sources) :
             track[Fragments(item) + j + 1].type = "annotation_added"
        /\ track[Len(track)].type = "item_done" /\ track[Len(track)].item = item
    BY ResponsesTrackIs
  <2> QED BY <1>1, <1>2, <2>1
<1>6. DOMAIN track = 1..(n + m + 2) /\ k + 1 \in 1..(n + m + 2)
  <2>1. ASeq(track)
    BY <1>5 DEF Track
  <2>2. DOMAIN track = 1..(n + m + 2)
    BY <1>2, <2>1, SeqLen
  <2> QED BY <1>2, <2>2
<1>7. ResponsesPlain(f) /\ f.index = at /\ x = ResponsesFeed(r, f)
  BY <1>1, <1>5, <1>6 DEF Track, Plain
<1>8. CASE k + 1 < Len(track)
  <2>1. /\ f.type # "item_done"
        /\ f.type = "text_delta" => item.kind \in TextKinds
        /\ f.type \in {"arguments_delta", "summary_delta"} => item.kind \notin TextKinds
    <3>1. CASE k = 0
      BY <1>1, <1>5, <3>1
    <3>2. CASE k \in 1..n
      <4>1. /\ item.kind = "thinking" => f.type = "summary_delta"
            /\ item.kind # "thinking" => f.type \in {"text_delta", "arguments_delta"}
            /\ f.type = "text_delta" <=> item.kind \in {"text", "refusal"}
        BY <1>1, <1>5, <3>2
      <4> QED BY <4>1 DEF TextKinds
    <3>3. CASE k \in (n + 1)..(n + m)
      <4>1. k - n \in 1..m /\ n + (k - n) + 1 = k + 1
        BY <1>2, <3>3
      <4> QED BY <1>1, <1>5, <4>1
    <3> QED BY <1>2, <1>6, <1>8, <3>1, <3>2, <3>3
  <2>2. \E text : /\ Voicing(x.events, text) /\ ASeq(text)
                  /\ Joins(Voice(x.reader, item, at), Voice(r, item, at), text)
    BY <1>7, <2>1, FrameVoiced
  <2>3. UtteredBy(x.reader, item, at, k + 1, Len(track))
    BY <1>4, <1>8 DEF UtteredBy
  <2> QED BY <1>1, <1>4, <2>2, <2>3
<1>9. CASE ~(k + 1 < Len(track))
  <2>1. k + 1 = n + m + 2
    BY <1>2, <1>6, <1>9
  <2>2. f.type = "item_done" /\ f.item = item
    BY <1>1, <1>5, <2>1
  <2>3. /\ \E text : /\ Voicing(x.events, text) /\ ASeq(text)
                     /\ Joins(Voice(x.reader, item, at), Voice(r, item, at), text)
        /\ item.kind \in TextKinds => At(x.reader.seen, at, <<>>) = item.final
    BY <1>2, <1>7, <2>2, DoneVoiced
  <2>4. UtteredBy(x.reader, item, at, k + 1, Len(track))
    BY <1>9, <2>3 DEF UtteredBy
  <2> QED BY <1>1, <1>4, <2>3, <2>4
<1> QED BY <1>8, <1>9

(* That frame among the others of the answer. *)
LEMMA FrameUttered ==
  ASSUME NEW a \in Answers, a.dialect = "responses", NEW r, RShape(r), NEW counts,
         CountsOf(a, counts), Sequent(a, counts), Uttered(a, r, counts),
         NEW j \in DOMAIN a.items, counts[j + 1] < Framed(a, j),
         NEW f, f = ResponsesFramesOf(a, j)[counts[j + 1] + 1],
         NEW x, x = ResponsesFeed(r, f), ~Failed(x), RShape(x.reader),
         NEW next, next[j + 1] = counts[j + 1] + 1,
         \A i \in DOMAIN a.items : i # j => next[i + 1] = counts[i + 1]
  PROVE  /\ Uttered(a, x.reader, next)
         /\ \E text : /\ Voicing(x.events, text) /\ ASeq(text)
                      /\ Joins(Spoke(a, x.reader), Spoke(a, r), text)
<1>1. PICK own, track, k, q, at : /\ own = a.items[j] /\ track = ResponsesFramesOf(a, j)
                                  /\ k = counts[j + 1] /\ q = x.reader /\ at = j - 1
  OBVIOUS
<1>2. k \in Nat /\ k < Len(track) /\ UtteredBy(r, own, at, k, Len(track))
      /\ x = ResponsesFeed(r, track[k + 1])
  BY <1>1, Fragmental DEF CountsOf, Uttered, Framed
<1>3. /\ Elsewhere(r, q, at)
      /\ UtteredBy(q, own, at, k + 1, Len(track))
      /\ \E text : /\ Voicing(x.events, text) /\ ASeq(text)
                   /\ Joins(Voice(q, own, at), Voice(r, own, at), text)
  BY <1>1, <1>2, ItemUttered
<1>4. ASSUME NEW i \in DOMAIN a.items, i # j
      PROVE  /\ UtteredBy(q, a.items[i], i - 1, next[i + 1], Framed(a, i))
             /\ Voice(q, a.items[i], i - 1) = Voice(r, a.items[i], i - 1)
  <2>1. UtteredBy(r, a.items[i], i - 1, counts[i + 1], Framed(a, i))
    BY <1>4 DEF Uttered
  <2>2. i - 1 # at
    BY <1>1, <1>4, ItemsAre
  <2>3. /\ At(q.seen, i - 1, <<>>) = At(r.seen, i - 1, <<>>)
        /\ At(q.part, i - 1, 0) = At(r.part, i - 1, 0)
    BY <1>3, <2>2 DEF Elsewhere
  <2> QED BY <1>4, <2>1, <2>3 DEF UtteredBy, SeenAt, Voice
<1>5. Uttered(a, q, next)
  BY <1>1, <1>3, <1>4 DEF Uttered, Framed
<1>6. PICK seqs, news : seqs = Voiced(a, r) /\ news = Voiced(a, q)
  OBVIOUS
<1>7. /\ Rows(seqs) /\ Len(seqs) = Len(a.items) /\ DOMAIN seqs = DOMAIN a.items
      /\ \A i \in DOMAIN a.items : seqs[i] = Voice(r, a.items[i], i - 1)
  BY <1>6, VoicedRows
<1>8. /\ Rows(news) /\ Len(news) = Len(a.items) /\ DOMAIN news = DOMAIN a.items
      /\ \A i \in DOMAIN a.items : news[i] = Voice(q, a.items[i], i - 1)
  BY <1>1, <1>6, VoicedRows
<1>9. PICK text : /\ Voicing(x.events, text) /\ ASeq(text)
                  /\ Joins(Voice(q, own, at), Voice(r, own, at), text)
  BY <1>3
<1>10. Joins(FlattenSeq(news), FlattenSeq(seqs), text)
  <2>1. j \in 1..Len(seqs) /\ Len(news) = Len(seqs)
    BY <1>7, <1>8, ItemsAre
  <2>2. \A i \in DOMAIN seqs : i # j => news[i] = seqs[i]
    BY <1>4, <1>7, <1>8
  <2>3. \A i \in DOMAIN seqs : i > j => seqs[i] = <<>>
    <3> SUFFICES ASSUME NEW i \in DOMAIN seqs, i > j PROVE seqs[i] = <<>>
      OBVIOUS
    <3>1. i \in DOMAIN a.items /\ j < i
      BY <1>7, ItemsAre
    <3>2. counts[j + 1] # Framed(a, j)
      BY <1>1, <1>2, Fragmental
    <3>3. Voice(r, a.items[i], i - 1) = <<>>
      BY <3>1, <3>2, LaterSilent
    <3> QED BY <1>7, <3>1, <3>3
  <2>4. Joins(news[j], seqs[j], text)
    BY <1>1, <1>7, <1>8, <1>9
  <2> QED BY <1>7, <1>8, <1>9, <2>1, <2>2, <2>3, <2>4, FlatGrows
<1> QED BY <1>1, <1>5, <1>6, <1>9, <1>10 DEF Spoke

-----------------------------------------------------------------------------
(* What the parts of a Response say, a refusal as a text. *)
Worded(part) ==
  /\ DOMAIN part = {"type", "content", "cont"}
  /\ part.type \in TextKinds => ASeq(part.content)
Parted(parts) == ASeq(parts) /\ \A i \in DOMAIN parts : Worded(parts[i])

Word(part) == IF part.type \in TextKinds THEN part.content ELSE <<>>
Words(parts) == [i \in DOMAIN parts |-> Word(parts[i])]
Wording(parts) == FlattenSeq(Words(parts))

LEMMA WordsAre ==
  ASSUME NEW parts, Parted(parts)
  PROVE  /\ ASeq(Words(parts)) /\ Len(Words(parts)) = Len(parts)
         /\ DOMAIN Words(parts) = DOMAIN parts
         /\ \A i \in DOMAIN parts : Words(parts)[i] = Word(parts[i])
         /\ \A i \in DOMAIN Words(parts) : ASeq(Words(parts)[i])
<1>1. PICK texts : texts = Words(parts)
  OBVIOUS
<1>2. ASeq(parts) /\ Len(parts) \in Nat /\ DOMAIN parts = 1..Len(parts)
  BY SeqLen DEF Parted
<1>3. /\ texts = [i \in 1..Len(parts) |-> texts[i]] /\ DOMAIN texts = DOMAIN parts
      /\ \A i \in DOMAIN parts : texts[i] = Word(parts[i])
  BY <1>1, <1>2 DEF Words
<1>4. ASeq(texts) /\ Len(texts) = Len(parts)
  BY <1>2, <1>3, Tabled
<1>5. ASSUME NEW i \in DOMAIN parts PROVE ASeq(Word(parts[i]))
  BY Short DEF Parted, Worded, Word
<1> QED BY <1>1, <1>3, <1>4, <1>5

(* Parts after others. *)
LEMMA WordingOfBoth ==
  ASSUME NEW s, NEW t, Parted(s), Parted(t)
  PROVE  Parted(s \o t) /\ Wording(s \o t) = Wording(s) \o Wording(t)
<1>1. PICK n, m, all : n = Len(s) /\ m = Len(t) /\ all = s \o t
  OBVIOUS
<1>2. n \in Nat /\ m \in Nat /\ DOMAIN s = 1..n /\ DOMAIN t = 1..m /\ ASeq(s) /\ ASeq(t)
  BY <1>1, SeqLen DEF Parted
<1>3. /\ ASeq(all) /\ Len(all) = n + m /\ DOMAIN all = 1..(n + m)
      /\ \A i \in 1..(n + m) : all[i] = IF i <= n THEN s[i] ELSE t[i - n]
  <2>1. Joins(all, s, t)
    BY <1>1 DEF Joins
  <2>2. /\ ASeq(all) /\ Len(all) = n + m
        /\ \A i \in 1..(n + m) : all[i] = IF i <= n THEN s[i] ELSE t[i - n]
    BY <1>1, <1>2, <2>1, JoinedAt
  <2> QED BY <2>2, SeqLen
<1>4. Parted(all)
  <2> SUFFICES ASSUME NEW i \in 1..(n + m) PROVE Worded(all[i])
    BY <1>3 DEF Parted
  <2>1. CASE i <= n
    BY <1>2, <1>3, <2>1 DEF Parted
  <2>2. CASE ~(i <= n)
    <3>1. i - n \in 1..m
      BY <1>2, <2>2
    <3> QED BY <1>2, <1>3, <2>2, <3>1 DEF Parted
  <2> QED BY <2>1, <2>2
<1>5. PICK a, b, c : a = Words(s) /\ b = Words(t) /\ c = Words(all)
  OBVIOUS
<1>6. /\ ASeq(a) /\ Len(a) = n
      /\ \A i \in 1..n : a[i] = Word(s[i])
      /\ \A i \in DOMAIN a : ASeq(a[i])
  BY <1>1, <1>2, <1>5, WordsAre
<1>7. /\ ASeq(b) /\ Len(b) = m
      /\ \A i \in 1..m : b[i] = Word(t[i])
      /\ \A i \in DOMAIN b : ASeq(b[i])
  BY <1>1, <1>2, <1>5, WordsAre
<1>8. /\ ASeq(c) /\ Len(c) = n + m
      /\ \A i \in 1..(n + m) : c[i] = Word(all[i])
  BY <1>3, <1>4, <1>5, WordsAre
<1>9. c = a \o b
  <2>1. PICK d : d = a \o b
    OBVIOUS
  <2>2. /\ ASeq(d) /\ Len(d) = n + m
        /\ \A i \in 1..(n + m) : d[i] = IF i <= n THEN a[i] ELSE b[i - n]
    BY <1>6, <1>7, <2>1, Concatenated
  <2>3. ASSUME NEW i \in 1..(n + m) PROVE c[i] = d[i]
    <3>1. CASE i <= n
      BY <1>2, <1>3, <1>6, <1>8, <2>2, <3>1
    <3>2. CASE ~(i <= n)
      <4>1. i - n \in 1..m
        BY <1>2, <3>2
      <4> QED BY <1>3, <1>7, <1>8, <2>2, <3>2, <4>1
    <3> QED BY <3>1, <3>2
  <2>4. Len(c) = Len(d)
    BY <1>8, <2>2
  <2>5. \A i \in 1..Len(c) : c[i] = d[i]
    BY <1>8, <2>3
  <2> QED BY <1>8, <2>1, <2>2, <2>4, <2>5, SameSeq
<1>10. FlattenSeq(a \o b) = FlattenSeq(a) \o FlattenSeq(b)
  BY <1>6, <1>7, FlatOfBoth
<1> QED BY <1>1, <1>4, <1>5, <1>9, <1>10 DEF Wording

(* No part, and one. *)
LEMMA WordingOfFew ==
  /\ Parted(<<>>) /\ Wording(<<>>) = <<>>
  /\ \A part : Worded(part) => Parted(<<part>>) /\ Wording(<<part>>) = Word(part)
<1>1. Parted(<<>>)
  <2>1. \A i \in DOMAIN <<>> : FALSE
    BY ShortDeltas, Short
  <2> QED BY <2>1, Short DEF Parted
<1>2. Wording(<<>>) = <<>>
  <2>1. PICK s : s = Words(<<>>)
    OBVIOUS
  <2>2. ASeq(s) /\ Len(s) = 0
    BY <1>1, <2>1, WordsAre, Short
  <2>3. s = <<>>
    BY <2>2, SeqLen
  <2> QED BY <2>1, <2>3, FlatOfFew DEF Wording
<1>3. ASSUME NEW part, Worded(part)
      PROVE  Parted(<<part>>) /\ Wording(<<part>>) = Word(part)
  <2>1. PICK s, x, one : s = Words(one) /\ x = Word(part) /\ one = <<part>>
    OBVIOUS
  <2>2. ASeq(one) /\ Len(one) = 1 /\ one[1] = part /\ DOMAIN one = 1..1
    BY <2>1, Short
  <2>3. Parted(one)
    BY <1>3, <2>2 DEF Parted
  <2>4. ASeq(s) /\ Len(s) = 1 /\ s[1] = x
    BY <2>1, <2>2, <2>3, WordsAre
  <2>5. PICK t : t = <<x>>
    OBVIOUS
  <2>6. ASeq(t) /\ Len(t) = 1 /\ t[1] = x
    BY <2>5, Short
  <2>7. s = t
    BY <2>4, <2>6, SameSeq
  <2>8. ASeq(x)
    BY <1>3, <2>1, Short DEF Worded, Word
  <2> QED BY <2>1, <2>3, <2>5, <2>7, <2>8, FlatOfFew DEF Wording
<1> QED BY <1>1, <1>2, <1>3

(* Parts of rows: the wording of all is that of each, after one another. *)
LEMMA WordingOfRows ==
  ASSUME NEW rows, ASeq(rows), \A i \in DOMAIN rows : Parted(rows[i]),
         NEW finals, ASeq(finals), Len(finals) = Len(rows),
         \A i \in DOMAIN rows : finals[i] = Wording(rows[i])
  PROVE  Parted(FlattenSeq(rows)) /\ Wording(FlattenSeq(rows)) = FlattenSeq(finals)
<1>1. PICK n : n = Len(rows)
  OBVIOUS
<1>2. n \in Nat /\ DOMAIN rows = 1..n /\ DOMAIN finals = 1..n
  BY <1>1, SeqLen
<1>3. Rows(rows) /\ Rows(finals)
  <2>1. \A i \in 1..n : ASeq(rows[i])
    BY <1>2 DEF Parted
  <2>2. \A i \in 1..n : ASeq(finals[i])
    <3> SUFFICES ASSUME NEW i \in 1..n PROVE ASeq(finals[i])
      OBVIOUS
    <3>1. PICK s : s = Words(rows[i])
      OBVIOUS
    <3>2. ASeq(s) /\ \A k \in DOMAIN s : ASeq(s[k])
      BY <1>2, <3>1, WordsAre
    <3>3. ASeq(FlattenSeq(s))
      BY <3>2, FlatIsASeq
    <3> QED BY <1>2, <3>1, <3>3 DEF Wording
  <2> QED BY <1>2, <2>1, <2>2 DEF Rows
<1> DEFINE Up(k) == FlattenSeq(SubSeq(rows, 1, k))
           To(k) == FlattenSeq(SubSeq(finals, 1, k))
           S == {k \in Nat : k <= n => Parted(Up(k)) /\ Wording(Up(k)) = To(k)}
<1>4. 0 \in S
  <2>1. SubSeq(rows, 1, 0) = <<>> /\ SubSeq(finals, 1, 0) = <<>>
    OBVIOUS
  <2>2. Up(0) = <<>> /\ To(0) = <<>>
    BY <2>1, FlatOfFew
  <2>3. Parted(Up(0)) /\ Wording(Up(0)) = To(0)
    BY <2>2, WordingOfFew
  <2> QED BY <2>3
<1>5. ASSUME NEW k \in Nat, k \in S PROVE k + 1 \in S
  <2> SUFFICES ASSUME k + 1 <= n PROVE Parted(Up(k + 1)) /\ Wording(Up(k + 1)) = To(k + 1)
    OBVIOUS
  <2>1. Parted(Up(k)) /\ Wording(Up(k)) = To(k)
    BY <1>2, <1>5
  <2>2. PICK j : j = k + 1
    OBVIOUS
  <2>3. j \in 1..n /\ j - 1 = k
    BY <1>2, <2>2
  <2>4. Up(j) = Up(k) \o rows[j]
    <3>1. j \in 1..Len(rows)
      BY <1>1, <2>3
    <3>2. FlattenSeq(SubSeq(rows, 1, j)) = FlattenSeq(SubSeq(rows, 1, j - 1)) \o rows[j]
      BY <1>3, <3>1, FlatUpTo
    <3> QED BY <2>3, <3>2
  <2>5. To(j) = To(k) \o finals[j]
    <3>1. j \in 1..Len(finals)
      BY <1>1, <2>3
    <3>2. FlattenSeq(SubSeq(finals, 1, j)) = FlattenSeq(SubSeq(finals, 1, j - 1)) \o finals[j]
      BY <1>3, <3>1, FlatUpTo
    <3> QED BY <2>3, <3>2
  <2> HIDE DEF Up, To
  <2>6. Parted(rows[j]) /\ finals[j] = Wording(rows[j])
    BY <1>2, <2>3
  <2>7. Parted(Up(k) \o rows[j]) /\ Wording(Up(k) \o rows[j]) = Wording(Up(k)) \o Wording(rows[j])
    BY <2>1, <2>6, WordingOfBoth
  <2> QED BY <2>1, <2>2, <2>4, <2>5, <2>6, <2>7
<1>6. n \in S
  <2> HIDE DEF S
  <2> QED BY <1>2, <1>4, <1>5, SetInduction
<1>7. Parted(Up(n)) /\ Wording(Up(n)) = To(n)
  BY <1>2, <1>6
<1>8. SubSeq(rows, 1, n) = rows
  BY <1>1, <1>2, BeginningIs, BeginningsOf
<1>9. SubSeq(finals, 1, n) = finals
  BY <1>1, <1>2, BeginningIs, BeginningsOf
<1> QED BY <1>7, <1>8, <1>9

(* What the parts of an item say is what the item finally says. *)
LEMMA PartsOfItemAre ==
  ASSUME NEW item, ASeq(item.final), ASeq(item.sources)
  PROVE  Parted(PartsOfItem(item)) /\ Wording(PartsOfItem(item)) = Finally(item)
<1>1. PICK cont, whole0 : /\ cont = Optional(item.state # Null, item.state)
                          /\ whole0 = PartsOfItem(item)
  OBVIOUS
<1>2. ASSUME NEW type, NEW content, NEW c, type \in TextKinds => ASeq(content)
      PROVE  /\ Worded(Part(type, content, c))
             /\ Word(Part(type, content, c)) = IF type \in TextKinds THEN content ELSE <<>>
  <2>1. PICK part : part = Part(type, content, c)
    OBVIOUS
  <2>2. part.type = type /\ part.content = content
        /\ DOMAIN part = {"type", "content", "cont"}
    BY <2>1 DEF Part
  <2> QED BY <1>2, <2>1, <2>2 DEF Worded, Word
<1>3. CASE item.kind = "text"
  <2>1. PICK part, cited, n : /\ part = Part("text", item.final, <<>>) /\ n = Len(item.sources)
          /\ cited = [i \in DOMAIN item.sources |-> Part("citation", Cited(item.sources[i]), <<>>)]
    OBVIOUS
  <2>2. whole0 = <<part>> \o cited
    BY <1>1, <1>3, <2>1 DEF PartsOfItem
  <2>3. n \in Nat /\ DOMAIN item.sources = 1..n
    BY <2>1, SeqLen
  <2>4. /\ cited = [i \in 1..n |-> cited[i]] /\ DOMAIN cited = 1..n
        /\ \A i \in 1..n : cited[i] = Part("citation", Cited(item.sources[i]), <<>>)
    BY <2>1, <2>3
  <2>5. ASeq(cited) /\ Len(cited) = n
    BY <2>3, <2>4, Tabled
  <2>6. \A i \in 1..n : Worded(cited[i]) /\ Word(cited[i]) = <<>>
    <3> SUFFICES ASSUME NEW i \in 1..n PROVE Worded(cited[i]) /\ Word(cited[i]) = <<>>
      OBVIOUS
    <3>1. "citation" \notin TextKinds
      BY DEF TextKinds
    <3> QED BY <1>2, <2>4, <3>1
  <2>7. Parted(cited)
    BY <2>4, <2>5, <2>6 DEF Parted
  <2>8. PICK words : words = Words(cited)
    OBVIOUS
  <2>9. Rows(words) /\ \A i \in DOMAIN words : words[i] = <<>>
    <3>1. /\ ASeq(words) /\ DOMAIN words = DOMAIN cited
          /\ \A i \in DOMAIN cited : words[i] = Word(cited[i])
          /\ \A i \in DOMAIN words : ASeq(words[i])
      BY <2>7, <2>8, WordsAre
    <3> QED BY <2>4, <2>6, <3>1 DEF Rows
  <2>10. Wording(cited) = <<>>
    BY <2>8, <2>9, FlatOfEmpty DEF Wording
  <2>11. "text" \in TextKinds
    BY DEF TextKinds
  <2>12. Worded(part) /\ Word(part) = item.final
    BY <1>2, <2>1, <2>11
  <2>13. PICK one : one = <<part>>
    OBVIOUS
  <2>14. Parted(one) /\ Wording(one) = item.final
    BY <2>12, <2>13, WordingOfFew
  <2>15. Parted(one \o cited) /\ Wording(one \o cited) = Wording(one) \o Wording(cited)
    BY <2>7, <2>14, WordingOfBoth
  <2>16. item.final \o <<>> = item.final
    BY NothingAdded
  <2> QED BY <1>1, <1>3, <2>2, <2>10, <2>11, <2>13, <2>14, <2>15, <2>16 DEF Finally
<1>4. CASE item.kind # "text"
  <2>1. \/ whole0 = <<>> /\ item.kind \notin TextKinds
        \/ \E part : whole0 = <<part>> /\ Worded(part) /\ Word(part) = Finally(item)
    <3>1. CASE item.kind = "refusal"
      <4>1. PICK part : part = Part("refusal", item.final, <<>>)
        OBVIOUS
      <4>2. whole0 = <<part>>
        BY <1>1, <3>1, <4>1 DEF PartsOfItem
      <4>3. "refusal" \in TextKinds
        BY DEF TextKinds
      <4>4. Worded(part) /\ Word(part) = item.final
        BY <1>2, <4>1, <4>3
      <4> QED BY <3>1, <4>2, <4>3, <4>4 DEF Finally
    <3>2. CASE item.kind = "tool_call"
      <4>1. PICK part, call : /\ call = Call(item.id, item.name, ParseJsonBestEffort(item.final))
                              /\ part = Part("tool_call", call, <<>>)
        OBVIOUS
      <4>2. whole0 = <<part>>
        BY <1>1, <3>2, <4>1 DEF PartsOfItem
      <4>3. "tool_call" \notin TextKinds
        BY DEF TextKinds
      <4>4. Worded(part) /\ Word(part) = <<>>
        BY <1>2, <4>1, <4>3
      <4> QED BY <3>2, <4>2, <4>3, <4>4 DEF Finally
    <3>3. CASE item.kind = "thinking"
      <4>1. PICK part : part = Part("thinking", item.final, cont)
        OBVIOUS
      <4>2. whole0 = Optional(item.final # <<>> \/ cont # <<>>, part)
        BY <1>1, <3>3, <4>1 DEF PartsOfItem
      <4>3. "thinking" \notin TextKinds
        BY DEF TextKinds
      <4>4. Worded(part) /\ Word(part) = <<>>
        BY <1>2, <4>1, <4>3
      <4>5. whole0 = <<>> \/ whole0 = <<part>>
        BY <4>2 DEF Optional
      <4> QED BY <3>3, <4>3, <4>4, <4>5 DEF Finally
    <3>4. CASE item.kind \notin {"refusal", "tool_call", "thinking"}
      <4>1. whole0 = <<>>
        BY <1>1, <1>4, <3>4 DEF PartsOfItem
      <4> QED BY <1>4, <3>4, <4>1 DEF TextKinds
    <3> QED BY <3>1, <3>2, <3>3, <3>4
  <2> QED BY <1>1, <2>1, WordingOfFew DEF Finally
<1> QED BY <1>3, <1>4

(* A stream carries the texts of a whole response, and its refusals as     *)
(* texts: what is spoken is what the items finally say.                    *)
Told == whole = WholeOf(answer) /\ carried = CarriedOf(answer, whole)

LEMMA FullIsSpoken ==
  ASSUME answer \in Answers, answer.dialect = "responses", Told, ~Failed(whole)
  PROVE  SpokenText = Full(answer)
<1>1. PICK a, rows, n : /\ a = answer /\ n = Len(a.items)
                        /\ rows = [i \in DOMAIN a.items |-> PartsOfItem(a.items[i])]
  OBVIOUS
<1>2. n \in Nat /\ DOMAIN a.items = 1..n /\ a \in Answers /\ a.dialect = "responses"
  BY <1>1, ItemsAre
<1>3. /\ rows = [i \in 1..n |-> rows[i]] /\ DOMAIN rows = 1..n
      /\ \A i \in 1..n : rows[i] = PartsOfItem(a.items[i])
  BY <1>1, <1>2
<1>4. ASeq(rows) /\ Len(rows) = n
  BY <1>2, <1>3, Tabled
<1>5. \A i \in 1..n : Parted(rows[i]) /\ Wording(rows[i]) = Finally(a.items[i])
  <2> SUFFICES ASSUME NEW i \in 1..n
               PROVE  Parted(rows[i]) /\ Wording(rows[i]) = Finally(a.items[i])
    OBVIOUS
  <2>1. PICK item : item = a.items[i]
    OBVIOUS
  <2>2. ASeq(item.final) /\ ASeq(item.sources)
    BY <1>2, <2>1, ItemIs
  <2> QED BY <1>3, <2>1, <2>2, PartsOfItemAre
<1>6. PICK finals, found : finals = Finals(a) /\ found = FlattenSeq(rows)
  OBVIOUS
<1>7. Parted(found) /\ Wording(found) = FlattenSeq(finals)
  <2>1. /\ finals = [i \in 1..n |-> finals[i]] /\ DOMAIN finals = 1..n
        /\ \A i \in 1..n : finals[i] = Finally(a.items[i])
    BY <1>2, <1>6 DEF Finals
  <2>2. ASeq(finals) /\ Len(finals) = n
    BY <1>2, <2>1, Tabled
  <2>3. \A i \in DOMAIN rows : Parted(rows[i])
    BY <1>3, <1>5
  <2>4. \A i \in DOMAIN rows : finals[i] = Wording(rows[i])
    BY <1>3, <1>5, <2>1
  <2> QED BY <1>4, <1>6, <2>2, <2>3, <2>4, WordingOfRows
<1>8. PICK empty, parts : /\ empty = Part("text", <<>>, <<>>)
                          /\ parts = IF found = <<>> THEN <<empty>> ELSE found
  OBVIOUS
<1>9. Worded(empty) /\ Word(empty) = <<>>
  <2>1. empty.type = "text" /\ empty.content = <<>> /\ DOMAIN empty = {"type", "content", "cont"}
    BY <1>8 DEF Part
  <2> QED BY <2>1, Short DEF Worded, Word
<1>10. Parted(parts) /\ Wording(parts) = Full(a)
  <2>1. CASE found = <<>>
    BY <1>6, <1>7, <1>8, <1>9, <2>1, WordingOfFew DEF Full
  <2>2. CASE found # <<>>
    BY <1>6, <1>7, <1>8, <2>2 DEF Full
  <2> QED BY <2>1, <2>2
<1>11. whole.parts = parts /\ carried = ResponsesCarried(a, whole)
  <2>1. whole = ResponsesResponse(a)
    BY <1>1, <1>2 DEF Told, WholeOf
  <2>2. whole.parts = parts
    <3>1. \/ whole = Failure("unnamed")
          \/ \E finish, usage, scores :
               whole = Response(a.model, parts, finish, usage, "body", scores, TRUE)
      BY <1>1, <1>6, <1>8, <2>1, Zenon DEF ResponsesResponse
    <3>2. whole # Failure("unnamed")
      BY FailureIsSome
    <3> QED BY <3>1, <3>2 DEF Response
  <2>3. carried = ResponsesCarried(a, whole)
    BY <1>1, <1>2 DEF Told, CarriedOf
  <2> QED BY <2>2, <2>3
<1>12. "parts" \in DOMAIN whole /\ "scores" \in DOMAIN whole
  <2>1. whole = ResponsesResponse(a)
    BY <1>1, <1>2 DEF Told, WholeOf
  <2>2. \/ whole = Failure("unnamed")
        \/ \E all, finish, usage, scores :
             whole = Response(a.model, all, finish, usage, "body", scores, TRUE)
    BY <2>1, Zenon DEF ResponsesResponse
  <2>3. whole # Failure("unnamed")
    BY FailureIsSome
  <2> QED BY <2>2, <2>3 DEF Response
<1>13. PICK given0 : given0 = [i \in DOMAIN parts |->
                       CASE parts[i].type = "refusal" -> [parts[i] EXCEPT !.type = "text"]
                         [] parts[i].type = "citation" ->
                              [parts[i] EXCEPT !.content = parts[i].content.source]
                         [] OTHER -> parts[i]]
  OBVIOUS
<1>14. carried.parts = given0
  <2>1. \E scores : carried = [whole EXCEPT !.parts = given0, !.scores = scores]
    BY <1>11, <1>13, Zenon DEF ResponsesCarried
  <2> QED BY <1>12, <2>1
<1>15. DOMAIN given0 = DOMAIN parts
  BY <1>13
<1>16. ASSUME NEW i \in DOMAIN parts
       PROVE  (IF given0[i].type = "text" THEN given0[i].content ELSE <<>>) = Word(parts[i])
  <2>1. PICK part : part = parts[i]
    OBVIOUS
  <2>2. DOMAIN part = {"type", "content", "cont"}
    BY <1>10, <2>1 DEF Parted, Worded
  <2>3. CASE part.type = "refusal"
    <3>1. given0[i] = [part EXCEPT !.type = "text"]
      BY <1>13, <2>1, <2>3
    <3>2. given0[i].type = "text" /\ given0[i].content = part.content
      BY <2>2, <3>1
    <3> QED BY <2>1, <2>3, <3>2 DEF Word, TextKinds
  <2>4. CASE part.type = "citation"
    <3>1. given0[i] = [part EXCEPT !.content = part.content.source]
      BY <1>13, <2>1, <2>4
    <3>2. given0[i].type = "citation"
      BY <2>2, <2>4, <3>1
    <3> QED BY <2>1, <2>4, <3>2 DEF Word, TextKinds
  <2>5. CASE part.type \notin {"refusal", "citation"}
    <3>1. given0[i] = part
      BY <1>13, <2>1, <2>5
    <3> QED BY <2>1, <2>5, <3>1 DEF Word, TextKinds
  <2> QED BY <2>3, <2>4, <2>5
<1>17. [i \in DOMAIN given0 |-> IF given0[i].type = "text" THEN given0[i].content ELSE <<>>]
         = [i \in DOMAIN parts |-> Word(parts[i])]
  BY <1>15, <1>16
<1>18. SpokenText = FlattenSeq([i \in DOMAIN given0 |->
                      IF given0[i].type = "text" THEN given0[i].content ELSE <<>>])
  BY <1>14 DEF SpokenText
<1>19. SpokenText = Wording(parts)
  BY <1>17, <1>18 DEF Wording, Words
<1> QED BY <1>1, <1>10, <1>19

-----------------------------------------------------------------------------
(* Without stop sequences the cutter stays as it is. *)
Unstopped(s) == PShape(s) /\ s.cutter.stop = {}

LEMMA CutUnstopped ==
  ASSUME NEW s, Unstopped(s), NEW e, NEW r, r = Cut(s, e)
  PROVE  Unstopped(r) /\ r.cutter = s.cutter
<1>1. CASE s.cutter.cut
  BY <1>1 DEF Cut
<1>2. CASE ~s.cutter.cut
  <2>1. PICK x : x = Step(s.cutter, e)
    OBVIOUS
  <2>2. x.cutter = s.cutter /\ x.out = <<e>>
    BY <2>1 DEF Step, Unstopped
  <2>3. PICK base : /\ PShape(base) /\ base.cutter = x.cutter
                    /\ r = Takes!Folded(base, x.out)
    BY <1>2, <2>1, CutIs DEF Unstopped
  <2>4. r = Consumed(base, e)
    BY <2>2, <2>3, Takes!FoldOfOne
  <2>5. r = base \/ \E a : r = Kept(base, e, a)
    BY <2>4 DEF Consumed
  <2>6. PShape(r) /\ r.cutter = base.cutter
    BY <2>3, <2>5, KeptFields
  <2> QED BY <2>2, <2>3, <2>6 DEF Unstopped
<1> QED BY <1>1, <1>2

LEMMA CutsUnstopped ==
  ASSUME NEW s, Unstopped(s), NEW out, ASeq(out), NEW r, r = Cuts!Folded(s, out)
  PROVE  Unstopped(r) /\ r.cutter = s.cutter
<1>1. PICK n : n = Len(out)
  OBVIOUS
<1>2. n \in Nat /\ DOMAIN out = 1..n
  BY <1>1, SeqLen
<1>3. PICK h : /\ h[0] = s /\ (\A i \in 1..n : h[i] = Cut(h[i - 1], out[i]))
               /\ h[n] = Cuts!Folded(s, out)
  BY <1>2, Cuts!FoldTrace
<1> DEFINE A == {k \in Nat : k <= n => Unstopped(h[k]) /\ h[k].cutter = s.cutter}
<1>4. 0 \in A
  BY <1>3
<1>5. ASSUME NEW k \in Nat, k \in A PROVE k + 1 \in A
  <2> SUFFICES ASSUME k + 1 <= n PROVE Unstopped(h[k + 1]) /\ h[k + 1].cutter = s.cutter
    OBVIOUS
  <2>1. k + 1 \in 1..n /\ (k + 1) - 1 = k /\ Unstopped(h[k]) /\ h[k].cutter = s.cutter
    BY <1>2, <1>5
  <2>2. h[k + 1] = Cut(h[k], out[k + 1])
    BY <1>3, <2>1
  <2> QED BY <2>1, <2>2, CutUnstopped
<1> HIDE DEF A
<1>6. n \in A
  BY <1>2, <1>4, <1>5, SetInduction
<1> QED BY <1>2, <1>3, <1>6 DEF A

LEMMA PushedUnstopped ==
  ASSUME NEW s, Unstopped(s), NEW e, NEW r, r = Pushed(s, e)
  PROVE  Unstopped(r) /\ r.cutter = s.cutter
<1>1. PICK base, out : /\ base = [s EXCEPT !.coalescer = Coalesced(@, e)]
                       /\ out = Emitted(s.coalescer, e, Requested)
  OBVIOUS
<1>2. r = Cuts!Folded(base, out)
  BY <1>1, PushedIs
<1>3. Unstopped(base) /\ base.cutter = s.cutter
  BY <1>1 DEF Unstopped, PShape
<1>4. ASeq(out)
  <2>1. PICK first, one : /\ first = Optional(~s.coalescer.started /\ IsDelta(e), Start(Requested))
                          /\ one = <<e>>
    OBVIOUS
  <2>2. ASeq(first) /\ ASeq(one)
    BY <2>1, Short DEF Optional
  <2>3. ASeq(first \o one)
    BY <2>2, Concatenated
  <2>4. ASeq(Optional(~s.coalescer.started, e))
    BY Short DEF Optional
  <2> QED BY <1>1, <2>1, <2>3, <2>4, Short DEF Emitted
<1> QED BY <1>2, <1>3, <1>4, CutsUnstopped

LEMMA PushedAllUnstopped ==
  ASSUME NEW s, Unstopped(s), NEW events, ASeq(events), NEW r, Pushing(s, events, r)
  PROVE  Unstopped(r) /\ r.cutter = s.cutter
<1>1. PICK n : n = Len(events)
  OBVIOUS
<1>2. n \in Nat /\ DOMAIN events = 1..n
  BY <1>1, SeqLen
<1>3. r = Pushes!Folded(s, events)
  BY Zenon DEF Pushing, FoldLeft, MapThenFoldSet, Max, Pushes!Folded, Pushes!FoldLeft,
     Pushes!MapThenFoldSet, Pushes!Max
<1>4. PICK h : /\ h[0] = s /\ (\A i \in 1..n : h[i] = Pushed(h[i - 1], events[i]))
               /\ h[n] = Pushes!Folded(s, events)
  BY <1>2, Pushes!FoldTrace
<1> DEFINE A == {k \in Nat : k <= n => Unstopped(h[k]) /\ h[k].cutter = s.cutter}
<1>5. 0 \in A
  BY <1>4
<1>6. ASSUME NEW k \in Nat, k \in A PROVE k + 1 \in A
  <2> SUFFICES ASSUME k + 1 <= n PROVE Unstopped(h[k + 1]) /\ h[k + 1].cutter = s.cutter
    OBVIOUS
  <2>1. k + 1 \in 1..n /\ (k + 1) - 1 = k /\ Unstopped(h[k]) /\ h[k].cutter = s.cutter
    BY <1>2, <1>6
  <2>2. h[k + 1] = Pushed(h[k], events[k + 1])
    BY <1>4, <2>1
  <2> QED BY <2>1, <2>2, PushedUnstopped
<1> HIDE DEF A
<1>7. n \in A
  BY <1>2, <1>5, <1>6, SetInduction
<1> QED BY <1>2, <1>3, <1>4, <1>7 DEF A

-----------------------------------------------------------------------------
(* What the consumer was given is faithful to what is spoken in full. *)
Faithful(full, stop, c, g, result, over) ==
  /\ Starts(HeldText(g), stop) = {}
  /\ IsPrefix(HeldText(g), Due(full, stop)) \/ Last(g).type = "error"
  /\ result # Null /\ ~Failed(result) => HeldText(g) = Due(full, stop)
  /\ c.cut => FirstStop(full, stop) # Null /\ over

LEMMA FaithfulHonours ==
  ASSUME cutter.stop # {} /\ ~Contradicts /\ ~Failed(whole) =>
           Faithful(SpokenText, cutter.stop, cutter, given, outcome, body # "open")
  PROVE  StopHonoured
BY DEF Faithful, Due, StopHonoured, CutAsSpoken, GivenText, Answered, Over

LEMMA FaithfulHonoursNext ==
  ASSUME UNCHANGED <<answer, whole, carried>>, cutter'.stop = cutter.stop,
         cutter.stop # {} /\ ~Contradicts /\ ~Failed(whole) =>
           Faithful(SpokenText, cutter.stop, cutter', given', outcome', body' # "open")
  PROVE  StopHonoured'
<1>1. SpokenText' = SpokenText
  BY DEF SpokenText
<1>2. Contradicts' <=> Contradicts
  BY DEF Contradicts, Contradicted
<1>3. cutter'.stop # {} /\ ~Contradicts' /\ ~Failed(whole') =>
        Faithful(SpokenText', cutter'.stop, cutter', given', outcome', body' # "open")
  BY <1>1, <1>2
<1> QED BY <1>3 DEF Faithful, Due, StopHonoured, CutAsSpoken, GivenText, Answered, Over

-----------------------------------------------------------------------------
(* While the body is read, with stop sequences: the items come in order,   *)
(* the reader saw what it let be said, and of that the consumer has what   *)
(* the cutter lets go.                                                     *)
Stopping == cutter.stop # {} => answer.dialect = "responses" /\ Stops(cutter.stop)

Heeding ==
  cutter.stop # {} /\ body = "open" =>
    /\ Sequent(answer, sent) /\ Uttered(answer, reader, sent)
    /\ Dry(Pipeline, Spoke(answer, reader), cutter.stop)

StopInv == Told /\ Stopping /\ Heeding /\ (body # "open" => StopHonoured)

(* The tracks of an answer of the Responses wire. *)
LEMMA FramedTracks ==
  ASSUME Scripted, answer.dialect = "responses", NEW n, n = Len(tracks)
  PROVE  /\ n \in Nat /\ n >= 2 /\ DOMAIN tracks = 1..n /\ DOMAIN answer.items = 1..(n - 2)
         /\ \A i \in DOMAIN answer.items :
              tracks[i + 1] = ResponsesFramesOf(answer, i) /\ Len(tracks[i + 1]) = Framed(answer, i)
         /\ tracks[1] = ResponsesOpening(answer) /\ tracks[n] = ResponsesClosing(answer)
         /\ Counted => CountsOf(answer, sent)
<1>1. /\ n \in Nat /\ n >= 2 /\ DOMAIN tracks = 1..n /\ DOMAIN answer.items = 1..(n - 2)
      /\ \A i \in 1..(n - 2) : tracks[i + 1] = FramesOf(answer, i)
      /\ tracks[n] = ClosingOf(answer)
  BY ScriptIs
<1>2. tracks[n] = ResponsesClosing(answer)
  BY <1>1 DEF ClosingOf
<1>3. \A i \in DOMAIN answer.items :
        tracks[i + 1] = ResponsesFramesOf(answer, i) /\ Len(tracks[i + 1]) = Framed(answer, i)
  BY <1>1 DEF FramesOf, Framed
<1>4. tracks[1] = ResponsesOpening(answer)
  <2>1. PICK a, all : a = answer /\ all = tracks
    OBVIOUS
  <2>2. all[1] = OpeningOf(a)
    BY <2>1, TracksAre DEF Scripted
  <2> QED BY <2>1, <2>2 DEF OpeningOf
<1>5. Counted => CountsOf(answer, sent)
  <2> SUFFICES ASSUME Counted, NEW i \in DOMAIN answer.items
               PROVE  sent[i + 1] \in 0..Framed(answer, i)
    BY DEF CountsOf
  <2>1. i + 1 \in DOMAIN tracks
    BY <1>1
  <2> QED BY <1>3, <2>1 DEF Counted
<1> QED BY <1>1, <1>2, <1>3, <1>4, <1>5

(* What was said begins what is spoken in full. *)
LEMMA SpokenFits ==
  ASSUME answer \in Answers, answer.dialect = "responses", Told, ~Failed(whole), ~Contradicts,
         NEW r, RShape(r), NEW counts, CountsOf(answer, counts), Sequent(answer, counts),
         Uttered(answer, r, counts)
  PROVE  /\ Begins(Spoke(answer, r), SpokenText) /\ ASeq(SpokenText)
         /\ (\A i \in DOMAIN answer.items : counts[i + 1] = Framed(answer, i)) =>
              Spoke(answer, r) = SpokenText
<1>1. SpokenText = Full(answer)
  BY FullIsSpoken
<1>2. \A i \in DOMAIN answer.items : Complete(FragmentsOf(answer.items[i]), answer.items[i])
  BY DEF Contradicts, Contradicted, Complete
<1>3. PICK a : a = answer
  OBVIOUS
<1>4. /\ Begins(Spoke(a, r), Full(a)) /\ ASeq(Full(a))
      /\ (\A i \in DOMAIN a.items : counts[i + 1] = Framed(a, i)) => Spoke(a, r) = Full(a)
  BY <1>2, <1>3, SpokeBegins
<1> QED BY <1>1, <1>3, <1>4

(* So what the consumer has is faithful as long as the body is read. *)
LEMMA OpenHonours ==
  ASSUME AnswerInv, StopInv, body = "open", cutter.stop # {}, ~Contradicts, ~Failed(whole),
         NEW result, result = Null \/ Failed(result), NEW over
  PROVE  Faithful(SpokenText, cutter.stop, cutter, given, result, over)
<1>1. /\ Told /\ answer.dialect = "responses" /\ Stops(cutter.stop)
      /\ Sequent(answer, sent) /\ Uttered(answer, reader, sent)
      /\ Dry(Pipeline, Spoke(answer, reader), cutter.stop)
  BY DEF StopInv, Stopping, Heeding
<1>2. Scripted /\ Counted /\ answer \in Answers /\ RShape(reader)
  BY <1>1 DEF AnswerInv, Scripted, Streaming, Reading
<1>3. CountsOf(answer, sent)
  BY <1>1, <1>2, FramedTracks
<1>4. Begins(Spoke(answer, reader), SpokenText) /\ ASeq(SpokenText)
  BY <1>1, <1>2, <1>3, SpokenFits
<1>5. Pipeline.cutter = cutter /\ Pipeline.given = given
  BY DEF Pipeline
<1>6. PICK full, stop, spoken : full = SpokenText /\ stop = cutter.stop
                                /\ spoken = Spoke(answer, reader)
  OBVIOUS
<1>7. Holding(cutter, HeldText(given), spoken, stop) /\ ~cutter.cut
  BY <1>1, <1>5, <1>6 DEF Dry, Holding
<1>8. PICK given0 : given0 = HeldText(given)
  OBVIOUS
<1>9. Starts(given0, stop) = {} /\ IsPrefix(given0, Due(full, stop))
  BY <1>1, <1>4, <1>6, <1>7, <1>8, HoldingIsFaithful
<1> QED BY <1>6, <1>7, <1>8, <1>9 DEF Faithful

LEMMA OpenIsHonoured ==
  ASSUME AnswerInv, StopInv
  PROVE  StopHonoured
<1>1. CASE body # "open"
  BY <1>1 DEF StopInv
<1>2. CASE body = "open"
  <2>1. outcome = Null
    BY <1>2 DEF AnswerInv, Streaming
  <2>2. cutter.stop # {} /\ ~Contradicts /\ ~Failed(whole) =>
          Faithful(SpokenText, cutter.stop, cutter, given, outcome, body # "open")
    BY <1>2, <2>1, OpenHonours
  <2> QED BY <2>2, FaithfulHonours
<1> QED BY <1>1, <1>2

(* Where the flow stops with what the consumer has, and no answer. *)
LEMMA ClosedHonours ==
  ASSUME AnswerInv, StopInv, body = "open", UNCHANGED <<answer, whole, carried>>,
         cutter' = cutter, given' = given, Failed(outcome'), body' # "open"
  PROVE  StopInv'
<1>1. cutter.stop # {} /\ ~Contradicts /\ ~Failed(whole) =>
        Faithful(SpokenText, cutter.stop, cutter', given', outcome', body' # "open")
  BY OpenHonours
<1>2. StopHonoured'
  BY <1>1, FaithfulHonoursNext
<1>3. Told' /\ Stopping'
  BY DEF StopInv, Told, Stopping
<1> QED BY <1>2, <1>3 DEF StopInv, Heeding

-----------------------------------------------------------------------------
(* Without stop sequences no step makes one. *)
LEMMA UnstoppedStays ==
  ASSUME StopInv, UNCHANGED script, cutter'.stop = {}
  PROVE  StopInv'
<1>1. UNCHANGED <<answer, whole, carried>>
  BY DEF script
<1>2. Told'
  BY <1>1 DEF StopInv, Told
<1>3. Stopping' /\ Heeding' /\ StopHonoured'
  BY DEF Stopping, Heeding, StopHonoured
<1> QED BY <1>2, <1>3 DEF StopInv

(* What a frame tells the client. *)
LEMMA SendTakes ==
  ASSUME AnswerInv, NEW t \in DOMAIN tracks, Send(t)
  PROVE  \E x : Took(x) /\ (~Failed(x) => Kin(x.events))
<1>1. PICK n : n = Len(tracks)
  OBVIOUS
<1>2. body = "open" /\ MaySend(t) /\ UNCHANGED script /\ Scripted /\ Counted
      /\ answer \in Answers
  BY DEF Send, AnswerInv, Scripted
<1>3. Reading
  BY <1>2 DEF AnswerInv, Streaming
<1>4. /\ n \in Nat /\ n >= 2 /\ DOMAIN tracks = 1..n
      /\ \A u \in 1..n : /\ ASeq(tracks[u]) /\ Len(tracks[u]) \in Nat
                         /\ DOMAIN tracks[u] = 1..Len(tracks[u])
      /\ \A u \in 1..(n - 1) : \A k \in 1..Len(tracks[u]) :
           Plain(answer.dialect, tracks[u][k])
      /\ tracks[n] = ClosingOf(answer)
  BY <1>1, <1>2, ScriptIs
<1>5. sent[t] \in Nat /\ sent[t] + 1 \in 1..Len(tracks[t])
  BY <1>1, <1>2, SendingIs
<1>6. ASSUME NEW f, Plain(answer.dialect, f), Receive(f)
      PROVE  \E x : Took(x) /\ (~Failed(x) => Kin(x.events))
  <2>1. PICK x : x = Read(f)
    OBVIOUS
  <2>2. ~Failed(x) => Mid(x.events)
    BY <1>2, <1>3, <1>6, <2>1, ReadPlain
  <2>3. Took(x)
    BY <1>6, <2>1 DEF Receive
  <2> QED BY <2>2, <2>3 DEF Mid
<1>7. CASE sent' = [sent EXCEPT ![t] = @ + 1] /\ Receive(tracks[t][sent'[t]])
  <2>1. sent'[t] = sent[t] + 1
    BY <1>1, <1>2, <1>7, CountedOne
  <2>2. PICK k, f : k = sent[t] + 1 /\ f = tracks[t][k]
    OBVIOUS
  <2>3. Receive(f)
    BY <1>7, <2>1, <2>2
  <2>4. CASE t = n
    <3>1. k \in 1..Len(ClosingOf(answer)) /\ f = ClosingOf(answer)[k]
      BY <1>4, <1>5, <2>2, <2>4
    <3>2. PICK x : x = Read(f)
      OBVIOUS
    <3>3. Kin(x.events)
      BY <1>2, <1>3, <3>1, <3>2, ReadClosing
    <3> QED BY <2>3, <3>2, <3>3 DEF Receive
  <2>5. CASE t # n
    <3>1. t \in 1..(n - 1) /\ k \in 1..Len(tracks[t])
      BY <1>4, <1>5, <2>2, <2>5
    <3>2. Plain(answer.dialect, f)
      BY <1>4, <2>2, <3>1
    <3> QED BY <1>6, <2>3, <3>2
  <2> QED BY <2>4, <2>5
<1>8. CASE /\ Joined(t) /\ sent' = [sent EXCEPT ![t] = @ + 1, ![t + 1] = 1]
           /\ Receive(GeminiJoined(Last(tracks[t]), Head(tracks[t + 1])))
  <2>1. t \in 1..(n - 1) /\ t + 1 \in 1..(n - 1) /\ Len(tracks[t + 1]) >= 1
    BY <1>1, <1>2, <1>8, CountedTwo
  <2>2. PICK f, g : f = Last(tracks[t]) /\ g = Head(tracks[t + 1])
    OBVIOUS
  <2>3. f = tracks[t][Len(tracks[t])] /\ g = tracks[t + 1][1]
    BY <2>2 DEF Last
  <2>4. Len(tracks[t]) \in 1..Len(tracks[t]) /\ 1 \in 1..Len(tracks[t + 1])
    BY <1>4, <1>5, <2>1
  <2>5. Plain(answer.dialect, f) /\ Plain(answer.dialect, g)
    BY <1>4, <2>1, <2>3, <2>4
  <2>6. answer.dialect = "gemini"
    BY <1>8 DEF Joined
  <2>7. PICK both : both = GeminiJoined(f, g)
    OBVIOUS
  <2>8. GeminiPlain(both)
    BY <2>5, <2>6, <2>7, JoinedIsPlain DEF Plain
  <2>9. Plain(answer.dialect, both) /\ Receive(both)
    BY <1>8, <2>2, <2>6, <2>7, <2>8 DEF Plain
  <2> QED BY <1>6, <2>9
<1> QED BY <1>7, <1>8 DEF Send

LEMMA PipelineIs ==
  ASSUME AnswerInv, body = "open", NEW s, s = Pipeline
  PROVE  /\ Flow(s) /\ PShape(s) /\ Order(s.given) /\ ASeq(s.given)
         /\ CShape(s.coalescer) /\ KShape(s.cutter)
         /\ s.coalescer = coalescer /\ s.cutter = cutter /\ s.given = given
         /\ s.accumulator = accumulator /\ s.outcome = Null
<1>1. Flow(s) /\ outcome = Null
  BY DEF AnswerInv, Streaming
<1>2. Order(s.given) => ASeq(s.given)
  BY DEF Order
<1> QED BY <1>1, <1>2 DEF Pipeline, Flow, Line

LEMMA SendUnstopped ==
  ASSUME AnswerInv, NEW t \in DOMAIN tracks, Send(t), cutter.stop = {}
  PROVE  cutter'.stop = {}
<1>1. body = "open"
  BY DEF Send
<1>2. PICK x : Took(x) /\ (~Failed(x) => Kin(x.events))
  BY SendTakes
<1>3. PICK s : s = Pipeline
  OBVIOUS
<1>4. PShape(s) /\ s.cutter = cutter
  BY <1>1, <1>3, PipelineIs
<1>5. CASE Failed(x)
  <2>1. PICK q : q = [s EXCEPT !.outcome = x]
    OBVIOUS
  <2>2. Settle(q)
    BY <1>2, <1>3, <1>5, <2>1 DEF Took
  <2>3. q.cutter = s.cutter
    BY <1>4, <2>1 DEF PShape
  <2> QED BY <1>4, <2>2, <2>3 DEF Settle, Becomes
<1>6. CASE ~Failed(x)
  <2>1. PICK r, events : events = x.events /\ Pushing(s, events, r) /\ Settle(r)
    BY <1>2, <1>3, <1>6, Zenon DEF Took, Pushing
  <2>2. ASeq(events)
    BY <1>2, <1>6, <2>1 DEF Kin
  <2>3. Unstopped(s)
    BY <1>4 DEF Unstopped
  <2>4. r.cutter = s.cutter
    BY <2>1, <2>2, <2>3, PushedAllUnstopped
  <2> QED BY <1>4, <2>1, <2>4 DEF Settle, Becomes
<1> QED BY <1>5, <1>6

LEMMA SendErrorUnstopped ==
  ASSUME AnswerInv, SendError, cutter.stop = {}
  PROVE  cutter'.stop = {}
<1>1. body = "open"
  BY DEF SendError
<1>2. PICK s, r : s = Pipeline /\ r = Pushed(s, ErrorEvent)
  OBVIOUS
<1>3. PShape(s) /\ s.cutter = cutter
  BY <1>1, <1>2, PipelineIs
<1>4. Unstopped(s)
  BY <1>3 DEF Unstopped
<1>5. r.cutter = s.cutter
  BY <1>2, <1>4, PushedUnstopped
<1>6. cutter' = r.cutter
  BY <1>2 DEF SendError, Becomes
<1> QED BY <1>3, <1>5, <1>6

LEMMA EndBodyUnstopped ==
  ASSUME AnswerInv, EndBody, cutter.stop = {}
  PROVE  cutter'.stop = {}
<1>1. body = "open"
  BY DEF EndBody
<1>2. PICK s : s = Pipeline
  OBVIOUS
<1>3. PShape(s) /\ s.cutter = cutter /\ s.coalescer = coalescer
  BY <1>1, <1>2, PipelineIs
<1>4. PICK r, out : /\ out = EmittedLast(coalescer, Requested) /\ r = FoldLeft(Cut, s, out)
                    /\ Becomes(OrIncomplete(r))
  BY <1>2, Zenon DEF EndBody
<1>5. ASeq(out)
  <2>1. PICK first, one : /\ first = Optional(~coalescer.started, Start(Requested))
                          /\ one = <<End(coalescer.finish, coalescer.usage, coalescer.data)>>
    OBVIOUS
  <2>2. ASeq(first) /\ ASeq(one)
    BY <2>1, Short DEF Optional
  <2>3. ASeq(first \o one)
    BY <2>2, Concatenated
  <2> QED BY <1>4, <2>1, <2>3, Short DEF EmittedLast
<1>6. r = Cuts!Folded(s, out)
  BY <1>4, Zenon DEF FoldLeft, MapThenFoldSet, Max, Cuts!Folded, Cuts!FoldLeft,
     Cuts!MapThenFoldSet, Cuts!Max
<1>7. Unstopped(s)
  BY <1>3 DEF Unstopped
<1>8. Unstopped(r) /\ r.cutter = s.cutter
  BY <1>5, <1>6, <1>7, CutsUnstopped
<1>9. PICK q : q = OrIncomplete(r)
  OBVIOUS
<1>10. q.cutter = r.cutter
  BY <1>8, <1>9 DEF OrIncomplete, Unstopped, PShape
<1> QED BY <1>3, <1>4, <1>8, <1>9, <1>10 DEF Becomes

-----------------------------------------------------------------------------
(* What is said of a frame that is sent. *)
Uttering(a, r, x, next) ==
  /\ RShape(x.reader) /\ CountsOf(a, next) /\ Sequent(a, next) /\ Uttered(a, x.reader, next)
  /\ \E text : /\ Voicing(x.events, text) /\ ASeq(text)
               /\ Joins(Spoke(a, x.reader), Spoke(a, r), text)

(* A frame that says nothing, of the opening or of the closing. *)
LEMMA SilentUtters ==
  ASSUME NEW a \in Answers, a.dialect = "responses", NEW r, RShape(r), NEW counts,
         Uttered(a, r, counts), NEW next, CountsOf(a, next), Sequent(a, next),
         \A i \in DOMAIN a.items : next[i + 1] = counts[i + 1],
         NEW x, x.reader = r, NEW e, x.events = <<e>>, Sound(e), e.type \notin {"error", "text"}
  PROVE  Uttering(a, r, x, next)
<1>1. Uttered(a, r, next)
  BY DEF Uttered
<1>2. Voicing(x.events, <<>>)
  <2>1. Saying(e) = <<>>
    BY DEF Saying, IsText
  <2>2. Voicing(<<e>>, Saying(e))
    BY VoicesAre
  <2> QED BY <2>1, <2>2
<1>3. ASeq(<<>>)
  BY Short
<1>4. Joins(Spoke(a, r), Spoke(a, r), <<>>)
  <2>1. PICK spoke : spoke = Spoke(a, r)
    OBVIOUS
  <2>2. Rows(Voiced(a, r))
    BY VoicedRows
  <2>3. ASeq(spoke)
    <3>1. PICK rows : rows = Voiced(a, r)
      OBVIOUS
    <3>2. ASeq(FlattenSeq(rows))
      BY <2>2, <3>1, FlatIsASeq DEF Rows
    <3> QED BY <2>1, <3>1, <3>2 DEF Spoke
  <2>4. spoke \o <<>> = spoke
    BY <2>3, NothingAdded
  <2> QED BY <2>1, <2>4 DEF Joins
<1> QED BY <1>1, <1>2, <1>3, <1>4 DEF Uttering

(* Frames are sent in order, but for those of calls. *)
LEMMA SequentSends ==
  ASSUME Scripted, Counted, answer.dialect = "responses", Sequent(answer, sent),
         NEW t \in DOMAIN tracks, MaySend(t), sent' = [sent EXCEPT ![t] = @ + 1],
         UNCHANGED script
  PROVE  CountsOf(answer, sent') /\ Sequent(answer, sent')
<1>1. PICK n, a, c, d : n = Len(tracks) /\ a = answer /\ c = sent /\ d = sent'
  OBVIOUS
<1>2. /\ n \in Nat /\ n >= 2 /\ DOMAIN tracks = 1..n /\ DOMAIN a.items = 1..(n - 2)
      /\ \A i \in DOMAIN a.items : Len(tracks[i + 1]) = Framed(a, i)
      /\ CountsOf(a, c)
  BY <1>1, FramedTracks
<1>3. c[t] \in Nat /\ c[t] + 1 \in 1..Len(tracks[t])
  BY <1>1, SendingIs
<1>4. d[t] = c[t] + 1 /\ \A u \in 1..n : u # t => d[u] = c[u]
  BY <1>1, CountedOne
<1>5. \A i \in DOMAIN a.items : i \in Nat /\ i + 1 \in 1..n
  BY <1>2
<1>6. ASSUME NEW i \in DOMAIN a.items PROVE d[i + 1] \in 0..Framed(a, i)
  <2>1. CASE i + 1 = t
    BY <1>2, <1>3, <1>4, <1>6, <2>1
  <2>2. CASE i + 1 # t
    BY <1>2, <1>4, <1>5, <1>6, <2>2 DEF CountsOf
  <2> QED BY <2>1, <2>2
<1>7. ASSUME NEW i \in DOMAIN a.items, NEW j \in DOMAIN a.items, i < j, d[j + 1] > 0
      PROVE  \/ d[i + 1] = Framed(a, i)
             \/ a.items[i].kind = "tool_call" /\ a.items[j].kind = "tool_call"
  <2>1. i \in Nat /\ j \in Nat /\ i + 1 \in 1..n /\ j + 1 \in 1..n /\ i + 1 # j + 1
        /\ i + 1 \in 1..((j + 1) - 1)
    BY <1>5, <1>7
  <2>2. CASE j + 1 = t
    <3>1. TrackSent(i + 1) \/ Parallel(t, i + 1)
      BY <2>1, <2>2 DEF MaySend
    <3>2. ASSUME TrackSent(i + 1) PROVE d[i + 1] = Framed(a, i)
      <4>1. c[i + 1] = Framed(a, i)
        BY <1>1, <1>2, <3>2 DEF TrackSent
      <4> QED BY <1>4, <2>1, <2>2, <4>1
    <3>3. ASSUME Parallel(t, i + 1)
          PROVE  a.items[i].kind = "tool_call" /\ a.items[j].kind = "tool_call"
      <4>1. t - 1 = j /\ (i + 1) - 1 = i
        BY <2>1, <2>2
      <4> QED BY <1>1, <3>3, <4>1 DEF Parallel
    <3> QED BY <3>1, <3>2, <3>3
  <2>3. CASE j + 1 # t
    <3>1. c[j + 1] > 0
      BY <1>4, <1>7, <2>1, <2>3
    <3>2. \/ c[i + 1] = Framed(a, i)
          \/ a.items[i].kind = "tool_call" /\ a.items[j].kind = "tool_call"
      BY <1>1, <1>7, <3>1 DEF Sequent
    <3>3. CASE i + 1 = t
      <4>1. Len(tracks[t]) = Framed(a, i) /\ c[t] # Len(tracks[t])
        BY <1>1, <1>2, <3>3 DEF MaySend, TrackSent
      <4> QED BY <3>2, <3>3, <4>1
    <3>4. CASE i + 1 # t
      BY <1>4, <2>1, <3>2, <3>4
    <3> QED BY <3>3, <3>4
  <2> QED BY <2>2, <2>3
<1>8. CountsOf(a, d)
  BY <1>6 DEF CountsOf
<1>9. Sequent(a, d)
  BY <1>7 DEF Sequent
<1> QED BY <1>1, <1>8, <1>9

(* Of every frame that is read. *)
LEMMA SendUtters ==
  ASSUME AnswerInv, answer.dialect = "responses", Sequent(answer, sent),
         Uttered(answer, reader, sent), NEW t \in DOMAIN tracks, Send(t)
  PROVE  \E x : /\ Took(x) /\ (~Failed(x) => Uttering(answer, reader, x, sent'))
                /\ Failed(x) => x = Failure("contradiction")
<1>1. PICK n, a, r, c, d : n = Len(tracks) /\ a = answer /\ r = reader /\ c = sent /\ d = sent'
  OBVIOUS
<1>2. body = "open" /\ MaySend(t) /\ UNCHANGED script /\ Scripted /\ Counted /\ a \in Answers
  BY <1>1 DEF Send, AnswerInv, Scripted
<1>3. Reading /\ RShape(r)
  BY <1>1, <1>2 DEF AnswerInv, Streaming, Reading
<1>4. /\ n \in Nat /\ n >= 2 /\ DOMAIN tracks = 1..n /\ DOMAIN a.items = 1..(n - 2)
      /\ \A i \in DOMAIN a.items :
           tracks[i + 1] = ResponsesFramesOf(a, i) /\ Len(tracks[i + 1]) = Framed(a, i)
      /\ tracks[1] = ResponsesOpening(a) /\ tracks[n] = ResponsesClosing(a)
      /\ CountsOf(a, c)
  BY <1>1, <1>2, FramedTracks
<1>5. /\ \A u \in 1..(n - 1) : \A k \in 1..Len(tracks[u]) :
           Plain(answer.dialect, tracks[u][k])
      /\ tracks[n] = ClosingOf(answer)
  BY <1>1, <1>2, ScriptIs
<1>6. sent' = [sent EXCEPT ![t] = @ + 1] /\ Receive(tracks[t][sent'[t]])
  BY DEF Send, Joined
<1>7. c[t] \in Nat /\ c[t] + 1 \in 1..Len(tracks[t])
  BY <1>1, <1>2, SendingIs
<1>8. d[t] = c[t] + 1 /\ \A u \in 1..n : u # t => d[u] = c[u]
  BY <1>1, <1>2, <1>6, CountedOne
<1>9. CountsOf(a, d) /\ Sequent(a, d)
  BY <1>1, <1>2, <1>6, SequentSends
<1>10. Sequent(a, c) /\ Uttered(a, r, c) /\ a.dialect = "responses"
  BY <1>1
<1>11. PICK k, f, x : k = c[t] + 1 /\ f = tracks[t][k] /\ x = Read(f)
  OBVIOUS
<1>12. Took(x) /\ x = ResponsesFeed(r, f)
  BY <1>1, <1>6, <1>8, <1>11 DEF Receive, Read
<1>17. Failed(x) => x = Failure("contradiction")
  <2>1. CASE t = n
    BY <1>1, <1>2, <1>3, <1>5, <1>7, <1>11, <2>1, ReadClosing
  <2>2. CASE t # n
    <3>1. t \in 1..(n - 1) /\ k \in 1..Len(tracks[t])
      BY <1>4, <1>7, <1>11, <2>2
    <3>2. Plain(answer.dialect, f)
      BY <1>5, <1>11, <3>1
    <3> QED BY <1>1, <1>2, <1>3, <1>11, <3>2, ReadPlain
  <2> QED BY <2>1, <2>2
<1> SUFFICES ASSUME ~Failed(x) PROVE Uttering(a, r, x, d)
  BY <1>1, <1>12, <1>17
<1>13. \A i \in DOMAIN a.items : i \in Nat /\ i + 1 \in 1..n /\ i + 1 # n /\ i + 1 # 1
  BY <1>4
<1>14. CASE t = n
  <2>1. PICK g, e : /\ g = [type |-> "completed", index |-> 0, response |-> a]
                    /\ e = End(ResponsesFinish(a.finish, HasFunctionCall(a.items)),
                               UsageOfResponse(a.usage), "usage")
    OBVIOUS
  <2>2. tracks[n] = <<g>>
    BY <1>4, <2>1 DEF ResponsesClosing
  <2>3. Len(tracks[n]) = 1 /\ tracks[n][1] = g
    BY <2>2, Short
  <2>4. f = g
    BY <1>7, <1>11, <1>14, <2>3
  <2>5. ResponsesEvents(g) = <<e>>
    BY <2>1 DEF ResponsesEvents
  <2>6. k \in 1..Len(ClosingOf(answer)) /\ f = ClosingOf(answer)[k]
    BY <1>5, <1>7, <1>11, <1>14
  <2>7. x.reader = r
    BY <1>1, <1>2, <1>3, <1>11, <2>6, ReadClosing
  <2>8. x.events = <<e>>
    <3>1. PICK es : es = ResponsesEvents(g)
      OBVIOUS
    <3>2. g.type = "completed"
      BY <2>1
    <3>3. x = [events |-> es, reader |-> r]
      BY <1>12, <2>4, <3>1, <3>2 DEF ResponsesFeed
    <3> QED BY <2>5, <3>1, <3>3
  <2>9. Sound(e) /\ e.type = "end"
    BY <2>1, Sounds DEF End
  <2>10. \A i \in DOMAIN a.items : d[i + 1] = c[i + 1]
    BY <1>8, <1>13, <1>14
  <2> QED BY <1>2, <1>3, <1>9, <1>10, <2>7, <2>8, <2>9, <2>10, SilentUtters
<1>15. CASE t = 1
  <2>1. PICK g, e : /\ g = [type |-> "created", index |-> 0, model |-> a.model]
                    /\ e = Start(a.model)
    OBVIOUS
  <2>2. tracks[1] = <<g>>
    BY <1>4, <2>1 DEF ResponsesOpening
  <2>3. Len(tracks[1]) = 1 /\ tracks[1][1] = g
    BY <2>2, Short
  <2>4. f = g
    BY <1>7, <1>11, <1>15, <2>3
  <2>5. ResponsesEvents(g) = <<e>>
    BY <2>1 DEF ResponsesEvents
  <2>6. x.events = <<e>> /\ x.reader = r
    <3>1. PICK es : es = ResponsesEvents(g)
      OBVIOUS
    <3>2. g.type = "created"
      BY <2>1
    <3>3. x = [events |-> es, reader |-> r]
      BY <1>12, <2>4, <3>1, <3>2 DEF ResponsesFeed
    <3> QED BY <2>5, <3>1, <3>3
  <2>7. Sound(e) /\ e.type = "start"
    BY <2>1, Sounds DEF Start
  <2>8. \A i \in DOMAIN a.items : d[i + 1] = c[i + 1]
    BY <1>8, <1>13, <1>15
  <2> QED BY <1>2, <1>3, <1>9, <1>10, <2>6, <2>7, <2>8, SilentUtters
<1>16. CASE t # 1 /\ t # n
  <2>1. PICK j : j = t - 1
    OBVIOUS
  <2>2. j \in DOMAIN a.items /\ j + 1 = t /\ t \in 1..(n - 1) /\ k \in 1..Len(tracks[t])
    BY <1>4, <1>7, <1>11, <1>16, <2>1
  <2>3. Plain(answer.dialect, f)
    BY <1>5, <1>11, <2>2
  <2>4. RShape(x.reader)
    BY <1>1, <1>2, <1>3, <1>11, <2>3, ReadPlain
  <2>5. f = ResponsesFramesOf(a, j)[c[j + 1] + 1]
    BY <1>4, <1>11, <2>2
  <2>6. c[j + 1] < Framed(a, j)
    <3>1. c[t] \in Nat /\ c[t] + 1 \in 1..Framed(a, j)
      BY <1>4, <1>7, <2>2
    <3>2. Framed(a, j) \in Nat
      BY <1>2, <1>10, <2>2, Fragmental
    <3>3. c[t] < Framed(a, j)
      BY <3>1, <3>2
    <3> QED BY <2>2, <3>3
  <2>7. d[j + 1] = c[j + 1] + 1 /\ \A i \in DOMAIN a.items : i # j => d[i + 1] = c[i + 1]
    <3>1. \A i \in DOMAIN a.items : i # j => i + 1 # t
      BY <1>13, <2>2
    <3> QED BY <1>8, <1>13, <2>2, <3>1
  <2>8. /\ Uttered(a, x.reader, d)
        /\ \E text : /\ Voicing(x.events, text) /\ ASeq(text)
                     /\ Joins(Spoke(a, x.reader), Spoke(a, r), text)
    <3>1. a \in Answers /\ a.dialect = "responses" /\ RShape(r)
      BY <1>2, <1>3, <1>10
    <3>2. CountsOf(a, c) /\ Sequent(a, c) /\ Uttered(a, r, c)
      BY <1>4, <1>10
    <3>3. j \in DOMAIN a.items /\ x = ResponsesFeed(r, f)
      BY <1>12, <2>2
    <3> QED BY <2>4, <2>5, <2>6, <2>7, <3>1, <3>2, <3>3, FrameUttered
  <2> QED BY <1>9, <2>4, <2>8 DEF Uttering
<1> QED BY <1>14, <1>15, <1>16

-----------------------------------------------------------------------------
(* The steps of the client, with stop sequences. *)

(* What the cutter heeds after the step is the same of the pipeline. *)
LEMMA DryOfFields ==
  ASSUME NEW r, NEW spoken, NEW stop, Dry(r, spoken, stop), NEW s, PShape(s),
         s.cutter = r.cutter, s.given = r.given, s.outcome = r.outcome
  PROVE  Dry(s, spoken, stop)
BY DEF Dry

(* A cut leaves what is due. *)
LEMMA HaltedHonours ==
  ASSUME NEW stop, Stops(stop), NEW s, NEW spoken, Halted(s, spoken, stop),
         NEW full, ASeq(full), Begins(spoken, full), NEW result
  PROVE  Faithful(full, stop, s.cutter, s.given, result, TRUE)
<1>1. PICK given0 : given0 = HeldText(s.given)
  OBVIOUS
<1>2. ASeq(spoken) /\ Halving(given0, spoken, stop)
  BY <1>1 DEF Halted
<1>3. /\ Starts(given0, stop) = {} /\ FirstStop(full, stop) # Null
      /\ given0 = Due(full, stop) /\ ASeq(given0)
  BY <1>2, HalvingIsFaithful
<1>4. Begins(given0, given0)
  BY <1>3, SeqLen DEF Begins
<1>5. IsPrefix(given0, given0)
  BY <1>3, <1>4, BeginningIs
<1> QED BY <1>1, <1>3, <1>5 DEF Faithful

(* A frame sent is heeded. *)
LEMMA SendStops ==
  ASSUME AnswerInv, StopInv, NEW t \in DOMAIN tracks, Send(t), cutter.stop # {}
  PROVE  StopInv'
<1>1. PICK s, stop, spoken : s = Pipeline /\ stop = cutter.stop /\ spoken = Spoke(answer, reader)
  OBVIOUS
<1>2. body = "open" /\ UNCHANGED <<answer, whole, carried>> /\ answer \in Answers
  BY DEF Send, script, AnswerInv, Scripted
<1>3. /\ Flow(s) /\ PShape(s) /\ s.cutter = cutter /\ s.given = given
  BY <1>1, <1>2, PipelineIs
<1>4. /\ Told /\ answer.dialect = "responses" /\ Stops(stop) /\ stop # {}
      /\ Sequent(answer, sent) /\ Uttered(answer, reader, sent)
      /\ Dry(s, spoken, stop)
  BY <1>1, <1>2 DEF StopInv, Stopping, Heeding
<1>5. PICK x : /\ Took(x) /\ (~Failed(x) => Uttering(answer, reader, x, sent'))
               /\ Failed(x) => x = Failure("contradiction")
  BY <1>4, SendUtters
<1>6. CASE Failed(x)
  <2>1. PICK q : q = [s EXCEPT !.outcome = x]
    OBVIOUS
  <2>2. q.cutter = cutter /\ q.given = given /\ q.outcome = x
    BY <1>3, <2>1 DEF PShape
  <2>3. Settle(q)
    BY <1>1, <1>5, <1>6, <2>1 DEF Took
  <2>4. x # Null
    BY <1>5, <1>6, FailureIsSome
  <2>5. cutter' = cutter /\ given' = given /\ outcome' = x /\ body' # "open"
    BY <2>2, <2>3, <2>4 DEF Settle, Becomes
  <2> QED BY <1>2, <1>6, <2>5, ClosedHonours
<1>7. CASE ~Failed(x)
  <2>1. PICK r, events : /\ events = x.events /\ Pushing(s, events, r)
                         /\ Settle(r) /\ reader' = x.reader
    BY <1>1, <1>5, <1>7, Zenon DEF Took, Pushing
  <2>2. PICK next, fed : next = Spoke(answer, fed) /\ fed = x.reader
    OBVIOUS
  <2>3. /\ RShape(fed) /\ CountsOf(answer, sent') /\ Sequent(answer, sent')
        /\ Uttered(answer, fed, sent')
    BY <1>5, <1>7, <2>2 DEF Uttering
  <2>4. PICK text : Voicing(events, text) /\ ASeq(text) /\ Joins(next, spoken, text)
    BY <1>1, <1>5, <1>7, <2>1, <2>2 DEF Uttering
  <2>5. Heeded(r, next, stop)
    <3>1. Heeded(s, spoken, stop)
      BY <1>4 DEF Heeded
    <3>2. Kin(events) /\ HeldText(events) = text
      BY <2>4 DEF Voicing
    <3>3. \A i \in DOMAIN events : events[i].type # "error"
      BY <2>4 DEF Voicing
    <3>4. Joins(next, spoken, HeldText(events))
      BY <2>4, <3>2
    <3> QED BY <1>3, <1>4, <2>1, <3>1, <3>2, <3>3, <3>4, PushedAllHeeds
  <2>6. /\ coalescer' = r.coalescer /\ cutter' = r.cutter /\ accumulator' = r.accumulator
        /\ given' = r.given /\ outcome' = r.outcome
        /\ body' = IF r.outcome = Null /\ ~r.cutter.cut THEN "open" ELSE "closed"
    BY <2>1 DEF Settle, Becomes
  <2>7. Told'
    BY <1>2, <1>4 DEF Told
  <2>8. CASE Dry(r, next, stop)
    <3>1. r.outcome = Null /\ ~r.cutter.cut /\ r.cutter.stop = stop
      BY <2>8 DEF Dry, Holding
    <3>2. PICK q : q = Pipeline'
      OBVIOUS
    <3>3. PShape(q) /\ q.cutter = r.cutter /\ q.given = r.given /\ q.outcome = r.outcome
      BY <2>6, <3>2 DEF Pipeline, PShape
    <3>4. Dry(q, next, stop)
      BY <2>8, <3>3, DryOfFields
    <3>5. cutter'.stop = stop /\ body' = "open"
      BY <2>6, <3>1
    <3>6. Stopping'
      BY <1>2, <1>4, <3>5 DEF Stopping
    <3>7. Spoke(answer', reader') = next
      BY <1>2, <2>1, <2>2
    <3>8. Sequent(answer', sent') /\ Uttered(answer', reader', sent')
      BY <1>2, <2>1, <2>2, <2>3
    <3>9. Heeding'
      BY <3>2, <3>4, <3>5, <3>7, <3>8 DEF Heeding
    <3> QED BY <2>7, <3>5, <3>6, <3>9 DEF StopInv
  <2>9. CASE Halted(r, next, stop)
    <3>1. cutter'.stop = stop /\ body' # "open"
      BY <2>6, <2>9 DEF Halted
    <3>2. ASSUME ~Contradicts, ~Failed(whole)
          PROVE  Faithful(SpokenText, stop, cutter', given', outcome', TRUE)
      <4>1. Begins(next, SpokenText) /\ ASeq(SpokenText)
        BY <1>2, <1>4, <2>2, <2>3, <3>2, SpokenFits
      <4>2. PICK full : full = SpokenText
        OBVIOUS
      <4>3. Faithful(full, stop, r.cutter, r.given, outcome', TRUE)
        BY <1>4, <2>9, <4>1, <4>2, HaltedHonours
      <4> QED BY <2>6, <4>2, <4>3
    <3>3. StopHonoured'
      <4>1. body' # "open" <=> TRUE
        BY <3>1
      <4>2. cutter.stop # {} /\ ~Contradicts /\ ~Failed(whole) =>
              Faithful(SpokenText, cutter.stop, cutter', given', outcome', body' # "open")
        BY <1>1, <3>1, <3>2 DEF Faithful
      <4> QED BY <1>1, <1>2, <3>1, <4>2, FaithfulHonoursNext
    <3>4. Stopping'
      BY <1>2, <1>4, <3>1 DEF Stopping
    <3> QED BY <2>7, <3>1, <3>3, <3>4 DEF StopInv, Heeding
  <2> QED BY <2>5, <2>8, <2>9 DEF Heeded
<1> QED BY <1>6, <1>7

(* Where the last event let go of what was held. *)
LEMMA LastHonours ==
  ASSUME NEW stop, Stops(stop), stop # {}, NEW s, NEW spoken, Dry(s, spoken, stop),
         NEW e, Final(e), NEW r, r = Cut(s, e),
         NEW full, ASeq(full), Begins(spoken, full), NEW result,
         \/ full = spoken
         \/ e.type = "error" /\ (result = Null \/ Failed(result))
  PROVE  Faithful(full, stop, r.cutter, r.given, result, TRUE)
<1>1. /\ PShape(r) /\ ~r.cutter.cut /\ r.cutter.stop = stop
      /\ HeldText(r.given) = spoken
      /\ r.given # <<>> /\ r.given[Len(r.given)] = e
  BY LastHeeds
<1>2. Starts(spoken, stop) = {}
  BY DEF Dry, Holding
<1>3. Last(r.given) = e
  BY <1>1 DEF Last
<1>4. CASE full = spoken
  <2>1. FirstStop(full, stop) = Null
    <3>1. PICK hit : hit = FirstStop(full, stop)
      OBVIOUS
    <3>2. hit = Null
      BY <1>2, <1>4, <3>1, FirstStopIs
    <3> QED BY <3>1, <3>2
  <2>2. Due(full, stop) = full
    BY <2>1 DEF Due
  <2>3. Begins(full, full)
    BY SeqLen DEF Begins
  <2>4. IsPrefix(full, full)
    BY <2>3, BeginningIs
  <2> QED BY <1>1, <1>2, <1>4, <2>2, <2>4 DEF Faithful
<1>5. CASE e.type = "error" /\ (result = Null \/ Failed(result))
  BY <1>1, <1>2, <1>3, <1>5 DEF Faithful
<1> QED BY <1>4, <1>5

(* What is known of the flow while it is read. *)
LEMMA Reads ==
  ASSUME AnswerInv, StopInv, body = "open", cutter.stop # {}, NEW s, s = Pipeline,
         NEW stop, stop = cutter.stop, NEW spoken, spoken = Spoke(answer, reader)
  PROVE  /\ Told /\ answer.dialect = "responses" /\ Stops(stop) /\ stop # {}
         /\ Dry(s, spoken, stop)
         /\ ~Contradicts /\ ~Failed(whole) =>
              /\ Begins(spoken, SpokenText) /\ ASeq(SpokenText)
              /\ ItemsSent => SpokenText = spoken
<1>1. /\ Told /\ answer.dialect = "responses" /\ Stops(stop) /\ stop # {}
      /\ Sequent(answer, sent) /\ Uttered(answer, reader, sent)
      /\ Dry(s, spoken, stop)
  BY DEF StopInv, Stopping, Heeding
<1>2. Scripted /\ Counted /\ answer \in Answers /\ RShape(reader)
  BY <1>1 DEF AnswerInv, Scripted, Streaming, Reading
<1>3. PICK n : n = Len(tracks)
  OBVIOUS
<1>4. /\ n \in Nat /\ n >= 2 /\ DOMAIN answer.items = 1..(n - 2)
      /\ \A i \in DOMAIN answer.items : Len(tracks[i + 1]) = Framed(answer, i)
      /\ CountsOf(answer, sent)
  BY <1>1, <1>2, <1>3, FramedTracks
<1>5. ItemsSent => \A i \in DOMAIN answer.items : sent[i + 1] = Framed(answer, i)
  <2> SUFFICES ASSUME ItemsSent, NEW i \in DOMAIN answer.items
               PROVE  sent[i + 1] = Framed(answer, i)
    OBVIOUS
  <2>1. i + 1 \in 1..(n - 1)
    BY <1>4
  <2>2. sent[i + 1] = Len(tracks[i + 1])
    BY <1>3, <2>1 DEF ItemsSent, TrackSent
  <2> QED BY <1>4, <2>2
<1>6. ASSUME ~Contradicts, ~Failed(whole)
      PROVE  /\ Begins(Spoke(answer, reader), SpokenText) /\ ASeq(SpokenText)
             /\ (\A i \in DOMAIN answer.items : sent[i + 1] = Framed(answer, i)) =>
                  Spoke(answer, reader) = SpokenText
  BY <1>1, <1>2, <1>4, <1>6, SpokenFits
<1> QED BY <1>1, <1>5, <1>6

(* An error of the server is. *)
LEMMA SendErrorStops ==
  ASSUME AnswerInv, StopInv, SendError, cutter.stop # {}
  PROVE  StopInv'
<1>1. PICK s, stop, spoken, e :
        s = Pipeline /\ stop = cutter.stop /\ spoken = Spoke(answer, reader) /\ e = ErrorEvent
  OBVIOUS
<1>2. body = "open" /\ body' # "open" /\ UNCHANGED <<answer, whole, carried>>
  BY DEF SendError, script
<1>3. PICK r : r = Pushed(s, e) /\ Becomes(r)
  BY <1>1 DEF SendError
<1>4. /\ Told /\ answer.dialect = "responses" /\ Stops(stop) /\ stop # {}
      /\ Dry(s, spoken, stop)
      /\ ~Contradicts /\ ~Failed(whole) => Begins(spoken, SpokenText) /\ ASeq(SpokenText)
  BY <1>1, <1>2, Reads
<1>5. PICK base : base = [s EXCEPT !.coalescer = Coalesced(@, e)]
  OBVIOUS
<1>6. Dry(base, spoken, stop)
  <2>1. /\ PShape(base) /\ base.cutter = s.cutter /\ base.given = s.given
        /\ base.outcome = s.outcome
    BY <1>4, <1>5 DEF Dry, PShape
  <2> QED BY <1>4, <2>1, DryOfFields
<1>7. e.type = "error" /\ Final(e)
  BY <1>1 DEF ErrorEvent, Final
<1>8. r = Cut(base, e)
  <2>1. PICK out : out = Emitted(s.coalescer, e, Requested)
    OBVIOUS
  <2>2. r = Cuts!Folded(base, out)
    BY <1>3, <1>5, <2>1, PushedIs
  <2>3. out = <<e>>
    BY <1>7, <2>1, EmittedIs
  <2> QED BY <2>2, <2>3, Cuts!FoldOfOne
<1>9. cutter' = r.cutter /\ given' = r.given
  BY <1>3 DEF Becomes
<1>10. /\ r.cutter.stop = stop /\ r.given # <<>> /\ r.given[Len(r.given)] = e
  BY <1>4, <1>6, <1>7, <1>8, LastHeeds
<1>11. outcome' = Null \/ Failed(outcome')
  <2>1. Concluded'
    BY SendErrorKeeps DEF AnswerInv
  <2>2. ~Ended(given')
    BY <1>7, <1>9, <1>10 DEF Ended
  <2> QED BY <1>2, <2>1, <2>2 DEF Concluded, Answered
<1>12. ASSUME ~Contradicts, ~Failed(whole)
       PROVE  Faithful(SpokenText, stop, cutter', given', outcome', TRUE)
  <2>1. PICK full, result : full = SpokenText /\ result = outcome'
    OBVIOUS
  <2>2. Begins(spoken, full) /\ ASeq(full)
    BY <1>4, <1>12, <2>1
  <2>3. result = Null \/ Failed(result)
    BY <1>11, <2>1
  <2>4. Faithful(full, stop, r.cutter, r.given, result, TRUE)
    BY <1>4, <1>6, <1>7, <1>8, <2>2, <2>3, LastHonours
  <2> QED BY <1>9, <2>1, <2>4
<1>13. cutter.stop # {} /\ ~Contradicts /\ ~Failed(whole) =>
         Faithful(SpokenText, cutter.stop, cutter', given', outcome', body' # "open")
  BY <1>1, <1>2, <1>12 DEF Faithful
<1>14. cutter'.stop = cutter.stop
  BY <1>1, <1>9, <1>10
<1>15. StopHonoured'
  BY <1>2, <1>13, <1>14, FaithfulHonoursNext
<1>16. Told' /\ Stopping'
  BY <1>1, <1>2, <1>4, <1>14 DEF Told, Stopping
<1> QED BY <1>2, <1>15, <1>16 DEF StopInv, Heeding

(* What follows the body is an end, after a start if there was none. *)
Following(s, c, r) == r = FoldLeft(Cut, s, EmittedLast(c, Requested))

LEMMA EndIsCut ==
  ASSUME NEW s, CShape(s.coalescer), NEW c, c = s.coalescer,
         NEW e, e = End(c.finish, c.usage, c.data), NEW x, x = Start(Requested),
         NEW r, Following(s, c, r)
  PROVE  r = IF c.sawEnd THEN IF c.started THEN Cut(s, e) ELSE Cut(Cut(s, x), e) ELSE s
<1>1. EmittedLast(c, Requested) =
        IF c.sawEnd THEN IF c.started THEN <<e>> ELSE <<x>> \o <<e>> ELSE <<>>
  <2>1. <<>> \o <<e>> = <<e>>
    OBVIOUS
  <2> QED BY <2>1 DEF EmittedLast, Optional, CShape
<1>2. r = Cuts!Folded(s, EmittedLast(c, Requested))
  BY Zenon DEF Following, FoldLeft, MapThenFoldSet, Max, Cuts!Folded, Cuts!FoldLeft,
     Cuts!MapThenFoldSet, Cuts!Max
<1>3. Lasting(s, x, e)
  BY CutsAre
<1> QED BY <1>1, <1>2, <1>3 DEF Lasting

(* The end of the body is heeded. *)
LEMMA EndBodyStops ==
  ASSUME AnswerInv, StopInv, EndBody, cutter.stop # {}
  PROVE  StopInv'
<1>1. PICK s, stop, spoken :
        s = Pipeline /\ stop = cutter.stop /\ spoken = Spoke(answer, reader)
  OBVIOUS
<1>2. body = "open" /\ body' # "open" /\ UNCHANGED <<answer, whole, carried>>
  BY DEF EndBody, script
<1>3. PICK c, e, x : /\ c = s.coalescer /\ e = End(c.finish, c.usage, c.data)
                     /\ x = Start(Requested)
  OBVIOUS
<1>4. /\ Flow(s) /\ PShape(s) /\ CShape(s.coalescer) /\ KShape(s.cutter)
      /\ s.coalescer = coalescer /\ s.cutter = cutter /\ s.given = given
      /\ s.outcome = Null
  BY <1>1, <1>2, PipelineIs
<1>5. PICK r : Following(s, c, r) /\ Becomes(OrIncomplete(r))
  <2>1. c = coalescer
    BY <1>3, <1>4
  <2> QED BY <1>1, <2>1, Zenon DEF EndBody, Following
<1>6. r = IF c.sawEnd THEN IF c.started THEN Cut(s, e) ELSE Cut(Cut(s, x), e) ELSE s
  BY <1>3, <1>4, <1>5, EndIsCut
<1>7. /\ Told /\ answer.dialect = "responses" /\ Stops(stop) /\ stop # {}
      /\ Dry(s, spoken, stop)
      /\ ~Contradicts /\ ~Failed(whole) =>
           /\ Begins(spoken, SpokenText) /\ ASeq(SpokenText)
           /\ ItemsSent => SpokenText = spoken
  BY <1>1, <1>2, Reads
<1>8. PICK q : q = OrIncomplete(r)
  OBVIOUS
<1>9. CASE ~c.sawEnd
  <2>1. r = s
    BY <1>6, <1>9
  <2>2. /\ q.given = given /\ q.cutter = cutter /\ q.outcome = Failure("incomplete")
    BY <1>4, <1>8, <2>1 DEF OrIncomplete, PShape
  <2>3. given' = given /\ cutter' = cutter /\ outcome' = Failure("incomplete")
    BY <1>5, <1>8, <2>2 DEF Becomes
  <2>4. Failed(outcome')
    BY <2>3, FailureIsSome
  <2> QED BY <1>2, <2>3, <2>4, ClosedHonours
<1>10. CASE c.sawEnd
  <2>1. PICK p : p = IF c.started THEN s ELSE Cut(s, x)
    OBVIOUS
  <2>2. r = Cut(p, e)
    BY <1>6, <1>10, <2>1
  <2>3. Dry(p, spoken, stop)
    <3>1. CASE c.started
      BY <1>7, <2>1, <3>1
    <3>2. CASE ~c.started
      <4>1. s.cutter.held = <<>>
        BY <1>3, <1>4, <3>2 DEF Flow, Silent
      <4>2. x.type = "start" /\ Sound(x)
        BY <1>3, Sounds DEF Start
      <4>3. PICK y : y = Cut(s, x)
        OBVIOUS
      <4>4. Dry(y, spoken, stop)
        BY <1>7, <4>1, <4>2, <4>3, CutHeedsStart
      <4> QED BY <2>1, <3>2, <4>3, <4>4
    <3> QED BY <3>1, <3>2
  <2>4. Final(e)
    BY <1>3 DEF End, Final
  <2>5. PShape(r) /\ r.cutter.stop = stop
    BY <1>7, <2>2, <2>3, <2>4, LastHeeds
  <2>6. q.given = r.given /\ q.cutter = r.cutter
    BY <1>8, <2>5 DEF OrIncomplete, PShape
  <2>7. given' = r.given /\ cutter' = r.cutter
    BY <1>5, <1>8, <2>6 DEF Becomes
  <2>8. ItemsSent
    BY <1>2, <1>3, <1>4, <1>10 DEF AnswerInv, Streaming, Counted
  <2>9. ASSUME ~Contradicts, ~Failed(whole)
        PROVE  Faithful(SpokenText, stop, cutter', given', outcome', TRUE)
    <3>1. PICK full, result : full = SpokenText /\ result = outcome'
      OBVIOUS
    <3>2. Begins(spoken, full) /\ ASeq(full) /\ full = spoken
      BY <1>7, <2>8, <2>9, <3>1
    <3>3. Faithful(full, stop, r.cutter, r.given, result, TRUE)
      BY <1>7, <2>2, <2>3, <2>4, <3>2, LastHonours
    <3> QED BY <2>7, <3>1, <3>3
  <2>10. cutter.stop # {} /\ ~Contradicts /\ ~Failed(whole) =>
           Faithful(SpokenText, cutter.stop, cutter', given', outcome', body' # "open")
    BY <1>1, <1>2, <2>9 DEF Faithful
  <2>11. cutter'.stop = cutter.stop
    BY <1>1, <2>5, <2>7
  <2>12. StopHonoured'
    BY <1>2, <2>10, <2>11, FaithfulHonoursNext
  <2>13. Told' /\ Stopping'
    BY <1>1, <1>2, <1>7, <2>11 DEF Told, Stopping
  <2> QED BY <1>2, <2>12, <2>13 DEF StopInv, Heeding
<1> QED BY <1>9, <1>10

(* A body that ends inside an event stops the flow. *)
LEMMA BreakEventStops ==
  ASSUME AnswerInv, StopInv, BreakEvent
  PROVE  StopInv'
<1>1. /\ body = "open" /\ body' # "open" /\ outcome' = Failure("malformed")
      /\ UNCHANGED <<answer, whole, carried, cutter, given>>
  BY DEF BreakEvent, script
<1>2. Failed(outcome')
  BY <1>1, FailureIsSome
<1> QED BY <1>1, <1>2, ClosedHonours

LEMMA StopInvKeeps ==
  ASSUME AnswerInv, StopInv, [Next]_vars
  PROVE  StopInv'
<1>1. CASE \E t \in DOMAIN tracks : Send(t)
  <2>1. PICK t \in DOMAIN tracks : Send(t)
    BY <1>1
  <2>2. CASE cutter.stop = {}
    <3>1. cutter'.stop = {} /\ UNCHANGED script
      BY <2>1, <2>2, SendUnstopped DEF Send
    <3> QED BY <3>1, UnstoppedStays
  <2> QED BY <2>1, <2>2, SendStops
<1>2. CASE SendError
  <2>1. CASE cutter.stop = {}
    <3>1. cutter'.stop = {} /\ UNCHANGED script
      BY <1>2, <2>1, SendErrorUnstopped DEF SendError
    <3> QED BY <3>1, UnstoppedStays
  <2> QED BY <1>2, <2>1, SendErrorStops
<1>3. CASE EndBody
  <2>1. CASE cutter.stop = {}
    <3>1. cutter'.stop = {} /\ UNCHANGED script
      BY <1>3, <2>1, EndBodyUnstopped DEF EndBody
    <3> QED BY <3>1, UnstoppedStays
  <2> QED BY <1>3, <2>1, EndBodyStops
<1>4. CASE BreakEvent
  BY <1>4, BreakEventStops
<1>5. CASE UNCHANGED vars
  <2>1. /\ UNCHANGED <<answer, whole, carried, tracks, sent, reader, coalescer, cutter>>
        /\ UNCHANGED <<accumulator, given, body, outcome>>
    BY <1>5 DEF vars
  <2>2. Told' /\ Stopping'
    BY <2>1 DEF StopInv, Told, Stopping
  <2>3. Pipeline' = Pipeline
    BY <2>1 DEF Pipeline
  <2>4. Heeding'
    BY <2>1, <2>3 DEF StopInv, Heeding
  <2>5. body' # "open" => StopHonoured'
    <3>1. SpokenText' = SpokenText
      BY <2>1 DEF SpokenText
    <3>2. Contradicts' <=> Contradicts
      BY <2>1 DEF Contradicts, Contradicted
    <3>3. StopHonoured' <=> StopHonoured
      BY <2>1, <3>1, <3>2 DEF StopHonoured, CutAsSpoken, GivenText, Answered, Over
    <3> QED BY <2>1, <3>3 DEF StopInv
  <2> QED BY <2>2, <2>4, <2>5 DEF StopInv
<1> QED BY <1>1, <1>2, <1>3, <1>4, <1>5 DEF Next

(* What the caller asks to stop at is what the cutter can heed. *)
LEMMA StopsOfCaller ==
  ASSUME NEW asked \in StopSets, NEW stop, stop = NewCutter(asked).stop
  PROVE  Stops(stop)
<1>1. stop = {s \in asked : s # <<>>}
  BY DEF NewCutter
<1>2. asked \in SUBSET Seq(STRING) /\ IsFiniteSet(asked)
  BY StopsAssumption
<1>3. IsFiniteSet(stop)
  <2>1. stop \subseteq asked
    BY <1>1
  <2>2. Cuts!IsFiniteSet(asked)
    BY <1>2 DEF IsFiniteSet, Cuts!IsFiniteSet
  <2>3. Cuts!IsFiniteSet(stop)
    BY <2>1, <2>2, Cuts!FS_Subset
  <2> QED BY <2>3 DEF IsFiniteSet, Cuts!IsFiniteSet
<1>4. ASSUME NEW a \in stop PROVE ASeq(a) /\ a # <<>> /\ a \in asked
  <2>1. a \in Seq(STRING) /\ a \in asked /\ a # <<>>
    BY <1>1, <1>2
  <2> QED BY <2>1, StringsAre
<1>5. ASSUME NEW a \in stop, NEW b \in stop, NEW d \in Nat, Occurs(b, a, d)
      PROVE  a = b
  <2> SUFFICES ASSUME a # b PROVE FALSE
    OBVIOUS
  <2>1. ASeq(a) /\ ASeq(b) /\ a # <<>> /\ a \in asked /\ b \in asked
    BY <1>4
  <2>2. Len(a) \in Nat /\ Len(b) \in Nat /\ Len(a) # 0
    BY <2>1, SeqLen, Short
  <2>3. PICK m, n, rest : m = d + 1 /\ n = Len(b) /\ rest = SubSeq(b, m, n)
    OBVIOUS
  <2>4. d + Len(a) <= Len(b) /\ \A i \in 1..Len(a) : b[d + i] = a[i]
    BY <1>5 DEF Occurs
  <2>5. m \in Nat \ {0} /\ n \in Nat /\ m <= n /\ m \in 1..Len(b)
    BY <2>2, <2>3, <2>4
  <2>6. /\ ASeq(rest) /\ Len(rest) = n - m + 1
        /\ \A i \in 1..(n - m + 1) : rest[i] = b[m + i - 1]
    BY <2>1, <2>3, <2>5, Sliced
  <2>7. Len(a) <= Len(rest)
    BY <2>2, <2>3, <2>4, <2>6
  <2>8. ASSUME NEW i \in 1..Len(a) PROVE rest[i] = a[i]
    <3>1. i \in 1..(n - m + 1) /\ m + i - 1 = d + i
      BY <2>2, <2>3, <2>6, <2>7, <2>8
    <3> QED BY <2>4, <2>6, <2>8, <3>1
  <2>9. Begins(a, rest)
    BY <2>7, <2>8 DEF Begins
  <2>10. IsPrefix(a, rest)
    BY <2>1, <2>6, <2>9, BeginningIs
  <2>11. a \notin {b, <<>>} => \A i \in 1..Len(b) : ~IsPrefix(a, SubSeq(b, i, Len(b)))
    BY <2>1, StopsAssumption
  <2> QED BY <2>1, <2>3, <2>5, <2>10, <2>11
<1> QED BY <1>3, <1>4, <1>5 DEF Stops

(* At the start nothing is said. *)
LEMMA NothingUttered ==
  ASSUME NEW a \in Answers, a.dialect = "responses", NEW r, r = NewResponsesReader,
         NEW counts, \A i \in DOMAIN a.items : counts[i + 1] = 0
  PROVE  Sequent(a, counts) /\ Uttered(a, r, counts) /\ Spoke(a, r) = <<>>
<1>1. RShape(r) /\ r.seen = <<>> /\ r.part = <<>>
  BY DEF NewResponsesReader, RShape
<1>2. Sequent(a, counts)
  BY DEF Sequent
<1>3. \A at, d : At(<<>>, at, d) = d
  BY DEF At
<1>4. ASSUME NEW i \in DOMAIN a.items, NEW item, item = a.items[i]
      PROVE  UtteredBy(r, item, i - 1, 0, Framed(a, i))
  <2>1. Streamable(item) /\ Framed(a, i) \in Nat /\ Framed(a, i) >= 2
    BY <1>4, Fragmental
  <2>2. TextTo(item, Reach(item, 0)) = <<>> /\ PartOfToken(item, 0) = 0
    BY <2>1, TextStarts
  <2>3. SeenAt(r, item, i - 1, Carrying(0, item))
    BY <1>1, <1>3, <2>2 DEF SeenAt, Carrying
  <2> QED BY <2>1, <2>3 DEF UtteredBy
<1>5. Uttered(a, r, counts)
  BY <1>4 DEF Uttered
<1>6. PICK rows : rows = Voiced(a, r)
  OBVIOUS
<1>7. /\ Rows(rows) /\ DOMAIN rows = DOMAIN a.items
      /\ \A i \in DOMAIN a.items : rows[i] = Voice(r, a.items[i], i - 1)
  BY <1>1, <1>6, VoicedRows
<1>8. \A i \in DOMAIN rows : rows[i] = <<>>
  BY <1>1, <1>3, <1>7 DEF Voice
<1>9. FlattenSeq(rows) = <<>>
  BY <1>7, <1>8, FlatOfEmpty
<1> QED BY <1>2, <1>5, <1>6, <1>9 DEF Spoke

(* And nothing is held. *)
LEMMA DryStarts ==
  ASSUME NEW stop, Stops(stop), NEW s, PShape(s), s.outcome = Null, s.given = <<>>,
         KShape(s.cutter), s.cutter.held = <<>>, ~s.cutter.cut, s.cutter.stop = stop
  PROVE  Dry(s, <<>>, stop)
<1>1. HeldText(<<>>) = <<>> /\ Kin(<<>>)
  BY HeldOfFew
<1>2. PICK none : none = <<>>
  OBVIOUS
<1>3. ASeq(none) /\ Len(none) = 0
  BY <1>2, Short
<1>4. Starts(none, stop) = {}
  <2> SUFFICES ASSUME NEW at \in Starts(none, stop) PROVE FALSE
    OBVIOUS
  <2>1. at \in Nat /\ \E seq \in stop : Occurs(none, seq, at)
    BY <1>3, StartsAre
  <2>2. PICK seq \in stop : Occurs(none, seq, at)
    BY <2>1
  <2>3. ASeq(seq) /\ Len(seq) \in Nat \ {0}
    BY <2>2, HoldIs
  <2> QED BY <1>3, <2>1, <2>2, <2>3 DEF Occurs
<1>5. Len(none) <= Released(none, stop)
  BY <1>3, ReleasedIs
<1>6. none \o none = none
  BY <1>3, <1>2, NothingAdded
<1>7. Joins(none, none, none)
  BY <1>6 DEF Joins
<1>8. Holding(s.cutter, none, none, stop)
  BY <1>1, <1>2, <1>3, <1>4, <1>5, <1>7 DEF Holding
<1> QED BY <1>1, <1>2, <1>8 DEF Dry

LEMMA StopInvStarts ==
  ASSUME Init
  PROVE  StopInv
<1>1. /\ answer \in Answers /\ tracks = TracksOf(answer)
      /\ whole = WholeOf(answer) /\ carried = CarriedOf(answer, whole)
      /\ sent = [t \in DOMAIN tracks |-> 0] /\ reader = NewReader(answer.dialect)
      /\ given = <<>> /\ body = "open" /\ outcome = Null
  BY DEF Init
<1>2. PICK asked \in StopSets : /\ answer.dialect # "responses" => asked = {}
                                /\ cutter = NewCutter(asked)
  BY DEF Init
<1>3. AnswerInv
  BY AnswerInvStarts
<1>4. PICK s, stop : s = Pipeline /\ stop = cutter.stop
  OBVIOUS
<1>5. Stops(stop)
  BY <1>2, <1>4, StopsOfCaller
<1>6. stop # {} => answer.dialect = "responses"
  BY <1>2, <1>4 DEF NewCutter
<1>7. cutter.held = <<>> /\ cutter.cut = FALSE
  BY <1>2 DEF NewCutter
<1>8. /\ PShape(s) /\ KShape(s.cutter) /\ s.cutter = cutter /\ s.given = given
      /\ s.outcome = Null
  BY <1>1, <1>3, <1>4, PipelineIs
<1>9. Dry(s, <<>>, stop)
  BY <1>1, <1>4, <1>5, <1>7, <1>8, DryStarts
<1>10. ASSUME stop # {}
       PROVE  /\ Sequent(answer, sent) /\ Uttered(answer, reader, sent)
              /\ Spoke(answer, reader) = <<>>
  <2>1. answer.dialect = "responses" /\ Scripted
    BY <1>1, <1>6, <1>10 DEF Scripted
  <2>2. PICK n : n = Len(tracks)
    OBVIOUS
  <2>3. n \in Nat /\ DOMAIN tracks = 1..n /\ DOMAIN answer.items = 1..(n - 2)
    BY <2>1, <2>2, FramedTracks
  <2>4. \A i \in DOMAIN answer.items : sent[i + 1] = 0
    BY <1>1, <2>3
  <2>5. reader = NewResponsesReader
    BY <1>1, <2>1 DEF NewReader
  <2> QED BY <1>1, <2>1, <2>4, <2>5, NothingUttered
<1>11. Told
  BY <1>1 DEF Told
<1>12. Stopping
  BY <1>4, <1>5, <1>6 DEF Stopping
<1>13. Heeding
  BY <1>4, <1>9, <1>10 DEF Heeding
<1> QED BY <1>1, <1>11, <1>12, <1>13 DEF StopInv

(* No letter of a stop sequence is given to the consumer, and none of the  *)
(* text before the first is kept from it ("the visible text is cut at the  *)
(* first sequence", stop.ts:3): for every answer of the Responses wire,    *)
(* every set of stop sequences none of which is a part of another, and     *)
(* every way the server splits the text and mixes the calls.               *)
THEOREM StopHonouredHolds == Spec => []StopHonoured
<1>1. Init => StopInv
  BY StopInvStarts
<1>2. AnswerInv /\ StopInv /\ [Next]_vars => StopInv'
  BY StopInvKeeps
<1>3. AnswerInv /\ StopInv => StopHonoured
  BY OpenIsHonoured
<1> QED BY <1>1, <1>2, <1>3, AnswerInvHolds, PTL DEF Spec
=============================================================================
