--------------------------- MODULE StopSequences ---------------------------
(***************************************************************************)
(* A stop sequence the wire cannot take (src/stop.ts): the visible text is *)
(* cut at the first of them, in a whole response and as it streams, and a  *)
(* token the cut falls into keeps its letters and loses its score.         *)
(***************************************************************************)
EXTENDS Integers, FiniteSetsExt, StreamEvents

Starts(text, stop) ==
  {cut \in 0..Len(text) :
     \E seq \in stop : /\ seq # <<>>
                       /\ cut + Len(seq) <= Len(text)
                       /\ SubSeq(text, cut + 1, cut + Len(seq)) = seq}

(* How many letters precede the first stop sequence. *)
FirstStop(text, stop) ==
  IF Starts(text, stop) = {} THEN Null ELSE Min(Starts(text, stop))

LettersOf(tokens, count) == Len(FlattenSeq(SubSeq(tokens, 1, count)))

\* Mutant: the token the cut falls into keeps its score.
ScoresToCut(scores, text, cutAt) ==
  IF scores = <<>> \/ cutAt = 0 THEN [kept |-> <<>>, incomplete |-> FALSE]
  ELSE LET reach == {n \in 0..Len(scores) : LettersOf(scores, n) >= cutAt} IN
       [kept |-> SubSeq(scores, 1, IF reach = {} THEN Len(scores) ELSE Min(reach)),
        incomplete |-> FALSE]

(* The scores of the whole tokens before the cut; a score is its token. *)
ScoresBeforeCut(scores, text, cutAt) ==
  IF scores = <<>> \/ cutAt = 0 THEN [kept |-> <<>>, incomplete |-> FALSE]
  ELSE IF cutAt = Len(text) THEN [kept |-> scores, incomplete |-> FALSE]
  ELSE IF FlattenSeq(scores) # text THEN [kept |-> <<>>, incomplete |-> TRUE]
  ELSE LET past == {n \in 0..(Len(scores) - 1) : LettersOf(scores, n + 1) > cutAt}
       IN [kept |-> SubSeq(scores, 1, Min(past)),
           incomplete |-> LettersOf(scores, Min(past)) # cutAt]

(* The whole response: the text parts are one text; the part the stop      *)
(* starts in is cut, and what follows it is removed.                       *)
ApplyClientSideStop(response, stop) ==
  LET parts == response.parts
      texts == {i \in DOMAIN parts : parts[i].type = "text"}
      before(i) == Len(FlattenSeq([j \in 1..(i - 1) |->
                     IF j \in texts THEN parts[j].content ELSE <<>>]))
      joined == FlattenSeq([j \in DOMAIN parts |->
                     IF j \in texts THEN parts[j].content ELSE <<>>])
      hit == FirstStop(joined, stop)
      holding == {i \in texts : before(i) + Len(parts[i].content) > hit}
      last == IF holding = {} THEN Max(texts) ELSE Min(holding)
      cut == [parts[last] EXCEPT !.content =
                SubSeq(@, 1, IF holding = {} THEN 0 ELSE hit - before(last))]
      scores == ScoresBeforeCut(response.scores, joined, hit) IN
  IF hit = Null THEN response
  ELSE [response EXCEPT !.parts = Append(SubSeq(parts, 1, last - 1), cut),
                        !.finish = "stop",
                        !.scores = scores.kept,
                        !.scored = @ /\ ~scores.incomplete]

-----------------------------------------------------------------------------
(* The cutter holds the events whose text may begin a stop sequence, and   *)
(* what came between them, until it is known.                              *)

NewCutter(stop) == [stop |-> {s \in stop : s # <<>>}, held |-> <<>>, cut |-> FALSE]

Hold(stop) == Max({1} \cup {Len(s) : s \in stop}) - 1

IsText(e) == e.type = "text"
HeldText(events) ==
  FlattenSeq([i \in DOMAIN events |-> IF IsText(events[i]) THEN events[i].text ELSE <<>>])

Shortened(e, count) ==
  LET scores == ScoresBeforeCut(e.scores, e.text, count) IN
  [e EXCEPT !.text = SubSeq(@, 1, count), !.scores = scores.kept,
            !.scored = @ /\ ~scores.incomplete]

LettersBefore(events, i) == Len(HeldText(SubSeq(events, 1, i - 1)))

(* A text event that ends within count letters; at the cut, one that also  *)
(* begins before it.                                                       *)
Fits(events, i, count, cutting) ==
  IsText(events[i]) =>
    /\ LettersBefore(events, i) + Len(events[i].text) <= count
    /\ cutting => LettersBefore(events, i) < count

(* How many of the held events go. *)
Fitting(events, count, cutting) ==
  Max({n \in 0..Len(events) : \A i \in 1..n : Fits(events, i, count, cutting)})

(* Up to the cut: the event it falls into is shortened. *)
TakenToCut(events, count) ==
  LET n == Fitting(events, count, TRUE)
      left == count - Len(HeldText(SubSeq(events, 1, n)))
  IN SubSeq(events, 1, n)
     \o (IF left > 0 THEN <<Shortened(events[n + 1], left)>> ELSE <<>>)

\* Mutant: releases everything that is not a stop sequence yet.
ReleasedAll(text, stop) == Len(text)

(* The letters that can no longer be the beginning of a stop sequence. *)
Released(text, stop) == Max({0, Len(text) - Hold(stop)})

(* One event of the stream: what goes on, and the cutter then. *)
Feed(c, e) ==
  LET held == Append(c.held, e)
      hit == FirstStop(HeldText(held), c.stop)
      n == Fitting(held, Released(HeldText(held), c.stop), FALSE) IN
  IF ~IsText(e) THEN
       IF c.held = <<>> THEN [out |-> <<e>>, cutter |-> c]
       ELSE [out |-> <<>>, cutter |-> [c EXCEPT !.held = held]]
  ELSE IF hit # Null THEN
       [out |-> TakenToCut(held, hit), cutter |-> [c EXCEPT !.held = <<>>, !.cut = TRUE]]
  ELSE [out |-> SubSeq(held, 1, n),
        cutter |-> [c EXCEPT !.held = SubSeq(held, n + 1, Len(held))]]

(* What was held goes before an end or an error; after a cut comes an end  *)
(* of the cutter's own, and without stop sequences every event passes.     *)
CutEnd == End("stop", Null, Null)

Step(c, e) ==
  IF c.stop = {} THEN [out |-> <<e>>, cutter |-> c]
  ELSE IF e.type \in {"end", "error"}
  THEN [out |-> Append(c.held, e), cutter |-> [c EXCEPT !.held = <<>>]]
  ELSE LET fed == Feed(c, e) IN
       IF fed.cutter.cut THEN [fed EXCEPT !.out = Append(@, CutEnd)] ELSE fed
=============================================================================
