---------------------------- MODULE AnswerStream ----------------------------
(***************************************************************************)
(* One streamed answer: the server's events, the dialect's reader, the     *)
(* coalescer, the cutter of a client-side stop, and the accumulator whose  *)
(* Response is what a complete() call returns.  The server sends the items *)
(* of its answer in fragments, parallel calls' between one another; the    *)
(* body may end anywhere, cleanly, inside an event, or after an error.     *)
(***************************************************************************)
EXTENDS GeminiStream, StopSequences

CONSTANTS
  Answers,    \* the answers a server gives, with the dialect it gives them in
  StopSets,   \* what the caller asks to stop at, on the Responses wire
  Requested   \* the model asked for

(* What a server may send: items of the kinds its dialect knows, in tokens *)
(* that are texts.  The Responses wire sends them in fragments of size, a  *)
(* token of a summary in each, its parts in order.                         *)
KindsOf(dialect) ==
  CASE dialect = "chat" -> {"thinking", "text", "refusal", "tool_call"}
    [] dialect = "anthropic" ->
         {"thinking", "text", "tool_call", "redacted", "server_tool"}
    [] dialect = "responses" -> {"thinking", "text", "refusal", "tool_call"}
    [] dialect = "gemini" ->
         {"thinking", "text", "tool_call", "image", "audio", "document", "executed"}

Fragmented(item) ==
  /\ item.size \in Nat \ {0} /\ item.sent \in 0..Len(item.tokens)
  /\ item.kind = "thinking" =>
       /\ item.size = 1
       /\ \A k \in DOMAIN item.tokens : item.part[k] \in Nat
       /\ \A j, k \in DOMAIN item.tokens : j <= k => item.part[j] <= item.part[k]

ASSUME AnswersAssumption ==
  \A a \in Answers :
    /\ a.dialect \in {"chat", "anthropic", "responses", "gemini"}
    /\ a.usage # Null /\ a.dialect # "gemini" => a.usage \in Counters
    /\ a.usage # Null /\ a.dialect = "gemini" => a.usage \in Metadata
    /\ a.items \in Seq(ToSet(a.items))
    /\ \A item \in ToSet(a.items) :
         /\ DOMAIN item = {"kind", "tokens", "id", "name", "state", "sources", "sent",
                           "size", "exact", "part", "final"}
         /\ item.kind \in KindsOf(a.dialect)
         /\ item.tokens \in Seq(Seq(STRING)) /\ item.final \in Seq(STRING)
         /\ item.sources \in Seq(ToSet(item.sources))
         /\ a.dialect = "responses" => Fragmented(item)

(* The caller asks for a few texts, none of them a part of another. *)
ASSUME StopsAssumption ==
  \A stop \in StopSets :
    /\ stop \in SUBSET Seq(STRING) /\ IsFiniteSet(stop)
    /\ \A a, b \in stop :
         a \notin {b, <<>>} => \A i \in 1..Len(b) : ~IsPrefix(a, SubSeq(b, i, Len(b)))

VARIABLES
  answer,
  whole,    \* what a complete() call makes of the same answer
  carried,  \* and what of that a stream can carry
  tracks,   \* the frames of the answer: of the opening, of each item, of the closing
  sent,     \* how many frames of each track the server has sent
  reader,
  coalescer,
  cutter,
  accumulator,
  given,    \* history: the events the consumer was given
  body,     \* "open", or how it is over: "whole", "broken", "failed", "closed"
  outcome   \* the Response, or why there is none

script == <<answer, whole, carried, tracks>>
vars == <<answer, whole, carried, tracks, sent, reader, coalescer, cutter,
          accumulator, given, body, outcome>>

-----------------------------------------------------------------------------
(* The server.                                                             *)

OpeningOf(a) ==
  CASE a.dialect = "anthropic" -> AnthropicOpening(a)
    [] a.dialect = "responses" -> ResponsesOpening(a)
    [] OTHER -> <<>>

FramesOf(a, i) ==
  CASE a.dialect = "chat" -> ChatFramesOf(a, i)
    [] a.dialect = "anthropic" -> AnthropicFramesOf(a, i)
    [] a.dialect = "responses" -> ResponsesFramesOf(a, i)
    [] a.dialect = "gemini" -> GeminiFramesOf(a, i)

ClosingOf(a) ==
  CASE a.dialect = "chat" -> ChatClosing(a)
    [] a.dialect = "anthropic" -> AnthropicClosing(a)
    [] a.dialect = "responses" -> ResponsesClosing(a)
    [] a.dialect = "gemini" -> GeminiClosing(a)

TracksOf(a) ==
  <<OpeningOf(a)>> \o [i \in DOMAIN a.items |-> FramesOf(a, i)] \o <<ClosingOf(a)>>

TrackSent(t) == sent[t] = Len(tracks[t])
ItemsSent == \A t \in 1..(Len(tracks) - 1) : TrackSent(t)
AllSent == \A t \in DOMAIN tracks : TrackSent(t)
IsItem(t) == t - 1 \in DOMAIN answer.items

(* Tracks come in order, but for parallel calls of the OpenAI wires. *)
Parallel(t, u) ==
  /\ answer.dialect \in {"chat", "responses"} /\ IsItem(t) /\ IsItem(u)
  /\ answer.items[t - 1].kind = "tool_call" /\ answer.items[u - 1].kind = "tool_call"

MaySend(t) ==
  ~TrackSent(t) /\ \A u \in 1..(t - 1) : TrackSent(u) \/ (Parallel(t, u) /\ sent[u] > 0)

-----------------------------------------------------------------------------
(* The client.                                                             *)

NewReader(dialect) ==
  CASE dialect = "responses" -> NewResponsesReader
    [] dialect = "gemini" -> NewGeminiReader
    [] OTHER -> Null

Read(frame) ==
  CASE answer.dialect = "chat" -> [events |-> ChatEvents(frame), reader |-> reader]
    [] answer.dialect = "anthropic" -> [events |-> AnthropicEvents(frame), reader |-> reader]
    [] answer.dialect = "responses" -> ResponsesFeed(reader, frame)
    [] answer.dialect = "gemini" -> GeminiFeed(reader, frame)

(* One event reaches the consumer; an error or the end is its last. *)
Kept(s, e, a) ==
  [s EXCEPT !.given = Append(@, e), !.accumulator = a,
            !.outcome = CASE e.type = "error" -> Failure("provider")
                          [] e.type = "end" -> ResponseOf(a, Requested)
                          [] OTHER -> @]

Consumed(s, e) ==
  IF s.outcome # Null THEN s ELSE Kept(s, e, Accumulated(s.accumulator, e))

(* One event through the cutter; nothing is pulled once it has cut. *)
Through(s, step) == FoldLeft(Consumed, [s EXCEPT !.cutter = step.cutter], step.out)
Cut(s, e) == IF s.cutter.cut THEN s ELSE Through(s, Step(s.cutter, e))

(* One event of the dialect. *)
Pushed(s, e) ==
  FoldLeft(Cut, [s EXCEPT !.coalescer = Coalesced(@, e)],
           Emitted(s.coalescer, e, Requested))

Pipeline == [coalescer |-> coalescer, cutter |-> cutter, accumulator |-> accumulator,
             given |-> given, outcome |-> outcome]

Becomes(s) ==
  /\ coalescer' = s.coalescer /\ cutter' = s.cutter
  /\ accumulator' = s.accumulator /\ given' = s.given /\ outcome' = s.outcome

(* The client reads one event of the server: the source is closed once     *)
(* the cutter has cut, or the consumer is done with it.                    *)
Settle(s) ==
  /\ Becomes(s)
  /\ body' = IF s.outcome = Null /\ ~s.cutter.cut THEN "open" ELSE "closed"

Took(result) ==
  IF Failed(result)
  THEN Settle([Pipeline EXCEPT !.outcome = result]) /\ UNCHANGED reader
  ELSE Settle(FoldLeft(Pushed, Pipeline, result.events)) /\ reader' = result.reader

Receive(frame) == Took(Read(frame))

(* What a complete() call makes of an answer. *)
WholeOf(a) ==
  CASE a.dialect = "chat" -> ChatResponse(ChatBody(a))
    [] a.dialect = "anthropic" -> AnthropicResponse(a)
    [] a.dialect = "responses" -> ResponsesResponse(a)
    [] a.dialect = "gemini" -> GeminiResponse(a, Requested)

(* What a stream can carry of it; the differences are those the dialects'  *)
(* readers make, each named where it is defined.                           *)
CarriedOf(a, response) ==
  CASE Failed(response) -> response
    [] a.dialect = "chat" -> ChatCarried(a, response, Requested)
    [] a.dialect = "anthropic" -> AnthropicCarried(a, response)
    [] a.dialect = "responses" -> ResponsesCarried(a, response)
    [] a.dialect = "gemini" -> GeminiCarried(a, response)

Init ==
  /\ answer \in Answers
  /\ whole = WholeOf(answer)
  /\ carried = CarriedOf(answer, whole)
  /\ tracks = TracksOf(answer)
  /\ sent = [t \in DOMAIN tracks |-> 0]
  /\ reader = NewReader(answer.dialect)
  /\ coalescer = NewCoalescer
  /\ \E stop \in StopSets :
       /\ answer.dialect # "responses" => stop = {}
       /\ cutter = NewCutter(stop)
  /\ accumulator = NewAccumulator
  /\ given = <<>>
  /\ body = "open"
  /\ outcome = Null

(* Gemini may end one item and begin the next in a chunk. *)
Joined(t) ==
  /\ answer.dialect = "gemini" /\ IsItem(t) /\ IsItem(t + 1)
  /\ sent[t] + 1 = Len(tracks[t]) /\ tracks[t + 1] # <<>>

Send(t) ==
  /\ body = "open" /\ MaySend(t)
  /\ \/ /\ sent' = [sent EXCEPT ![t] = @ + 1]
        /\ Receive(tracks[t][sent'[t]])
     \/ /\ Joined(t)
        /\ sent' = [sent EXCEPT ![t] = @ + 1, ![t + 1] = 1]
        /\ Receive(GeminiJoined(Last(tracks[t]), Head(tracks[t + 1])))
  /\ UNCHANGED script

(* The server gives up, and says so. *)
SendError ==
  /\ body = "open" /\ ~AllSent
  /\ Becomes(Pushed(Pipeline, ErrorEvent))
  /\ body' = "closed"
  /\ UNCHANGED <<script, sent, reader>>

(* The body ends: what the coalescer and the cutter still hold follows,    *)
(* and a stream without an end has no Response.                            *)
OrIncomplete(s) ==
  IF s.outcome = Null THEN [s EXCEPT !.outcome = Failure("incomplete")] ELSE s

EndBody ==
  /\ body = "open"
  /\ Becomes(OrIncomplete(FoldLeft(Cut, Pipeline, EmittedLast(coalescer, Requested))))
  /\ body' = IF AllSent THEN "whole" ELSE "broken"
  /\ UNCHANGED <<script, sent, reader>>

(* The body ends inside an event, which is not JSON then. *)
BreakEvent ==
  /\ body = "open" /\ ~AllSent
  /\ outcome' = Failure("malformed")
  /\ body' = "failed"
  /\ UNCHANGED <<script, sent, reader, coalescer, cutter, accumulator, given>>

Next ==
  \/ SendError \/ EndBody \/ BreakEvent
  \/ \E t \in DOMAIN tracks : Send(t)

Spec == Init /\ [][Next]_vars

-----------------------------------------------------------------------------
Over == body # "open"
Answered == outcome # Null /\ ~Failed(outcome)

(* Fragments the final copy of an item does not begin with. *)
FragmentsOf(item) == ItemText([item EXCEPT !.tokens = SubSeq(@, 1, item.sent)])

Contradicted(item) ==
  /\ answer.dialect = "responses"
  /\ ~IsPrefix(FragmentsOf(item), item.final)
  /\ ~(item.kind = "tool_call" /\ SameJson(FragmentsOf(item), item.final))

(* A whole stream gives the Response a complete() call returns ("The same  *)
(* Response a complete call returns", stream.ts:593), but for the named    *)
(* differences; with a stop in it, that Response cut.  A stream of an      *)
(* answer complete() refuses has no Response either.                       *)
EmptyLast(parts) == Len(parts) > 1 /\ Last(parts).content = <<>>
WithoutEmpty(parts) == IF EmptyLast(parts) THEN Front(parts) ELSE parts

Cutting(response, cut) ==
  IF cut = response THEN response
  ELSE [cut EXCEPT !.parts = WithoutEmpty(@),
                   !.finish = FinishOf("stop", WithoutEmpty(cut.parts)),
                   !.usage = Unreported]

Agree(a, b) ==
  /\ a.model = b.model /\ a.parts = b.parts
  /\ a.finish = b.finish
  /\ a.usage = b.usage \/ (~AllSent /\ a.usage = Unreported)
  /\ ~cutter.cut => a.scores = b.scores /\ a.scored = b.scored

Contradicts == \E i \in DOMAIN answer.items : Contradicted(answer.items[i])

SameAnswer ==
  /\ Failed(whole) => ~Answered
  /\ body = "whole" /\ ~Contradicts /\ ~Failed(whole) => Answered
  /\ Answered /\ ~Contradicts => Agree(outcome, Cutting(carried, ApplyClientSideStop(carried, cutter.stop)))

(* No Response is made of a part of an answer: the server has said that it *)
(* finished, after all of its items, unless the caller's stop cut them.    *)
(* And fragments that contradict the final copy of an item have none       *)
(* (MAP-20, openai_responses.ts FinalCopies).                              *)
NoPartialAnswer ==
  Answered /\ ~cutter.cut => ItemsSent /\ Last(sent) > 0 /\ ~Contradicts

(* The consumer is given one start, before all else, and one end, after    *)
(* all else, with what any end of the server told: its usage and finish    *)
(* (MAP-3, MAP-4, adapter.ts:528), and the data of the frame that told     *)
(* the usage, whatever frame came after it: the end waits for the body's.  *)
OneStartOneEnd ==
  /\ \A i \in DOMAIN given :
       /\ given[i].type = "start" => i = 1
       /\ IsDelta(given[i]) => given[1].type = "start"
       /\ given[i].type \in {"end", "error"} => i = Len(given)
  /\ Answered => Last(given).type = "end"
  /\ Answered /\ ~cutter.cut => body \in {"whole", "broken"}
  /\ body = "whole" /\ Answered /\ answer.usage # Null => outcome.data = "usage"

(* No letter of a stop sequence is given to the consumer, however the      *)
(* sequence is split among the events, and the text is not cut short of    *)
(* it; an error lets go of what was held.  (StopsAssumption: of a sequence *)
(* inside another the inner may be met first.)                             *)
GivenText == HeldText(given)

SpokenText ==
  FlattenSeq([i \in DOMAIN carried.parts |->
    IF carried.parts[i].type = "text" THEN carried.parts[i].content ELSE <<>>])

CutAsSpoken(spoken, cutAt) ==
  LET expected == IF cutAt = Null THEN spoken ELSE SubSeq(spoken, 1, cutAt) IN
  /\ IsPrefix(GivenText, expected) \/ Last(given).type = "error"
  /\ Answered => GivenText = expected
  /\ cutter.cut => cutAt # Null /\ Over

StopHonoured ==
  cutter.stop # {} /\ ~Contradicts /\ ~Failed(whole) =>
    /\ Starts(GivenText, cutter.stop) = {}
    /\ CutAsSpoken(SpokenText, FirstStop(SpokenText, cutter.stop))

(* A cut keeps the scores of the tokens that are kept whole, and of them   *)
(* only; a token the cut falls into leaves the scores marked incomplete    *)
(* ("never invent a score for shortened text", stop.ts:14).                *)
FragmentTokens ==
  FlattenSeq([i \in DOMAIN answer.items |->
    IF answer.items[i].kind \in {"text", "refusal"}
    THEN SubSeq(answer.items[i].tokens, 1, answer.items[i].sent) ELSE <<>>])

ScoresOfKeptText ==
  Answered /\ cutter.cut =>
    LET count == Len(outcome.scores)
        ends == {LettersOf(FragmentTokens, n) : n \in 0..Len(FragmentTokens)} IN
    /\ count <= Len(FragmentTokens)
    /\ \A n \in 1..count : IsSuffix(FragmentTokens[n], outcome.scores[n])
    /\ LettersOf(FragmentTokens, count) <= Len(GivenText)
    /\ outcome.scored =>
         \/ Len(GivenText) \in ends /\ LettersOf(FragmentTokens, count) = Len(GivenText)
         \/ Len(GivenText) > Len(FlattenSeq(FragmentTokens))

(* A Response replayed as events is assembled to itself (stream.ts:748).   *)
ReplayLossless ==
  Answered /\ Replayable(outcome) =>
    ResponseOf(FoldLeft(Accumulated, NewAccumulator, ResponseToEvents(outcome)), Requested)
      = outcome
=============================================================================
