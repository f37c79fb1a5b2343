-------------------------- MODULE ResponsesStream --------------------------
(***************************************************************************)
(* Answers of the Responses wire (src/dialects/openai_responses.ts): the   *)
(* reader of a whole response and the reader of a stream.  An output item  *)
(* is a message (a text or a refusal), a function call or reasoning, whose *)
(* summary is in parts.  The server restates each item when it is done:    *)
(* sent is how many tokens of it came before, in fragments of size tokens, *)
(* and final what it restates.                                             *)
(***************************************************************************)
EXTENDS FiniteSetsExt, AnthropicStream

NewLine == "\n"
Newlines(count) == [k \in 1..count |-> NewLine]

(* The summary part a token of reasoning is in. *)
PartOfToken(item, k) == IF k = 0 \/ item.kind # "thinking" THEN 0 ELSE item.part[k]

(* An item's text: the parts of a summary are joined with a newline. *)
ItemText(item) ==
  FlattenSeq([k \in DOMAIN item.tokens |->
    Newlines(PartOfToken(item, k) - PartOfToken(item, k - 1)) \o item.tokens[k]])

(* A score names its token; the spelling of some tokens is not their text. *)
ScoresOf(item, tokens) ==
  IF item.exact THEN tokens ELSE [k \in DOMAIN tokens |-> <<"?">> \o tokens[k]]

ResponsesOpening(answer) == <<[type |-> "created", index |-> 0, model |-> answer.model]>>

FramesOfItem(item, at) ==
  LET tokens(k) == SubSeq(item.tokens, (k - 1) * item.size + 1, Min({k * item.size, item.sent}))
      delta(k) ==
        CASE item.kind \in {"text", "refusal"} ->
               [type |-> "text_delta", index |-> at, text |-> FlattenSeq(tokens(k)),
                scores |-> ScoresOf(item, tokens(k))]
          [] item.kind = "tool_call" ->
               [type |-> "arguments_delta", index |-> at, text |-> FlattenSeq(tokens(k))]
          [] item.kind = "thinking" ->
               [type |-> "summary_delta", index |-> at, text |-> FlattenSeq(tokens(k)),
                part |-> PartOfToken(item, k)]
      annotation(source) == [type |-> "annotation_added", index |-> at, source |-> source]
  IN <<[type |-> "item_added", index |-> at, item |-> item]>>
     \o [k \in 1..((item.sent + item.size - 1) \div item.size) |-> delta(k)]
     \o [k \in DOMAIN item.sources |-> annotation(item.sources[k])]
     \o <<[type |-> "item_done", index |-> at, item |-> item]>>

ResponsesFramesOf(answer, i) == FramesOfItem(answer.items[i], i - 1)

ResponsesClosing(answer) ==
  <<[type |-> "completed", index |-> 0, response |-> answer]>>

-----------------------------------------------------------------------------
ResponsesFinish(raw, hasCall) ==
  IF hasCall THEN "tool_call"
  ELSE CASE raw = "max_output_tokens" -> "length"
         [] raw = "content_filter" -> "content_filter"
         [] OTHER -> "stop"

HasFunctionCall(items) == \E item \in ToSet(items) : item.kind = "tool_call"

UsageOfResponse(usage) ==
  UsageFromResponses(IF usage = Null THEN Unreported ELSE usage)

(* The events of one server event, on its own. *)
ResponsesEvents(frame) ==
  LET at == frame.index IN
  CASE frame.type = "created" -> <<Start(frame.model)>>
    [] frame.type = "item_added" /\ frame.item.kind = "thinking" -> <<Thinking(<<>>, at)>>
    [] frame.type = "item_added" /\ frame.item.kind = "tool_call" ->
         <<ToolCall(<<>>, at, frame.item.id, frame.item.name)>>
    [] frame.type = "item_done" /\ frame.item.kind = "thinking" ->
         Optional(frame.item.state # Null, Continuation(frame.item.state, at))
    [] frame.type = "text_delta" -> <<Text(frame.text, at, frame.scores)>>
    [] frame.type = "summary_delta" -> <<Thinking(frame.text, at)>>
    [] frame.type = "arguments_delta" -> <<ToolCall(frame.text, at, Null, Null)>>
    [] frame.type = "annotation_added" -> <<Citation(frame.source, at)>>
    [] frame.type = "completed" ->
         <<End(ResponsesFinish(frame.response.finish, HasFunctionCall(frame.response.items)),
               UsageOfResponse(frame.response.usage), "usage")>>
    [] frame.type = "error" -> <<ErrorEvent>>
    [] OTHER -> <<>>

-----------------------------------------------------------------------------
(* The reader of a stream: what it saw of each item, the summary part it   *)
(* is in, and the calls that have a name.                                  *)

NewResponsesReader == [seen |-> <<>>, part |-> <<>>, named |-> {}]

At(function, key, default) == IF key \in DOMAIN function THEN function[key] ELSE default

Put(function, key, value) ==
  [k \in DOMAIN function \cup {key} |-> IF k = key THEN value ELSE function[k]]

Saw(reader, at, text) ==
  [reader EXCEPT !.seen = Put(@, at, At(@, at, <<>>) \o text)]

SameJson(a, b) == IsObject(a) /\ IsObject(b) /\ Spaceless(a) = Spaceless(b)

\* Mutant: what was streamed is as good as the final copy.
RemainderTrusting(got, final, json) ==
  IF IsPrefix(got, final) THEN SubSeq(final, Len(got) + 1, Len(final)) ELSE <<>>

(* What the fragments did not deliver of the final copy; fragments that    *)
(* are not its beginning contradict it.                                    *)
Remainder(got, final, json) ==
  IF IsPrefix(got, final) THEN SubSeq(final, Len(got) + 1, Len(final))
  ELSE IF json /\ SameJson(got, final) THEN <<>>
  ELSE Null

(* A later part of a summary begins with the newlines before it. *)
Prefixed(reader, frame) ==
  Newlines(Max({0, frame.part - At(reader.part, frame.index, 0)})) \o frame.text

(* The final copy of an item: the event that completes its fragments. *)
CompleteItem(reader, at, item) ==
  LET call == item.kind = "tool_call"
      rest == Remainder(At(reader.seen, at, <<>>), item.final, call)
      event == CASE call -> ToolCall(rest, at, item.id, item.name)
                 [] item.kind = "thinking" -> Thinking(rest, at)
                 [] OTHER -> Text(rest, at, <<>>)
      needed == rest # <<>> \/ (call /\ at \notin reader.named)
  IN IF rest = Null THEN Failure("contradiction")
     ELSE [events |-> Optional(needed, event),
           reader |-> [reader EXCEPT
             !.seen = IF IsPrefix(At(@, at, <<>>), item.final) THEN Put(@, at, item.final)
                      ELSE @,
             !.named = IF call /\ needed /\ item.name # Null THEN @ \cup {at} ELSE @]]

(* One server event: the events it gives, or why the stream is refused. *)
ResponsesFeed(reader, frame) ==
  LET at == frame.index
      events == ResponsesEvents(frame) IN
  CASE frame.type = "summary_delta" ->
         [events |-> <<Thinking(Prefixed(reader, frame), at)>>,
          reader |-> [Saw(reader, at, Prefixed(reader, frame)) EXCEPT
                        !.part = Put(@, at, Max({frame.part, At(@, at, 0)}))]]
    [] frame.type \in {"text_delta", "arguments_delta"} ->
         [events |-> events, reader |-> Saw(reader, at, frame.text)]
    [] frame.type = "item_added" /\ frame.item.kind = "tool_call" ->
         [events |-> events,
          reader |-> IF frame.item.name = Null THEN reader
                     ELSE [reader EXCEPT !.named = @ \cup {at}]]
    [] frame.type = "item_done" ->
         LET done == CompleteItem(reader, at, frame.item) IN
         IF Failed(done) THEN done ELSE [done EXCEPT !.events = @ \o events]
    [] OTHER -> [events |-> events, reader |-> reader]

-----------------------------------------------------------------------------
(* A whole response. *)

\* The citation of a body knows the text it cites; one that is streamed does not.
Cited(source) == [source |-> source, text |-> "cited"]

PartsOfItem(item) ==
  LET cont == Optional(item.state # Null, item.state) IN
  CASE item.kind = "text" ->
         <<Part("text", item.final, <<>>)>>
         \o [i \in DOMAIN item.sources |-> Part("citation", Cited(item.sources[i]), <<>>)]
    [] item.kind = "refusal" -> <<Part("refusal", item.final, <<>>)>>
    [] item.kind = "tool_call" ->
         <<Part("tool_call", Call(item.id, item.name, ParseJsonBestEffort(item.final)), <<>>)>>
    [] item.kind = "thinking" ->
         Optional(item.final # <<>> \/ cont # <<>>, Part("thinking", item.final, cont))
    [] OTHER -> <<>>

ResponsesResponse(body) ==
  LET found == FlattenSeq([i \in DOMAIN body.items |-> PartsOfItem(body.items[i])])
      parts == IF found = <<>> THEN <<Part("text", <<>>, <<>>)>> ELSE found
  IN IF \E item \in ToSet(body.items) : item.kind = "tool_call" /\ item.name = Null
     THEN Failure("unnamed")
     ELSE Response(body.model, parts, ResponsesFinish(body.finish, HasCall(parts)),
                   UsageOfResponse(body.usage), "body",
                   FlattenSeq([i \in DOMAIN body.items |->
                     IF body.items[i].kind = "text"
                     THEN ScoresOf(body.items[i], body.items[i].tokens) ELSE <<>>]), TRUE)

(* A stream gives a refusal as a text, a citation without the text it      *)
(* cites, and the scores of the tokens that came as fragments.             *)
ResponsesCarried(answer, response) ==
  LET carried(part) ==
        CASE part.type = "refusal" -> [part EXCEPT !.type = "text"]
          [] part.type = "citation" -> [part EXCEPT !.content = part.content.source]
          [] OTHER -> part
      fragments(item) ==
        IF item.kind \in {"text", "refusal"}
        THEN ScoresOf(item, SubSeq(item.tokens, 1, item.sent)) ELSE <<>>
  IN [response EXCEPT
        !.parts = [i \in DOMAIN response.parts |-> carried(response.parts[i])],
        !.scores = FlattenSeq([i \in DOMAIN answer.items |-> fragments(answer.items[i])])]
=============================================================================
