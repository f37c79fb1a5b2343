-------------------------- MODULE AnthropicStream --------------------------
(***************************************************************************)
(* Answers of the Messages wire (src/dialects/anthropic.ts): the reader of *)
(* a whole message and the reader of a stream's events.  A content block's *)
(* state is a thinking signature, or the data of redacted thinking.        *)
(***************************************************************************)
EXTENDS ChatStream

AnthropicOpening(answer) ==
  <<[type |-> "message_start", index |-> 0, model |-> answer.model]>>

(* The server sends a block's start, its deltas and its stop. *)
AnthropicFramesOf(answer, i) ==
  LET item == answer.items[i]
      delta(token) ==
        [type |-> CASE item.kind = "text" -> "text_delta"
                    [] item.kind = "thinking" -> "thinking_delta"
                    [] item.kind = "tool_call" -> "input_json_delta"
                    [] item.kind \in {"redacted", "server_tool"} -> "other",
         index |-> i - 1, text |-> token]
      cite(source) == [type |-> "citations_delta", index |-> i - 1, source |-> source]
      signed == item.kind = "thinking" /\ item.state # Null
  IN <<[type |-> "content_block_start", index |-> i - 1, block |-> item]>>
     \o [k \in DOMAIN item.tokens |-> delta(item.tokens[k])]
     \o [k \in DOMAIN item.sources |-> cite(item.sources[k])]
     \o Optional(signed, [type |-> "signature_delta", index |-> i - 1,
                          state |-> item.state])
     \o <<[type |-> "content_block_stop", index |-> i - 1]>>

AnthropicClosing(answer) ==
  <<[type |-> "message_delta", index |-> 0, finish |-> answer.finish,
     usage |-> answer.usage],
    [type |-> "message_stop", index |-> 0]>>

-----------------------------------------------------------------------------
AnthropicFinish(raw) ==
  CASE raw \in {"max_tokens", "model_context_window_exceeded"} -> "length"
    [] raw \in {"tool_use", "pause_turn"} -> "tool_call"
    [] raw \in {"refusal", "safety", "content_filter"} -> "content_filter"
    [] OTHER -> "stop"

UsageOfMessage(usage) == IF usage = Null THEN Null ELSE UsageFromAnthropic(usage)

(* The events of one server event. *)
AnthropicEvents(frame) ==
  LET at == frame.index IN
  CASE frame.type = "message_start" -> <<Start(frame.model)>>
    [] frame.type = "content_block_start" /\ frame.block.kind = "tool_call" ->
         <<ToolCall(<<>>, at, frame.block.id, frame.block.name)>>
    [] frame.type = "content_block_start" /\ frame.block.kind = "redacted"
       /\ frame.block.state # Null ->
         <<Thinking(<<>>, at), Continuation(frame.block.state, at)>>
    [] frame.type = "text_delta" -> <<Text(frame.text, at, <<>>)>>
    [] frame.type = "input_json_delta" -> <<ToolCall(frame.text, at, Null, Null)>>
    [] frame.type = "thinking_delta" -> <<Thinking(frame.text, at)>>
    [] frame.type = "signature_delta" -> <<Continuation(frame.state, at)>>
    [] frame.type = "citations_delta" -> <<Citation(frame.source, at)>>
    [] frame.type = "message_delta" /\ (frame.finish # Null \/ frame.usage # Null) ->
         <<End(IF frame.finish = Null THEN Null ELSE AnthropicFinish(frame.finish),
               UsageOfMessage(frame.usage), "usage")>>
    [] frame.type = "message_stop" -> <<End(Null, Null, Null)>>
    [] frame.type = "error" -> <<ErrorEvent>>
    [] OTHER -> <<>>

(* The parts of one content block; what the provider executed itself is    *)
(* none.                                                                   *)
PartsOfBlock(block) ==
  LET cont == Optional(block.state # Null, block.state) IN
  CASE block.kind = "text" ->
         <<Part("text", TextOf(block), <<>>)>>
         \o [i \in DOMAIN block.sources |-> Part("citation", block.sources[i], <<>>)]
    [] block.kind = "tool_call" ->
         <<Part("tool_call", Call(block.id, block.name, ParseJsonBestEffort(TextOf(block))),
                <<>>)>>
    [] block.kind = "thinking" -> <<Part("thinking", TextOf(block), cont)>>
    [] block.kind = "redacted" -> <<Part("thinking", <<>>, cont)>>
    [] OTHER -> <<>>

AnthropicResponse(body) ==
  LET found == FlattenSeq([i \in DOMAIN body.items |-> PartsOfBlock(body.items[i])])
      parts == IF found = <<>> THEN <<Part("text", <<>>, <<>>)>> ELSE found
  IN IF \E block \in ToSet(body.items) : block.kind = "tool_call" /\ block.name = Null
     THEN Failure("unnamed")
     ELSE Response(body.model, parts,
                   IF HasCall(parts) THEN "tool_call" ELSE AnthropicFinish(body.finish),
                   IF body.usage = Null THEN Unreported ELSE UsageFromAnthropic(body.usage),
                   "body", <<>>, TRUE)

(* A stream says nothing of a thinking block but its deltas: one without   *)
(* text is taken for a text.                                               *)
AnthropicCarried(answer, response) ==
  LET blocks == [i \in DOMAIN answer.items |->
        LET block == answer.items[i]
            parts == PartsOfBlock(block) IN
        IF block.kind = "thinking" /\ block.tokens = <<>>
        THEN IF block.state = Null THEN <<>>
             ELSE <<Part("text", <<>>, <<block.state>>)>>
        ELSE parts]
      found == FlattenSeq(blocks)
      parts == IF found = <<>> THEN <<Part("text", <<>>, <<>>)>> ELSE found
  IN [response EXCEPT !.parts = parts,
                      !.finish = FinishOf(AnthropicFinish(answer.finish), parts)]
=============================================================================
