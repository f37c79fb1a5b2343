----------------------------- MODULE ChatStream -----------------------------
(***************************************************************************)
(* Answers of the Chat Completions wire (src/dialects/openai_chat.ts): the *)
(* reader of a whole body and the reader of a stream's chunks.             *)
(*                                                                         *)
(* An answer, in every dialect, is [items, finish, usage, model] as the    *)
(* provider means it.  An item has a kind, its text as tokens, a tool      *)
(* call's id and name, the state it carries to be sent back, its sources.  *)
(***************************************************************************)
EXTENDS FiniteSets, StreamEvents

TextOf(item) == FlattenSeq(item.tokens)
Of(answer, kind) == SelectSeq(answer.items, LAMBDA item : item.kind = kind)
TextOfKind(answer, kind) ==
  FlattenSeq([i \in DOMAIN Of(answer, kind) |-> TextOf(Of(answer, kind)[i])])
TokensOfKind(answer, kind) ==
  FlattenSeq([i \in DOMAIN Of(answer, kind) |-> Of(answer, kind)[i].tokens])

-----------------------------------------------------------------------------
(* What the server sends: one body, or chunks.                             *)

ChatBody(answer) ==
  [reasoning |-> TextOfKind(answer, "thinking"),
   content |-> TextOfKind(answer, "text"), scores |-> TokensOfKind(answer, "text"),
   refusal |-> TextOfKind(answer, "refusal"), calls |-> Of(answer, "tool_call"),
   finish |-> answer.finish, usage |-> answer.usage, model |-> answer.model]

ChatChunk ==
  [type |-> "chunk", reasoning |-> <<>>, content |-> <<>>, scores |-> <<>>,
   refusal |-> <<>>, calls |-> <<>>, finish |-> Null, usage |-> Null]

(* A call's index counts the calls. *)
CallIndex(answer, i) ==
  Cardinality({j \in 1..(i - 1) : answer.items[j].kind = "tool_call"})

ChatFramesOf(answer, i) ==
  LET item == answer.items[i]
      call(id, name, arguments) ==
        [ChatChunk EXCEPT !.calls = <<[index |-> CallIndex(answer, i), id |-> id,
                                       name |-> name, arguments |-> arguments]>>]
      chunk(token) ==
        CASE item.kind = "thinking" -> [ChatChunk EXCEPT !.reasoning = token]
          [] item.kind = "text" ->
               [ChatChunk EXCEPT !.content = token, !.scores = <<token>>]
          [] item.kind = "refusal" -> [ChatChunk EXCEPT !.refusal = token]
          [] item.kind = "tool_call" -> call(Null, Null, token)
      tokens == [k \in DOMAIN item.tokens |-> chunk(item.tokens[k])]
  IN IF item.kind = "tool_call" THEN <<call(item.id, item.name, <<>>)>> \o tokens
     ELSE tokens

ChatClosing(answer) ==
  <<[ChatChunk EXCEPT !.finish = answer.finish],
    [ChatChunk EXCEPT !.usage = answer.usage], [type |-> "done"]>>

-----------------------------------------------------------------------------
ChatFinish(raw) ==
  CASE raw \in {"stop", "length", "content_filter"} -> raw
    [] raw \in {"tool_calls", "function_call"} -> "tool_call"
    [] OTHER -> "stop"

(* The events of one chunk. *)
ChatEvents(chunk) ==
  IF chunk.type = "done" THEN <<End(Null, Null, Null)>>
  ELSE IF chunk.type = "error" THEN <<ErrorEvent>>
  ELSE LET usage == IF chunk.usage = Null THEN Null ELSE UsageFromChat(chunk.usage, FALSE) IN
       Optional(chunk.reasoning # <<>>, Thinking(chunk.reasoning, 0))
       \o Optional(chunk.content # <<>>, Text(chunk.content, 0, chunk.scores))
       \o [i \in DOMAIN chunk.calls |->
             ToolCall(chunk.calls[i].arguments, chunk.calls[i].index,
                      chunk.calls[i].id, chunk.calls[i].name)]
       \o IF chunk.finish # Null THEN <<End(ChatFinish(chunk.finish), usage, "finish")>>
          ELSE Optional(chunk.usage # Null, End(Null, usage, "usage"))

(* A whole body's Response. *)
ChatResponse(body) ==
  LET calls == [i \in DOMAIN body.calls |->
                  Part("tool_call",
                       Call(body.calls[i].id, body.calls[i].name,
                            ParseJsonBestEffort(TextOf(body.calls[i]))), <<>>)]
      found == Optional(body.reasoning # <<>>, Part("thinking", body.reasoning, <<>>))
            \o Optional(body.content # <<>>, Part("text", body.content, <<>>))
            \o Optional(body.refusal # <<>>, Part("refusal", body.refusal, <<>>))
            \o calls
      parts == IF found = <<>> THEN <<Part("text", <<>>, <<>>)>> ELSE found
  IN IF \E call \in ToSet(body.calls) : call.name = Null THEN Failure("unnamed")
     ELSE Response(body.model, parts,
                   IF HasCall(parts) THEN "tool_call" ELSE ChatFinish(body.finish),
                   IF body.usage = Null THEN Unreported ELSE UsageFromChat(body.usage, FALSE),
                   "body", body.scores, TRUE)

(* What of a body's Response a stream of the same answer carries: the      *)
(* model is the one asked for, a refusal is not read of a chunk, and a     *)
(* limit that cut the answer is not hidden by a tool call.                 *)
ChatCarried(answer, response, requested) ==
  LET kept == SelectSeq(response.parts, LAMBDA part : part.type # "refusal") IN
  [response EXCEPT
     !.model = requested,
     !.parts = IF kept = <<>> THEN <<Part("text", <<>>, <<>>)>> ELSE kept,
     !.finish = FinishOf(ChatFinish(answer.finish), kept)]
=============================================================================
