-------------------------- MODULE ResponsesRequest --------------------------
(***************************************************************************)
(* A request written for the Responses API (src/dialects/                  *)
(* openai_responses.ts): one item for a message, a call, its output and a  *)
(* reasoning that can be continued.                                        *)
(***************************************************************************)
EXTENDS Compat

-----------------------------------------------------------------------------
(* The input items. *)
InputType(part) == IF part.kind \in MediaKinds THEN part.kind ELSE "text"
PartToInput(part) == Block(InputType(part), part.says)
Inputs(parts) == [i \in DOMAIN parts |-> PartToInput(parts[i])]

ToolResultOutput(part) ==
  AnswerBlock("function_call_output", part,
    IF HasMedia(part.content) THEN Spoken(ErrorBlocks(part, Inputs(part.content)))
    ELSE ToolResultErrorText(part, PartsToText(part.content)))

ItemsFrom(parts, Item(_)) == [i \in DOMAIN parts |-> Item(parts[i])]
OutputItem(part) == Row("function_call_output", <<ToolResultOutput(part)>>)
CallItem(part) == Row("function_call", <<CallBlock("function_call", part)>>)
ReasoningItem(part) == Row("reasoning", <<Block("summary", part.says)>>)

(* Thinking the server can continue is an item of its own, other thinking  *)
(* is text; data and citations of an assistant message have no place.      *)
Continued(part) == part.kind = "thinking" /\ part.state # Null
SaidByAssistant(part) ==
  \/ part.kind \in {"text", "refusal"}
  \/ part.kind = "thinking" /\ part.state = Null /\ part.says # <<>>
AssistantBlock(part) ==
  Block(IF part.kind = "refusal" THEN "refusal" ELSE "output_text", part.says)

MessageItem(role, blocks) == IF blocks = <<>> THEN <<>> ELSE <<Row(role, blocks)>>

AssistantItems(parts) ==
  ItemsFrom(SelectSeq(parts, Continued), ReasoningItem)
  \o MessageItem("assistant", ItemsFrom(SelectSeq(parts, SaidByAssistant), AssistantBlock))
  \o ItemsFrom(Calls(parts), CallItem)

PromptItem(b, i) ==
  LET message == b.request.messages[i]
      blocks == Inputs(message.parts) IN
  Row(IF message.role = "developer" THEN b.compat.developerRole ELSE message.role,
      IF i = CacheBreakpointIndex(b) THEN MarkedLast(blocks) ELSE blocks)

MessageItems(b, i) ==
  LET message == b.request.messages[i] IN
  CASE message.role = "tool" -> ItemsFrom(message.parts, OutputItem)
    [] message.role = "assistant" -> AssistantItems(message.parts)
    [] OTHER -> <<PromptItem(b, i)>>

InputItems(b) == FlattenSeq([i \in DOMAIN b.request.messages |-> MessageItems(b, i)])

ResponsesInput(b) ==
  LET messages == b.request.messages
      refused == \/ MessageMediaRefused(messages, "openai")
                 \/ ResultMediaRefused(messages, b.compat.toolResultMedia)
  IN Put(BreakpointNoted(UnsupportedIf(refused, b, "messages")), "messages", InputItems(b))

(* A stable prefix is the first item, so that it can bear the mark. *)
ResponsesSystem(b) ==
  LET said == <<TextBlock(b.request.system)>> IN
  CASE b.request.system = Null \/ b.failed # Null -> b
    [] b.request.system # Null /\ b.failed = Null /\ CacheStablePrefix(b) ->
         [b EXCEPT !.wire["messages"] = <<Row(b.compat.developerRole, MarkedLast(said))>> \o @]
    [] OTHER -> Put(b, "system", said)

-----------------------------------------------------------------------------
(* Limits and sampling; a stop sequence is honoured on the client. *)
ClientSideStop(b) ==
  ChangedIf(Asked(b, "stop") # Null, b, "stop", "client_side", Asked(b, "stop"))

ResponsesSampling(b) ==
  LET unsent == <<"top_k", "seed", "frequency_penalty", "presence_penalty">>
      sent == Put(Put(Put(b, b.compat.maxOutputTokensField, Asked(b, "max_tokens")),
                      "temperature", Asked(b, "temperature")), "top_p", Asked(b, "top_p"))
  IN Put(FoldLeft(Dropped, ClientSideStop(sent), unsent), "top_logprobs", Asked(b, "logprobs"))

(* The wire's word for a server-executed tool. *)
BuiltinType(name, compat) ==
  IF name = "web_search" /\ compat.builtinTools = "openai" THEN "web_search_preview" ELSE name
ToolTypes(names, compat) == [i \in DOMAIN names |-> BuiltinType(names[i], compat)]

ResponsesChoice(mode, allowed) ==
  CASE mode = "none" \/ allowed = Null -> mode
    [] mode = "required" /\ allowed # Null /\ Len(allowed) = 1 -> "tool"
    [] OTHER -> "allowed_tools"

ResponsesTools(b) ==
  LET mode == Asked(b, "tool_choice.mode")
      allowed == Asked(b, "tool_choice.allowed")
      tools == b.request.tools
      chosen == PutIf(mode # Null, PutIf(tools # <<>>, b, "tools", ToolTypes(tools, b.compat)),
                      "tool_choice.type", ResponsesChoice(mode, allowed))
      named == PutIf(allowed # Null, chosen, "tool_choice.tools", ToolTypes(allowed, b.compat))
  IN Put(PutIf(allowed # Null /\ ResponsesChoice(mode, allowed) = "allowed_tools", named,
               "tool_choice.mode", mode),
         "parallel_tool_calls", Asked(b, "tool_choice.parallel"))

ResponsesFormat(b) ==
  Put(UnmeasurableProbabilities(b), "response_format", Asked(b, "response_format"))

-----------------------------------------------------------------------------
(* Reasoning: the fields of each server's own format. *)
ReasoningAdapted(b) ==
  IF b.compat.reasoningFormat = "responses_reasoning"
  THEN Dropped(b, "reasoning.thinking_budget")
  ELSE SummaryPlain(Dropped(b, "reasoning.thinking_budget"))

ReasoningFields(format, effort, summary) ==
  CASE format = "responses_reasoning" ->
         ("reasoning.effort" :> effort) @@ ("reasoning.summary" :> summary)
    [] format = "reasoning_effort" -> "reasoning_effort" :> effort
    [] format = "openrouter" -> "reasoning.effort" :> effort
    [] format = "deepseek" -> ("thinking.type" :> "enabled") @@ ("reasoning_effort" :> effort)
    [] format \in {"qwen", "zai"} -> "enable_thinking" :> TRUE
    [] format = "qwen_chat_template" -> "chat_template_kwargs.enable_thinking" :> TRUE
    [] format = "none" -> NoKnobs

OffFields(format) ==
  CASE format = "responses_reasoning" -> "reasoning.effort" :> "none"
    [] format = "reasoning_effort" -> "reasoning_effort" :> "none"
    [] format = "openrouter" -> "reasoning.enabled" :> FALSE
    [] format = "deepseek" -> "thinking.type" :> "disabled"
    [] format \in {"qwen", "zai"} -> "enable_thinking" :> FALSE
    [] format = "qwen_chat_template" -> "chat_template_kwargs.enable_thinking" :> FALSE
    [] format = "none" -> NoKnobs

ReasoningPut(b) ==
  PutAll(b, ReasoningFields(b.compat.reasoningFormat, b.local["reasoning.effort"],
                            b.local["reasoning.summary"]))

ResponsesReasoning(b) ==
  CASE b.local["reasoning.effort"] = Null -> b
    [] b.local["reasoning.effort"] = "off" -> PutAll(b, OffFields(b.compat.reasoningFormat))
    [] OTHER -> ReasoningPut(ReasoningAdapted(b))

-----------------------------------------------------------------------------
(* The Codex backend has no output cap and stores nothing; an explicit     *)
(* request for either is refused, never stripped.                          *)
CodexRest(b) ==
  IF ~b.compat.codex THEN b
  ELSE Put(UnsupportedIf(Asked(b, "store") = TRUE,
             UnsupportedIf(Asked(b, "max_tokens") # Null, b, "max_tokens"), "store"),
           "store", FALSE)

ResponsesRest(b) ==
  CodexRest(Put(Put(Put(b, "service_tier", Asked(b, "service_tier")),
                    "safety_identifier", Asked(b, "user_id")), "store", Asked(b, "store")))

ResponsesBuild(b) ==
  ResponsesRest(CacheCommonPayload(ResponsesReasoning(ResponsesFormat(ResponsesTools(
    ResponsesSampling(ResponsesSystem(ResponsesInput(b))))))))
=============================================================================
