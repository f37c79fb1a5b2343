---------------------------- MODULE ChatRequest ----------------------------
(***************************************************************************)
(* A request written for the Chat Completions API (src/dialects/           *)
(* openai_chat.ts), the wire most servers speak and few speak alike: the   *)
(* knobs of the server and of the model decide what is sent, moved to the  *)
(* client, or refused.                                                     *)
(***************************************************************************)
EXTENDS Compat

(* Content of a message that is not an assistant's: text and images. *)
ChatKinds == {"text", "data", "image"}
ContentBlock(part) == Block(IF part.kind = "image" THEN "image_url" ELSE "text", part.says)
ContentBlocks(parts) == [i \in DOMAIN parts |-> ContentBlock(parts[i])]

ToolRowText(part) ==
  IF HasMedia(part.content) THEN Spoken(ErrorBlocks(part, ContentBlocks(part.content)))
  ELSE ToolResultErrorText(part, PartsToText(part.content))

ToolRow(part) == Row("tool", <<AnswerBlock("tool", part, ToolRowText(part))>>)

(* An assistant message is one string, its thinking where the server       *)
(* replays it, and its calls; other parts have no place.                   *)
AssistantText(parts, replay) ==
  PartsOf(parts, {"text", "refusal"} \cup IF replay = "as_text" THEN {"thinking"} ELSE {})

Replayed(parts, compat) ==
  LET says == Joined(PartsOf(parts, {"thinking"})) IN
  IF compat.thinkingReplay = "native"
     /\ (says # <<>> \/ compat.assistantReasoningContent = "include_empty")
  THEN <<Block("reasoning_content", says)>> ELSE <<>>

ChatCall(part) == CallBlock("tool_call", part)

(* Each message of a tool result is a row of its own. *)
ChatRows(message, compat, marked) ==
  LET parts == message.parts
      said == AssistantText(parts, compat.thinkingReplay)
      calls == Calls(parts) IN
  CASE message.role = "tool" -> [i \in DOMAIN parts |-> ToolRow(parts[i])]
    [] message.role = "assistant" ->
         <<Row("assistant", (IF said = <<>> THEN <<>> ELSE <<TextBlock(Joined(said))>>)
                            \o Replayed(parts, compat) \o [i \in DOMAIN calls |-> ChatCall(calls[i])])>>
    [] OTHER ->
         <<Row(IF message.role = "developer" THEN compat.instructionRole ELSE message.role,
               IF marked THEN MarkedLast(ContentBlocks(parts)) ELSE ContentBlocks(parts))>>

SystemRow(b) ==
  LET said == <<TextBlock(b.request.system)>> IN
  IF b.request.system = Null THEN <<>>
  ELSE <<Row(b.compat.instructionRole, IF CacheStablePrefix(b) THEN MarkedLast(said) ELSE said)>>

BuildMessages(b) ==
  SystemRow(b)
  \o FlattenSeq([i \in DOMAIN b.request.messages |->
                  ChatRows(b.request.messages[i], b.compat, i = CacheBreakpointIndex(b))])

(* What the body refuses, before anything is built of it: media of the     *)
(* assistant's.                                                            *)
ChatMediaChecked(b) ==
  UnsupportedIf(MessageMediaRefused(b.request.messages, "chat"), b, "messages")

(* What the messages refuse by themselves: of an assistant message, media  *)
(* are only left out.                                                      *)
NoChatBlock(messages) ==
  \E m \in ToSet(messages) : \E part \in ToSet(m.parts) :
     m.role # "assistant" /\ part.kind \in MediaKinds \ {"image"}

ChatMessages(b) ==
  LET messages == b.request.messages
      refused == NoChatBlock(messages) \/ ResultMediaRefused(messages, b.compat.toolResultMedia)
  IN Put(BreakpointNoted(UnsupportedIf(refused, b, "messages")), "messages", BuildMessages(b))

-----------------------------------------------------------------------------
(* A distribution is measured by complete() alone, and only where the      *)
(* server scores named tokens (Scoring).                                   *)
ScoresNamedTokens(b) == b.compat.tokenScoring = "logprob_token_ids"

JudgmentsViaTokenScoring(b) ==
  /\ ScoresNamedTokens(b) /\ Measurable(b)
  /\ Asked(b, "probabilities") \in {"if_available", "required"}

JudgmentStreamPolicy(b) ==
  IF Asked(b, "probabilities") = "required" THEN Unsupported(b, "probabilities")
  ELSE Dropped(b, "probabilities")

ChatProbabilities(b, stream) ==
  CASE stream /\ JudgmentsViaTokenScoring(b) -> JudgmentStreamPolicy(b)
    [] ~stream /\ ScoresNamedTokens(b) -> b
    [] OTHER -> UnmeasurableProbabilities(b)

ChatSampling(b) ==
  LET sent == <<"temperature", "top_p", "seed", "frequency_penalty", "presence_penalty", "stop">>
      scores == Asked(b, "logprobs") IN
  PutIf(scores # Null /\ scores > 0,
    PutIf(scores # Null,
      FoldLeft(PutAsked, Dropped(Put(b, b.compat.maxTokensField, Asked(b, "max_tokens")), "top_k"), sent),
      "logprobs", TRUE),
    "top_logprobs", scores)

-----------------------------------------------------------------------------
(* Tools.  Only Groq runs tools of its own, and not all of them. *)
GroqBuiltins == {"web_search"}
ChatTool(name) == IF name = "web_search" THEN "browser_search" ELSE name

ChatTools(b) ==
  LET builtins == ToSet(Builtins(b.request.tools))
      known == IF b.compat.builtinTools = "groq" THEN GroqBuiltins ELSE {} IN
  PutIf(b.request.tools # <<>>, UnsupportedIf(~(builtins \subseteq known), b, "tools"),
        "tools", [i \in DOMAIN b.request.tools |-> ChatTool(b.request.tools[i])])

ChatChoice(mode, allowed) ==
  CASE mode = "none" \/ allowed = Null -> mode
    [] mode = "required" /\ allowed # Null /\ Len(allowed) = 1 -> "function"
    [] OTHER -> "allowed_tools"

SendChoice(b, type, allowed) ==
  PutIf(type = "allowed_tools",
    PutIf(type \in {"function", "allowed_tools"}, Put(b, "tool_choice.type", type),
          "tool_choice.tools", allowed),
    "tool_choice.mode", Asked(b, "tool_choice.mode"))

KeepTools(b, kept) == IF b.failed # Null THEN b ELSE [b EXCEPT !.wire["tools"] = kept]
SendNoTools(b) ==
  IF b.failed # Null THEN b
  ELSE [b EXCEPT !.wire = [f \in DOMAIN b.wire \ {"tools"} |-> b.wire[f]]]

(* A server that honours "auto" alone: no tools, or only the allowed ones, *)
(* are sent; a call it was told to make cannot be had.                     *)
ClientSideChoice(b) ==
  LET mode == Asked(b, "tool_choice.mode")
      kept == SelectSeq(b.request.tools,
                        LAMBDA name : name \in ToSet(Asked(b, "tool_choice.allowed"))) IN
  CASE mode = "required" -> Unsupported(b, "tool_choice.mode")
    [] mode = "none" ->
         SendNoTools(Adapt(b, "tool_choice.mode", "client_side", "none", "no tools sent"))
    [] OTHER -> KeepTools(Changed(b, "tool_choice.allowed", "client_side", kept), kept)

ChatToolChoice(b) ==
  LET mode == Asked(b, "tool_choice.mode")
      allowed == Asked(b, "tool_choice.allowed")
      ignored == b.compat.forcedToolChoice = "reject" /\ (mode # "auto" \/ allowed # Null)
      named == UnsupportedIf(allowed # Null /\ Builtins(allowed) # <<>>, b, "tool_choice.allowed")
  IN CASE mode = Null -> b
       [] mode # Null /\ ignored -> SendChoice(ClientSideChoice(named), "auto", Null)
       [] OTHER -> SendChoice(named, ChatChoice(mode, allowed), allowed)

ChatFormat(b) ==
  LET format == Asked(b, "response_format") IN
  IF b.compat.jsonSchema = "reject" /\ format # "json_object" THEN Dropped(b, "response_format")
  ELSE Put(b, "response_format", format)

-----------------------------------------------------------------------------
(* Reasoning. *)
LowestEffort(b) ==
  IF b.compat.reasoningEfforts = Null THEN "low"
  ELSE CHOOSE low \in b.compat.reasoningEfforts :
         \A level \in b.compat.reasoningEfforts : EffortIndex(low) <= EffortIndex(level)

NoDial(b) ==
  [Adapt(b, "reasoning", "dropped", b.local["reasoning.effort"], Null)
     EXCEPT !.local = [path \in ReasoningPaths |-> Null] @@ @]

OffLowered(b) ==
  ChangedIf(b.local["reasoning.effort"] = "off" /\ b.compat.reasoningOff = "lowest",
            b, "reasoning.effort", "substituted", LowestEffort(b))

OnAdapted(b) ==
  IF b.local["reasoning.effort"] = "off" THEN b
  ELSE EffortClamped(SummaryPlain(Dropped(b, "reasoning.thinking_budget")))

ChatReasoningFields(format, effort) ==
  LET off == effort = "off" IN
  CASE format = "reasoning_effort" -> "reasoning_effort" :> IF off THEN "none" ELSE effort
    [] format = "openrouter" ->
         IF off THEN "reasoning.enabled" :> FALSE ELSE "reasoning.effort" :> effort
    [] format = "deepseek" ->
         IF off THEN "thinking.type" :> "disabled"
         ELSE ("thinking.type" :> "enabled") @@ ("reasoning_effort" :> effort)
    [] format = "kimi" ->
         IF off THEN "thinking.type" :> "disabled" ELSE "reasoning_effort" :> effort
    [] format = "qwen" -> "enable_thinking" :> ~off
    [] format = "qwen_chat_template" -> "chat_template_kwargs.enable_thinking" :> ~off

ReasoningSent(b) ==
  LET effort == b.local["reasoning.effort"] IN
  PutIf(effort # "off" /\ b.compat.builtinTools = "groq" /\ b.local["reasoning.summary"] = "auto",
        PutAll(b, ChatReasoningFields(b.compat.thinkingFormat, effort)),
        "reasoning_format", "parsed")

ChatReasoning(b) ==
  CASE Asked(b, "reasoning.effort") = Null -> b
    [] Asked(b, "reasoning.effort") # Null /\ b.compat.thinkingFormat = "none" -> NoDial(b)
    [] OTHER -> ReasoningSent(OnAdapted(OffLowered(b)))

ChatRest(b) ==
  Put(Put(Put(b, "service_tier", Asked(b, "service_tier")),
          b.compat.userField, Asked(b, "user_id")), "store", Asked(b, "store"))

ChatBuild(b, stream) ==
  ChatRest(CacheCommonPayload(ChatReasoning(ChatFormat(Put(
    ChatToolChoice(ChatTools(ChatSampling(ChatMessages(
      ChatProbabilities(ChatMediaChecked(b), stream))))),
    "parallel_tool_calls", Asked(b, "tool_choice.parallel"))))))
=============================================================================
