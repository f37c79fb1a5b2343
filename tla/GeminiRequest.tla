--------------------------- MODULE GeminiRequest ---------------------------
(***************************************************************************)
(* A request written for GenerateContent (src/dialects/gemini.ts).  A      *)
(* stored cache stands for the prompt prefix it was made from: the system  *)
(* text, the tools and the messages up to an index are not sent again.     *)
(***************************************************************************)
EXTENDS Compat

GeminiResource(b) == Asked(b, "cache.resource")

(* A setting of the cache is read unless the cache is off. *)
GeminiCache(b) ==
  DroppedIf(Asked(b, "cache.retention") = "long", Dropped(b, "cache.key"), "cache.retention")

\* Mutant: the index is taken for a count.
StoredByCount(b) ==
  LET index == Asked(b, "cache.prefix_until_index") IN
  IF GeminiResource(b) = Null \/ index = Null THEN 0
  ELSE Min({index, Len(b.request.messages) - 1})

(* How many messages the stored prefix already holds. *)
StoredMessages(b) ==
  LET index == Asked(b, "cache.prefix_until_index") IN
  IF GeminiResource(b) = Null \/ index = Null THEN 0
  ELSE Min({index, Len(b.request.messages) - 1}) + 1

CallIds(messages) == UNION {{call.id : call \in ToSet(Calls(m.parts))} : m \in ToSet(messages)}

(* A result is named by its part or by the call it answers. *)
Unnamed(part, ids) == part.kind = "tool_result" /\ part.name = Null /\ part.id \notin ids

(* Text of a result goes under "error" or "result", media beside it. *)
FunctionResponse(part) ==
  [AnswerBlock("functionResponse", part,
     PartsToText(PartsOutside(part.content, MediaKinds)) \o Joined(PartsOf(part.content, MediaKinds)))
   EXCEPT !.isError = part.isError]

GeminiPart(part) ==
  CASE part.kind = "tool_call" -> CallBlock("functionCall", part)
    [] part.kind = "tool_result" -> FunctionResponse(part)
    [] part.kind \in MediaKinds -> Block(part.kind, part.says)
    [] part.kind = "thinking" /\ part.state # Null -> Block("thought", part.says)
    [] OTHER -> TextBlock(part.says)

GeminiMessage(message) ==
  IF message.role = "developer"
  THEN Row("user", <<TextBlock(<<"[developer]">> \o PartsToText(message.parts))>>)
  ELSE Row(IF message.role = "assistant" THEN "model" ELSE "user",
           [i \in DOMAIN message.parts |-> GeminiPart(message.parts[i])])

GeminiContents(b) ==
  LET messages == b.request.messages
      sent == SubSeq(messages, StoredMessages(b) + 1, Len(messages))
      refused ==
        \/ sent = <<>>
        \/ ResultMediaRefused(sent, "native")
        \/ \E m \in ToSet(sent) : m.role = "developer" /\ HasMedia(m.parts)
        \/ \E m \in ToSet(sent) : \E part \in ToSet(m.parts) : Unnamed(part, CallIds(messages))
  IN PutIf(b.request.system # Null /\ GeminiResource(b) = Null,
       Put(Put(UnsupportedIf(refused, b, "messages"),
               "messages", [i \in DOMAIN sent |-> GeminiMessage(sent[i])]),
           "cachedContent", GeminiResource(b)),
       "system", <<TextBlock(b.request.system)>>)

-----------------------------------------------------------------------------
GeminiSampling(b) ==
  LET sent == <<"temperature", "max_tokens", "top_p", "top_k", "seed", "frequency_penalty",
                "presence_penalty", "stop">>
      scores == Asked(b, "logprobs") IN
  PutIf(scores # Null /\ scores > 0,
        PutIf(scores # Null, FoldLeft(PutAsked, b, sent), "logprobs", TRUE), "top_logprobs", scores)

GeminiFormat(b) ==
  Put(UnmeasurableProbabilities(b), "response_format", Asked(b, "response_format"))

(* The level class cannot stop thinking: off becomes its lowest level. *)
OffSubstituted(b) ==
  ChangedIf(b.local["reasoning.effort"] = "off" /\ LevelClass(b.request.model),
            b, "reasoning.effort", "substituted", "minimal")

LevelClamped(b) ==
  ChangedIf(LevelClass(b.request.model) /\ b.local["reasoning.thinking_budget"] = Null
              /\ b.local["reasoning.effort"] \in {"xhigh", "max"},
            b, "reasoning.effort", "clamped", "high")

(* A budget of its own wins over the effort word. *)
ThinkingConfig(b) ==
  LET effort == b.local["reasoning.effort"]
      budget == b.local["reasoning.thinking_budget"] IN
  CASE effort = "off" -> Put(b, "thinkingConfig.thinkingBudget", 0)
    [] effort # "off" /\ budget # Null -> Put(b, "thinkingConfig.thinkingBudget", budget)
    [] effort # "off" /\ budget = Null /\ LevelClass(b.request.model) ->
         Put(b, "thinkingConfig.thinkingLevel", effort)
    [] OTHER -> Put(b, "thinkingConfig.thinkingBudget", ThinkingBudget(effort))

ThinkingShown(b) ==
  PutIf(b.local["reasoning.summary"] # Null, ThinkingConfig(b),
        "thinkingConfig.includeThoughts", TRUE)

GeminiReasoning(b) ==
  IF Asked(b, "reasoning.effort") = Null THEN b
  ELSE ThinkingShown(LevelClamped(SummaryPlain(OffSubstituted(b))))

-----------------------------------------------------------------------------
GeminiTools(b) ==
  PutIf(b.request.tools # <<>> /\ GeminiResource(b) = Null, b, "tools", b.request.tools)

GeminiMode(mode, allowed) ==
  CASE mode = "none" -> "NONE"
    [] mode = "required" -> "ANY"
    [] OTHER -> IF allowed = Null THEN "AUTO" ELSE "VALIDATED"

ToolConfigPayload(b) ==
  LET allowed == Asked(b, "tool_choice.allowed") IN
  Put(Put(UnsupportedIf(allowed # Null /\ Builtins(allowed) # <<>>,
            DroppedIf(Asked(b, "tool_choice.parallel") = FALSE, b, "tool_choice.parallel"),
            "tool_choice.allowed"),
          "tool_choice.mode", GeminiMode(Asked(b, "tool_choice.mode"), allowed)),
      "tool_choice.tools", allowed)

GeminiToolConfig(b) ==
  IF Asked(b, "tool_choice.mode") = Null \/ GeminiResource(b) # Null THEN b
  ELSE ToolConfigPayload(b)

GeminiRest(b) ==
  Dropped(Put(Put(b, "store", Asked(b, "store")), "serviceTier", Asked(b, "service_tier")),
          "user_id")

GeminiBuild(b) ==
  GeminiRest(GeminiToolConfig(GeminiTools(GeminiReasoning(GeminiFormat(GeminiSampling(
    GeminiContents(GeminiCache(b))))))))
=============================================================================
