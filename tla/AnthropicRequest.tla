-------------------------- MODULE AnthropicRequest --------------------------
(***************************************************************************)
(* A request written for the Messages API (src/dialects/anthropic.ts).     *)
(* Each step takes the builder and hands it on; a step after a refusal     *)
(* changes nothing.  Fields of a nested object are named by their path.    *)
(***************************************************************************)
EXTENDS Compat

DEFAULT_MAX_TOKENS == 16384

AnthropicBlock(part, compat) ==
  LET kept == \/ part.state = "signed"
              \/ compat.thinkingReplay = "unsigned" /\ part.says # <<>> IN
  CASE part.kind = "tool_call" -> CallBlock("tool_use", part)
    [] part.kind = "tool_result" ->
         [AnswerBlock("tool_result", part, Joined(part.content)) EXCEPT !.isError = part.isError]
    [] part.kind = "thinking" /\ part.state = "redacted" -> Block("redacted_thinking", part.says)
    [] part.kind = "thinking" /\ part.state # "redacted" /\ kept -> Block("thinking", part.says)
    [] part.kind \in {"image", "document"} -> Block(part.kind, part.says)
    [] OTHER -> TextBlock(part.says)

DeveloperMark == <<"[developer]">>

AnthropicMessage(message, compat) ==
  IF message.role = "developer"
  THEN Row("user", <<TextBlock(DeveloperMark \o PartsToText(message.parts))>>)
  ELSE Row(IF message.role = "assistant" THEN "assistant" ELSE "user",
           [i \in DOMAIN message.parts |-> AnthropicBlock(message.parts[i], compat)])

AnthropicMessages(b) ==
  LET messages == b.request.messages
      refused == \/ MessageMediaRefused(messages, "anthropic")
                 \/ b.compat.serves # Null /\ b.request.model \notin b.compat.serves
                 \/ ResultMediaRefused(messages, b.compat.toolResultMedia)
                 \/ \E m \in ToSet(messages) : m.role = "developer" /\ HasMedia(m.parts)
  IN Put(UnsupportedIf(refused, b, "messages"), "messages",
         [i \in DOMAIN messages |-> AnthropicMessage(messages[i], b.compat)])

-----------------------------------------------------------------------------
(* The cache: marks on blocks, never a key or a stored object. *)
TakesMarks(b) == b.compat.cacheControl = "anthropic"
UsesCache(b) == TakesMarks(b) /\ Asked(b, "cache.mode") \notin {Null, "off"}
CacheMark(b) == IF Asked(b, "cache.retention") = "long" THEN "1h" ELSE "5m"

(* The message whose last block bears the mark, 0 for none. *)
MarkedMessage(b) ==
  LET last == Len(b.request.messages) IN
  CASE ~UsesCache(b) -> 0
    [] Asked(b, "cache.prefix_until_index") # Null ->
         Min({Asked(b, "cache.prefix_until_index") + 1, last})
    [] Asked(b, "cache.prefix") = "history" -> last
    [] OTHER -> 0

MarkLast(row, mark) ==
  Row(row.role, Front(row.blocks) \o <<[Last(row.blocks) EXCEPT !.mark = mark]>>)

MarkRow(rows, index, mark) ==
  [i \in DOMAIN rows |-> IF i = index THEN MarkLast(rows[i], mark) ELSE rows[i]]

AnthropicMarks(b) ==
  IF b.failed # Null \/ MarkedMessage(b) = 0 THEN b
  ELSE [b EXCEPT !.wire["messages"] = MarkRow(@, MarkedMessage(b), CacheMark(b))]

AnthropicCache(b) ==
  AnthropicMarks(
    UnsupportedIf(Asked(b, "cache.resource") # Null,
      DroppedIf(~TakesMarks(b) /\ Asked(b, "cache.retention") = "long",
        Dropped(b, "cache.key"), "cache.retention"), "cache.resource"))

-----------------------------------------------------------------------------
(* Reasoning: a budget of thinking tokens, or an effort word on the models *)
(* and servers that take no budget.                                        *)
ThinkingOn(b) == b.local["reasoning.effort"] \notin {Null, "off"}
TakesEffort(b) == b.compat.thinkingFormat # "anthropic" \/ AdaptiveClass(b.request.model)

AnthropicEffort(b) ==
  ChangedIf(b.compat.thinkingFormat = "anthropic" /\ b.local["reasoning.effort"] = "minimal",
            Dropped(b, "reasoning.thinking_budget"), "reasoning.effort", "clamped", "low")

AnthropicReasoning(b) ==
  CASE ~ThinkingOn(b) -> b
    [] ThinkingOn(b) /\ TakesEffort(b) -> AnthropicEffort(SummaryPlain(EffortClamped(b)))
    [] OTHER -> SummaryPlain(EffortClamped(b))

BudgetOf(b) ==
  CASE ~ThinkingOn(b) \/ TakesEffort(b) -> Null
    [] b.local["reasoning.thinking_budget"] # Null -> b.local["reasoning.thinking_budget"]
    [] OTHER -> ThinkingBudget(b.local["reasoning.effort"])

(* What is left for the answer when the caller set no limit. *)
DefaultVisible(ceiling, budget) ==
  CASE ceiling = Null -> DEFAULT_MAX_TOKENS
    [] ceiling # Null /\ budget = Null -> ceiling
    [] OTHER -> IF budget < ceiling THEN ceiling - budget ELSE DEFAULT_MAX_TOKENS

(* The required limit, which covers the thinking when it has a budget. *)
Limited(b, budget, visible) ==
  Put(b, "max_tokens", IF budget = Null THEN visible ELSE budget + visible)

\* Mutant: the budget is added to a limit of the builder's own, not to the caller's.
AnthropicLimitUncovered(b) ==
  LET asked == Asked(b, "max_tokens")
      visible == DefaultVisible(OutputCeiling(b.request.model), BudgetOf(b)) IN
  IF asked # Null THEN Limited(b, Null, asked)
  ELSE Limited(Adapt(b, "max_tokens", "defaulted", Null, visible), BudgetOf(b), visible)

AnthropicLimit(b) ==
  LET asked == Asked(b, "max_tokens")
      visible == DefaultVisible(OutputCeiling(b.request.model), BudgetOf(b)) IN
  IF asked # Null THEN Limited(b, BudgetOf(b), asked)
  ELSE Limited(Adapt(b, "max_tokens", "defaulted", Null, visible), BudgetOf(b), visible)

AnthropicThinking(b) ==
  LET format == b.compat.thinkingFormat
      type == CASE b.local["reasoning.effort"] = "off" ->
                     IF format = "anthropic" THEN Null ELSE "disabled"
                [] ~ThinkingOn(b) \/ format = "effort" -> Null
                [] BudgetOf(b) # Null \/ format = "deepseek" -> "enabled"
                [] OTHER -> "adaptive"
      shown == format = "anthropic" /\ type # Null /\ b.local["reasoning.summary"] # Null
  IN PutIf(shown,
       PutIf(ThinkingOn(b) /\ TakesEffort(b),
         Put(Put(b, "thinking.type", type), "thinking.budget_tokens", BudgetOf(b)),
         "output_config.effort", b.local["reasoning.effort"]),
       "thinking.display", "summarized")

-----------------------------------------------------------------------------
AnthropicSystem(b) ==
  LET block == TextBlock(b.request.system) IN
  PutIf(b.request.system # Null, b, "system",
        <<IF UsesCache(b) THEN [block EXCEPT !.mark = CacheMark(b)] ELSE block>>)

(* In tenths: the wire's scale ends at 1.0. *)
AnthropicTemperature(b) ==
  LET asked == b.local["temperature"] IN
  ChangedIf(asked # Null /\ asked > 10, b, "temperature", "clamped", 10)

AnthropicSampling(b) ==
  LET fixed == b.compat.samplingParams = "reject"
      hints == <<"seed", "frequency_penalty", "presence_penalty">>
      taken == <<"temperature", "top_p", "top_k">>
      dropped == FoldLeft(Dropped, b, IF fixed THEN taken \o hints ELSE hints)
  IN Put(FoldLeft(PutLocal, AnthropicTemperature(dropped), taken), "stop_sequences", Asked(b, "stop"))

-----------------------------------------------------------------------------
(* The names of a proper subset: the wire cannot restrict to it, so only   *)
(* those tools are sent.                                                   *)
AllowedSubset(b) ==
  LET allowed == Asked(b, "tool_choice.allowed")
      mode == Asked(b, "tool_choice.mode") IN
  IF \/ allowed = Null
     \/ Len(allowed) = 1 /\ mode = "required"
     \/ ToSet(allowed) = ToSet(b.request.tools)
  THEN Null ELSE allowed

SentTools(b, allowed) == SelectSeq(b.request.tools, LAMBDA name : name \in ToSet(allowed))

AnthropicTools(b) ==
  LET subset == AllowedSubset(b) IN
  CASE b.request.tools = <<>> -> b
    [] b.request.tools # <<>> /\ subset = Null -> Put(b, "tools", b.request.tools)
    [] OTHER -> Put(Changed(b, "tool_choice.allowed", "client_side", SentTools(b, subset)),
                    "tools", SentTools(b, subset))

ForcedTool(b) ==
  LET allowed == Asked(b, "tool_choice.allowed") IN
  IF allowed # Null /\ Len(allowed) = 1 /\ Asked(b, "tool_choice.mode") = "required"
  THEN allowed[1] ELSE Null

ChoiceType(b) ==
  CASE Asked(b, "tool_choice.mode") = "none" -> "none"
    [] Asked(b, "tool_choice.mode") = "required" ->
         IF ForcedTool(b) # Null THEN "tool" ELSE "any"
    [] OTHER -> "auto"

AnthropicToolChoice(b) ==
  LET chosen == DroppedIf(b.compat.parallelToolCalls = "reject", b, "tool_choice.parallel") IN
  IF Asked(b, "tool_choice.mode") = Null THEN b
  ELSE Put(Put(PutIf(b.local["tool_choice.parallel"] = FALSE /\ b.compat.parallelToolCalls = "send",
                     chosen, "tool_choice.disable_parallel_tool_use", TRUE),
               "tool_choice.type", ChoiceType(b)),
           "tool_choice.name", ForcedTool(b))

-----------------------------------------------------------------------------
(* A server that ignores schemas is sent none; nothing measures a          *)
(* distribution here, which is said only where a schema is sent.  The wire *)
(* knows no JSON of any shape.                                             *)
OutputConfig(b, format) ==
  Put(UnsupportedIf(format = "json_object", b, "response_format"), "output_config.format", format)

AnthropicFormat(b) ==
  LET format == Asked(b, "response_format") IN
  IF b.compat.structuredOutput = "reject" THEN Dropped(b, "response_format")
  ELSE OutputConfig(UnmeasurableProbabilities(b), format)

AnthropicStore(b) ==
  CASE Asked(b, "store") = TRUE -> Dropped(b, "store")
    [] Asked(b, "store") = FALSE -> Adapt(b, "store", "satisfied", FALSE, Null)
    [] OTHER -> b

AnthropicRest(b) ==
  Dropped(
    AnthropicStore(
      Put(Put(b, "service_tier", Asked(b, "service_tier")),
          "metadata.user_id", Asked(b, "user_id"))), "logprobs")

AnthropicBuild(b) ==
  AnthropicRest(AnthropicFormat(AnthropicThinking(AnthropicToolChoice(AnthropicTools(
    AnthropicSampling(AnthropicSystem(AnthropicLimit(AnthropicReasoning(AnthropicCache(
      AnthropicMessages(b)))))))))))
=============================================================================
