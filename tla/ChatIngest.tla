----------------------------- MODULE ChatIngest -----------------------------
(***************************************************************************)
(* A Chat Completions body read back into a request (the second half of    *)
(* src/dialects/openai_chat.ts): the decoder reads the spellings of one    *)
(* server's compat and refuses every other one.                            *)
(***************************************************************************)
EXTENDS ChatRequest

NothingRead ==
  [system |-> Null, messages |-> <<>>, systemMarked |-> FALSE, marked |-> Null]

Message(role, parts) == [role |-> role, parts |-> parts]
HasMark(row) == row.blocks # <<>> /\ row.blocks[Len(row.blocks)].mark # Null

(* Blocks of a row, as parts. *)
IngestBlock(block) ==
  CASE block.type = "image_url" -> Part("image", block.says)
    [] block.type = "reasoning_content" -> Part("thinking", block.says)
    [] block.type = "tool_call" -> [Part("tool_call", block.says) EXCEPT !.id = block.id]
    [] block.type = "tool" ->
         [Part("tool_result", <<>>) EXCEPT !.id = block.id, !.content = <<Part("text", block.says)>>]
    [] OTHER -> Part("text", block.says)

OfType(blocks, types) == SelectSeq(blocks, LAMBDA block : block.type \in types)
IngestBlocks(blocks) == [i \in DOMAIN blocks |-> IngestBlock(blocks[i])]

(* Thinking first, then the content, then the calls; nothing is an empty text. *)
IngestAssistant(blocks) ==
  LET parts == IngestBlocks(OfType(blocks, {"reasoning_content"}) \o OfType(blocks, {"text"})
                            \o OfType(blocks, {"tool_call"})) IN
  IF parts = <<>> THEN <<Part("text", <<>>)>> ELSE parts

Marking(read, row) ==
  IF HasMark(row) THEN [read EXCEPT !.marked = Len(read.messages)] ELSE read
Said(read, message) == [read EXCEPT !.messages = Append(@, message)]

(* The rows of consecutive results are one message. *)
IngestResults(read, row) ==
  LET n == Len(read.messages)
      results == IngestBlocks(row.blocks) IN
  IF n > 0 /\ read.messages[n].role = "tool"
  THEN [read EXCEPT !.messages[n].parts = @ \o results]
  ELSE Said(read, Message("tool", results))

(* Instructions are the system text in the first row, a developer's turn after it. *)
IngestInstructions(read, row) ==
  IF read.messages = <<>> /\ read.system = Null
  THEN [read EXCEPT !.system = Spoken(row.blocks), !.systemMarked = HasMark(row)]
  ELSE Said(Marking(read, row), Message("developer", IngestBlocks(row.blocks)))

IngestRow(read, row) ==
  CASE row.role \in {"system", "developer"} -> IngestInstructions(read, row)
    [] row.role = "user" -> Said(Marking(read, row), Message("user", IngestBlocks(row.blocks)))
    [] row.role = "assistant" -> Said(read, Message("assistant", IngestAssistant(row.blocks)))
    [] row.role = "tool" -> IngestResults(read, row)

IngestRows(rows) == FoldLeft(IngestRow, NothingRead, rows)

-----------------------------------------------------------------------------
(* Tools and the choice among them. *)
IngestTool(name) == IF name = "browser_search" THEN "web_search" ELSE name
IngestTools(wire) ==
  LET names == Field(wire, "tools") IN
  IF names = Null THEN <<>> ELSE [i \in DOMAIN names |-> IngestTool(names[i])]

ToolsRefused(wire, compat) ==
  /\ Field(wire, "tools") # Null /\ compat.builtinTools # "groq"
  /\ "browser_search" \in ToSet(wire["tools"])

IngestMode(wire) ==
  LET type == Field(wire, "tool_choice.type") IN
  CASE type = "function" -> "required"
    [] type = "allowed_tools" -> wire["tool_choice.mode"]
    [] OTHER -> type

(* The reasoning dial, spelled as this server spells it and no other. *)
Spellings ==
  {"reasoning_effort", "reasoning.effort", "reasoning.enabled", "thinking.type",
   "enable_thinking", "chat_template_kwargs.enable_thinking", "reasoning_format"}

SpelledBy(compat) ==
  (CASE compat.thinkingFormat = "reasoning_effort" -> {"reasoning_effort"}
     [] compat.thinkingFormat = "openrouter" -> {"reasoning.effort", "reasoning.enabled"}
     [] compat.thinkingFormat \in {"deepseek", "kimi"} -> {"thinking.type", "reasoning_effort"}
     [] compat.thinkingFormat = "qwen" -> {"enable_thinking"}
     [] compat.thinkingFormat = "qwen_chat_template" -> {"chat_template_kwargs.enable_thinking"}
     [] compat.thinkingFormat = "none" -> {})
  \cup IF compat.builtinTools = "groq" THEN {"reasoning_format"} ELSE {}

SaysOff(wire) ==
  \/ Field(wire, "reasoning_effort") = "none" \/ Field(wire, "thinking.type") = "disabled"
  \/ \E flag \in {"reasoning.enabled", "enable_thinking", "chat_template_kwargs.enable_thinking"} :
        Field(wire, flag) = FALSE

EffortWord(wire) ==
  IF Field(wire, "reasoning_effort") # Null THEN wire["reasoning_effort"]
  ELSE Field(wire, "reasoning.effort")

(* "On" without a level is no canonical dial. *)
ReasoningRefused(wire, compat) ==
  \/ (Spellings \cap DOMAIN wire) \ SpelledBy(compat) # {}
  \/ Field(wire, "enable_thinking") = TRUE
  \/ Field(wire, "chat_template_kwargs.enable_thinking") = TRUE
  \/ Field(wire, "thinking.type") = "enabled" /\ EffortWord(wire) = Null

-----------------------------------------------------------------------------
(* The cache. *)
CacheKeys == {"prompt_cache_key", "prompt_cache_options.mode", "prompt_cache_retention"}
Marked(read) == read.systemMarked \/ read.marked # Null

CacheRefused(wire, read, compat) ==
  \/ /\ Marked(read) \/ CacheKeys \cap DOMAIN wire # {}
     /\ compat.cacheControl \notin {"openai", "openai_implicit"}
  \/ Marked(read) /\ compat.cacheControl # "openai"
  \/ /\ Field(wire, "prompt_cache_options.mode") = "explicit" /\ ~Marked(read)
     /\ {"prompt_cache_key", "prompt_cache_retention"} \cap DOMAIN wire # {}

IngestCacheMode(wire, read) ==
  CASE CacheKeys \cap DOMAIN wire = {} /\ ~Marked(read) -> Null
    [] Field(wire, "prompt_cache_options.mode") = "explicit" /\ ~Marked(read) -> "off"
    [] OTHER -> "auto"

(* Everything else. *)
UserKeys == {"user", "safety_identifier", "user_id"}
UserRefused(wire, compat) == "user_id" \in DOMAIN wire /\ compat.userField # "user_id"

OneOf(wire, fields) ==
  IF fields \cap DOMAIN wire = {} THEN Null
  ELSE wire[CHOOSE field \in fields : field \in DOMAIN wire]

\* Mutant: scores of the chosen token alone, asked without a count, are not read.
IngestScoresCounted(wire) == Field(wire, "top_logprobs")

IngestScores(wire) ==
  CASE Field(wire, "logprobs") = Null -> Null
    [] "top_logprobs" \in DOMAIN wire -> wire["top_logprobs"]
    [] OTHER -> 0

IngestConfig(wire, read) ==
  LET copied == {"temperature", "top_p", "seed", "frequency_penalty", "presence_penalty", "stop",
                 "response_format", "service_tier", "store"} IN
  [[path \in Paths |-> IF path \in copied THEN Field(wire, path) ELSE Null] EXCEPT
    !["max_tokens"] = OneOf(wire, {"max_completion_tokens", "max_tokens"}),
    !["logprobs"] = IngestScores(wire),
    !["tool_choice.mode"] = IngestMode(wire),
    !["tool_choice.allowed"] = Field(wire, "tool_choice.tools"),
    !["tool_choice.parallel"] = Field(wire, "parallel_tool_calls"),
    !["user_id"] = OneOf(wire, UserKeys),
    !["reasoning.effort"] = IF SaysOff(wire) THEN "off" ELSE EffortWord(wire),
    !["reasoning.summary"] = IF "reasoning_format" \in DOMAIN wire THEN "auto" ELSE Null,
    !["cache.mode"] = IngestCacheMode(wire, read),
    !["cache.key"] = Field(wire, "prompt_cache_key"),
    !["cache.retention"] = IF "prompt_cache_retention" \in DOMAIN wire THEN "long" ELSE Null,
    !["cache.prefix"] = IF read.systemMarked THEN "stable" ELSE Null,
    !["cache.prefix_until_index"] = read.marked]

IngestRefused(wire, read, compat) ==
  \/ read.messages = <<>> \/ ToolsRefused(wire, compat) \/ ReasoningRefused(wire, compat)
  \/ CacheRefused(wire, read, compat) \/ UserRefused(wire, compat)

IngestRequest(model, wire, read, compat) ==
  IF IngestRefused(wire, read, compat) THEN Null
  ELSE [model |-> model, system |-> read.system, messages |-> read.messages,
        tools |-> IngestTools(wire), config |-> Normalized(IngestConfig(wire, read))]

(* The request a body states, Null where the reader refuses it. *)
IngestOpenAIChat(model, wire, compat) ==
  IngestRequest(model, wire, IngestRows(wire["messages"]), compat)
=============================================================================
