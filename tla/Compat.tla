------------------------------- MODULE Compat -------------------------------
(***************************************************************************)
(* What each server takes (src/compat.ts and the presets it reads from     *)
(* src/generated/tables.ts): a partial set of knobs, merged and resolved   *)
(* to a policy for a model.  The servers listed differ in a knob the       *)
(* builders read; the model names are those the builders tell apart.  And  *)
(* what the builders share of one knob, the prompt cache's.                *)
(***************************************************************************)
EXTENDS Settings

NoKnobs == [knob \in {} |-> Null]

(* "auto", Null here, and an absent knob are the dialect's own. *)
Resolved(partial, defaults) ==
  [knob \in DOMAIN defaults |->
    IF knob \in DOMAIN partial /\ partial[knob] # Null THEN partial[knob] ELSE defaults[knob]]

(* Absent knobs inherit; present ones, "auto" too, override. *)
MergePartial(base, override) == override @@ base

-----------------------------------------------------------------------------
ResponsesDefaults ==
  [developerRole |-> "developer", maxOutputTokensField |-> "max_output_tokens",
   reasoningFormat |-> "responses_reasoning", toolResultName |-> "omit",
   cacheControl |-> "openai", commentaryPhase |-> "omit", builtinTools |-> "openai",
   toolResultMedia |-> "native", reasoningEfforts |-> Null]

ResponsesPreset(name) ==
  LET local(format) ==
        [developerRole |-> "system", maxOutputTokensField |-> "max_tokens",
         reasoningFormat |-> format, cacheControl |-> "none", toolResultMedia |-> "reject"]
  IN CASE name \in {"openai", "codex"} -> [reasoningFormat |-> "responses_reasoning"]
       [] name = "template" -> [reasoningFormat |-> "qwen_chat_template"]
       [] name = "openrouter" ->
            [maxOutputTokensField |-> "max_tokens", reasoningFormat |-> "openrouter",
             toolResultMedia |-> "reject"]
       [] name \in {"ollama", "lmstudio"} -> local("none")
       [] name \in {"vllm", "sglang"} -> local("reasoning_effort")
       [] name \in {"qwen", "zai", "deepseek"} -> local(name)
       [] name = "meta" ->
            [cacheControl |-> "openai_implicit", commentaryPhase |-> "tag",
             builtinTools |-> "verbatim"]
       [] name = "moonshotai" ->
            [cacheControl |-> "openai_implicit", builtinTools |-> "verbatim",
             toolResultMedia |-> "images"]

-----------------------------------------------------------------------------
ChatDefaults ==
  [instructionRole |-> "system", maxTokensField |-> "max_completion_tokens",
   streamUsage |-> "include", toolResultName |-> "omit",
   thinkingFormat |-> "reasoning_effort", thinkingReplay |-> "as_text",
   assistantReasoningContent |-> "omit", builtinTools |-> "reject",
   toolResultMedia |-> "reject", cacheControl |-> "openai", userField |-> "user",
   forcedToolChoice |-> "send", jsonSchema |-> "send", tokenScoring |-> "none",
   reasoningOff |-> "send", reasoningEfforts |-> Null]

ChatPreset(name) ==
  LET server == [maxTokensField |-> "max_tokens", cacheControl |-> "none"]
      host == [thinkingReplay |-> "native", cacheControl |-> "none"] IN
  CASE name = "openai" -> NoKnobs
    [] name = "groq" -> server @@ [builtinTools |-> "groq"]
    [] name = "lmstudio" -> server @@ [thinkingFormat |-> "none"]
    [] name = "ollama" -> server @@ [reasoningEfforts |-> Efforts]
    [] name = "sglang" -> server
    [] name = "vllm" -> server @@ [tokenScoring |-> "logprob_token_ids"]
    [] name = "openrouter" ->
         [maxTokensField |-> "max_tokens", thinkingFormat |-> "openrouter"]
    [] name = "qwen" -> server @@ [thinkingFormat |-> "qwen"]
    [] name = "deepseek" ->
         server @@ [thinkingFormat |-> "deepseek", thinkingReplay |-> "native",
                    assistantReasoningContent |-> "include_empty", userField |-> "user_id"]
    [] name = "zai" ->
         server @@ [thinkingFormat |-> "deepseek", thinkingReplay |-> "native",
                    toolResultMedia |-> "images", userField |-> "user_id",
                    forcedToolChoice |-> "reject", jsonSchema |-> "reject"]
    [] name = "moonshotai" ->
         [thinkingFormat |-> "kimi", thinkingReplay |-> "native",
          toolResultMedia |-> "images", cacheControl |-> "openai_implicit",
          userField |-> "safety_identifier", reasoningEfforts |-> {"low", "high", "max"}]
    [] name = "meta" ->
         [instructionRole |-> "developer", cacheControl |-> "openai_implicit",
          userField |-> "safety_identifier"]
    [] name = "deepinfra" -> host @@ [forcedToolChoice |-> "reject"]
    [] name = "together" -> host
    [] name \in {"fireworks", "parasail"} -> host @@ [toolResultMedia |-> "images"]
    [] name \in {"bedrock", "bedrock_mantle"} -> [cacheControl |-> "none"]
    [] name = "template" -> [thinkingFormat |-> "qwen_chat_template"]

(* The knobs of the first entry whose prefix the model begins with. *)
ModelOverrides(name, model) ==
  CASE name = "together" /\ model = "openai/gpt-oss-120b" ->
         [forcedToolChoice |-> "reject", reasoningEfforts |-> {"low", "medium", "high"},
          reasoningOff |-> "lowest"]
    [] name = "deepinfra" /\ model = "openai/gpt-oss-120b" -> [reasoningOff |-> "lowest"]
    [] name = "deepinfra" /\ model = "zai-org/GLM-5.3-Flash" -> [forcedToolChoice |-> "send"]
    [] name \in {"bedrock", "bedrock_mantle"} /\ model = "openai.gpt-oss-120b" ->
         [forcedToolChoice |-> "reject", jsonSchema |-> "reject"]
    [] OTHER -> NoKnobs

ChatCompatForModel(name, model) ==
  MergePartial(ChatPreset(name), ModelOverrides(name, model))

-----------------------------------------------------------------------------
AnthropicDefaults ==
  [thinkingFormat |-> "anthropic", thinkingReplay |-> "signed",
   cacheControl |-> "anthropic", structuredOutput |-> "send",
   parallelToolCalls |-> "send", samplingParams |-> "send",
   toolResultMedia |-> "native", reasoningEfforts |-> Null, serves |-> Null]

(* serves: the models whose names have one of the prefixes. *)
AnthropicPreset(name) ==
  CASE name = "anthropic" -> NoKnobs
    [] name = "deepseek" ->
         [thinkingFormat |-> "deepseek", cacheControl |-> "none",
          structuredOutput |-> "reject", parallelToolCalls |-> "reject",
          toolResultMedia |-> "reject", serves |-> {"deepseek-chat"}]
    [] name = "meta" -> [thinkingFormat |-> "adaptive", cacheControl |-> "none"]
    [] name = "moonshotai" ->
         [thinkingFormat |-> "effort", thinkingReplay |-> "unsigned",
          cacheControl |-> "none", parallelToolCalls |-> "reject",
          samplingParams |-> "reject", toolResultMedia |-> "images",
          reasoningEfforts |-> {"low", "high", "max"}, serves |-> {"kimi-k2"}]

-----------------------------------------------------------------------------
(* The compat of a request to a server; the Responses wire also takes knobs *)
(* from the request's own extensions, and knows the Codex backend.          *)
CompatFor(server, model) ==
  CASE server.dialect = "chat" ->
         Resolved(ChatCompatForModel(server.preset, model), ChatDefaults)
    [] server.dialect = "responses" ->
         [codex |-> server.preset = "codex"] @@
         Resolved(MergePartial(ResponsesPreset(server.preset), server.knobs), ResponsesDefaults)
    [] server.dialect = "anthropic" ->
         Resolved(AnthropicPreset(server.preset), AnthropicDefaults)
    [] server.dialect = "gemini" -> [reasoningEfforts |-> Null]

(* What the model names say. *)
AdaptiveClass(model) == model \in {"claude-opus-4-6", "claude-sonnet-5"}
LevelClass(model) == model = "gemini-3-pro"
HasCacheOptions(model) == model = "gpt-5.6"

OutputCeiling(model) ==
  CASE model = "claude-3-haiku" -> 4096
    [] model = "claude-sonnet-4-5" -> 64000
    [] AdaptiveClass(model) -> 128000
    [] OTHER -> Null

-----------------------------------------------------------------------------
(* The prompt cache of the two OpenAI wires (src/dialects/openai_shared.ts):*)
(* where the explicit mark goes, and the fields a server has.  Message      *)
(* indexes count from one here, from zero in a record.                      *)

(* The message the explicit cache breakpoint is asked at, 0 for none. *)
BreakpointAsked(b) ==
  LET asked == Asked(b, "cache.prefix_until_index") IN
  IF asked = Null \/ b.compat.cacheControl # "openai" THEN 0
  ELSE Min({asked + 1, Len(b.request.messages)})

(* The wire marks text blocks of user and developer messages only. *)
MarkableUpTo(messages, last) ==
  {i \in 1..last : /\ messages[i].role \notin {"assistant", "tool"}
                   /\ messages[i].parts[Len(messages[i].parts)].kind = "text"}

CacheBreakpointIndex(b) ==
  LET marked == MarkableUpTo(b.request.messages, BreakpointAsked(b)) IN
  IF marked = {} THEN 0 ELSE Max(marked)

(* What looking for it records, each time it is looked for. *)
BreakpointNoted(b) ==
  LET asked == BreakpointAsked(b)
      index == CacheBreakpointIndex(b)
      path == "cache.prefix_until_index" IN
  CASE asked = index -> b
    [] asked # index /\ index = 0 -> Adapt(b, path, "dropped", asked - 1, Null)
    [] OTHER -> Adapt(b, path, "substituted", asked - 1, index - 1)

CacheStablePrefix(b) ==
  Asked(b, "cache.prefix") = "stable" /\ b.compat.cacheControl = "openai"

HasExplicitBreakpoint(b) ==
  \/ CacheBreakpointIndex(b) # 0
  \/ CacheStablePrefix(b) /\ b.request.system # Null

(* The off switch, the key and the lifetime, where the server has them. *)
CacheFields(b) ==
  PutIf(Asked(b, "cache.retention") = "long",
        Put(b, "prompt_cache_key", Asked(b, "cache.key")), "prompt_cache_retention", "24h")

ExplicitOptions(b) == Put(b, "prompt_cache_options.mode", "explicit")

CacheOptions(b) ==
  CASE ~HasCacheOptions(b.request.model) -> b
    [] HasCacheOptions(b.request.model) /\ Asked(b, "cache.mode") = "off" -> ExplicitOptions(b)
    [] OTHER -> IF HasExplicitBreakpoint(b) THEN ExplicitOptions(BreakpointNoted(b))
                ELSE BreakpointNoted(b)

CacheCommonPayload(b) ==
  LET stored == Asked(b, "cache.resource") # Null
      server == b.compat.cacheControl IN
  CASE Asked(b, "cache.mode") = Null -> b
    [] Asked(b, "cache.mode") # Null /\ server = "openai" ->
         UnsupportedIf(stored, CacheOptions(CacheFields(b)), "cache.resource")
    [] Asked(b, "cache.mode") # Null /\ server = "openai_implicit" ->
         UnsupportedIf(stored, CacheFields(b), "cache.resource")
    [] OTHER ->
         DroppedIf(Asked(b, "cache.retention") = "long",
           Dropped(UnsupportedIf(stored, b, "cache.resource"), "cache.key"), "cache.retention")

MarkedLast(blocks) == Front(blocks) \o <<[Last(blocks) EXCEPT !.mark = "explicit"]>>

PutAll(b, fields) ==
  IF b.failed # Null THEN b
  ELSE [b EXCEPT !.wire = [f \in {g \in DOMAIN fields : fields[g] # Null} |-> fields[f]] @@ @]

(* Blocks of several texts, as one. *)
Spoken(blocks) == FlattenSeq([i \in DOMAIN blocks |-> blocks[i].says])
=============================================================================
