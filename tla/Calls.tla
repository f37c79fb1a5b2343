------------------------------- MODULE Calls -------------------------------
(***************************************************************************)
(* One request through an adapter (src/adapter.ts): plan() says what a     *)
(* call would change of it, complete() or stream() sends it, the record    *)
(* the answer carries says what was changed, a second call asks for what   *)
(* the first one settled on, and a Chat Completions body is read back by   *)
(* the adapter of some server.                                             *)
(***************************************************************************)
EXTENDS AnthropicRequest, GeminiRequest, ResponsesRequest, Scoring

CONSTANTS
  Servers,     \* the servers: dialect, preset, the extensions' knobs, models
  Requests,    \* requests, without their model
  Policies,    \* what an adapter does about a deviation
  Tokenizers   \* the tokens of each key of a judgment, open and closed

ASSUME ServersAssumption ==
  \A s \in Servers : s.dialect \in {"anthropic", "gemini", "responses", "chat"}
ASSUME PoliciesAssumption == Policies \subseteq {"note", "silent", "refuse"}
ASSUME RequestsAssumption == \A r \in Requests : LegalRequest(r)

(* The tokens a key is spelled with, after those of what is before it. *)
Own(key) == SubSeq(key.open, Len(key.prefix) + 1, Len(key.open))

(* A judgment has keys, finitely many (src/judgments.ts:108-118).  No two  *)
(* are spelled with the same tokens, and the token that ends the turn is   *)
(* part of none of them: "terminator included: prefix-free paths"          *)
(* (src/dialects/token_trie.ts:11).                                        *)
ASSUME TokenizersAssumption ==
  \A keys \in Tokenizers :
    /\ DOMAIN keys # {} /\ IsFiniteSet(DOMAIN keys)
    /\ \A k \in DOMAIN keys : {keys[k].prefix, keys[k].open, keys[k].closed} \subseteq Seq(Nat)
    /\ \A k, l \in DOMAIN keys : Own(keys[k]) = Own(keys[l]) => k = l
    /\ \A k, l \in DOMAIN keys :
         Len(keys[k].open) < Len(keys[k].closed) =>
           keys[k].closed[Len(keys[k].open) + 1] \notin ToSet(Own(keys[l]))

VARIABLES
  server,    \* the server of the adapter
  request,   \* what the caller asks
  plan,      \* what plan() answered: the builder at its end, Null before
  policy,    \* the policy of the adapter that makes the call
  call,      \* the call that was made, Null before
  again,     \* the call that asks for what the first one settled on
  back       \* who read the body back, what was read, what it builds

vars == <<server, request, plan, policy, call, again, back>>

Build(b, dialect, stream) ==
  CASE dialect = "anthropic" -> AnthropicBuild(b)
    [] dialect = "gemini" -> GeminiBuild(b)
    [] dialect = "responses" -> ResponsesBuild(b)
    [] dialect = "chat" -> ChatBuild(b, stream)

Scored(b, stream) ==
  /\ server.dialect = "chat" /\ ~stream /\ JudgmentsViaTokenScoring(b)

Asking(asked, under) == Scope(asked, CompatFor(server, asked.model), under)

(* The call, of a finished builder: the record is what is shown of it, and *)
(* the steps left to the client are read from all of it.  how: the answer  *)
(* is generated, measured, or generated by a server that ignored the       *)
(* measurement asked of it.                                                *)
CallOf(b, how, paths) ==
  [failed |-> b.failed, wire |-> b.wire, records |-> b.records, how |-> how, paths |-> paths,
   shown |-> IF b.policy = "silent" THEN <<>> ELSE b.records,
   cuts |-> HasClientSideStop(b.records)]

Init ==
  /\ server \in Servers
  /\ \E r \in Requests, model \in server.models :
       request = [model |-> model, system |-> r.system, messages |-> r.messages,
                  tools |-> r.tools, config |-> r.config]
  /\ plan = Null /\ policy = Null /\ call = Null /\ again = Null /\ back = Null

(* plan(request, policy="note"). *)
Preview(b) == IF Scored(b, FALSE) THEN JudgmentAdaptations(b) ELSE Build(b, server.dialect, FALSE)

Plan ==
  /\ plan = Null
  /\ plan' = Preview(Asking(request, "note"))
  /\ UNCHANGED <<server, request, policy, call, again, back>>

(* complete() or stream(): one build, one request. *)
Send(stream) ==
  /\ plan # Null /\ call = Null
  /\ \E under \in Policies :
       /\ ~Scored(Asking(request, under), stream)
       /\ policy' = under
       /\ call' = CallOf(Build(Asking(request, under), server.dialect, stream), "generated", Null)
  /\ UNCHANGED <<server, request, plan, again, back>>

(* complete() of a judgment: the keys are tokenized, then their tokens are *)
(* scored, unless the server ignores the ids of the tokens.                *)
Score ==
  /\ plan # Null /\ call = Null
  /\ \E under \in Policies, keys \in Tokenizers, measured \in BOOLEAN :
       /\ Scored(Asking(request, under), FALSE)
       /\ policy' = under
       /\ \E paths \in {[key \in DOMAIN keys |-> KeyPath(keys[key].prefix, keys[key].open,
                                                         keys[key].closed)]} :
            call' = CallOf(UnsupportedIf(Null \in Range(paths),
                             JudgmentComplete(Asking(request, under), measured), "response_format"),
                           IF measured THEN "measured" ELSE "ignored", paths)
  /\ UNCHANGED <<server, request, plan, again, back>>

(* The caller reads the record and asks for what was applied. *)
GroupOf(path) ==
  CASE path \in ReasoningPaths -> "reasoning" [] path \in CachePaths -> "cache" [] OTHER -> path

RecordsOf(records, path) == SelectSeq(records, LAMBDA r : r.field \in {path, GroupOf(path)})

Settling == {"dropped", "clamped", "substituted", "defaulted"}

SettledValue(records, path, asked) ==
  LET settled == SelectSeq(RecordsOf(records, path), LAMBDA r : r.action \in Settling) IN
  IF settled = <<>> THEN asked ELSE settled[Len(settled)].applied

SettledRequest ==
  [request EXCEPT !.config = [path \in Paths |-> SettledValue(call.shown, path, @[path])]]

Reask ==
  /\ call # Null /\ call.failed = Null /\ call.how = "generated" /\ policy = "note"
  /\ again = Null /\ back = Null
  /\ again' = CallOf(Build(Asking(SettledRequest, "note"), server.dialect, FALSE), "generated", Null)
  /\ UNCHANGED <<server, request, plan, policy, call, back>>

(* requestFromOpenAIChat() of the adapter of a server, and the body that   *)
(* adapter builds of what it read.                                         *)
Rebuilt(read, compat) ==
  IF read = Null THEN Null ELSE ChatBuild(Scope(read, compat, "note"), FALSE)

ReadBack ==
  /\ server.dialect = "chat" /\ back = Null
  /\ call # Null /\ call.failed = Null /\ call.how = "generated" /\ policy = "note"
  /\ \E reader \in {s \in Servers : s.dialect = "chat"} :
       \E compat \in {CompatFor(reader, request.model)} :
         \E read \in {IngestOpenAIChat(request.model, call.wire, compat)} :
           back' = [reader |-> reader.preset, read |-> read, built |-> Rebuilt(read, compat)]
  /\ UNCHANGED <<server, request, plan, policy, call, again>>

Next == Plan \/ Send(FALSE) \/ Send(TRUE) \/ Score \/ Reask \/ ReadBack

Spec == Init /\ [][Next]_vars

-----------------------------------------------------------------------------
(* What a wire says of a setting, in the words of any dialect. *)
SpelledAs(path) ==
  CASE path = "max_tokens" -> {"max_tokens", "max_completion_tokens", "max_output_tokens"}
    [] path = "stop" -> {"stop", "stop_sequences"}
    [] path = "logprobs" -> {"top_logprobs"}
    [] path = "response_format" -> {"response_format", "output_config.format"}
    [] path = "service_tier" -> {"service_tier", "serviceTier"}
    [] path = "user_id" -> {"user", "user_id", "safety_identifier", "metadata.user_id"}
    [] path = "cache.key" -> {"prompt_cache_key"}
    [] path = "cache.resource" -> {"cachedContent"}
    [] path = "reasoning.effort" ->
         {"reasoning.effort", "reasoning_effort", "output_config.effort",
          "thinkingConfig.thinkingLevel"}
    [] path = "reasoning.thinking_budget" ->
         {"thinking.budget_tokens", "thinkingConfig.thinkingBudget"}
    [] path = "tool_choice.parallel" -> {"parallel_tool_calls"}
    [] OTHER -> {path}

Spelled(wire, path, value) == \E field \in SpelledAs(path) : Field(wire, field) = value

ModeWords(mode) ==
  CASE mode = "auto" -> {"auto", "AUTO", "VALIDATED"} [] mode = "none" -> {"none", "NONE"}
    [] mode = "required" -> {"required", "ANY", "any", "tool", "function"}

(* Names the caller gave, as they were before the wire renamed them. *)
OwnName(name) ==
  IF name \in {"web_search_preview", "browser_search"} THEN "web_search" ELSE name
OwnNames(names) == {OwnName(name) : name \in ToSet(names)}
NamesOnly(wire, field, names) ==
  Field(wire, field) # Null /\ OwnNames(wire[field]) = ToSet(names)

Rows(wire) ==
  (IF Field(wire, "system") = Null THEN <<>> ELSE <<Row("system", wire["system"])>>)
  \o wire["messages"]
Blocks(wire) == FlattenSeq([i \in DOMAIN Rows(wire) |-> Rows(wire)[i].blocks])
MarkedWith(wire, tokens) ==
  \E block \in ToSet(Blocks(wire)) : block.mark # Null /\ tokens # <<>> /\ IsSuffix(tokens, block.says)
AnyMark(wire) == \E block \in ToSet(Blocks(wire)) : block.mark # Null

PartSays(part) == part.says \o Joined(part.content)
MessageSays(message) == FlattenSeq([i \in DOMAIN message.parts |-> PartSays(message.parts[i])])
LastSaid(message) == <<MessageSays(message)[Len(MessageSays(message))]>>

OffHeard(wire) ==
  \/ SaysOff(wire) \/ Field(wire, "reasoning.effort") = "none"
  \/ Field(wire, "thinkingConfig.thinkingBudget") = 0
  \/ server.dialect = "anthropic" /\ {"thinking.type", "output_config.effort"} \cap DOMAIN wire = {}

Otherwise(wire, path, value) ==
  CASE path = "max_tokens" ->
         /\ "thinking.budget_tokens" \in DOMAIN wire
         /\ Field(wire, path) = wire["thinking.budget_tokens"] + value
    [] path = "logprobs" -> value = 0 /\ Field(wire, "logprobs") = TRUE
    [] path = "reasoning.effort" ->
         IF value = "off" THEN OffHeard(wire)
         ELSE Spelled(wire, "reasoning.thinking_budget", ThinkingBudget(value))
    [] path = "reasoning.summary" ->
         \/ Field(wire, "thinking.display") = "summarized"
         \/ Field(wire, "thinkingConfig.includeThoughts") = TRUE
         \/ Field(wire, "reasoning_format") = "parsed"
         \/ server.dialect = "chat" /\ value = "auto"
    [] path = "tool_choice.mode" ->
         {Field(wire, "tool_choice.mode"), Field(wire, "tool_choice.type")} \cap ModeWords(value) # {}
    [] path = "tool_choice.allowed" ->
         \/ NamesOnly(wire, "tool_choice.tools", value) \/ NamesOnly(wire, "tools", value)
         \/ Len(value) = 1 /\ Field(wire, "tool_choice.name") = value[1]
    [] path = "tool_choice.parallel" ->
         value = FALSE /\ Field(wire, "tool_choice.disable_parallel_tool_use") = TRUE
    [] path = "cache.mode" ->
         \/ value = "auto" \/ Field(wire, "prompt_cache_options.mode") = "explicit"
         \/ ~AnyMark(wire) /\ CacheKeys \cap DOMAIN wire = {}
    [] path = "cache.retention" ->
         \/ Field(wire, "prompt_cache_retention") = "24h"
         \/ \E block \in ToSet(Blocks(wire)) : block.mark = "1h"
    [] path = "cache.prefix" ->
         IF value = "stable" THEN request.system = Null \/ MarkedWith(wire, request.system)
         ELSE MarkedWith(wire, LastSaid(request.messages[Len(request.messages)]))
    [] path = "cache.prefix_until_index" ->
         \/ MarkedWith(wire, LastSaid(request.messages[Min({value + 1, Len(request.messages)})]))
         \/ Field(wire, "cachedContent") # Null
    [] path = "probabilities" ->
         value = "off" \/ request.config["response_format"] \notin {"judged", "mixed"}
    [] OTHER -> FALSE

Heard(wire, path, value) == Spelled(wire, path, value) \/ Otherwise(wire, path, value)

(* The record says what became of it, and the wire says that. *)
Recorded(path, value) ==
  LET records == RecordsOf(call.records, path)
      applied == Last(records).applied
  IN /\ records # <<>>
     /\ IF applied = Null THEN ~Spelled(call.wire, path, value)
        ELSE Last(records).action = "client_side" \/ Heard(call.wire, path, applied)

(* The settings the builders leave out and say nothing of: where a cache   *)
(* begins, on a server that takes no mark there; a lifetime nothing bears; *)
(* a level, on a server that only knows on and off, or the effort of a     *)
(* budget; what a Responses server without the dialect's own reasoning, or *)
(* an Anthropic one without its thinking, shows of it; the policy for a    *)
(* schema that is dropped; the choice among tools a stored cache holds.    *)
MarksPrompts(compat) ==
  CASE server.dialect = "gemini" -> FALSE
    [] server.dialect = "anthropic" -> compat.cacheControl = "anthropic"
    [] OTHER -> compat.cacheControl = "openai"

ReasoningFormat(compat) ==
  CASE server.dialect = "responses" -> compat.reasoningFormat
    [] server.dialect = "gemini" -> "gemini"
    [] OTHER -> compat.thinkingFormat

KnownSilent(path, compat) ==
  LET asked(p) == request.config[p] # Null
      format == ReasoningFormat(compat)
      dialect == server.dialect
  IN CASE path \in {"cache.prefix", "cache.prefix_until_index"} ->
            \/ ~MarksPrompts(compat)
            \/ dialect # "anthropic" /\ request.config["cache.prefix"] = "history"
       [] path = "cache.retention" -> dialect = "anthropic" /\ ~AnyMark(call.wire)
       [] path = "reasoning.effort" ->
            \/ format \in {"qwen", "zai", "qwen_chat_template"}
            \/ dialect = "responses" /\ format = "none"
            \/ dialect \in {"anthropic", "gemini"} /\ asked("reasoning.thinking_budget")
       [] path = "reasoning.summary" ->
            \/ dialect = "responses" /\ format # "responses_reasoning"
            \/ dialect = "anthropic" /\ format # "anthropic"
       [] path = "probabilities" -> dialect = "anthropic" /\ compat.structuredOutput = "reject"
       [] path \in ChoicePaths -> dialect = "gemini" /\ asked("cache.resource")
       [] OTHER -> FALSE

(* A setting the caller gave, which neither the body says as it was asked, *)
(* nor the record names with what the body says instead.                   *)
LostInvisibly(path) ==
  /\ request.config[path] # Null
  /\ ~Heard(call.wire, path, request.config[path])
  /\ ~Recorded(path, request.config[path])

Generated == call # Null /\ call.failed = Null /\ call.how = "generated"

(* A setting is lost invisibly only where KnownSilent says: of every other *)
(* setting of every call that is sent, the body says what was asked, or    *)
(* the record names it and the body says what the record says was applied. *)
(* The builders of four dialects and some thirty servers each drop, move   *)
(* and rename settings in their own order.                                 *)
LostOnlyWhereKnown ==
  Generated =>
    \A path \in Paths :
      LostInvisibly(path) => KnownSilent(path, CompatFor(server, request.model))

(* What the source promises: "adapt freely, never invisibly; refuse only   *)
(* when a guess could hurt" (src/adaptation.ts:2).  It is violated: the    *)
(* settings of KnownSilent leave no trace in the record.                   *)
NothingIsLostInvisibly == Generated => \A path \in Paths : ~LostInvisibly(path)

-----------------------------------------------------------------------------
Deviates(records) == \E i \in DOMAIN records : records[i].action \in DEVIATIONS

(* What is refused under each policy, and why the call fails if it does. *)
FailsAsPlanned ==
  IF policy = "refuse" THEN (call.failed # Null) = (plan.failed # Null \/ Deviates(plan.records))
  ELSE call.failed = plan.failed

(* A server that measures judgments is planned as complete() calls it: a   *)
(* stream of the same request is another call, and the server may ignore   *)
(* the measurement.                                                        *)
PlannedOtherwise == Scored(Asking(request, policy), FALSE) /\ call.how # "measured"

(* plan() says what the call will do (src/adapter.ts): under "refuse" the  *)
(* call fails exactly when the plan fails or records a deviation, under    *)
(* the other policies it sends the planned body, cuts at a stop sequence   *)
(* exactly when the plan says so, though "silent" shows none of it.        *)
CallKeepsThePlan ==
  call # Null /\ ~PlannedOtherwise =>
    \/ call.how = "measured" /\ call.failed = "response_format"
    \/ /\ FailsAsPlanned
       /\ call.failed = Null =>
            /\ call.wire = plan.wire
            /\ call.shown = IF policy = "silent" THEN <<>> ELSE plan.records
            /\ call.cuts = HasClientSideStop(plan.records)

(* The record is enough to ask again without a deviation                   *)
(* (src/adaptation.ts, asked and applied): the request with every applied  *)
(* value in the place of what was asked is one the caller can write, the   *)
(* same body is sent for it, and nothing more is dropped or moved.         *)
Settled ==
  again # Null =>
    /\ LegalRequest(SettledRequest)
    /\ again.failed = Null /\ again.wire = call.wire
    /\ \A i \in DOMAIN again.records : again.records[i].action \notin Settling

-----------------------------------------------------------------------------
(* A body only switched on has no level to read, and one with no message   *)
(* but instructions is no request.                                         *)
Unreadable ==
  \/ Field(call.wire, "enable_thinking") = TRUE
  \/ Field(call.wire, "chat_template_kwargs.enable_thinking") = TRUE
  \/ \A row \in ToSet(call.wire["messages"]) : row.role \in {"system", "developer"}

OwnRead == IngestOpenAIChat(request.model, call.wire, CompatFor(server, request.model))

(* A body is read back as what it says (requestFromOpenAIChat,             *)
(* src/dialects/openai_chat.ts): the server it was built for builds the    *)
(* same body again from what it reads, and the reader of another server    *)
(* reads the same request or refuses the spelling, never a part of it.     *)
ReadsBack ==
  back # Null =>
    IF back.reader # server.preset THEN back.read \in {Null, OwnRead}
    ELSE \/ back.read = Null /\ Unreadable
         \/ back.read # Null /\ back.built.failed = Null /\ back.built.wire = call.wire

-----------------------------------------------------------------------------
(* A stored cache stands for the system text and the messages it holds;    *)
(* the OpenAI wires have no place for data or a citation of the model's;   *)
(* media of the model's are refused, but left out, and not recorded, of a  *)
(* judgment that is scored and nothing else.                               *)
Stored == Field(call.wire, "cachedContent") # Null
HeldByCache(i) ==
  /\ Stored /\ request.config["cache.prefix_until_index"] # Null
  /\ i <= request.config["cache.prefix_until_index"] + 1

Placeless(message, part) ==
  /\ message.role = "assistant" /\ server.dialect \in {"chat", "responses"}
  /\ \/ part.kind \in {"data", "citation"}
     \/ /\ part.kind \in MediaKinds
        /\ call.how = "measured" /\ request.config["response_format"] # "mixed"

KeptSays(i) ==
  LET message == request.messages[i] IN
  IF HeldByCache(i) THEN <<>>
  ELSE MessageSays([message EXCEPT
         !.parts = SelectSeq(@, LAMBDA part : ~Placeless(message, part))])

Expected ==
  (IF request.system = Null \/ Stored THEN {} ELSE ToSet(request.system))
  \cup UNION {ToSet(KeptSays(i)) : i \in DOMAIN request.messages}

WireSays(wire) ==
  SelectSeq(Spoken(Blocks(wire)), LAMBDA token : token \notin {"[error]", "[developer]"})

InOrder(says) ==
  \A i, j \in DOMAIN says : i < j =>
    \A m, n \in DOMAIN request.messages :
      says[i] \in ToSet(KeptSays(m)) /\ says[j] \in ToSet(KeptSays(n)) => m <= n

(* Every result that is sent follows its call and says whether it failed. *)
Answered(blocks) ==
  \A m \in DOMAIN request.messages :
    \A part \in ToSet(PartsOf(request.messages[m].parts, {"tool_result"})) :
      HeldByCache(m) \/
      \E i, j \in DOMAIN blocks :
        /\ i < j /\ blocks[i].id = part.id /\ blocks[j].id = part.id
        /\ ToSet(PartSays(part)) \subseteq ToSet(blocks[j].says)
        /\ part.isError = (blocks[j].isError \/ IsPrefix(ErrorMark, blocks[j].says))

(* The model is told the whole conversation (the message builders of the   *)
(* four dialects): what each part says is on the wire once, messages in    *)
(* their order, each tool result after the call it answers, and a failed   *)
(* result says that it failed.                                             *)
TranscriptKept ==
  call # Null /\ call.failed = Null /\ "messages" \in DOMAIN call.wire =>
    /\ IsInjective(WireSays(call.wire)) /\ ToSet(WireSays(call.wire)) = Expected
    /\ InOrder(WireSays(call.wire)) /\ Answered(Blocks(call.wire))

-----------------------------------------------------------------------------
Whole == 6   \* a likelihood of one, which each node divides evenly

Table(paths) ==
  [node \in TrieNodes(paths) |->
    [token \in Children(paths, node) |-> Whole \div Cardinality(Children(paths, node))]]

(* The whole, of a path of n tokens. *)
Wholes(n) == Product([i \in 1..n |-> Whole])

(* Likelihoods as shares of the whole of the longest path. *)
Longest(paths) == Max({Len(path) : path \in paths})
Scaled(path, longest, table) == Likelihood(path, table) * Wholes(longest - Len(path))
Coverage(paths, longest, table) ==
  MapThenSumSet(LAMBDA key : Scaled(paths[key], longest, table), DOMAIN paths)

(* The coverage of a judgment is a share (src/dialects/token_trie.ts): the *)
(* likelihoods of the declared keys never add up to more than one, though  *)
(* the tokens of one key may begin another's.                              *)
CoverageIsAShare ==
  call # Null /\ call.how = "measured" /\ call.failed = Null =>
    LET longest == Longest(Range(call.paths)) IN
    Coverage(call.paths, longest, Table(Range(call.paths))) <= Wholes(longest)
=============================================================================
