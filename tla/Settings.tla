------------------------------ MODULE Settings ------------------------------
(***************************************************************************)
(* The request a caller writes (src/types/config.ts, src/types/parts.ts)   *)
(* and the record of what a wire changed of it (src/adaptation.ts).        *)
(*                                                                         *)
(* A configuration is one function from the path of a setting, spelled as  *)
(* the records spell it, to its value or Null.  A text is the sequence of  *)
(* tokens it was joined from, so that "the wire says what the transcript   *)
(* says" is an equality of sequences.  Temperatures are in tenths.         *)
(***************************************************************************)
EXTENDS Integers, FiniteSets, SequencesExt, FiniteSetsExt, TLC

CONSTANT Null   \* a setting, a field or a value that is absent

ReasoningPaths == {"reasoning.effort", "reasoning.thinking_budget", "reasoning.summary"}
ChoicePaths == {"tool_choice.mode", "tool_choice.allowed", "tool_choice.parallel"}
CachePaths ==
  {"cache.mode", "cache.retention", "cache.key", "cache.prefix_until_index",
   "cache.prefix", "cache.resource"}
SamplingPaths ==
  {"temperature", "top_p", "top_k", "seed", "frequency_penalty", "presence_penalty",
   "max_tokens", "stop", "logprobs"}
OtherPaths == {"response_format", "probabilities", "service_tier", "user_id", "store"}
Paths == ReasoningPaths \cup ChoicePaths \cup CachePaths \cup SamplingPaths \cup OtherPaths

(* The names a record or a refusal may give: the absent value is none. *)
Names == Paths \cup {"reasoning", "cache", "messages", "tools", "scoring"}
ASSUME AbsenceAssumption == Null \notin Names

DefaultConfig == [path \in Paths |-> Null]

EffortLadder == <<"minimal", "low", "medium", "high", "xhigh", "max">>
Efforts == ToSet(EffortLadder)
EffortIndex(effort) == CHOOSE i \in DOMAIN EffortLadder : EffortLadder[i] = effort

ThinkingBudget(effort) ==
  CASE effort = "minimal" -> 1024 [] effort = "low" -> 2048 [] effort = "medium" -> 8192
    [] effort = "high" -> 16384 [] effort = "xhigh" -> 24576 [] OTHER -> 32768

(* The highest effort whose budget is at or below the given one. *)
EffortForBudget(budget) ==
  LET under == {i \in DOMAIN EffortLadder : ThinkingBudget(EffortLadder[i]) <= budget}
  IN IF under = {} THEN "minimal" ELSE EffortLadder[Max(under)]

(* A budget given alone names its effort; a choice or a cache given at all has a mode. *)
Normalized(config) ==
  LET given(paths) == \E path \in paths : config[path] # Null
      mode(path, paths) == IF config[path] = Null /\ given(paths) THEN "auto" ELSE config[path]
  IN [config EXCEPT
        !["reasoning.effort"] =
            IF @ = Null /\ config["reasoning.thinking_budget"] # Null
            THEN EffortForBudget(config["reasoning.thinking_budget"]) ELSE @,
        !["tool_choice.mode"] = mode("tool_choice.mode", ChoicePaths),
        !["cache.mode"] = mode("cache.mode", CachePaths)]

(* What the validating constructors let through, of a normalized configuration. *)
LegalConfig(config, tools) ==
  /\ config["reasoning.effort"] \in {Null, "off"} =>
       config["reasoning.thinking_budget"] = Null /\ config["reasoning.summary"] = Null
  /\ config["tool_choice.mode"] = "none" =>
       config["tool_choice.allowed"] = Null /\ config["tool_choice.parallel"] = Null
  /\ config["tool_choice.allowed"] # Null =>
       ToSet(config["tool_choice.allowed"]) \subseteq ToSet(tools)
  /\ config["cache.mode"] = "off" => \A path \in CachePaths \ {"cache.mode"} : config[path] = Null
  /\ config["cache.prefix"] = Null \/ config["cache.prefix_until_index"] = Null
  /\ config["probabilities"] \in {Null, "off", "if_available", "required"}

(* The parts a message of each role may hold. *)
MediaKinds == {"image", "audio", "document"}
PromptKinds == {"text", "data"} \cup MediaKinds

LegalMessage(message) ==
  LET kinds == {part.kind : part \in ToSet(message.parts)} IN
  CASE message.role = "tool" -> kinds = {"tool_result"}
    [] message.role = "assistant" -> "tool_result" \notin kinds
    [] OTHER -> kinds \subseteq PromptKinds

LegalRequest(request) ==
  /\ {"system", "messages", "tools", "config"} = DOMAIN request \ {"model"}
  /\ request.messages # <<>>
  /\ \A message \in ToSet(request.messages) : LegalMessage(message)
  /\ LegalConfig(request.config, request.tools)

BuiltinTools == {"web_search", "file_search"}   \* the names of server-executed tools
Builtins(names) == SelectSeq(names, LAMBDA name : name \in BuiltinTools)

-----------------------------------------------------------------------------
(* The builder of one request: the request, the compat knobs of its        *)
(* server, the caller's settings as the builder has rewritten them so far, *)
(* the fields it has put on the wire, the records it has made and, when it *)
(* threw, the path it threw about.                                         *)
Scope(request, compat, policy) ==
  [request |-> request, compat |-> compat, policy |-> policy, local |-> request.config,
   wire |-> [field \in {} |-> Null], records |-> <<>>, failed |-> Null]

Asked(b, path) == b.request.config[path]
Field(wire, field) == IF field \in DOMAIN wire THEN wire[field] ELSE Null

Put(b, field, value) ==
  IF b.failed # Null \/ value = Null THEN b ELSE [b EXCEPT !.wire = (field :> value) @@ @]

PutAsked(b, path) == Put(b, path, Asked(b, path))
PutLocal(b, path) == Put(b, path, b.local[path])
PutIf(condition, b, field, value) == IF condition THEN Put(b, field, value) ELSE b

(* An UnsupportedFeatureError about the path, under every policy. *)
Unsupported(b, path) == IF b.failed = Null THEN [b EXCEPT !.failed = path] ELSE b
UnsupportedIf(condition, b, path) == IF condition THEN Unsupported(b, path) ELSE b

DEVIATIONS == {"dropped", "clamped", "substituted", "client_side"}

Record(path, action, asked, applied) ==
  [field |-> path, action |-> action, asked |-> asked, applied |-> applied]

\* Mutant: a caller who wants no notes gets no records, client-side steps included.
AdaptUnlessSilent(b, path, action, asked, applied) ==
  IF b.failed # Null \/ b.policy = "silent" THEN b
  ELSE IF b.policy = "refuse" /\ action \in DEVIATIONS THEN Unsupported(b, path)
  ELSE [b EXCEPT !.records = Append(@, Record(path, action, asked, applied))]

Adapt(b, path, action, asked, applied) ==
  IF b.failed # Null THEN b
  ELSE IF b.policy = "refuse" /\ action \in DEVIATIONS THEN Unsupported(b, path)
  ELSE [b EXCEPT !.records = Append(@, Record(path, action, asked, applied))]

(* A setting the wire has no field for. *)
Dropped(b, path) ==
  IF b.local[path] = Null THEN b
  ELSE [Adapt(b, path, "dropped", Asked(b, path), Null) EXCEPT !.local[path] = Null]

DroppedIf(condition, b, path) == IF condition THEN Dropped(b, path) ELSE b

\* Mutant: the value is put in place first, and the record is left to compare it with itself.
ChangedUnnoted(b, path, action, applied) ==
  IF b.local[path] = applied THEN Adapt(b, path, action, b.local[path], applied)
  ELSE [b EXCEPT !.local[path] = applied]

(* A setting the wire takes with another value. *)
Changed(b, path, action, applied) ==
  [Adapt(b, path, action, b.local[path], applied) EXCEPT !.local[path] = applied]

ChangedIf(condition, b, path, action, applied) ==
  IF condition THEN Changed(b, path, action, applied) ELSE b

HasClientSideStop(records) ==
  \E i \in DOMAIN records : records[i].field = "stop" /\ records[i].action = "client_side"

(* The closest level among those available; a tie goes to the lower. *)
NearestEffort(asked, available) ==
  LET distance(level) ==
        LET d == EffortIndex(level) - EffortIndex(asked) IN IF d < 0 THEN -d ELSE d
  IN CHOOSE best \in available :
       \A level \in available :
         \/ distance(best) < distance(level)
         \/ distance(best) = distance(level) /\ EffortIndex(best) <= EffortIndex(level)

(* The server would take any word: one it has no level for is moved to the nearest. *)
EffortClamped(b) ==
  LET available == b.compat.reasoningEfforts
      effort == b.local["reasoning.effort"] IN
  ChangedIf(available # Null /\ effort \in Efforts /\ effort \notin available,
            b, "reasoning.effort", "clamped", NearestEffort(effort, available))

(* A wire that shows the thinking, without levels of detail. *)
SummaryPlain(b) ==
  ChangedIf(b.local["reasoning.summary"] \in {"concise", "detailed"},
            b, "reasoning.summary", "substituted", "auto")

(* What the requested schema declares (src/judgments.ts): judgments a      *)
(* server could measure ("judged", or "mixed" with other properties),      *)
(* bounding boxes alone ("boxes"), or none.                                *)
Measurable(b) == Asked(b, "response_format") \in {"judged", "mixed"}

(* A wire that measures no distribution over the declared keys. *)
UnmeasurableProbabilities(b) ==
  LET asked == Asked(b, "probabilities") IN
  IF asked \in {Null, "off"} \/ ~Measurable(b) THEN b
  ELSE IF asked = "required" THEN Unsupported(b, "probabilities")
  ELSE Dropped(b, "probabilities")

-----------------------------------------------------------------------------
(* Parts of a message, and the rows and blocks of a wire.                  *)
Part(kind, says) ==
  [kind |-> kind, says |-> says, id |-> Null, name |-> Null, state |-> Null,
   isError |-> FALSE, content |-> <<>>]

(* A block of a wire message: what it says, the call it makes or answers,  *)
(* whether it says it failed, and the lifetime of the cache mark it bears. *)
Block(type, says) ==
  [type |-> type, says |-> says, id |-> Null, isError |-> FALSE, mark |-> Null]
TextBlock(says) == Block("text", says)
CallBlock(type, part) == [Block(type, part.says) EXCEPT !.id = part.id]
AnswerBlock(type, part, says) == [Block(type, says) EXCEPT !.id = part.id]

Row(role, blocks) == [role |-> role, blocks |-> blocks]

(* "\n".join: the tokens one after another. *)
Joined(parts) == FlattenSeq([i \in DOMAIN parts |-> parts[i].says])
PartsOf(parts, kinds) == SelectSeq(parts, LAMBDA part : part.kind \in kinds)
PartsOutside(parts, kinds) == SelectSeq(parts, LAMBDA part : part.kind \notin kinds)
Calls(parts) == PartsOf(parts, {"tool_call"})

(* A text-only field: refusals and calls render as nothing. *)
PartsToText(parts) == Joined(PartsOf(parts, {"text", "data", "thinking", "citation"}))

(* The text of an erroneous result says so. *)
ErrorMark == <<"[error]">>
ToolResultErrorText(part, says) == IF part.isError THEN ErrorMark \o says ELSE says

(* Blocks of an erroneous result: the first text says so. *)
ErrorBlocks(part, blocks) ==
  LET texts == {i \in DOMAIN blocks : blocks[i].type = "text"} IN
  IF ~part.isError THEN blocks
  ELSE IF texts = {} THEN <<TextBlock(ErrorMark)>> \o blocks
  ELSE [i \in DOMAIN blocks |->
         IF i = Min(texts) THEN [blocks[i] EXCEPT !.says = ErrorMark \o @] ELSE blocks[i]]

Admitted(policy) ==
  CASE policy = "native" -> {"image", "document"} [] policy = "images" -> {"image"}
    [] policy = "reject" -> {}

HasMedia(parts) == PartsOf(parts, MediaKinds) # <<>>

(* A tool result may hold only the media the server takes there. *)
ResultMediaRefused(messages, policy) ==
  \E m \in ToSet(messages) : \E part \in ToSet(PartsOf(m.parts, {"tool_result"})) :
    \E p \in ToSet(part.content) : p.kind \in MediaKinds \ Admitted(policy)

NoMessageSlot(dialect, role, kind) ==
  CASE dialect = "anthropic" -> kind = "audio"
    [] dialect = "gemini" -> FALSE
    [] OTHER -> role = "assistant"

MessageMediaRefused(messages, dialect) ==
  \E m \in ToSet(messages) : \E part \in ToSet(m.parts) :
     part.kind \in MediaKinds /\ NoMessageSlot(dialect, m.role, part.kind)
=============================================================================
