------------------------------ MODULE Scoring ------------------------------
(***************************************************************************)
(* Judgments by candidate-sequence likelihood (src/dialects/token_trie.ts  *)
(* and its driver in src/dialects/openai_chat.ts): where the server scores *)
(* named tokens, complete() does not ask for an answer.  It asks how       *)
(* likely each declared key is, one token of the key after another.        *)
(* Likelihoods are shares of a whole, multiplied along a path, where the   *)
(* code adds their logarithms.                                             *)
(***************************************************************************)
EXTENDS ChatIngest

(* What a measurement cannot preserve is refused before any call. *)
ScoringRefused(request) ==
  \/ request.tools # <<>> \/ request.config["tool_choice.mode"] # Null
  \/ request.config["cache.mode"] = "off"
  \/ \E path \in {"cache.resource", "store", "user_id", "service_tier", "cache.retention"} :
        request.config[path] # Null

MixedJudgments(b) == Asked(b, "response_format") = "mixed"

UnmeasuredPaths ==
  <<"max_tokens", "temperature", "top_p", "top_k", "stop", "seed", "frequency_penalty",
    "presence_penalty", "logprobs">>

WholeDropped(b, path, mode) ==
  IF Asked(b, mode) = Null THEN b ELSE Adapt(b, path, "dropped", Asked(b, mode), Null)

(* A setting of the generation has no place in a measurement. *)
MeasurementOnly(b) ==
  WholeDropped(WholeDropped(FoldLeft(Dropped, b, UnmeasuredPaths), "reasoning", "reasoning.effort"),
               "cache", "cache.mode")

(* The request of the call that answers what is not scored. *)
JudgmentGeneratedRequest(request) == [request EXCEPT !.config["probabilities"] = "off"]

Rescoped(b, request) ==
  [b EXCEPT !.request = request, !.local = request.config, !.wire = NoKnobs]

JudgmentMessages(b) ==
  ChatMessages(Rescoped(b, [b.request EXCEPT !.config = DefaultConfig]))

(* The record of a scored call, made before anything is sent. *)
JudgmentAdaptations(b) ==
  IF MixedJudgments(b)
  THEN ChatBuild(Rescoped(MeasurementOnly(
         Adapt(UnsupportedIf(ScoringRefused(b.request), b, "scoring"),
               "response_format", "client_side", Null, Null)),
         JudgmentGeneratedRequest(b.request)), FALSE)
  ELSE JudgmentMessages(MeasurementOnly(UnsupportedIf(ScoringRefused(b.request), b, "scoring")))

(* The records the generated answer adds, each once. *)
Merged(records, more) ==
  FoldLeft(LAMBDA kept, r : IF \E i \in DOMAIN kept : kept[i] = r THEN kept ELSE Append(kept, r),
           records, more)

(* The server ignored the token ids: the answer is generated instead. *)
UnmeasuredNoted(b, asked) ==
  IF asked = "required" THEN Unsupported(b, "probabilities")
  ELSE Adapt(b, "probabilities", "dropped", asked, Null)

WithGenerated(b, generated) ==
  [generated EXCEPT !.records = Merged(b.records, generated.records),
                    !.failed = IF b.failed # Null THEN b.failed ELSE @]

JudgmentUnmeasured(b, request) ==
  WithGenerated(UnmeasuredNoted(b, request.config["probabilities"]),
                ChatBuild(Scope(JudgmentGeneratedRequest(request), b.compat, b.policy), FALSE))

JudgmentComplete(b, measured) ==
  IF measured \/ JudgmentAdaptations(b).failed # Null THEN JudgmentAdaptations(b)
  ELSE JudgmentUnmeasured(JudgmentAdaptations(b), b.request)

-----------------------------------------------------------------------------
\* Mutant: a key ends with its last token, without the one that ends the turn.
KeyPathUnclosed(prefix, open, closed) ==
  IF ~IsPrefix(prefix, open) \/ ~IsPrefix(open, closed)
     \/ Len(open) = Len(prefix) \/ Len(closed) = Len(open)
  THEN Null
  ELSE SubSeq(open, Len(prefix) + 1, Len(open))

(* The trie.  Tokenized with the answer left open and with it closed, a    *)
(* key yields its own tokens and the token that ends the turn.             *)
KeyPath(prefix, open, closed) ==
  IF ~IsPrefix(prefix, open) \/ ~IsPrefix(open, closed)
     \/ Len(open) = Len(prefix) \/ Len(closed) = Len(open)
  THEN Null
  ELSE SubSeq(open, Len(prefix) + 1, Len(open)) \o <<closed[Len(open) + 1]>>

TrieNodes(paths) == UNION {{SubSeq(path, 1, i - 1) : i \in DOMAIN path} : path \in paths}

Children(paths, node) ==
  {path[Len(node) + 1] : path \in {p \in paths : IsPrefix(node, p) /\ Len(node) < Len(p)}}

Times(mass, share) == mass * share
Product(shares) == FoldLeft(Times, 1, shares)

(* table[node][token]: the share of the whole the token has after the node. *)
Likelihood(path, table) ==
  Product([i \in DOMAIN path |-> table[SubSeq(path, 1, i - 1)][path[i]]])
=============================================================================
