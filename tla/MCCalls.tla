------------------------------ MODULE MCCalls ------------------------------
(***************************************************************************)
(* Calls on the servers of the presets, with the settings of one family at *)
(* a time: those of different families meet in few builders.               *)
(***************************************************************************)
EXTENDS Calls

Server(dialect, preset, models) ==
  [dialect |-> dialect, preset |-> preset, knobs |-> NoKnobs, models |-> models]

MCServers ==
  {Server("chat", preset, {"a-model"}) :
     preset \in {"openai", "groq", "lmstudio", "vllm", "openrouter", "qwen", "deepseek", "zai",
                 "meta", "template"}}
  \cup {Server("chat", "moonshotai", {"kimi-k2"}),
        Server("chat", "together", {"openai/gpt-oss-120b"}),
        Server("chat", "bedrock", {"openai.gpt-oss-120b"})}
  \cup {Server("responses", preset, {"a-model"}) :
          preset \in {"codex", "openrouter", "ollama", "vllm", "qwen", "deepseek", "meta",
                      "moonshotai", "template"}}
  \cup {Server("responses", "openai", {"gpt-5.6"}),
        [Server("responses", "openai", {"a-model"}) EXCEPT !.knobs = [cacheControl |-> "none"]],
        Server("anthropic", "anthropic", {"claude-sonnet-5", "claude-sonnet-4-5", "claude-3-haiku"}),
        Server("anthropic", "deepseek", {"deepseek-chat", "claude-3-haiku"}),
        Server("anthropic", "meta", {"a-model"}),
        Server("anthropic", "moonshotai", {"kimi-k2"}),
        Server("gemini", "gemini", {"gemini-3-pro", "gemini-2.5-pro"})}

-----------------------------------------------------------------------------
(* Transcripts.  Every token is said once. *)
Says(kind, token) == Part(kind, <<token>>)
Asks == Message("user", <<Says("text", "ask")>>)
Call(id, token) == [Says("tool_call", token) EXCEPT !.id = id]
Result(id, content, isError) ==
  [Part("tool_result", <<>>) EXCEPT !.id = id, !.content = content, !.isError = isError]
Thought(token, state) == [Says("thinking", token) EXCEPT !.state = state]

Plain == <<Asks>>
WithTools ==
  <<Asks,
    Message("assistant", <<Thought("thought", "signed"), Says("text", "say"), Call("c1", "args")>>),
    Message("tool", <<Result("c1", <<Says("text", "found"), Says("text", "more")>>, FALSE)>>),
    Message("user", <<Says("text", "next")>>)>>
WithFailures ==
  <<Asks,
    Message("assistant", <<Call("c1", "args"), Call("c2", "args2")>>),
    Message("tool", <<Result("c1", <<Says("text", "broke")>>, TRUE),
                      Result("c2", <<Says("image", "shot")>>, TRUE)>>)>>
WithPlainThought ==
  <<Message("user", <<Says("text", "ask"), Says("image", "picture")>>),
    Message("assistant", <<Thought("thought", Null), Says("citation", "cited"),
                           Says("text", "say"), Says("refusal", "no")>>),
    Message("developer", <<Says("text", "mind")>>),
    Message("user", <<Says("text", "next"), Says("data", "table")>>)>>
WithDocument == <<Message("user", <<Says("document", "paper"), Says("text", "ask")>>)>>
WithAudio == <<Message("user", <<Says("audio", "voice")>>), Asks>>
OnlyInstructions == <<Message("developer", <<Says("text", "mind")>>)>>

WithDrawing ==
  <<Asks, Message("assistant", <<Says("text", "say"), Says("image", "drawn"), Says("document", "draft")>>),
    Message("user", <<Says("text", "next")>>)>>

Transcripts ==
  {Plain, WithTools, WithFailures, WithPlainThought, WithDocument, WithAudio, OnlyInstructions,
   WithDrawing}

-----------------------------------------------------------------------------
(* The settings, a family at a time. *)
Config(settings) == Normalized(settings @@ DefaultConfig)
Ask(settings, messages, tools, system) ==
  [system |-> system, messages |-> messages, tools |-> tools, config |-> Config(settings)]

Reasonings ==
  {Ask(("reasoning.effort" :> effort) @@ ("reasoning.thinking_budget" :> budget)
       @@ ("reasoning.summary" :> summary) @@ ("max_tokens" :> limit), Plain, <<>>, Null) :
     effort \in {Null, "off", "minimal", "medium", "high", "max"}, budget \in {Null, 3000},
     summary \in {Null, "auto", "detailed"}, limit \in {Null, 500}}

ToolChoices ==
  {Ask(("tool_choice.mode" :> mode) @@ ("tool_choice.allowed" :> allowed)
       @@ ("tool_choice.parallel" :> parallel), Plain, tools, Null) :
     mode \in {Null, "auto", "required", "none"}, parallel \in {Null, FALSE},
     allowed \in {Null, <<"t1">>, <<"t2", "t1">>, <<"web_search">>},
     tools \in {<<"t1", "t2">>, <<"t1", "t2", "web_search">>}}

Caches ==
  {Ask(("cache.mode" :> "auto") @@ ("cache.retention" :> retention) @@ ("cache.key" :> key)
       @@ prefix @@ ("cache.resource" :> resource), messages, <<"t1">>, system) :
     retention \in {Null, "long"}, key \in {Null, "key"}, resource \in {Null, "stored"},
     prefix \in {NoKnobs, "cache.prefix" :> "stable", "cache.prefix" :> "history",
                 "cache.prefix_until_index" :> 0, "cache.prefix_until_index" :> 2},
     messages \in {Plain, WithTools}, system \in {Null, <<"be kind">>}}
  \cup {Ask("cache.mode" :> "off", WithTools, <<>>, <<"be kind">>),
        Ask(("cache.mode" :> "auto") @@ ("cache.resource" :> "stored")
            @@ ("tool_choice.mode" :> "required"), Plain, <<"t1">>, Null)}

Samplings ==
  {Ask(("temperature" :> temperature) @@ ("stop" :> stop) @@ ("logprobs" :> scores) @@ rest,
       Plain, <<>>, Null) :
     temperature \in {Null, 7, 15}, stop \in {Null, <<"end">>}, scores \in {Null, 0, 3},
     rest \in {NoKnobs, ("top_p" :> 9) @@ ("top_k" :> 4) @@ ("seed" :> 1)
                        @@ ("frequency_penalty" :> 2) @@ ("presence_penalty" :> 3)}}

Formats ==
  {Ask(("response_format" :> format) @@ ("probabilities" :> scored) @@ rest, Plain, <<>>, Null) :
     format \in {Null, "json_object", "schema", "judged", "mixed", "boxes"},
     scored \in {Null, "off", "if_available", "required"},
     rest \in {NoKnobs, "store" :> FALSE, ("store" :> TRUE) @@ ("user_id" :> "me"),
               "service_tier" :> "flex", "temperature" :> 7}}

Talks == {Ask(NoKnobs, messages, <<>>, system) :
            messages \in Transcripts, system \in {Null, <<"be kind">>}}

(* Judgments asked of a conversation, and beside other settings. *)
Judged == {Ask(("response_format" :> format) @@ ("probabilities" :> scored), messages, <<>>, system) :
             format \in {"judged", "mixed"}, scored \in {"if_available", "required"},
             messages \in Transcripts, system \in {Null, <<"be kind">>}}

MCRequests ==
  {r \in Reasonings \cup ToolChoices \cup Caches \cup Samplings \cup Formats \cup Talks
         \cup Judged :
     LegalConfig(r.config, r.tools)}

(* One setting each, which no other one explains away: a level of effort,  *)
(* or a tool that must be called, beside a stored cache.                   *)
MCSingles ==
  {Ask("reasoning.effort" :> effort, Plain, <<>>, Null) : effort \in {"medium", "high"}}
  \cup {Ask(("cache.mode" :> "auto") @@ ("cache.resource" :> "stored")
            @@ ("tool_choice.mode" :> "required"), Plain, <<"t1">>, Null)}

-----------------------------------------------------------------------------
(* Keys of a judgment: one the beginning of the other, kept apart, or      *)
(* spelled with the tokens of what is before them.                         *)
Tokens(prefix, body) == [prefix |-> prefix, open |-> prefix \o body, closed |-> prefix \o body \o <<0>>]
MCTokenizers ==
  {[a |-> Tokens(<<9>>, <<1>>), ab |-> Tokens(<<9>>, <<1, 2>>)],
   [a |-> Tokens(<<9>>, <<1>>), b |-> Tokens(<<9>>, <<2>>), ba |-> Tokens(<<9>>, <<2, 1>>)],
   [a |-> Tokens(<<9>>, <<1>>), b |-> [Tokens(<<8>>, <<2>>) EXCEPT !.prefix = <<9>>]]}
=============================================================================
