--------------------------- MODULE MCAnswerStream ---------------------------
(* Answers whose every difference the readers must bear: parallel calls,   *)
(* withheld fragments, final copies that agree or do not, signatures.      *)
EXTENDS AnswerStream

Item(kind, tokens) ==
  [kind |-> kind, tokens |-> tokens, id |-> "id", name |-> "f", state |-> Null,
   sources |-> <<>>, sent |-> Len(tokens), size |-> 1, exact |-> TRUE,
   part |-> [k \in DOMAIN tokens |-> IF k = 3 THEN 2 ELSE 0],
   final |-> FlattenSeq(tokens)]

a == <<"a">>
bc == <<"b", "c">>
open == <<"{">>
middle == <<"1">>
shut == <<"}">>
Say(tokens) == Item("text", tokens)
Think(tokens) == Item("thinking", tokens)
Use(tokens) == Item("tool_call", tokens)
Signed(item) == [item EXCEPT !.state = "state"]
Sourced(item) == [item EXCEPT !.sources = <<"source">>]
Unnamed1 == [Use(<<open, shut>>) EXCEPT !.name = Null]

Answer(dialect, items, finish, usage) ==
  [dialect |-> dialect, items |-> items, finish |-> finish, usage |-> usage,
   model |-> "model"]

Told == [Unreported EXCEPT !.input = 2, !.output = 1]
Metered == [prompt |-> 2, toolUse |-> Null, answer |-> 1, thoughts |-> 1,
            total |-> 4, cached |-> Null, inputAudio |-> Null, outputAudio |-> Null]

ChatAnswers ==
  {Answer("chat", <<Think(<<a>>), Say(<<a, bc>>), Use(<<open, shut>>),
                    Use(<<open, middle, shut>>)>>, "tool_calls", Told),
   Answer("chat", <<Say(<<a>>), Item("refusal", <<bc>>)>>, "stop", Null),
   Answer("chat", <<Use(<<open>>)>>, "length", Told),
   Answer("chat", <<Use(<<open, shut>>), Unnamed1>>, "tool_calls", Told)}

AnthropicAnswers ==
  {Answer("anthropic", <<Signed(Think(<<a, bc>>)), Sourced(Say(<<a, bc>>)),
                         Use(<<open, shut>>), Use(<<open, middle, shut>>)>>,
          "tool_use", Told),
   Answer("anthropic", <<Signed(Think(<<>>)), Signed(Item("redacted", <<>>)),
                         Item("server_tool", <<>>), Say(<<a>>)>>, "max_tokens",
          [Told EXCEPT !.cacheRead = 1, !.cacheWrite = 0]),
   Answer("anthropic", <<Use(<<>>)>>, "max_tokens", Null),
   Answer("anthropic", <<Unnamed1>>, "tool_use", Told)}

Withheld(item, count) == [item EXCEPT !.sent = count]
Restated(item, final) == [item EXCEPT !.final = final]
Summary == [Signed(Think(<<a, bc, a>>)) EXCEPT
              !.final = <<"a", "b", "c", "\n", "\n", "a">>]

ResponsesAnswers ==
  {Answer("responses", <<Summary, Sourced(Say(<<a, bc>>))>>, "completed", Told),
   Answer("responses", <<Withheld(Use(<<open, middle, shut>>), 1), Use(<<open, shut>>)>>,
          "completed", Told),
   Answer("responses", <<Use(<<open>>), Withheld(Use(<<open, shut>>), 0)>>,
          "completed", Told),
   Answer("responses", <<Withheld(Summary, 0), Withheld(Say(<<a, bc>>), 1)>>,
          "max_output_tokens", [Told EXCEPT !.cacheRead = 3]),
   Answer("responses", <<Restated(Use(<<open, middle, shut>>), <<"{", " ", "1", "}">>)>>,
          "completed", Null),
   Answer("responses", <<Restated(Use(<<open, shut>>), <<"{", "1", "}">>)>>,
          "completed", Told),
   Answer("responses", <<Restated(Say(<<a, bc>>), <<"a", "b">>)>>, "completed", Told),
   Answer("responses", <<Say(<<a, bc>>), Use(<<open, shut>>), Say(<<bc, a>>)>>,
          "completed", Told),
   Answer("responses", <<Think(<<a>>), [Say(<<a, bc, bc>>) EXCEPT !.size = 2]>>,
          "completed", Told),
   Answer("responses", <<[Say(<<bc, bc, a>>) EXCEPT !.exact = FALSE, !.size = 3]>>,
          "completed", Told),
   Answer("responses", <<Item("refusal", <<a, bc>>)>>, "content_filter", Told),
   Answer("responses", <<Unnamed1>>, "completed", Told)}

GeminiAnswers ==
  {Answer("gemini", <<Think(<<a, bc>>), Signed(Say(<<a, bc>>)), Use(<<open, shut>>),
                      Signed(Use(<<open, middle, shut>>)), Say(<<bc>>)>>, "STOP", Metered),
   Answer("gemini", <<Sourced(Say(<<a>>)), Item("image", <<bc>>), Item("executed", <<>>),
                      Item("document", <<a>>), Say(<<bc, a>>)>>, "MAX_TOKENS", Metered),
   Answer("gemini", <<Say(<<a>>)>>, "SAFETY", Null),
   Answer("gemini", <<Unnamed1>>, "STOP", Metered)}

MCAnswers == ChatAnswers \cup AnthropicAnswers \cup ResponsesAnswers \cup GeminiAnswers
MCStopSets ==
  {{}, {<<"b", "c">>}, {<<"c">>}, {<<"a", "b">>, <<"c", "b">>}, {<<"c", "c">>, <<>>},
   {<<"a">>}, {<<"c", "a">>}, {<<"c", "b", "c">>}}
=============================================================================
