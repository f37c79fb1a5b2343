------------------------------- MODULE MCLive -------------------------------
(* Frames of every kind the codecs tell apart, two turns, small limits. *)
EXTENDS LiveSession

Told == [Unreported EXCEPT !.input = 2, !.output = 1]
Partly == [Unreported EXCEPT !.output = 2]
Reported == [prompt |-> 2, toolUse |-> 1, answer |-> 1, thoughts |-> 1, total |-> 5,
             cached |-> Null, inputAudio |-> Null, outputAudio |-> Null]

Delta(type, delta) == [type |-> type, delta |-> delta]
Done(status, called, usage) ==
  [type |-> "done", status |-> status, called |-> called, usage |-> usage]
Content(parts, interrupted, complete, usage) ==
  [type |-> "content", parts |-> parts, transcript |-> Null, usage |-> usage,
   interrupted |-> interrupted, complete |-> complete]
Part(kind, content) == [kind |-> kind, content |-> content]

OpenAIFrames ==
  {Delta("text", "long"), Delta("audio", "malformed"), Delta("arguments", "more"),
   [type |-> "item", call |-> TRUE], Done("completed", TRUE, Told),
   Done("cancelled", FALSE, Partly), [type |-> "error", code |-> "response_cancel_not_active"]}
OpenAIEnds ==
  {Done("completed", FALSE, Told), Done("completed", FALSE, Null),
   [type |-> "error", code |-> "other"], [type |-> "item", call |-> TRUE]}

GeminiFrames ==
  {[type |-> "setupComplete"],
   Content(<<Part("text", "long"), Part("audio", "sound")>>, FALSE, FALSE, Reported),
   Content(<<Part("text", "short"), Part("audio", Null)>>, FALSE, FALSE, Reported),
   Content(<<Part("call", Null)>>, TRUE, FALSE, Reported)}
GeminiEnds ==
  {Content(<<>>, TRUE, TRUE, Reported), [type |-> "toolCall", calls |-> 1],
   [Content(<<>>, FALSE, TRUE, Null) EXCEPT !.transcript = "short"], [type |-> "error"]}

MCServerFrames == [d \in Dialects |-> IF d = "openai" THEN OpenAIFrames ELSE GeminiFrames]
MCEndFrames == [d \in Dialects |-> IF d = "openai" THEN OpenAIEnds ELSE GeminiEnds]

Said(type, content, complete) == [type |-> type, content |-> content, complete |-> complete]
MCClientEvents ==
  {Said("text", "short", TRUE), Said("turn", "short", FALSE), Said("tool_result", "short", TRUE),
   Said("interrupt", Null, TRUE)}
=============================================================================
