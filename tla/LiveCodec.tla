----------------------------- MODULE LiveCodec -----------------------------
(***************************************************************************)
(* Live sessions on the wire (src/types/live.ts, and the live codecs of    *)
(* src/dialects/openai_responses.ts and gemini.ts): what a server's frame  *)
(* says, what a client's event sends, and what the events of a turn add up *)
(* to.  A frame is a record of the fields its kind has.                    *)
(***************************************************************************)
EXTENDS Usage, SequencesExt

CONSTANT Dialects

ASSUME DialectsAssumption ==   \* "gemini_audio": Gemini's native audio models
  Dialects \subseteq {"openai", "gemini", "gemini_audio"}

(* A server's event; "content" is the text or the audio it carries. *)
Event(type) == [type |-> type, content |-> Null, usage |-> Null]
Carrying(type, content) == [Event(type) EXCEPT !.content = content]
Billing(type, usage) == [Event(type) EXCEPT !.usage = usage]

(* Audio must be there, and be base64; the decoders see to the rest. *)
ValidServerEvent(e) == e.type = "audio" => e.content \notin {Null, "malformed"}

Unless(condition, event) == IF condition THEN <<>> ELSE <<event>>

-----------------------------------------------------------------------------
(* OpenAI Realtime. *)
BillOfResponse(f) == IF f.usage = Null THEN Null ELSE UsageFromResponses(f.usage)

ResponseDone(f) ==
  LET bill == BillOfResponse(f)
      aside == Unless(bill = Null, Billing("usage", bill))
  IN CASE f.status = "cancelled" -> Append(aside, Event("interrupted"))
       [] f.status # "cancelled" /\ f.called -> aside
       [] OTHER -> <<Billing("turn_end", IF bill = Null THEN Unreported ELSE bill)>>

DecodeOpenAI(f) ==
  CASE f.type = "text" -> Unless(f.delta = Null, Carrying("text", f.delta))
    [] f.type = "audio" -> Unless(f.delta = Null, Carrying("audio", f.delta))
    [] f.type = "arguments" -> Unless(f.delta = Null, Event("tool_call_delta"))
    [] f.type = "item" -> Unless(~f.call, Event("tool_call"))
    [] f.type = "done" -> ResponseDone(f)
    [] f.type = "cancelled" -> <<Event("interrupted")>>
    [] f.type = "error" -> Unless(f.code = "response_cancel_not_active", Event("error"))
    [] OTHER -> <<>>

-----------------------------------------------------------------------------
(* Gemini Live. *)
LiveUsage(f) == IF f.usage = Null THEN Unreported ELSE GeminiUsage(f.usage)

PartEvents(part) ==
  CASE part.kind = "text" -> <<Carrying("text", part.content)>>
    [] part.kind = "audio" -> <<Carrying("audio", part.content)>>
    [] part.kind = "call" -> <<Event("tool_call")>>
    [] OTHER -> <<>>

ServerContent(f) ==
  FlattenSeq([i \in DOMAIN f.parts |-> PartEvents(f.parts[i])])
  \o Unless(f.transcript = Null, Carrying("text", f.transcript))
  \o Unless(f.usage = Null \/ f.complete, Billing("usage", LiveUsage(f)))
  \o Unless(~f.interrupted, Event("interrupted"))
  \o Unless(~f.complete, Billing("turn_end", LiveUsage(f)))

DecodeGemini(f) ==
  CASE f.type = "error" -> <<Event("error")>>
    [] f.type = "toolCall" -> [i \in 1..f.calls |-> Event("tool_call")]
    [] f.type = "content" -> ServerContent(f)
    [] OTHER -> <<>>

Decode(dialect, f) == IF dialect = "openai" THEN DecodeOpenAI(f) ELSE DecodeGemini(f)

(* setupComplete: TRUE; a refusal is thrown; anything else is not yet it. *)
LiveSetupStatus(f) ==
  CASE f.type = "setupComplete" -> "complete"
    [] f.type = "error" -> "refused"
    [] OTHER -> "waiting"

-----------------------------------------------------------------------------
(* What a client's event sends; Null where it cannot be written. *)
ValidClientEvent(e) ==
  /\ e.type \in {"turn", "tool_result"} => e.content # Null
  /\ e.type \in {"audio", "image"} => e.content \notin {Null, "malformed"}

(* A frame that asks is one the server answers with a turn. *)
Frame(kind) == [kind |-> kind, asks |-> FALSE]
Asking(kind) == [kind |-> kind, asks |-> TRUE]

EncodeOpenAI(e) ==
  CASE e.type = "audio" -> <<Frame("append")>>
    [] e.type = "end_audio" -> <<Frame("commit"), Asking("create")>>
    [] e.type = "interrupt" -> <<Frame("cancel")>>
    [] e.type = "turn" /\ ~e.complete -> <<Frame("item")>>
    [] e.type = "tool_result" /\ e.content = "media" -> Null
    [] OTHER -> <<Frame("item"), Asking("create")>>

EncodeGemini(dialect, e) ==
  CASE e.type = "text" /\ dialect = "gemini_audio" -> <<Asking("realtimeInput")>>
    [] e.type = "turn" /\ ~e.complete -> <<Frame("clientContent")>>
    [] e.type \in {"text", "turn", "interrupt"} -> <<Asking("clientContent")>>
    [] e.type = "end_audio" -> <<Asking("realtimeInput")>>
    [] e.type = "tool_result" -> <<Asking("toolResponse")>>
    [] OTHER -> <<Frame("realtimeInput")>>

Encode(dialect, e) ==
  IF dialect = "openai" THEN EncodeOpenAI(e) ELSE EncodeGemini(dialect, e)

-----------------------------------------------------------------------------
(* A turn. *)
TurnTerminal == {"turn_end", "interrupted", "error"}

(* An absent counter taken for a zero. *)
SumUsageOr0(sum, more) ==
  IF sum = Null THEN more ELSE [c \in DOMAIN more |-> Or0(sum[c]) + Or0(more[c])]

(* Counter by counter; unknown in one is unknown in the sum. *)
SumUsage(sum, more) ==
  IF sum = Null THEN more
  ELSE WithTotal([c \in DOMAIN more |->
                    IF Null \in {sum[c], more[c]} THEN Null ELSE sum[c] + more[c]])

IsBill(e) == e.type \in {"usage", "turn_end"}

Billed(sum, e) == IF IsBill(e) THEN SumUsage(sum, e.usage) ELSE sum

LastType(events) == IF events = <<>> THEN Null ELSE Last(events).type

MaterializeTurn(events) ==
  LET Only(types) == SelectSeq(events, LAMBDA e : e.type \in types)
      Contents(type) == [i \in DOMAIN Only({type}) |-> Only({type})[i].content]
      ended == LastType(events) \in TurnTerminal \cup {"tool_call"}
  IN [endedBy |-> IF ended THEN LastType(events) ELSE "incomplete",
      ok |-> LastType(events) = "turn_end",
      text |-> Contents("text"), audio |-> Contents("audio"),
      toolCalls |-> Len(Only({"tool_call"})),
      usage |-> FoldLeft(Billed, Null, events),
      error |-> Only({"error"}) # <<>>]

(* What an event's JSON costs a view that collects: long ones cost twice. *)
LiveEventSize(e) == IF e.content = "long" THEN 2 ELSE 1
=============================================================================
