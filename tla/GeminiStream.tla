---------------------------- MODULE GeminiStream ----------------------------
(***************************************************************************)
(* Answers of the Gemini wire (src/dialects/gemini.ts): the reader of a    *)
(* whole body and the reader of a stream's chunks, whose parts are counted *)
(* from 0 in every chunk.  An item's state is its thought signature.       *)
(***************************************************************************)
EXTENDS ResponsesStream

GeminiChunk == [type |-> "chunk", parts |-> <<>>, finish |-> Null, usage |-> Null]

GeminiPart(item, text) ==
  [kind |-> item.kind, text |-> text, state |-> Null, id |-> item.id, name |-> item.name]

(* A text arrives in pieces, its signature with the last; a call whole. *)
GeminiFramesOf(answer, i) ==
  LET item == answer.items[i]
      piece(k) ==
        [GeminiPart(item, item.tokens[k]) EXCEPT
           !.state = IF k = Len(item.tokens) THEN item.state ELSE Null]
      whole == [GeminiPart(item, TextOf(item)) EXCEPT !.state = item.state]
      chunk(part) == [GeminiChunk EXCEPT !.parts = <<part>>]
  IN IF item.kind \in {"text", "thinking"}
     THEN [k \in DOMAIN item.tokens |-> chunk(piece(k))]
     ELSE <<chunk(whole)>>

(* Two chunks in one. *)
GeminiJoined(a, b) == [a EXCEPT !.parts = @ \o b.parts]

GeminiClosing(answer) ==
  <<[GeminiChunk EXCEPT !.finish = answer.finish, !.usage = answer.usage]>>

-----------------------------------------------------------------------------
(* Finishes that are errors of the call; all others end an answer. *)
CandidateErrors ==
  {"SAFETY", "RECITATION", "LANGUAGE", "BLOCKLIST", "PROHIBITED_CONTENT", "SPII",
   "MALFORMED_FUNCTION_CALL", "IMAGE_SAFETY", "IMAGE_PROHIBITED_CONTENT",
   "IMAGE_OTHER", "NO_IMAGE", "IMAGE_RECITATION", "UNEXPECTED_TOOL_CALL",
   "TOO_MANY_TOOL_CALLS", "MISSING_THOUGHT_SIGNATURE", "MALFORMED_RESPONSE"}

GeminiFinish(raw, hasCall) ==
  IF hasCall THEN "tool_call" ELSE IF raw = "MAX_TOKENS" THEN "length" ELSE "stop"

UsageOfMetadata(usage) == IF usage = Null THEN Unreported ELSE GeminiUsage(usage)

(* The events of one part, the k-th of its chunk, without scores. *)
EventsOfPart(part, k) ==
  LET signed == Optional(part.state # Null, Continuation(part.state, k - 1)) IN
  CASE part.kind = "thinking" -> <<Thinking(part.text, k - 1)>> \o signed
    [] part.kind = "text" -> <<Text(part.text, k - 1, <<>>)>> \o signed
    [] part.kind = "tool_call" ->
         <<ToolCall(part.text, k - 1, part.id, part.name)>> \o signed
    [] part.kind \in {"image", "audio"} -> <<Media(part.kind, part.text, k - 1)>>
    [] OTHER -> <<>>

(* The scores of a chunk go with its first text. *)
Scored(events, scores) ==
  LET texts == {i \in DOMAIN events : events[i].type = "text"} IN
  IF texts = {} THEN events ELSE [events EXCEPT ![Min(texts)].scores = scores]

ScoresOfChunk(chunk) ==
  LET texts == SelectSeq(chunk.parts, LAMBDA part : part.kind = "text")
  IN [i \in DOMAIN texts |-> texts[i].text]

(* The events of one chunk, on its own. *)
GeminiEvents(chunk) ==
  LET deltas == FlattenSeq([k \in DOMAIN chunk.parts |-> EventsOfPart(chunk.parts[k], k)])
      hasCall == \E part \in ToSet(chunk.parts) : part.kind = "tool_call"
      usage == UsageOfMetadata(chunk.usage) IN
  IF chunk.finish \in CandidateErrors THEN <<ErrorEvent>>
  ELSE Scored(deltas, ScoresOfChunk(chunk))
       \o IF chunk.finish # Null
          THEN <<End(GeminiFinish(chunk.finish, hasCall), usage, "usage")>>
          ELSE Optional(deltas = <<>> /\ chunk.usage # Null, End("stop", usage, "usage"))

-----------------------------------------------------------------------------
(* Which part of the answer each part of a chunk belongs to. *)

NewGeminiReader == [last |-> Null, next |-> 0]

\* Mutant: any part goes on with the one before it when it is of its kind.
ContinuesAny(reader, part, k) == reader.last # Null /\ reader.last.kind = part.kind

(* The first part of a chunk goes on with the last of the chunk before,    *)
(* when both are text or both are thought.                                 *)
Continues(reader, part, k) ==
  /\ k = 1 /\ part.kind \in {"text", "thinking"}
  /\ reader.last # Null /\ reader.last.kind = part.kind

Placed(reader, chunk) ==
  LET place(r, k) ==
        LET part == chunk.parts[k]
            slot == IF Continues(r, part, k) THEN r.last.slot ELSE r.next
        IN IF part.kind = "executed" THEN [r EXCEPT !.slots = Append(@, Null)]
           ELSE [slots |-> Append(r.slots, slot),
                 next |-> IF slot = r.next THEN slot + 1 ELSE r.next,
                 last |-> [slot |-> slot, kind |-> part.kind]]
  IN FoldLeft(place, [last |-> reader.last, next |-> reader.next, slots |-> <<>>],
              [k \in DOMAIN chunk.parts |-> k])

GeminiFeed(reader, chunk) ==
  LET placed == Placed(reader, chunk)
      moved(e) == IF IsDelta(e) THEN [e EXCEPT !.at = placed.slots[@ + 1]] ELSE e
      events == GeminiEvents(chunk)
  IN [events |-> [i \in DOMAIN events |-> moved(events[i])],
      reader |-> [last |-> placed.last, next |-> placed.next]]

-----------------------------------------------------------------------------
(* A whole body. *)

PartsOfCandidate(item) ==
  LET cont == Optional(item.state # Null, item.state) IN
  CASE item.kind \in {"text", "thinking"} -> <<Part(item.kind, TextOf(item), cont)>>
    [] item.kind = "tool_call" ->
         <<Part("tool_call", Call(item.id, item.name, ParseJsonBestEffort(TextOf(item))),
                cont)>>
    [] item.kind \in {"image", "audio", "document"} ->
         <<Part(item.kind, TextOf(item), <<>>)>>
    [] OTHER -> <<>>

(* The citations of an answer are beside its parts. *)
GeminiCitations(items) ==
  FlattenSeq([i \in DOMAIN items |->
    [k \in DOMAIN items[i].sources |-> Part("citation", items[i].sources[k], <<>>)]])

GeminiResponse(body, requested) ==
  LET found == FlattenSeq([i \in DOMAIN body.items |-> PartsOfCandidate(body.items[i])])
               \o GeminiCitations(body.items)
      parts == IF found = <<>> THEN <<Part("text", <<>>, <<>>)>> ELSE found
  IN IF body.finish \in CandidateErrors THEN Failure("provider")
     ELSE IF \E item \in ToSet(body.items) : item.kind = "tool_call" /\ item.name = Null
     THEN Failure("unnamed")
     ELSE Response(requested, parts, GeminiFinish(body.finish, HasCall(parts)),
                   UsageOfMetadata(body.usage), "body", TokensOfKind(body, "text"), TRUE)

(* A stream has no citation and no document. *)
GeminiCarried(answer, response) ==
  LET kept == SelectSeq(response.parts,
                LAMBDA part : part.type \notin {"citation", "document"})
      parts == IF kept = <<>> THEN <<Part("text", <<>>, <<>>)>> ELSE kept
  IN [response EXCEPT
        !.parts = parts,
        !.finish = FinishOf(GeminiFinish(answer.finish, FALSE), parts)]
=============================================================================
