---------------------------- MODULE StreamEvents ----------------------------
(***************************************************************************)
(* The canonical events of a stream (src/types/stream.ts), the coalescer   *)
(* that orders them and the accumulator that assembles a Response of them  *)
(* (src/stream.ts).  A text is a sequence of letters.  at is the index of  *)
(* the part a delta belongs to.  Null is what is absent.                   *)
(***************************************************************************)
EXTENDS Naturals, Sequences, SequencesExt, Usage

(* Why there is no Response. *)
Reasons == {"provider", "unnamed", "incomplete", "malformed", "contradiction"}

(* What is absent is no frame's name, no failure and no usage. *)
ASSUME AbsenceAssumption ==
  /\ Null # "usage" /\ Null \notin [failure : Reasons] /\ Null \notin Counters

Start(model) == [type |-> "start", model |-> model]
End(finish, usage, data) ==
  [type |-> "end", finish |-> finish, usage |-> usage, data |-> data]
ErrorEvent == [type |-> "error"]

Text(text, at, scores) ==
  [type |-> "text", text |-> text, at |-> at, scores |-> scores, scored |-> TRUE]
Thinking(text, at) == [type |-> "thinking", text |-> text, at |-> at]
ToolCall(input, at, id, name) ==
  [type |-> "tool_call", input |-> input, at |-> at, id |-> id, name |-> name]
Media(kind, data, at) == [type |-> kind, data |-> data, at |-> at]
Citation(source, at) == [type |-> "citation", source |-> source, at |-> at]
Continuation(state, at) == [type |-> "continuation", state |-> state, at |-> at]

IsDelta(e) == e.type \notin {"start", "end", "error"}

Optional(condition, event) == IF condition THEN <<event>> ELSE <<>>

-----------------------------------------------------------------------------
(* The coalescer: exactly one leading start, exactly one final end.        *)

NewCoalescer ==
  [started |-> FALSE, sawEnd |-> FALSE, finish |-> Null, usage |-> Null,
   data |-> Null, rank |-> 0]

(* What an end frame supplied decides whether its data is kept. *)
Rank(e) == IF e.usage # Null THEN 3 ELSE IF e.finish # Null THEN 2 ELSE 1

AbsorbEnd(c, e) ==
  LET kept == e.data # Null /\ Rank(e) >= c.rank IN
  [c EXCEPT !.sawEnd = TRUE,
            !.finish = IF e.finish # Null THEN e.finish ELSE @,
            !.usage = IF e.usage # Null THEN e.usage ELSE @,
            !.data = IF kept THEN e.data ELSE @,
            !.rank = IF kept THEN Rank(e) ELSE @]

Coalesced(c, e) ==
  CASE e.type = "start" -> [c EXCEPT !.started = TRUE]
    [] e.type = "end" -> AbsorbEnd(c, e)
    [] e.type = "error" -> c
    [] IsDelta(e) -> [c EXCEPT !.started = TRUE]

\* Mutant: an end passes through as it comes.
EmittedAtOnce(c, e, model) ==
  Optional(~c.started /\ IsDelta(e), Start(model)) \o <<e>>

(* What the consumer is given for one event of the dialect. *)
Emitted(c, e, model) ==
  CASE e.type = "start" -> Optional(~c.started, e)
    [] e.type = "end" -> <<>>
    [] OTHER -> Optional(~c.started /\ IsDelta(e), Start(model)) \o <<e>>

(* The source is exhausted: no end is made up. *)
EmittedLast(c, model) ==
  IF c.sawEnd
  THEN Optional(~c.started, Start(model)) \o <<End(c.finish, c.usage, c.data)>>
  ELSE <<>>

-----------------------------------------------------------------------------
(* The accumulator keeps what it was given, and assembles the parts of it. *)

NewAccumulator ==
  [model |-> Null, finish |-> Null, usage |-> Null, data |-> Null,
   deltas |-> <<>>]

Accumulated(a, e) ==
  CASE e.type = "start" -> [a EXCEPT !.model = IF e.model # Null THEN e.model ELSE @]
    [] e.type = "end" ->
         [a EXCEPT !.finish = IF e.finish # Null THEN e.finish ELSE @,
                   !.usage = IF e.usage # Null THEN e.usage ELSE @,
                   !.data = IF e.data # Null THEN e.data ELSE @]
    [] e.type = "error" -> a
    [] OTHER -> [a EXCEPT !.deltas = Append(@, e)]

(* A tool call's arguments: an object, or the text that is not one. *)
IsObject(json) == Len(json) > 1 /\ Head(json) = "{" /\ Last(json) = "}"
Spaceless(json) == SelectSeq(json, LAMBDA letter : letter # " ")
ParseJsonBestEffort(raw) ==
  IF raw = <<>> THEN [object |-> <<"{", "}">>]
  ELSE IF IsObject(raw) THEN [object |-> Spaceless(raw)]
  ELSE [partial |-> raw]

Part(type, content, cont) == [type |-> type, content |-> content, cont |-> cont]
Call(id, name, input) == [id |-> id, name |-> name, input |-> input]

OfType(deltas, type) == SelectSeq(deltas, LAMBDA d : d.type = type)
Texts(deltas) == FlattenSeq([i \in DOMAIN deltas |-> deltas[i].text])
LastSet(deltas, field) ==
  LET set == SelectSeq(deltas, LAMBDA d : d[field] # Null)
  IN IF set = <<>> THEN Null ELSE Last(set)[field]

Unnamed(deltas) ==
  {d.at : d \in {e \in ToSet(OfType(deltas, "tool_call")) :
                   LastSet(SelectSeq(OfType(deltas, "tool_call"),
                                     LAMBDA f : f.at = e.at), "name") = Null}}

CallOf(calls, at) ==
  Call(LastSet(calls, "id"), LastSet(calls, "name"),
       ParseJsonBestEffort(FlattenSeq([i \in DOMAIN calls |-> calls[i].input])))

(* The parts at one index, in the order the kinds are emitted. *)
PartsAt(deltas, at) ==
  LET here == SelectSeq(deltas, LAMBDA d : d.at = at)
      states == OfType(here, "continuation")
      cont == [i \in DOMAIN states |-> states[i].state]
      thinking == OfType(here, "thinking")
      text == OfType(here, "text")
      image == OfType(here, "image")
      audio == OfType(here, "audio")
      citations == OfType(here, "citation")
      calls == OfType(here, "tool_call")
      emitted ==
           Optional(thinking # <<>>, Part("thinking", Texts(thinking), cont))
        \o Optional(text # <<>>, Part("text", Texts(text), cont))
        \o (IF image = <<>> THEN <<>> ELSE <<Part("image", Last(image).data, cont)>>)
        \o Optional(audio # <<>>,
             Part("audio", FlattenSeq([i \in DOMAIN audio |-> audio[i].data]), cont))
        \o [i \in DOMAIN citations |-> Part("citation", citations[i].source, cont)]
        \o Optional(calls # <<>>, Part("tool_call", CallOf(calls, at), cont))
  IN IF emitted = <<>> THEN <<Part("text", <<>>, cont)>> ELSE emitted

Assembled(deltas) ==
  LET ofParts == SelectSeq(deltas, LAMBDA d : d.at # Null)
      indexes == SetToSortSeq({d.at : d \in ToSet(ofParts)}, <)
      parts == FlattenSeq([i \in DOMAIN indexes |-> PartsAt(ofParts, indexes[i])])
  IN IF parts = <<>> THEN <<Part("text", <<>>, <<>>)>> ELSE parts

HasCall(parts) == \E part \in ToSet(parts) : part.type = "tool_call"

(* A tool call is waited for, unless a limit or a filter cut the answer. *)
FinishOf(finish, parts) ==
  IF finish \in {Null, "stop"} /\ HasCall(parts) THEN "tool_call"
  ELSE IF finish = Null THEN "stop" ELSE finish

Response(model, parts, finish, usage, data, scores, scored) ==
  [model |-> model, parts |-> parts, finish |-> finish, usage |-> usage,
   data |-> data, scores |-> scores, scored |-> scored]

Failure(why) == [failure |-> why]
Failed(outcome) == "failure" \in DOMAIN outcome

(* The complete Response, or why there is none. *)
ResponseOf(a, requested) ==
  LET text == OfType(a.deltas, "text")
      parts == Assembled(a.deltas) IN
  IF Unnamed(a.deltas) # {} THEN Failure("unnamed")
  ELSE Response(IF a.model = Null THEN requested ELSE a.model, parts,
                FinishOf(a.finish, parts),
                IF a.usage = Null THEN Unreported ELSE a.usage, a.data,
                FlattenSeq([i \in DOMAIN text |-> text[i].scores]),
                \A i \in DOMAIN text : text[i].scored)

-----------------------------------------------------------------------------
(* A response replayed as events. *)

ReplayOfPart(part, at, scores, scored) ==
  LET delta ==
        CASE part.type = "text" ->
               [Text(part.content, at, scores) EXCEPT !.scored = scored]
          [] part.type = "thinking" -> Thinking(part.content, at)
          [] part.type = "tool_call" ->
               ToolCall(part.content.input.object, at, part.content.id, part.content.name)
          [] part.type \in {"image", "audio"} -> Media(part.type, part.content, at)
          [] part.type = "citation" -> Citation(part.content, at)
  IN <<delta>> \o [i \in DOMAIN part.cont |-> Continuation(part.cont[i], at)]

\* Mutant: every text delta carries the scores.
FirstTextAny(parts, i) == parts[i].type = "text"

FirstText(parts, i) ==
  parts[i].type = "text" /\ \A j \in 1..(i - 1) : parts[j].type # "text"

ResponseToEvents(r) ==
  LET deltas(i) ==
        IF FirstText(r.parts, i) THEN ReplayOfPart(r.parts[i], i - 1, r.scores, r.scored)
        ELSE ReplayOfPart(r.parts[i], i - 1, <<>>, TRUE)
  IN <<Start(r.model)>> \o FlattenSeq([i \in DOMAIN r.parts |-> deltas(i)])
     \o <<End(r.finish, r.usage, r.data)>>

(* What can be replayed: a tool call whose arguments are an object, and no *)
(* scores without a text to carry them.                                    *)
Replayable(r) ==
  /\ \A part \in ToSet(r.parts) :
       /\ part.type # "refusal"
       /\ part.type = "tool_call" => "object" \in DOMAIN part.content.input
  /\ r.scored \/ \E part \in ToSet(r.parts) : part.type = "text"
=============================================================================
