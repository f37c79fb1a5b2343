------------------------------- MODULE Usage -------------------------------
(***************************************************************************)
(* Token usage (src/types/response.ts, src/dialects): each provider counts *)
(* in its own way; the canonical counters mean the same on every one, and  *)
(* what a provider's numbers do not determine is withheld.                 *)
(***************************************************************************)
EXTENDS Naturals

CONSTANT Null  \* not reported

ASSUME NullAssumption == Null \notin Nat

Count == Nat \cup {Null}
Counters == [input : Count, output : Count, total : Count, cacheRead : Count,
             cacheWrite : Count, reasoning : Count, inputAudio : Count,
             outputAudio : Count]

Or0(count) == IF count = Null THEN 0 ELSE count

(* A sum, unknown when one of its terms is. *)
WireSum(a, b, c) == IF Null \in {a, b, c} THEN Null ELSE a + b + c

(* What a whole includes is no more than the whole, and a total is a sum. *)
InputConsistent(u) ==
  u.input # Null =>
    /\ Or0(u.cacheRead) + Or0(u.cacheWrite) <= u.input
    /\ Or0(u.inputAudio) <= u.input

OutputConsistent(u) ==
  u.output # Null => Or0(u.reasoning) <= u.output /\ Or0(u.outputAudio) <= u.output

TotalConsistent(u) ==
  Null \notin {u.input, u.output, u.total} => u.total = u.input + u.output

Consistent(u) == InputConsistent(u) /\ OutputConsistent(u) /\ TotalConsistent(u)

(* A Usage with a total where its parts give one. *)
WithTotal(u) ==
  IF u.total = Null /\ Null \notin {u.input, u.output}
  THEN [u EXCEPT !.total = u.input + u.output] ELSE u

(* A part larger than its whole withholds the whole; a total that is not   *)
(* the sum of the others withholds both.                                   *)
SettleUsage(u) ==
  LET parts == [u EXCEPT !.input = IF InputConsistent(u) THEN @ ELSE Null,
                         !.output = IF OutputConsistent(u) THEN @ ELSE Null]
  IN WithTotal(IF TotalConsistent(parts) THEN parts
               ELSE [parts EXCEPT !.input = Null, !.output = Null])

Unreported == [counter \in {"input", "output", "total", "cacheRead", "cacheWrite",
                            "reasoning", "inputAudio", "outputAudio"} |-> Null]

(* Anthropic counts cached tokens beside its input. *)
UsageFromAnthropic(w) ==
  SettleUsage([Unreported EXCEPT
    !.input = WireSum(w.input, w.cacheRead, w.cacheWrite), !.output = w.output,
    !.total = w.total, !.cacheRead = w.cacheRead, !.cacheWrite = w.cacheWrite,
    !.reasoning = w.reasoning])

(* The Responses wire counts as the canonical counters do. *)
UsageFromResponses(w) == SettleUsage(w)

(* Chat: a server may count reasoning beside its completion tokens; then   *)
(* the output is known when both are, or when the total leaves no more.    *)
UsageFromChat(w, separate) ==
  LET plain == w.total # Null /\ w.input # Null /\ w.total = w.input + w.output
      output == IF ~separate \/ w.output = Null THEN w.output
                ELSE IF w.reasoning # Null THEN w.output + w.reasoning
                ELSE IF plain THEN w.output ELSE Null
  IN SettleUsage([w EXCEPT !.output = output])

(* What a Gemini server counts. *)
Metadata == [prompt : Count, toolUse : Count, answer : Count, thoughts : Count,
             total : Count, cached : Count, inputAudio : Count, outputAudio : Count]

(* Gemini counts tool use beside the prompt and thoughts beside the        *)
(* answer, and an absent counter is a zero.                                *)
GeminiUsage(w) ==
  SettleUsage([Unreported EXCEPT
    !.input = Or0(w.prompt) + Or0(w.toolUse),
    !.output = Or0(w.answer) + Or0(w.thoughts),
    !.total = w.total, !.cacheRead = Or0(w.cached), !.reasoning = Or0(w.thoughts),
    !.inputAudio = w.inputAudio, !.outputAudio = w.outputAudio])
=============================================================================
