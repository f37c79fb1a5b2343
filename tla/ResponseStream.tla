--------------------------- MODULE ResponseStream ---------------------------
(***************************************************************************)
(* ResponseStream (src/stream.ts): it pulls one source of events, for one  *)
(* reader at a time, assembles a Response of what it read, and answers     *)
(* response() with it.  A source is any async iterable; the streams of an  *)
(* adapter are composed with the transport in StreamSession.               *)
(*                                                                         *)
(* reader says where the generator of events() is:                         *)
(*   none      no generator has started and not finished                   *)
(*   pulling   awaits source.next()                                        *)
(*   paused    at its yield, the consumer holds the event                  *)
(*   closing   awaits source.return(), done being set                      *)
(***************************************************************************)
EXTENDS Naturals

CONSTANTS
  Streams,
  MaxDeltas,  \* bound: the deltas a source emits
  Null        \* no Response yet

VARIABLE stream  \* for each stream, its fields

Fresh ==
  [reader  |-> "none",
   drains  |-> FALSE,   \* the reader is response()'s own
   done    |-> FALSE,
   failure |-> "none",
   got     |-> 0,       \* what the accumulator was given
   result  |-> Null,    \* the Response, as what it was assembled of
   source  |-> "live",  \* or "over": ended, threw, or was returned
   closing |-> FALSE,   \* close() awaits source.return()
   answers |-> {}]      \* history: how calls of response() settled

Init == stream = [s \in Streams |-> Fresh]

Pulling(s) == stream[s].reader = "pulling"
Complete(s) == stream[s].result # Null

(* The generator yields an event; response() asks for the next at once. *)
AfterYield(s) == IF stream[s].drains THEN "pulling" ELSE "paused"

\* Mutant: throws without closing the source.
FailLeavingSource(s, why) ==
  stream' = [stream EXCEPT ![s].failure = why, ![s].done = TRUE,
                           ![s].reader = "none"]

(* A failure ends the stream, and the source is closed before it is thrown. *)
Fail(s, why) ==
  stream' = [stream EXCEPT ![s].failure = why, ![s].done = TRUE,
                           ![s].reader = "closing"]

(* A consumer starts to read; with another reading it is refused, and the  *)
(* end or the failure of the stream is all it gets.                        *)
Events(s) ==
  /\ stream[s].reader = "none" /\ ~stream[s].done
  /\ stream' = [stream EXCEPT ![s].reader = "pulling", ![s].drains = FALSE]

\* Mutant: does not look for what follows the end event.
AfterEndNever(s) == FALSE

AfterEnd(s) == Complete(s)

(* The source emits an event: nothing may follow the end event. *)
Deliver(s, event) ==
  /\ Pulling(s)
  /\ \/ /\ AfterEnd(s)
        /\ Fail(s, "defect")
     \/ /\ ~AfterEnd(s) /\ event = "error"
        /\ Fail(s, "source")
     \/ /\ ~AfterEnd(s) /\ event = "delta" /\ stream[s].got < MaxDeltas
        /\ stream' = [stream EXCEPT ![s].got = @ + 1, ![s].reader = AfterYield(s)]
     \/ /\ ~AfterEnd(s) /\ event = "end"
        /\ stream' = [stream EXCEPT ![s].result = stream[s].got,
                                    ![s].reader = AfterYield(s)]

(* The source is exhausted, or, past the end event, threw: the stream is   *)
(* done.                                                                   *)
Exhaust(s) ==
  /\ Pulling(s)
  /\ IF Complete(s)
     THEN stream' = [stream EXCEPT ![s].done = TRUE, ![s].reader = "closing",
                                   ![s].source = "over"]
     ELSE stream' = [stream EXCEPT ![s].failure = "incomplete", ![s].done = TRUE,
                                   ![s].reader = "closing", ![s].source = "over"]

Throw(s) ==
  /\ Pulling(s)
  /\ IF Complete(s)
     THEN stream' = [stream EXCEPT ![s].done = TRUE, ![s].reader = "closing",
                                   ![s].source = "over"]
     ELSE stream' = [stream EXCEPT ![s].failure = "source", ![s].done = TRUE,
                                   ![s].reader = "closing", ![s].source = "over"]

(* source.return() has settled for the reader, which finishes or throws,   *)
(* and with it the response() that was draining.                           *)
SourceReturned(s) ==
  /\ stream[s].reader = "closing"
  /\ stream' = [stream EXCEPT
       ![s].reader = "none", ![s].source = "over", ![s].drains = FALSE,
       ![s].answers = IF ~stream[s].drains THEN @
                      ELSE IF stream[s].failure = "none" THEN @ \cup {"resolved"}
                      ELSE @ \cup {"rejected"}]

(* The consumer asks for another event, or leaves its loop. *)
Advance(s) ==
  /\ stream[s].reader = "paused"
  /\ stream' = [stream EXCEPT ![s].reader = "pulling"]

Break(s) ==
  /\ stream[s].reader = "paused"
  /\ stream' = [stream EXCEPT ![s].reader = "none"]

(* response(): the answer when there is one, or the rest of the source. *)
Response(s) ==
  \/ /\ stream[s].failure # "none" \/ (stream[s].done /\ ~Complete(s))
     /\ stream' = [stream EXCEPT ![s].answers = @ \cup {"rejected"}]
  \/ /\ stream[s].failure = "none" /\ stream[s].done /\ Complete(s)
     /\ stream' = [stream EXCEPT ![s].answers = @ \cup {"resolved"}]
  \/ /\ ~stream[s].done /\ stream[s].reader = "none"
     /\ stream' = [stream EXCEPT ![s].reader = "pulling", ![s].drains = TRUE]

\* Mutant: closes what is done already.
ClosesDone(s) == stream[s].reader = "none"

(* close(): refused while a reader is active, nothing once done. *)
Closes(s) == stream[s].reader = "none" /\ ~stream[s].done

Close(s) ==
  /\ Closes(s)
  /\ stream' = [stream EXCEPT ![s].done = TRUE, ![s].failure = "closed",
                              ![s].closing = TRUE]

CloseReturned(s) ==
  /\ stream[s].closing
  /\ stream' = [stream EXCEPT ![s].closing = FALSE, ![s].source = "over"]

(* What the caller does, and what its source does. *)
Call(s) == Events(s) \/ Advance(s) \/ Break(s) \/ Response(s) \/ Close(s)

Emit(s) ==
  \/ \E event \in {"delta", "end", "error"} : Deliver(s, event)
  \/ Exhaust(s) \/ Throw(s)
  \/ SourceReturned(s) \/ CloseReturned(s)

Next == \E s \in Streams : Call(s) \/ Emit(s)

Spec == Init /\ [][Next]_stream

-----------------------------------------------------------------------------
TypeOK ==
  stream \in [Streams ->
    [reader : {"none", "pulling", "paused", "closing"},
     drains : BOOLEAN, done : BOOLEAN, closing : BOOLEAN,
     failure : {"none", "incomplete", "source", "defect", "closed"},
     got : 0..MaxDeltas, result : (0..MaxDeltas) \cup {Null},
     source : {"live", "over"},
     answers : SUBSET {"resolved", "rejected"}]]

(* A stream that is done, and whose reader and close have returned, has    *)
(* finalized its source (docs/runtime-correctness.md, Stream ownership).   *)
Settled(s) ==
  stream[s].done /\ stream[s].reader = "none" /\ ~stream[s].closing

SourceFinalized ==
  \A s \in Streams : Settled(s) => stream[s].source = "over"

(* response() gives one answer however often, and by whomever, it is asked *)
(* and never a Response the end event did not complete (stream.ts:593-603).*)
OneAnswer ==
  \A s \in Streams :
    /\ stream[s].answers # {"resolved", "rejected"}
    /\ "resolved" \in stream[s].answers =>
         Complete(s) /\ stream[s].failure = "none"

(* The Response is that of everything read, and no later event, read or    *)
(* call changes it (MAP-3, stream.ts:618-625).                             *)
ResultFinal ==
  [][\A s \in Streams : Complete(s) =>
       /\ stream'[s].result = stream[s].result
       /\ stream'[s].got = stream[s].got]_stream

(* "Once the end event has been yielded the Response is complete and is    *)
(* never withheld: a source failure after it is a warning, not a throw"    *)
(* (stream.ts:539-540): no call of response() rejects then, but for an     *)
(* event after the end event, which the sentence before allows.            *)
NeverWithheld ==
  \A s \in Streams :
    "rejected" \in stream[s].answers /\ Complete(s) =>
      stream[s].failure = "defect"
=============================================================================
