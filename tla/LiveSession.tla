---------------------------- MODULE LiveSession ----------------------------
(***************************************************************************)
(* A live session (src/live.ts): the socket's callbacks push events into a *)
(* queue or to the readers that wait; views collect them, a turn each,     *)
(* within their limits; opening and closing race the socket, their timers  *)
(* and the caller's signal.                                                *)
(***************************************************************************)
EXTENDS LiveCodec, FiniteSets

CONSTANTS
  Views,         \* turn views, each of one turn
  MaxEvents, MaxBytes,     \* what a view may collect
  ServerFrames,  \* dialect -> the frames a server may send, asked or not
  EndFrames,     \* dialect -> those that end an answer
  ClientEvents,
  MaxFrames, MaxSends      \* bounds of what is sent, unasked and by the client

ASSUME LimitsAssumption == MaxEvents \in Nat \ {0} /\ MaxBytes \in Nat \ {0}
ASSUME BoundsAssumption == MaxFrames \in Nat /\ MaxSends \in Nat
ASSUME ReadersAssumption == "raw" \notin Views
ASSUME FailuresAssumption == Null \notin {"max_bytes", "max_events", "session"}
ASSUME FramesAssumption ==   \* what is listed in a Gemini frame is a list
  \A d \in Dialects \ {"openai"} : \A f \in ServerFrames[d] \cup EndFrames[d] :
    /\ f.type = "toolCall" => f.calls \in Nat
    /\ f.type = "content" => f.parts \in Seq(Range(f.parts))
ASSUME UsageAssumption ==   \* a usage is one, or is not there
  /\ Null \notin Counters
  /\ \A d \in Dialects : \A f \in ServerFrames[d] \cup EndFrames[d] :
       /\ d = "openai" /\ f.type = "done" => f.usage \in Counters \cup {Null}
       /\ d # "openai" /\ f.type = "content" => f.usage \in Metadata \cup {Null}

VARIABLES
  dialect,
  opening,   \* "resolving", "connecting", "settled", "open", "failed"
  socket,    \* "none", "connecting", "open", "closing", "closed"
  aborted,   \* the caller's signal
  closed, failed,   \* of the session; failed: it has a failure
  closing,   \* close(): "none", "pending", "resolved", "rejected"
  queue,     \* events nobody has read
  waiters,   \* readers that wait, in order
  view,      \* the views
  raw,       \* the reader of the session itself
  heard,     \* the frames that were decoded (a history, with the count of
  accepted,  \*   the events that were accepted: each event carries both)
  owes,      \* the server has been asked, and has not ended its answer
  sends      \* events sent

session == <<closed, failed, closing, queue, waiters>>
server == <<heard, accepted, owes>>
readers == <<view, raw>>
vars == <<dialect, opening, socket, aborted, session, readers, server, sends>>

Reader == Views \cup {"raw"}

View == [events |-> <<>>, done |-> FALSE, reading |-> "none", failure |-> Null,
         rejected |-> <<>>, result |-> "none", sealed |-> 0]

Init ==
  /\ dialect \in Dialects /\ opening = "resolving" /\ socket = "none" /\ aborted = FALSE
  /\ closed = FALSE /\ failed = FALSE /\ closing = "none"
  /\ queue = <<>> /\ waiters = <<>>
  /\ view = [v \in Views |-> View]
  /\ raw = [reading |-> FALSE, events |-> <<>>, ended |-> FALSE]
  /\ heard = <<>> /\ accepted = 0 /\ owes = FALSE /\ sends = 0

-----------------------------------------------------------------------------
(* What a reader does with what it is given. *)
Bytes(events) == FoldLeft(LAMBDA n, e : n + LiveEventSize(e), 0, events)

(* A view keeps what fits, and shows what does not. *)
Fits(c, e) == Bytes(c.events) + LiveEventSize(e) <= MaxBytes

Collected(c, e) ==
  IF Fits(c, e)
  THEN [c EXCEPT !.reading = "none", !.events = Append(@, e),
                 !.done = e.type \in TurnTerminal]
  ELSE [c EXCEPT !.reading = "none", !.done = TRUE, !.failure = "max_bytes",
                 !.rejected = <<e>>]

(* The session ended first. *)
Stopped(c) == [c EXCEPT !.reading = "none", !.failure = "session"]

TakenRaw(e) == [raw EXCEPT !.reading = FALSE, !.events = Append(@, e)]
EndedRaw == [raw EXCEPT !.reading = FALSE, !.ended = TRUE]

(* Each waiter is given the next event; those that are left, if the        *)
(* session ends, are told so.                                              *)
Give(events, ends) ==
  LET Turn(r) == CHOOSE i \in DOMAIN waiters : waiters[i] = r
      Waits(r) == \E i \in DOMAIN waiters : waiters[i] = r
      Gets(r) == Waits(r) /\ Turn(r) <= Len(events)
  IN /\ view' = [v \in Views |-> IF Gets(v) THEN Collected(view[v], events[Turn(v)])
                                 ELSE IF Waits(v) /\ ends THEN Stopped(view[v]) ELSE view[v]]
     /\ raw' = IF Gets("raw") THEN TakenRaw(events[Turn("raw")])
               ELSE IF Waits("raw") /\ ends THEN EndedRaw ELSE raw
     /\ waiters' = IF ends THEN <<>> ELSE SubSeq(waiters, Len(events) + 1, Len(waiters))
     /\ queue' = queue \o SubSeq(events, Len(waiters) + 1, Len(events))

(* push and finish, of what one callback says: the events it accepts, then *)
(* the end of the session, if it ends it.                                  *)
Proceed(events, ends, error) ==
  IF closed THEN UNCHANGED <<session, readers>>
  ELSE /\ Give(events, ends)
       /\ closed' = ends /\ failed' = (ends /\ error)
       /\ closing' = IF ends /\ closing = "pending"
                     THEN IF error THEN "rejected" ELSE "resolved" ELSE closing

Finish(error) == Proceed(<<>>, TRUE, error)

CloseSocket == socket' = IF socket \in {"connecting", "open"} THEN "closing" ELSE socket
Fail == Finish(TRUE) /\ CloseSocket

-----------------------------------------------------------------------------
(* LiveSession.open. *)
OpenFails == opening' = "failed" /\ Fail

(* The URL and the headers: no credential, or none a platform can carry. *)
Connect ==
  /\ opening = "resolving"
  /\ opening' = "connecting" /\ socket' = "connecting"
  /\ UNCHANGED <<dialect, aborted, session, readers, server, sends>>

NoConnection ==
  /\ opening = "resolving"
  /\ opening' = "failed"
  /\ UNCHANGED <<dialect, socket, aborted, session, readers, server, sends>>

(* The setup is sent; Gemini answers it. *)
SocketOpens ==
  /\ socket = "connecting"
  /\ \/ /\ opening = "connecting"
        /\ opening' = IF dialect = "openai" THEN "settled" ELSE opening
        /\ socket' = "open" /\ UNCHANGED <<session, readers>>
     \/ OpenFails    \* sending it fails
  /\ UNCHANGED <<dialect, aborted, server, sends>>

(* The deadline is armed until open() answers. *)
OpenTimeout ==
  /\ \/ opening = "connecting" /\ OpenFails
     \/ opening = "resolving" /\ opening' = "failed" /\ UNCHANGED <<socket, session, readers>>
  /\ UNCHANGED <<dialect, aborted, server, sends>>

OpenAnswers ==
  /\ opening = "settled"
  /\ IF aborted THEN OpenFails
     ELSE opening' = "open" /\ UNCHANGED <<socket, session, readers>>
  /\ UNCHANGED <<dialect, aborted, server, sends>>

(* The caller's signal: of open(), and of the session it made. *)
Abort ==
  /\ ~aborted /\ aborted' = TRUE
  /\ \/ opening = "resolving" /\ opening' = "failed" /\ UNCHANGED <<socket, session, readers>>
     \/ opening = "connecting" /\ OpenFails
     \/ /\ opening \in {"settled", "open"} /\ UNCHANGED opening
        /\ IF closed THEN UNCHANGED <<socket, session, readers>> ELSE Fail
  /\ UNCHANGED <<dialect, server, sends>>

-----------------------------------------------------------------------------
(* The socket's callbacks; a closing socket still delivers. *)
Listening == socket \in {"open", "closing"} /\ opening \in {"connecting", "settled", "open"}

Numbered(events) ==
  [i \in DOMAIN events |->
     [n |-> accepted + i, frame |-> Len(heard) + 1, type |-> events[i].type,
      content |-> events[i].content, usage |-> events[i].usage]]

(* The events of a frame, up to one that is refused, which ends the        *)
(* session; the readers of a frame run when it has been decoded.           *)
Message(f) ==
  LET events == Decode(dialect, f)
      refused == {i \in DOMAIN events : ~ValidServerEvent(events[i])}
      good == IF refused = {} THEN events ELSE SubSeq(events, 1, Min(refused) - 1)
      status == IF dialect = "openai" THEN "waiting" ELSE LiveSetupStatus(f)
      ends == refused # {} \/ (opening = "connecting" /\ status = "refused")
  IN /\ Listening /\ ~closed
     /\ Proceed(Numbered(good), ends, TRUE)
     /\ IF ends THEN CloseSocket ELSE UNCHANGED socket
     /\ opening' = IF opening # "connecting" THEN opening
                   ELSE IF ends THEN "failed"
                   ELSE IF status = "complete" THEN "settled" ELSE opening
     /\ heard' = Append(heard, f) /\ accepted' = accepted + Len(good)
     /\ owes' = (owes /\ ~\E i \in DOMAIN events : events[i].type \in TurnTerminal \cup {"tool_call"})
     /\ UNCHANGED <<dialect, aborted, sends>>

(* A server says what it likes; asked, it ends its answer, or calls a tool *)
(* and waits for the result.                                               *)
ServerSpeaks ==
  /\ Len(heard) < MaxFrames
  /\ \E f \in ServerFrames[dialect] :
       Message(f) /\ (f.type = "setupComplete" => opening = "connecting")

ServerEnds == owes /\ opening = "open" /\ \E f \in EndFrames[dialect] : Message(f)

SocketCloses ==
  /\ socket \in {"connecting", "open", "closing"}
  /\ socket' = "closed"
  /\ \E abnormal \in BOOLEAN : Finish(abnormal)
  /\ opening' = IF opening = "connecting" THEN "failed" ELSE opening
  /\ UNCHANGED <<dialect, aborted, server, sends>>

SocketErrs ==
  /\ socket \in {"connecting", "open", "closing"} /\ ~closed
  /\ IF opening = "connecting" THEN OpenFails ELSE Fail /\ UNCHANGED opening
  /\ UNCHANGED <<dialect, aborted, server, sends>>

-----------------------------------------------------------------------------
(* send: what cannot be encoded is refused, a socket that throws ends the  *)
(* session.                                                                *)
Asks(frames) ==
  \E i \in DOMAIN frames : frames[i].asks

Send(e) ==
  /\ opening = "open" /\ sends < MaxSends /\ sends' = sends + 1
  /\ ~closed /\ closing = "none"
  /\ ValidClientEvent(e) /\ Encode(dialect, e) # Null
  /\ \/ /\ socket = "open" /\ owes' = (owes \/ Asks(Encode(dialect, e)))
        /\ UNCHANGED <<socket, session, readers>>
     \/ Fail /\ UNCHANGED owes
  /\ UNCHANGED <<dialect, opening, aborted, heard, accepted>>

(* close(): the same promise again, nothing to do, or a close to wait for. *)
Close ==
  /\ opening = "open" /\ closing = "none"
  /\ \/ closed /\ closing' = "resolved" /\ UNCHANGED <<socket, closed, failed, queue, waiters, readers>>
     \/ /\ ~closed /\ closing' = "pending" /\ CloseSocket
        /\ UNCHANGED <<closed, failed, queue, waiters, readers>>
     \/ /\ ~closed /\ Give(<<>>, TRUE) /\ closing' = "rejected"   \* the socket throws
        /\ closed' = TRUE /\ failed' = TRUE /\ UNCHANGED socket
  /\ UNCHANGED <<dialect, opening, aborted, server, sends>>

CloseTimeout ==
  /\ closing = "pending" /\ Finish(TRUE)
  /\ UNCHANGED <<dialect, opening, socket, aborted, server, sends>>

-----------------------------------------------------------------------------
(* recv(): what is queued, the end, or a place among the waiters. *)
ReadRaw ==
  /\ opening = "open" /\ ~raw.reading /\ ~raw.ended
  /\ \/ queue # <<>> /\ raw' = TakenRaw(Head(queue)) /\ queue' = Tail(queue) /\ UNCHANGED waiters
     \/ queue = <<>> /\ closed /\ raw' = EndedRaw /\ UNCHANGED <<queue, waiters>>
     \/ /\ queue = <<>> /\ ~closed /\ raw' = [raw EXCEPT !.reading = TRUE]
        /\ waiters' = Append(waiters, "raw") /\ UNCHANGED queue
  /\ UNCHANGED <<dialect, opening, socket, aborted, closed, failed, closing, view, server, sends>>

(* TurnView.next, past its refusals. *)
Full(c) == Len(c.events) >= MaxEvents

(* The count is looked at when an event has been taken. *)
TakeThenCount(v, c, who) ==
  IF Full(c) /\ queue # <<>>
  THEN /\ view' = [view EXCEPT ![v] = [c EXCEPT !.done = TRUE, !.failure = "max_events"]]
       /\ queue' = Tail(queue) /\ UNCHANGED <<waiters, raw>>
  ELSE \/ queue # <<>> /\ view' = [view EXCEPT ![v] = Collected(c, Head(queue))]
          /\ queue' = Tail(queue) /\ UNCHANGED <<waiters, raw>>
       \/ queue = <<>> /\ closed /\ view' = [view EXCEPT ![v] = Stopped(c)]
          /\ UNCHANGED <<queue, waiters, raw>>
       \/ queue = <<>> /\ ~closed /\ view' = [view EXCEPT ![v] = [c EXCEPT !.reading = who]]
          /\ waiters' = Append(waiters, v) /\ UNCHANGED <<queue, raw>>

Take(v, c, who) ==
  /\ IF Full(c)
     THEN /\ view' = [view EXCEPT ![v] = [c EXCEPT !.done = TRUE, !.failure = "max_events"]]
          /\ UNCHANGED <<queue, waiters>>
     ELSE \/ queue # <<>> /\ view' = [view EXCEPT ![v] = Collected(c, Head(queue))]
             /\ queue' = Tail(queue) /\ UNCHANGED waiters
          \/ queue = <<>> /\ closed /\ view' = [view EXCEPT ![v] = Stopped(c)]
             /\ UNCHANGED <<queue, waiters>>
          \/ queue = <<>> /\ ~closed /\ view' = [view EXCEPT ![v] = [c EXCEPT !.reading = who]]
             /\ waiters' = Append(waiters, v) /\ UNCHANGED queue
  /\ UNCHANGED raw

Ready(c) == c.reading = "none" /\ c.failure = Null /\ ~c.done

Reads == UNCHANGED <<dialect, opening, socket, aborted, closed, failed, closing, server, sends>>

(* One event of an iteration. *)
Iterate(v) ==
  /\ opening = "open" /\ Ready(view[v]) /\ view[v].result = "none"
  /\ Take(v, view[v], "iterator") /\ Reads

(* result(): it reads until the turn ends, or at a tool call, which only   *)
(* the application can answer; a second reader of a view is refused.       *)
ReadsPastToolCalls(c) == FALSE

AtToolCall(c) == LastType(c.events) = "tool_call"

Settle(c) ==
  IF c.failure # Null \/ MaterializeTurn(c.events).endedBy = "incomplete"
  THEN [c EXCEPT !.result = "threw"]
  ELSE [c EXCEPT !.result = "returned", !.done = TRUE, !.sealed = Len(c.events)]

ResultStep(v, c) ==
  \/ /\ AtToolCall(c) \/ (c.reading = "none" /\ (c.done \/ c.failure # Null))
     /\ view' = [view EXCEPT ![v] = Settle(c)] /\ UNCHANGED <<queue, waiters, raw>>
  \/ /\ ~AtToolCall(c) /\ c.reading = "iterator"
     /\ view' = [view EXCEPT ![v].result = "threw"] /\ UNCHANGED <<queue, waiters, raw>>
  \/ ~AtToolCall(c) /\ Ready(c) /\ Take(v, c, "result")

Result(v) ==
  /\ opening = "open" /\ view[v].result \in {"none", "threw"} /\ view[v].failure = Null
  /\ ResultStep(v, [view[v] EXCEPT !.result = "looping"]) /\ Reads

ResultGoesOn(v) ==
  /\ view[v].result = "looping" /\ view[v].reading # "result"
  /\ ResultStep(v, view[v]) /\ Reads

(* TurnView.close: the session stays open. *)
CloseView(v) ==
  /\ opening = "open" /\ view[v].reading = "none" /\ ~view[v].done
  /\ view' = [view EXCEPT ![v].done = TRUE]
  /\ UNCHANGED <<dialect, opening, socket, aborted, session, raw, server, sends>>

-----------------------------------------------------------------------------
Opening == Connect \/ NoConnection \/ SocketOpens \/ OpenTimeout \/ OpenAnswers
Socket == ServerSpeaks \/ ServerEnds \/ SocketCloses \/ SocketErrs
Reading == \E v \in Views : Iterate(v) \/ Result(v) \/ ResultGoesOn(v) \/ CloseView(v)
Caller == Abort \/ Close \/ ReadRaw \/ \E e \in ClientEvents : Send(e)

Next == Opening \/ Socket \/ Reading \/ Caller \/ CloseTimeout

(* Timers fire and continuations run; a server that was asked, and is not  *)
(* waiting for a tool's result, ends its answer.                           *)
Fairness ==
  /\ WF_vars(OpenTimeout) /\ WF_vars(OpenAnswers) /\ WF_vars(CloseTimeout)
  /\ WF_vars(ServerEnds)
  /\ \A v \in Views : WF_vars(ResultGoesOn(v))

Spec == Init /\ [][Next]_vars /\ Fairness

-----------------------------------------------------------------------------
Nums(events) == {events[i].n : i \in DOMAIN events}
Increasing(events) == \A i, j \in DOMAIN events : i < j => events[i].n < events[j].n

Seen(r) == IF r = "raw" THEN raw.events ELSE view[r].events \o view[r].rejected
Over(r) == IF r = "raw" THEN raw.ended ELSE view[r].failure = "session"

(* Every event that was accepted is in the queue or with one reader, which *)
(* saw its events in their order; a view that overflows shows the one that *)
(* did not fit, a reader is told of the end when nothing is left, and      *)
(* nobody waits for a session that is over (live.ts:165-181, 216-221,      *)
(* 435-459; "the next turn() picks up where this one stopped").            *)
EventsAreKept ==
  /\ Nums(queue) \cup UNION {Nums(Seen(r)) : r \in Reader} = 1..accepted
  /\ Increasing(queue)
  /\ \A r \in Reader :
       /\ Increasing(Seen(r)) /\ Nums(Seen(r)) \cap Nums(queue) = {}
       /\ \A s \in Reader \ {r} : Nums(Seen(r)) \cap Nums(Seen(s)) = {}
  /\ (\E r \in Reader : Over(r)) => queue = <<>>
  /\ closed => waiters = <<>> /\ closing # "pending"
  /\ waiters # <<>> => queue = <<>>

(* The counters a frame says were spent; Gemini's are not read but with    *)
(* content (gemini.ts:878).                                                *)
Spent(d, f) ==
  IF d = "openai"
  THEN IF f.type # "done" THEN {} ELSE IF f.usage # Null THEN {UsageFromResponses(f.usage)}
       ELSE IF f.status = "cancelled" \/ f.called THEN {} ELSE {Unreported}
  ELSE IF f.type # "content" THEN {} ELSE IF f.usage # Null THEN {GeminiUsage(f.usage)}
       ELSE IF f.complete THEN {Unreported} ELSE {}

(* A frame the session refuses a part of, which ends it.                   *)
Cut(d, f) == \E i \in DOMAIN Decode(d, f) : ~ValidServerEvent(Decode(d, f)[i])

(* A turn's bill is what its frames spent, and unknown where one of them   *)
(* does not say ("a counter absent on either side stays absent"), unless a *)
(* frame was cut or its events went to several readers (live.ts:288-337).  *)
TurnBillIsItsFrames ==
  \A v \in Views :
    LET events == view[v].events
        frames == {events[i].frame : i \in DOMAIN events}
        whole == \A r \in Reader \ {v} : \A i \in DOMAIN Seen(r) : Seen(r)[i].frame \notin frames
        pending == \E i \in DOMAIN queue : queue[i].frame \in frames
        bills == {k \in frames : Spent(dialect, heard[k]) # {}}
        usage == MaterializeTurn(events).usage
        Bill(k) == CHOOSE u \in Spent(dialect, heard[k]) : TRUE
    IN whole /\ ~pending /\ view[v].rejected = <<>> /\ ~(\E k \in frames : Cut(dialect, heard[k])) =>
         IF bills = {} THEN usage = Null
         ELSE \A c \in {"input", "output", "reasoning"} :
                usage[c] = IF \E k \in bills : Bill(k)[c] = Null THEN Null
                           ELSE MapThenSumSet(LAMBDA k : Bill(k)[c], bills)

(* Only this view reads. *)
Alone(v) == \A r \in Reader \ {v} : Seen(r) = <<>> /\ (r = "raw" => ~raw.reading)
                                   /\ (r # "raw" => view[r].reading = "none")

(* open() and close() answer, and result() of the only reader does when    *)
(* the server was asked and does not wait for a tool's result ("instead of *)
(* deadlocking against a model that is waiting"; live.ts:103-131, 235-242, *)
(* 469-483).                                                               *)
EveryCallSettles ==
  /\ (opening \in {"resolving", "connecting", "settled"} ~> opening \in {"open", "failed"})
  /\ (closing = "pending" ~> closing # "pending")
  /\ \A v \in Views :
       (view[v].result = "looping" /\ (owes \/ LastType(view[v].events) = "tool_call")
          /\ Alone(v))
         ~> (view[v].result # "looping" \/ ~Alone(v))
=============================================================================
