------------------------ MODULE StreamSessionProofs ------------------------
(***************************************************************************)
(* Proofs about StreamSession: composed, the streams and the transport are *)
(* still a ResponseStream and a Transport each.                            *)
(***************************************************************************)
EXTENDS StreamSession, TLAPS

LEMMA TransportSteps ==
  ASSUME Next
  PROVE  [T!Next]_transport
<1>1. ASSUME NEW s \in Streams, Stream(s) PROVE T!Next \/ UNCHANGED transport
  <2>1. s \in Requests
    BY StreamsAssumption
  <2>2. ReturnSource(s) => T!Next \/ UNCHANGED transport
    BY <2>1 DEF ReturnSource, T!Next, T!Request
  <2>3. Carry(s) => T!Next
    BY <2>1 DEF Carry, T!Next, T!Request
  <2> QED
    BY <1>1, <2>2, <2>3 DEF Stream, Source, Deliver, Exhaust, Throw, Returned
<1>2. ASSUME NEW r \in Requests \ Streams, Plain(r) PROVE T!Next
  BY <1>2 DEF Plain, T!Next
<1>3. CloseTransport \/ IdleCloses => T!Next
  BY DEF CloseTransport, IdleCloses, T!Next
<1> QED
  BY <1>1, <1>2, <1>3 DEF Next

LEMMA StreamSteps ==
  ASSUME Next
  PROVE  [R!Next]_stream
<1>1. ASSUME NEW s \in Streams, Stream(s) PROVE R!Next \/ UNCHANGED stream
  <2>1. Source(s) \/ Returned(s) => R!Emit(s)
    BY DEF Source, Deliver, Exhaust, Throw, Returned, R!Emit
  <2>2. Carry(s) => UNCHANGED stream
    BY DEF Carry
  <2> QED
    BY <1>1, <2>1, <2>2 DEF Stream, R!Next
<1>2. ASSUME NEW r \in Requests \ Streams, Plain(r) PROVE UNCHANGED stream
  BY <1>2 DEF Plain
<1>3. CloseTransport \/ IdleCloses => UNCHANGED stream
  BY DEF CloseTransport, IdleCloses
<1> QED
  BY <1>1, <1>2, <1>3 DEF Next

(* An adapter's stream is a ResponseStream: what it promises of any source *)
(* of events it promises of one over a transport (adapter.ts:537-590).     *)
THEOREM SessionStreams == Spec => R!Spec
<1>1. Init => R!Init
  BY DEF Init
<1>2. [Next]_vars => [R!Next]_stream
  BY StreamSteps DEF vars
<1> QED
  BY <1>1, <1>2, PTL DEF Spec, R!Spec

(* The streams and whoever closes them only take steps of the transport:   *)
(* pulls, and bodies they abandon (adapter.ts:551-590).                    *)
THEOREM SessionTransports == Spec => T!Init /\ [][T!Next]_transport
<1>1. Init => T!Init
  BY DEF Init
<1>2. [Next]_vars => [T!Next]_transport
  BY TransportSteps DEF vars
<1> QED
  BY <1>1, <1>2, PTL DEF Spec

-----------------------------------------------------------------------------
(* The streams. *)

USE DeltasAssumption

(* What is done has no reader that could change its outcome, an answer was *)
(* given of what is done, and what is done and at rest closed its source.  *)
AnswerInv(s) ==
  /\ stream[s].done => stream[s].reader \in {"none", "closing"}
  /\ stream[s].reader = "closing" => stream[s].done
  /\ stream[s].failure # "none" => stream[s].done
  /\ stream[s].done => stream[s].failure # "none" \/ R!Complete(s)
  /\ stream[s].answers # {} => stream[s].done
  /\ "resolved" \in stream[s].answers => stream[s].failure = "none"
  /\ "rejected" \in stream[s].answers => stream[s].failure # "none"
  /\ stream[s].closing => stream[s].done
  /\ R!Settled(s) => stream[s].source = "over"

StreamInv == R!TypeOK /\ \A s \in Streams : AnswerInv(s)

LEMMA StreamInvInit == R!Init => StreamInv
BY DEF R!Init, R!Fresh, StreamInv, AnswerInv, R!TypeOK, R!Complete, R!Settled

(* A step of one stream, as the record it leaves. *)
StreamRecord ==
  [reader : {"none", "pulling", "paused", "closing"},
   drains : BOOLEAN, done : BOOLEAN, closing : BOOLEAN,
   failure : {"none", "incomplete", "source", "defect", "closed"},
   got : 0..MaxDeltas, result : (0..MaxDeltas) \cup {Null},
   source : {"live", "over"},
   answers : SUBSET {"resolved", "rejected"}]

Moved(s) ==
  /\ stream' = [stream EXCEPT ![s] = stream'[s]]
  /\ stream'[s] \in StreamRecord
  /\ AnswerInv(s)'
  /\ R!Complete(s) => /\ stream'[s].result = stream[s].result
                      /\ stream'[s].got = stream[s].got

LEMMA MovedTo ==
  ASSUME StreamInv, NEW s \in Streams, NEW new \in StreamRecord,
         stream' = [stream EXCEPT ![s] = new],
         new.result = stream[s].result, new.got = stream[s].got,
         new.done => new.reader \in {"none", "closing"},
         new.reader = "closing" => new.done,
         new.failure # "none" => new.done,
         new.done => new.failure # "none" \/ R!Complete(s),
         new.answers # {} => new.done,
         "resolved" \in new.answers => new.failure = "none",
         "rejected" \in new.answers => new.failure # "none",
         new.closing => new.done,
         new.done /\ new.reader = "none" /\ ~new.closing => new.source = "over"
  PROVE  Moved(s)
<1>1. stream'[s] = new
  BY DEF StreamInv, R!TypeOK
<1>2. R!Complete(s)' = R!Complete(s)
  BY <1>1 DEF R!Complete
<1>3. AnswerInv(s)'
  BY <1>1, <1>2 DEF AnswerInv, R!Settled
<1> QED
  BY <1>1, <1>3 DEF Moved

(* The fields a step changes decide. *)
LEMMA StreamMoves ==
  ASSUME NEW s \in Streams, R!Call(s) \/ R!Emit(s), StreamInv
  PROVE  Moved(s)
<1>type. stream[s] \in StreamRecord
  BY DEF StreamInv, R!TypeOK, StreamRecord
<1>inv. AnswerInv(s)
  BY DEF StreamInv
<1> USE DEF StreamInv, AnswerInv, R!TypeOK, R!Complete, R!Settled, Moved, StreamRecord
<1>1. CASE R!Events(s)
  <2> HIDE DEF StreamInv, R!TypeOK, Moved
  <2> DEFINE new == [stream[s] EXCEPT !.reader = "pulling", !.drains = FALSE]
  <2>1. new \in StreamRecord
    BY <1>type
  <2>2. stream' = [stream EXCEPT ![s] = new] /\ stream[s].reader = "none" /\ ~stream[s].done
    BY <1>1 DEF R!Events
  <2>3. /\ new.reader = "pulling" /\ new.done = stream[s].done
        /\ new.answers = stream[s].answers /\ new.failure = stream[s].failure
        /\ new.closing = stream[s].closing
        /\ new.result = stream[s].result /\ new.got = stream[s].got
    BY <1>type
  <2>4. stream[s].answers = {} /\ ~stream[s].closing /\ stream[s].failure = "none"
    BY <2>2, <1>inv, <1>type
  <2> HIDE DEF new, StreamRecord
  <2> QED
    BY <2>1, <2>2, <2>3, <2>4, MovedTo
<1>2. CASE R!Advance(s) \/ R!Break(s)
  BY <1>2 DEF R!Advance, R!Break
<1>3. CASE R!Response(s)
  <2>1. CASE /\ stream[s].failure # "none" \/ (stream[s].done /\ ~R!Complete(s))
             /\ stream' = [stream EXCEPT ![s].answers = @ \cup {"rejected"}]
    <3>1. stream[s].done /\ stream[s].failure # "none"
      BY <2>1
    <3> DEFINE given == stream[s].answers \cup {"rejected"}
    <3>2. given \in SUBSET {"resolved", "rejected"} /\ "rejected" \in given
      OBVIOUS
    <3>3. "resolved" \notin given
      BY <3>1
    <3> HIDE DEF given
    <3> DEFINE new == [stream[s] EXCEPT !.answers = given]
    <3> HIDE DEF StreamInv, R!TypeOK, Moved
    <3>4. stream' = [stream EXCEPT ![s] = new]
      BY <2>1 DEF given
    <3>5. new \in StreamRecord
      BY <1>type, <3>2
    <3>6. /\ new.answers = given /\ new.failure = stream[s].failure
          /\ new.done = stream[s].done /\ new.reader = stream[s].reader
          /\ new.closing = stream[s].closing /\ new.source = stream[s].source
          /\ new.result = stream[s].result /\ new.got = stream[s].got
      BY <1>type
    <3> HIDE DEF new, StreamRecord
    <3> QED
      BY <1>inv, <3>1, <3>2, <3>3, <3>4, <3>5, <3>6, MovedTo
  <2>2. CASE /\ stream[s].failure = "none" /\ stream[s].done /\ R!Complete(s)
             /\ stream' = [stream EXCEPT ![s].answers = @ \cup {"resolved"}]
    <3> DEFINE given == stream[s].answers \cup {"resolved"}
    <3>2. given \in SUBSET {"resolved", "rejected"} /\ "resolved" \in given
      OBVIOUS
    <3>3. "rejected" \notin given
      BY <2>2
    <3> HIDE DEF given
    <3> DEFINE new == [stream[s] EXCEPT !.answers = given]
    <3> HIDE DEF StreamInv, R!TypeOK, Moved
    <3>4. stream' = [stream EXCEPT ![s] = new]
      BY <2>2 DEF given
    <3>5. new \in StreamRecord
      BY <1>type, <3>2
    <3>6. /\ new.answers = given /\ new.failure = stream[s].failure
          /\ new.done = stream[s].done /\ new.reader = stream[s].reader
          /\ new.closing = stream[s].closing /\ new.source = stream[s].source
          /\ new.result = stream[s].result /\ new.got = stream[s].got
      BY <1>type
    <3> HIDE DEF new, StreamRecord
    <3> QED
      BY <1>inv, <2>2, <3>2, <3>3, <3>4, <3>5, <3>6, MovedTo
  <2>3. CASE /\ ~stream[s].done /\ stream[s].reader = "none"
             /\ stream' = [stream EXCEPT ![s].reader = "pulling", ![s].drains = TRUE]
    <3> DEFINE new == [stream[s] EXCEPT !.reader = "pulling", !.drains = TRUE]
    <3> HIDE DEF StreamInv, R!TypeOK, Moved
    <3>1. new \in StreamRecord
      BY <1>type
    <3>2. stream' = [stream EXCEPT ![s] = new]
      BY <2>3
    <3>3. /\ new.reader = "pulling" /\ new.done = stream[s].done
          /\ new.answers = stream[s].answers /\ new.failure = stream[s].failure
          /\ new.closing = stream[s].closing
          /\ new.result = stream[s].result /\ new.got = stream[s].got
      BY <1>type
    <3>4. stream[s].answers = {} /\ ~stream[s].closing /\ stream[s].failure = "none"
      BY <2>3, <1>inv, <1>type
    <3> HIDE DEF new, StreamRecord
    <3> QED
      BY <2>3, <3>1, <3>2, <3>3, <3>4, MovedTo
  <2> QED
    BY <1>3, <2>1, <2>2, <2>3 DEF R!Response
<1>4. CASE R!Close(s)
  BY <1>4 DEF R!Close, R!Closes
<1>5. ASSUME NEW event \in {"delta", "end", "error"}, R!Deliver(s, event)
      PROVE  Moved(s)
  BY <1>5 DEF R!Deliver, R!Pulling, R!Fail, R!AfterEnd, R!AfterYield
<1>6. CASE R!Exhaust(s) \/ R!Throw(s)
  BY <1>6 DEF R!Exhaust, R!Throw, R!Pulling
<1>7. CASE R!SourceReturned(s)
  <2> DEFINE given == IF ~stream[s].drains THEN stream[s].answers
                      ELSE IF stream[s].failure = "none"
                      THEN stream[s].answers \cup {"resolved"}
                      ELSE stream[s].answers \cup {"rejected"}
  <2>1. stream[s].reader = "closing" /\ stream[s].done
    BY <1>7 DEF R!SourceReturned
  <2>2. given \in SUBSET {"resolved", "rejected"}
    OBVIOUS
  <2>3. /\ "resolved" \in given => stream[s].failure = "none"
        /\ "rejected" \in given => stream[s].failure # "none"
    BY <2>1
  <2> HIDE DEF given, StreamInv, R!TypeOK, Moved
  <2> DEFINE new == [stream[s] EXCEPT !.reader = "none", !.source = "over",
                                      !.drains = FALSE, !.answers = given]
  <2>4. new \in StreamRecord
    BY <2>2, <1>type
  <2>5. stream' = [stream EXCEPT ![s] = new]
    BY <1>7 DEF R!SourceReturned, given
  <2>6. /\ new.reader = "none" /\ new.source = "over" /\ new.answers = given
        /\ new.done = stream[s].done /\ new.failure = stream[s].failure
        /\ new.closing = stream[s].closing
        /\ new.result = stream[s].result /\ new.got = stream[s].got
    BY <1>type
  <2> HIDE DEF new, StreamRecord
  <2> QED
    BY <1>inv, <2>1, <2>3, <2>4, <2>5, <2>6, MovedTo
<1>8. CASE R!CloseReturned(s)
  <2> HIDE DEF StreamInv, R!TypeOK, Moved
  <2> DEFINE new == [stream[s] EXCEPT !.closing = FALSE, !.source = "over"]
  <2>1. new \in StreamRecord
    BY <1>type
  <2>2. stream' = [stream EXCEPT ![s] = new] /\ stream[s].closing
    BY <1>8 DEF R!CloseReturned
  <2>3. /\ new.source = "over" /\ new.closing = FALSE /\ new.done = stream[s].done
        /\ new.reader = stream[s].reader /\ new.answers = stream[s].answers
        /\ new.failure = stream[s].failure
        /\ new.result = stream[s].result /\ new.got = stream[s].got
    BY <1>type
  <2> HIDE DEF new, StreamRecord
  <2> QED
    BY <1>inv, <2>1, <2>2, <2>3, MovedTo
<1> QED
  BY <1>1, <1>2, <1>3, <1>4, <1>5, <1>6, <1>7, <1>8 DEF R!Call, R!Emit

LEMMA StreamInvStep ==
  ASSUME StreamInv, [R!Next]_stream
  PROVE  /\ StreamInv'
         /\ \A s \in Streams : R!Complete(s) =>
              /\ stream'[s].result = stream[s].result
              /\ stream'[s].got = stream[s].got
<1>1. CASE UNCHANGED stream
  BY <1>1 DEF StreamInv, AnswerInv, R!TypeOK, R!Complete, R!Settled
<1>2. CASE R!Next
  <2>1. PICK s \in Streams : R!Call(s) \/ R!Emit(s)
    BY <1>2 DEF R!Next
  <2>2. /\ stream' = [stream EXCEPT ![s] = stream'[s]]
        /\ stream'[s] \in StreamRecord
        /\ AnswerInv(s)'
        /\ R!Complete(s) => /\ stream'[s].result = stream[s].result
                            /\ stream'[s].got = stream[s].got
    BY <2>1, StreamMoves DEF Moved
  <2>3. stream \in [Streams -> StreamRecord]
    BY DEF StreamInv, R!TypeOK, StreamRecord
  <2>4. \A q \in Streams \ {s} : stream'[q] = stream[q]
    BY <2>2, <2>3
  <2>5. R!TypeOK'
    <3>1. stream' \in [Streams -> StreamRecord]
      BY <2>2, <2>3
    <3> QED
      BY <3>1 DEF R!TypeOK, StreamRecord
  <2>6. \A q \in Streams \ {s} : AnswerInv(q)'
    BY <2>4 DEF StreamInv, AnswerInv, R!Complete, R!Settled
  <2> QED
    BY <2>2, <2>4, <2>5, <2>6 DEF StreamInv
<1> QED
  BY <1>1, <1>2

LEMMA StreamInvAlways == R!Spec => []StreamInv
<1>1. StreamInv /\ [R!Next]_stream => StreamInv'
  BY StreamInvStep
<1> QED
  BY <1>1, StreamInvInit, PTL DEF R!Spec

(* response() has one answer, whoever asks and however often, and never a  *)
(* Response without its end event (stream.ts:593-603).                     *)
THEOREM StreamHasOneAnswer == Spec => []OneAnswer
<1>1. StreamInv => OneAnswer
  <2> SUFFICES ASSUME StreamInv, NEW s \in Streams
               PROVE  /\ stream[s].answers # {"resolved", "rejected"}
                      /\ "resolved" \in stream[s].answers =>
                           R!Complete(s) /\ stream[s].failure = "none"
    BY DEF OneAnswer, R!OneAnswer
  <2>1. AnswerInv(s)
    BY DEF StreamInv
  <2>2. stream[s].answers # {"resolved", "rejected"}
    BY <2>1 DEF AnswerInv
  <2>3. "resolved" \in stream[s].answers => R!Complete(s) /\ stream[s].failure = "none"
    BY <2>1 DEF AnswerInv
  <2> QED
    BY <2>2, <2>3
<1> QED
  BY <1>1, SessionStreams, StreamInvAlways, PTL

(* A complete Response, and what it was assembled of, is never touched     *)
(* again (stream.ts:618-625).                                              *)
THEOREM StreamResultIsFinal == Spec => ResultFinal
<1>1. StreamInv /\ [R!Next]_stream =>
        [\A s \in Streams : R!Complete(s) =>
           /\ stream'[s].result = stream[s].result
           /\ stream'[s].got = stream[s].got]_stream
  BY StreamInvStep
<1> QED
  BY <1>1, SessionStreams, StreamInvAlways, PTL DEF ResultFinal, R!ResultFinal, R!Spec

-----------------------------------------------------------------------------
(* What is proved of Transport holds of a session's: TP is the instance    *)
(* that carries its lemmas, of the same definitions as T.                  *)
TP == INSTANCE TransportProofs

(* The two instances' operators, from the ground up. *)
LEMMA SameCardinality == \A S : T!Cardinality(S) = TP!Cardinality(S)
BY Zenon DEF T!Cardinality, TP!Cardinality

LEMMA SameTrim == \A o, i : T!TrimIdle(o, i) <=> TP!TrimIdle(o, i)
<1>1. \A o, i : T!Excess(o, i) = TP!Excess(o, i)
  BY Zenon, SameCardinality DEF T!Excess, TP!Excess
<1> QED
  BY Zenon, SameCardinality, <1>1 DEF T!TrimIdle, TP!TrimIdle

LEMMA SameAcquire == \A r : T!Acquire(r) <=> TP!Acquire(r)
<1>1. T!Asked = TP!Asked
  BY DEF T!Asked, TP!Asked
<1>2. T!Admits <=> TP!Admits
  BY DEF T!Admits, TP!Admits
<1> QED
  BY <1>1, <1>2, SameCardinality, Zenon DEF T!Acquire, TP!Acquire, T!Enqueued, TP!Enqueued

LEMMA SameOver == \A r : T!Over(r) <=> TP!Over(r)
BY Zenon DEF T!Over, TP!Over, T!Releases, TP!Releases, T!slots, TP!slots

LEMMA SameClose == T!Close <=> TP!Close
<1>1. T!CleansAtOnce = TP!CleansAtOnce
  BY DEF T!CleansAtOnce, TP!CleansAtOnce, T!Body, TP!Body
<1> QED
  BY <1>1, SameCardinality, Zenon DEF T!Close, TP!Close, T!kind, TP!kind

LEMMA SameSockets ==
  \A r : /\ T!DestroySocket(r) <=> TP!DestroySocket(r)
         /\ T!ReturnSocket(r) <=> TP!ReturnSocket(r)
         /\ T!BorrowSocket(r) <=> TP!BorrowSocket(r)
BY Zenon, SameTrim DEF T!DestroySocket, TP!DestroySocket, T!ReturnSocket, TP!ReturnSocket,
   T!BorrowSocket, TP!BorrowSocket, T!Reusable, TP!Reusable, T!sockets, TP!sockets

LEMMA SameAbandon == \A r : T!Abandon(r) <=> TP!Abandon(r)
BY Zenon, SameSockets, SameOver DEF T!Abandon, TP!Abandon, T!GiveUp, TP!GiveUp,
   T!kind, TP!kind

LEMMA SameRequest ==
  \A r : T!Request(r) <=> TP!Request(r)
<1> USE DEF T!CleansAtOnce, TP!CleansAtOnce, T!Body, TP!Body, T!slots, TP!slots,
       T!sockets, TP!sockets, T!kind, TP!kind
<1>1. \A r : /\ T!Refuse(r) <=> TP!Refuse(r)
             /\ T!Send(r) <=> TP!Send(r)
             /\ T!LeaveQueue(r) <=> TP!LeaveQueue(r)
  BY Zenon, SameAcquire DEF T!Refuse, TP!Refuse, T!Send, TP!Send, T!LeaveQueue,
     TP!LeaveQueue, T!FailWaiter, TP!FailWaiter, T!Place, TP!Place
<1>2. \A r : T!Resume(r) <=> TP!Resume(r)
  BY Zenon, SameSockets, SameOver DEF T!Resume, TP!Resume, T!ResumeAborted, TP!ResumeAborted
<1>3. \A r : /\ T!Unwind(r) <=> TP!Unwind(r)
             /\ T!SocketAssigned(r) <=> TP!SocketAssigned(r)
  BY Zenon, SameTrim, SameOver DEF T!Unwind, TP!Unwind, T!SocketAssigned, TP!SocketAssigned
<1>4. \A r : /\ T!HeadArrives(r) <=> TP!HeadArrives(r)
             /\ T!SendFails(r) <=> TP!SendFails(r)
             /\ T!Abort(r) <=> TP!Abort(r)
  BY Zenon, SameSockets, SameOver DEF T!HeadArrives, TP!HeadArrives, T!SendFails,
     TP!SendFails, T!Abort, TP!Abort
<1>5. \A r : /\ T!Read(r) <=> TP!Read(r)
             /\ T!Chunk(r) <=> TP!Chunk(r)
             /\ T!BodyEnds(r) <=> TP!BodyEnds(r)
             /\ T!Finish(r) <=> TP!Finish(r)
  BY Zenon, SameSockets, SameOver DEF T!Read, TP!Read, T!Chunk, TP!Chunk,
     T!BodyEnds, TP!BodyEnds, T!Finish, TP!Finish
<1>6. \A r : T!Cancel(r) <=> TP!Cancel(r)
  BY Zenon, SameSockets, SameOver DEF T!Cancel, TP!Cancel, T!GiveUp, TP!GiveUp
<1> QED
  BY Zenon, <1>1, <1>2, <1>3, <1>4, <1>5, <1>6, SameAbandon
  DEF T!Request, TP!Request, T!Runs, TP!Runs

(* Hence TransportProofs' invariant is one of the session. *)
LEMMA TransportFacts == TP!RequestsAssumption /\ TP!MaximaAssumption
BY Zenon, TransportAssumption DEF TP!RequestsAssumption, TP!MaximaAssumption,
   TP!IsFiniteSet, IsFiniteSet

LEMMA SessionTransportInit == T!Init => TP!IInv
<1>1. T!Init => TP!Init
  BY DEF T!Init, TP!Init
<1> QED
  BY <1>1, TransportFacts, TP!InvInit

LEMMA SessionTransportStep ==
  ASSUME TP!IInv, [T!Next]_transport
  PROVE  TP!IInv'
<1>1. T!IdleCloses <=> TP!IdleCloses
  BY Zenon DEF T!IdleCloses, TP!IdleCloses, T!kind, TP!kind, T!slots, TP!slots
<1>2. T!Next <=> TP!Next
  BY Zenon, <1>1, SameRequest, SameClose DEF T!Next, TP!Next
<1>3. UNCHANGED transport => UNCHANGED TP!vars
  BY DEF transport, TP!vars, TP!kind, TP!slots, TP!sockets
<1> QED
  BY <1>2, <1>3, TransportFacts, TP!InvStep

-----------------------------------------------------------------------------
(* Where a stream's request is, as its reader and its source see it.       *)

(* A source that is not pulled is at rest or has a body to abandon, and    *)
(* one that is over has none.                                              *)
PlaceInv(s) ==
  /\ s \notin wired => pc[s] = "idle"
  /\ ~R!Pulling(s) => pc[s] \in {"idle", "over"} \cup T!Body
  /\ stream[s].source = "over" => stream[s].done /\ pc[s] \in {"idle", "over"}

SessionInv ==
  /\ TP!IInv /\ StreamInv
  /\ \A s \in Streams : PlaceInv(s)

(* What a step does to the fields the place depends on. *)
LEMMA StreamPlaces ==
  ASSUME StreamInv, NEW s \in Streams
  PROVE  /\ R!Call(s) => /\ stream'[s].source = stream[s].source
                         /\ stream[s].done => stream'[s].done
                         /\ R!Pulling(s) => R!Pulling(s)'
         /\ (\E event \in {"delta", "end", "error"} : R!Deliver(s, event)) =>
              R!Pulling(s) /\ stream'[s].source = stream[s].source
         /\ R!Exhaust(s) \/ R!Throw(s) => R!Pulling(s) /\ stream'[s].done
         /\ R!SourceReturned(s) \/ R!CloseReturned(s) =>
              ~R!Pulling(s) /\ stream'[s].done
         /\ R!Call(s) \/ R!Emit(s) =>
              /\ stream'[s].done => ~R!Pulling(s)'
              /\ \A q \in Streams \ {s} : stream'[q] = stream[q]
<1>1. stream \in [Streams -> StreamRecord] /\ AnswerInv(s)
  BY DEF StreamInv, R!TypeOK, StreamRecord
<1>2. R!Call(s) => /\ stream'[s].source = stream[s].source
                   /\ stream[s].done => stream'[s].done
                   /\ R!Pulling(s) => R!Pulling(s)'
  BY <1>1 DEF R!Call, R!Events, R!Advance, R!Break, R!Response, R!Close, R!Closes,
     R!Pulling, StreamRecord
<1>3. (\E event \in {"delta", "end", "error"} : R!Deliver(s, event)) =>
        R!Pulling(s) /\ stream'[s].source = stream[s].source
  BY <1>1 DEF R!Deliver, R!Fail, StreamRecord
<1>4. R!Exhaust(s) \/ R!Throw(s) => R!Pulling(s) /\ stream'[s].done
  BY <1>1 DEF R!Exhaust, R!Throw, StreamRecord
<1>5. R!SourceReturned(s) \/ R!CloseReturned(s) => ~R!Pulling(s) /\ stream'[s].done
  BY <1>1 DEF R!SourceReturned, R!CloseReturned, R!Pulling, AnswerInv, StreamRecord
<1>6. ASSUME R!Call(s) \/ R!Emit(s)
      PROVE  /\ stream'[s].done => ~R!Pulling(s)'
             /\ \A q \in Streams \ {s} : stream'[q] = stream[q]
  <2>1. Moved(s)
    BY <1>6, StreamMoves
  <2>2. AnswerInv(s)'
    BY <2>1 DEF Moved
  <2>3. stream' = [stream EXCEPT ![s] = stream'[s]]
    BY <2>1 DEF Moved
  <2> QED
    BY <1>1, <2>2, <2>3 DEF AnswerInv, R!Pulling
<1> QED
  BY <1>2, <1>3, <1>4, <1>5, <1>6

(* Another's step grants a stream's request its permit, at most. *)
LEMMA PlaceStays ==
  ASSUME NEW q \in Streams, PlaceInv(q), UNCHANGED wired, stream'[q] = stream[q],
         pc'[q] = pc[q] \/ (pc[q] = "queued" /\ pc'[q] = "granted")
  PROVE  PlaceInv(q)'
BY DEF PlaceInv, R!Pulling, T!Body

(* A request's step leaves the other streams where they belong. *)
LEMMA RequestKeepsPlaces ==
  ASSUME TP!IInv, NEW r \in Requests, T!Request(r), NEW q \in Streams \ {r},
         PlaceInv(q), UNCHANGED wired, stream'[q] = stream[q]
  PROVE  PlaceInv(q)'
<1>1. TP!Others(r)
  BY TransportFacts, SameRequest, TP!RequestMoves
<1>2. q \in Requests \ {r}
  BY StreamsAssumption
<1>3. pc'[q] = pc[q] \/ (pc[q] = "queued" /\ pc'[q] = "granted")
  BY <1>1, <1>2 DEF TP!Others
<1> QED
  BY <1>3, PlaceStays

(* A body given up is over; else nothing of the transport has changed. *)
LEMMA SourceIsReturned ==
  ASSUME TP!IInv, NEW s \in wired, s \in Streams, ReturnSource(s),
         pc[s] \in {"idle", "over"} \cup T!Body
  PROVE  pc'[s] \in {"idle", "over"}
<1>1. CASE pc[s] \in T!Body /\ T!Abandon(s)
  <2>1. s \in Requests /\ TP!Request(s) /\ TP!Abandon(s)
    BY <1>1, SameRequest, SameAbandon, StreamsAssumption DEF T!Request
  <2> QED
    BY <2>1, TransportFacts, TP!RequestMoves
<1>2. CASE pc[s] \notin T!Body /\ UNCHANGED transport
  BY <1>2 DEF transport
<1> QED
  BY <1>1, <1>2 DEF ReturnSource

(* The stream that steps. *)
LEMMA StreamKeepsPlace ==
  ASSUME SessionInv, NEW s \in Streams, Stream(s), UNCHANGED wired
  PROVE  PlaceInv(s)'
<1>inv. PlaceInv(s) /\ StreamInv /\ TP!IInv /\ s \in Requests
  BY StreamsAssumption DEF SessionInv
<1>1. CASE R!Call(s) /\ UNCHANGED transport
  BY <1>inv, <1>1, StreamPlaces DEF PlaceInv, transport
<1>2. CASE s \notin wired /\ R!Emit(s) /\ UNCHANGED transport
  <2>1. pc'[s] = "idle" /\ s \notin wired'
    BY <1>inv, <1>2 DEF PlaceInv, transport
  <2>2. stream'[s].source = "over" => stream'[s].done
    BY <1>inv, <1>2, StreamPlaces DEF R!Emit, PlaceInv, StreamInv, AnswerInv, R!Pulling
  <2> QED
    BY <2>1, <2>2 DEF PlaceInv
<1>3. CASE Deliver(s)
  <2>1. /\ R!Pulling(s) /\ stream'[s].source = stream[s].source
        /\ stream[s].source # "over" /\ pc' = pc /\ s \in wired
    BY <1>inv, <1>3, StreamPlaces DEF Deliver, transport, PlaceInv, StreamInv, AnswerInv, R!Pulling
  <2>2. pc[s] \in {"over"} \cup T!Body
    BY <1>3 DEF Deliver, MayEmit, BodyDone, T!Body
  <2> QED
    BY <2>1, <2>2 DEF PlaceInv
<1>4. CASE Exhaust(s) \/ Throw(s) \/ Returned(s)
  <2>1. ReturnSource(s) /\ stream'[s].done /\ ~R!Pulling(s)'
    BY <1>inv, <1>4, StreamPlaces DEF Exhaust, Throw, Returned, R!Emit
  <2>2. pc[s] \in {"idle", "over"} \cup T!Body
    BY <1>inv, <1>4, StreamPlaces DEF Exhaust, Throw, Returned, BodyDone, PlaceInv, T!Body
  <2>3. CASE s \in wired
    <3>1. pc'[s] \in {"idle", "over"}
      BY <1>inv, <2>1, <2>2, <2>3, SourceIsReturned
    <3> QED
      BY <2>1, <2>3, <3>1 DEF PlaceInv
  <2>4. CASE s \notin wired
    BY <1>inv, <2>1, <2>4 DEF PlaceInv, ReturnSource, transport
  <2> QED
    BY <2>3, <2>4
<1>5. CASE Carry(s)
  <2>1. /\ stream' = stream /\ s \in wired /\ TP!Request(s)
    BY <1>5, SameRequest DEF Carry, T!Request
  <2>2. CASE ~R!Pulling(s)
    <3>1. ~T!Refuse(s) /\ ~T!Send(s) /\ pc[s] # "idle"
      BY <1>5, <2>2 DEF Carry, T!Refuse, T!Send, T!Read, T!LeaveQueue, T!Runs, T!Resume,
         T!Unwind, T!SocketAssigned, T!HeadArrives, T!SendFails, T!Abort, T!Chunk, T!BodyEnds
    <3>2. pc[s] # "over"
      BY <1>5, <2>2 DEF Carry, T!Refuse, T!Send, T!Read, T!LeaveQueue, T!Runs, T!Resume,
         T!Unwind, T!SocketAssigned, T!HeadArrives, T!SendFails, T!Abort, T!Chunk, T!BodyEnds
    <3>3. pc[s] \in T!Body /\ stream[s].source # "over"
      BY <1>inv, <2>2, <3>1, <3>2 DEF PlaceInv, T!Body
    <3>4. pc'[s] \in T!Body \cup {"over"}
      BY <1>inv, <2>1, <3>3, TransportFacts, TP!RequestMoves DEF T!Body, TP!Body
    <3> QED
      BY <2>1, <3>3, <3>4 DEF PlaceInv
  <2>3. CASE R!Pulling(s)
    BY <1>inv, <2>1, <2>3 DEF PlaceInv, R!Pulling, StreamInv, AnswerInv
  <2> QED
    BY <2>2, <2>3
<1> QED
  BY <1>1, <1>2, <1>3, <1>4, <1>5 DEF Stream, Source

(* Every step, of whomever, keeps every stream where it belongs. *)
LEMMA SessionInvStep ==
  ASSUME SessionInv, [Next]_vars
  PROVE  SessionInv'
<1>1. TP!IInv'
  BY TransportSteps, SessionTransportStep DEF SessionInv, vars
<1>2. StreamInv'
  BY StreamSteps, StreamInvStep DEF SessionInv, vars
<1>3. ASSUME NEW q \in Streams PROVE PlaceInv(q)'
  <2>inv. PlaceInv(q) /\ StreamInv /\ TP!IInv /\ q \in Requests
    BY StreamsAssumption DEF SessionInv
  <2>1. CASE UNCHANGED vars
    BY <2>inv, <2>1, PlaceStays DEF vars, transport
  <2>2. CASE Next
    <3>1. UNCHANGED wired
      BY <2>2 DEF Next
    <3>2. ASSUME Stream(q) PROVE PlaceInv(q)'
      BY <3>1, <3>2, StreamKeepsPlace
    <3>3. ASSUME NEW s \in Streams \ {q}, Stream(s) PROVE PlaceInv(q)'
      <4>1. /\ R!Call(s) \/ R!Emit(s) \/ UNCHANGED stream
            /\ UNCHANGED transport \/ T!Request(s)
        BY <3>3 DEF Stream, Source, Deliver, Exhaust, Throw, Returned, ReturnSource,
           Carry, R!Emit, T!Request
      <4>2. stream'[q] = stream[q]
        BY <2>inv, <4>1, StreamPlaces
      <4>3. CASE UNCHANGED transport
        BY <2>inv, <3>1, <4>2, <4>3, PlaceStays DEF transport
      <4>4. CASE T!Request(s)
        BY <2>inv, <3>1, <4>2, <4>4, RequestKeepsPlaces, StreamsAssumption
      <4> QED
        BY <4>1, <4>3, <4>4
    <3>4. ASSUME NEW r \in Requests \ Streams, Plain(r) PROVE PlaceInv(q)'
      BY <2>inv, <3>1, <3>4, RequestKeepsPlaces DEF Plain
    <3>5. CASE CloseTransport
      <4>1. pc'[q] = pc[q] \/ (pc[q] # "idle" /\ pc'[q] = "over")
        BY <2>inv, <3>5 DEF CloseTransport, T!Close, T!CleansAtOnce, T!Body
      <4> QED
        BY <2>inv, <3>1, <3>5, <4>1 DEF CloseTransport, PlaceInv, R!Pulling
    <3>6. CASE IdleCloses
      BY <2>inv, <3>1, <3>6, PlaceStays DEF IdleCloses, T!IdleCloses
    <3> QED
      BY <2>2, <3>2, <3>3, <3>4, <3>5, <3>6 DEF Next
  <2> QED
    BY <2>1, <2>2
<1> QED
  BY <1>1, <1>2, <1>3 DEF SessionInv

LEMMA SessionInvInit == Init => SessionInv
<1>1. ASSUME Init, NEW s \in Streams PROVE PlaceInv(s)
  <2>1. s \in Requests
    BY StreamsAssumption
  <2> QED
    BY <1>1, <2>1 DEF Init, T!Init, R!Init, R!Fresh, PlaceInv
<1> QED
  BY <1>1, SessionTransportInit, StreamInvInit DEF Init, SessionInv

LEMMA SessionInvAlways == Spec => []SessionInv
BY SessionInvInit, SessionInvStep, PTL DEF Spec

(* The variables of the stream and of the transport keep their types       *)
(* together as they do apart (stream.ts:516-625, transport.ts:63-115).     *)
THEOREM SessionTypeCorrect == Spec => []TypeOK
<1>1. Init => wired \subseteq Streams
  BY DEF Init
<1>2. wired \subseteq Streams /\ [Next]_vars => (wired \subseteq Streams)'
  BY DEF Next, vars
<1>3. SessionInv /\ wired \subseteq Streams => TypeOK
  <2>1. ASSUME SessionInv PROVE T!TypeOK
    <3>1. TP!TypeOK
      BY <2>1, TransportFacts, TP!InvIsTyped DEF SessionInv
    <3> QED
      BY <3>1, Zenon DEF TP!TypeOK, T!TypeOK, TP!Labels, T!Labels
  <2> QED
    BY <2>1 DEF SessionInv, StreamInv, TypeOK
<1> QED
  BY <1>1, <1>2, <1>3, SessionInvAlways, PTL DEF Spec

(* A stream that finished, failed or was closed has finalized its source   *)
(* and holds no permit (docs/transport.md:39-40, stream.ts:542-625).       *)
THEOREM FinishedStreamsHoldNothing == Spec => []FinishedHoldsNothing
<1>1. SessionInv => FinishedHoldsNothing
  <2> SUFFICES ASSUME SessionInv, NEW s \in Streams, R!Settled(s)
               PROVE  stream[s].source = "over" /\ permit[s] # "held"
    BY DEF FinishedHoldsNothing, R!SourceFinalized
  <2>1. stream[s].source = "over"
    BY DEF SessionInv, StreamInv, AnswerInv
  <2>2. pc[s] \in {"idle", "over"} /\ s \in Requests
    BY <2>1, StreamsAssumption DEF SessionInv, PlaceInv
  <2>3. TP!PermitsCounted
    BY DEF SessionInv, TP!IInv, TP!AdmissionInv
  <2>4. permit[s] # "held"
    BY <2>2, <2>3 DEF TP!PermitsCounted, TP!Body
  <2> QED
    BY <2>1, <2>4
<1> QED
  BY <1>1, SessionInvAlways, PTL
=============================================================================
