--------------------------- MODULE StreamSession ---------------------------
(***************************************************************************)
(* An adapter's streams over its transport (src/adapter.ts streamRaw): the *)
(* generators between a ResponseStream and a response's body pull it when  *)
(* they are pulled, and abandon it when they are returned.  The other      *)
(* requests of the client read their bodies whole, over the same permits   *)
(* and sockets.                                                            *)
(***************************************************************************)
EXTENDS Naturals, Sequences, FiniteSets

CONSTANTS
  Requests, Maxima, Origin,
  Streams,    \* the requests that are streamed
  MaxDeltas,
  Null

ASSUME TransportAssumption ==
  IsFiniteSet(Requests) /\ Null \notin Requests /\ Maxima \subseteq Nat \ {0}
ASSUME StreamsAssumption == Streams \subseteq Requests
ASSUME DeltasAssumption == MaxDeltas \in Nat /\ Null \notin Nat

VARIABLES
  native, maximum, closed, active, queue, pc, permit, aborted, socket, open, idle, ticket,
  stream,
  wired     \* the streams over a response; a caller may bring another source

T == INSTANCE Transport
R == INSTANCE ResponseStream

transport == <<native, maximum, closed, active, queue, pc, permit, aborted, socket,
               open, idle, ticket>>
vars == <<transport, stream, wired>>

Init == T!Init /\ R!Init /\ wired \in SUBSET Streams

(***************************************************************************)
(* What the response gives a stream that pulls.                            *)
(***************************************************************************)

(* The body was read to its end, and its permit is released. *)
BodyDone(s) == pc[s] = "over" /\ permit[s] = "released" /\ s \notin aborted

(* Lines that have been read may hold events; a decoder's reads go on      *)
(* while they are passed.                                                  *)
MayEmit(s) ==
  BodyDone(s) \/ pc[s] \in {"yielded", "tail"} \/ (native /\ pc[s] = "reading")

(* Returning the generators abandons the body, if it is still there. *)
ReturnSource(s) ==
  IF s \in wired /\ pc[s] \in T!Body THEN T!Abandon(s) ELSE UNCHANGED transport

(* Events pass as they come, but for the end event: the coalescer keeps it *)
(* until the body is done, unless a stop sequence cut the text, and then   *)
(* the cutter emits its own.                                               *)
Deliver(s) ==
  /\ s \in wired /\ ~R!Complete(s)
  /\ \E event \in {"delta", "end", "error"} : R!Deliver(s, event)
  /\ MayEmit(s)
  /\ UNCHANGED transport

Exhaust(s) ==
  /\ s \in wired
  /\ R!Exhaust(s)
  /\ BodyDone(s) \/ (R!Complete(s) /\ pc[s] \in T!Body)
  /\ ReturnSource(s)

(* send, or the reading of the body, failed, or an event made no sense;    *)
(* the loops it left have given the body up.                               *)
Throw(s) ==
  /\ s \in wired /\ ~R!Complete(s)
  /\ R!Throw(s)
  /\ pc[s] \in {"idle", "over"} \cup (T!Body \ {"open"})
  /\ ReturnSource(s)

Source(s) == Deliver(s) \/ Exhaust(s) \/ Throw(s)

(* The source is returned: by the reader that is done with it, or close(). *)
Returned(s) ==
  /\ R!SourceReturned(s) \/ R!CloseReturned(s)
  /\ ReturnSource(s)

(* The transport's steps for a stream's request; those that start it, or   *)
(* ask for more, come of a pull, or of a decoder that reads ahead.         *)
Carry(s) ==
  /\ \/ R!Pulling(s) /\ (T!Refuse(s) \/ T!Send(s) \/ T!Finish(s))
     \/ (R!Pulling(s) \/ (native /\ pc[s] # "open")) /\ T!Read(s)
     \/ T!LeaveQueue(s) \/ T!Runs(s)
     \/ T!HeadArrives(s) \/ T!SendFails(s) \/ T!Abort(s)
     \/ T!Chunk(s) \/ T!BodyEnds(s)
  /\ s \in wired
  /\ UNCHANGED stream

Stream(s) ==
  \/ R!Call(s) /\ UNCHANGED transport
  \/ Source(s) \/ Returned(s) \/ Carry(s)
  \/ s \notin wired /\ R!Emit(s) /\ UNCHANGED transport

Plain(r) == T!Request(r) /\ UNCHANGED stream

CloseTransport == T!Close /\ UNCHANGED stream
IdleCloses == T!IdleCloses /\ UNCHANGED stream

Next ==
  /\ \/ \E s \in Streams : Stream(s)
     \/ \E r \in Requests \ Streams : Plain(r)
     \/ CloseTransport \/ IdleCloses
  /\ UNCHANGED wired

(* Tasks that are ready run, a body given up settles its return. *)
Fairness ==
  /\ \A r \in Requests : WF_vars(T!Runs(r) /\ UNCHANGED <<stream, wired>>)
  /\ \A s \in Streams : WF_vars(Returned(s) /\ UNCHANGED wired)

Spec == Init /\ [][Next]_vars /\ Fairness

-----------------------------------------------------------------------------
TypeOK == T!TypeOK /\ R!TypeOK /\ wired \subseteq Streams

(* What ResponseStream promises of its answer, it keeps over a transport   *)
(* (stream.ts:542-625).                                                    *)
OneAnswer == R!OneAnswer
ResultFinal == R!ResultFinal

(* A stream that finished, failed or was closed holds no permit and no     *)
(* socket, and its source is finalized: "consume a response, cancel it, or *)
(* close its owner to release slots" (docs/transport.md:39-40).            *)
FinishedHoldsNothing ==
  /\ R!SourceFinalized
  /\ \A s \in Streams : R!Settled(s) => permit[s] # "held"
=============================================================================
