----------------------------- MODULE Transport -----------------------------
(***************************************************************************)
(* The transport (src/transport.ts, src/transport_node.ts): requests that  *)
(* wait for a permit in a bounded FIFO queue, hold it until their body is  *)
(* released, and may be aborted at any moment; and, on Node, the sockets   *)
(* they borrow from an agent shared by all origins.                        *)
(*                                                                         *)
(* A request is an await after another: every action is what runs between  *)
(* two of them.  pc says where a request is:                               *)
(*   idle      not sent                                                    *)
(*   queued    waits in TransportSlots' queue                              *)
(*   granted   has a permit, but its await has not resumed                 *)
(*   dialing   Node: the agent named a socket, "socket" not yet emitted    *)
(*   awaiting  waits for the response's head                               *)
(*   open      the caller holds a response whose body is unread            *)
(*   reading   the caller waits for a chunk                                *)
(*   yielded   the caller holds a chunk and has asked for no other         *)
(*   tail      Node: the framed body has ended, its decoded bytes have not *)
(*   over      released, refused, or failed                                *)
(***************************************************************************)
EXTENDS Naturals, Sequences, FiniteSets

CONSTANTS
  Requests,  \* the calls of send
  Maxima,    \* the values maxConnections may have
  Origin,    \* the origin each request goes to
  Null       \* no socket

ASSUME RequestsAssumption == IsFiniteSet(Requests) /\ Null \notin Requests
ASSUME MaximaAssumption == Maxima \subseteq Nat \ {0}

VARIABLES
  native,   \* NodeTransport (TRUE) or FetchTransport (FALSE)
  maximum,  \* TransportSlots.maximum
  closed,   \* close() was called
  active,   \* TransportSlots.active
  queue,    \* TransportSlots.queue, of requests
  pc,
  permit,   \* has a request a permit: none yet, held, released
  aborted,  \* the requests whose controller has aborted
  socket,   \* Node: the socket a request borrowed last, named by its maker
  open,     \* Node: the agents' sockets, in use or idle
  idle,     \* Node: those that are idle
  ticket    \* history: when a request asked for its permit

slots == <<active, queue, permit>>
sockets == <<socket, open, idle>>
kind == <<native, maximum>>
vars == <<kind, closed, slots, pc, aborted, sockets, ticket>>

Labels == {"idle", "queued", "granted", "dialing", "awaiting", "open",
           "reading", "yielded", "tail", "over"}
Body == {"open", "reading", "yielded", "tail"}

(* The requests that have asked for a permit, whatever came of it. *)
Asked == {r \in Requests : ticket[r] # 0}

(* The labels at which an abort runs cleanup at once: Node's destroy       *)
(* listens from the start, though before its await has resumed cleanup     *)
(* finds no release to call; Fetch's abortBody listens from the head on.   *)
CleansAtOnce == IF native THEN Body \cup {"dialing", "awaiting"} ELSE Body

Init ==
  /\ native \in BOOLEAN /\ maximum \in Maxima
  /\ closed = FALSE
  /\ active = 0 /\ queue = <<>>
  /\ pc = [r \in Requests |-> "idle"]
  /\ permit = [r \in Requests |-> "none"]
  /\ aborted = {}
  /\ socket = [r \in Requests |-> Null]
  /\ open = {} /\ idle = {}
  /\ ticket = [r \in Requests |-> 0]

(***************************************************************************)
(* The permits.                                                            *)
(***************************************************************************)

\* Mutant: admits one request too many.
AdmitsOneMore == active <= maximum

Admits == active < maximum

\* Mutant: the last to come waits in front.
EnqueuedInFront(r) == <<r>> \o queue

Enqueued(r) == Append(queue, r)

(* acquire, for a request that is sent. *)
Acquire(r) ==
  /\ ticket' = [ticket EXCEPT ![r] = Cardinality(Asked) + 1]
  /\ \/ /\ Admits
        /\ active' = active + 1
        /\ permit' = [permit EXCEPT ![r] = "held"]
        /\ pc' = [pc EXCEPT ![r] = "granted"]
        /\ UNCHANGED queue
     \/ /\ ~Admits
        /\ queue' = Enqueued(r)
        /\ pc' = [pc EXCEPT ![r] = "queued"]
        /\ UNCHANGED <<active, permit>>

\* Mutant: every call of a release releases.
ReleasesAgain(r) == permit[r] # "none"

(* A release has an effect once. *)
Releases(r) == permit[r] = "held"

\* Mutant: a permit is freed whoever waits.
OverFreeing(r) ==
  /\ pc' = [pc EXCEPT ![r] = "over"]
  /\ \/ ~Releases(r) /\ UNCHANGED slots
     \/ /\ Releases(r)
        /\ active' = active - 1
        /\ permit' = [permit EXCEPT ![r] = "released"]
        /\ UNCHANGED queue

(* A request is over: its release is called, which passes its permit to    *)
(* the head of the queue, without a decrement, or frees it.                *)
Over(r) ==
  \/ /\ ~Releases(r)
     /\ pc' = [pc EXCEPT ![r] = "over"]
     /\ UNCHANGED slots
  \/ /\ Releases(r) /\ queue = <<>>
     /\ active' = active - 1
     /\ permit' = [permit EXCEPT ![r] = "released"]
     /\ pc' = [pc EXCEPT ![r] = "over"]
     /\ UNCHANGED queue
  \/ /\ Releases(r) /\ queue # <<>>
     /\ queue' = Tail(queue)
     /\ permit' = [permit EXCEPT ![r] = "released", ![Head(queue)] = "held"]
     /\ pc' = [pc EXCEPT ![r] = "over", ![Head(queue)] = "granted"]
     /\ UNCHANGED active

(* A waiter fails: it leaves the queue wherever it stands. *)
Place(r) == CHOOSE i \in 1..Len(queue) : queue[i] = r

FailWaiter(r) ==
  /\ queue' = [i \in 1..(Len(queue) - 1) |->
                 IF i < Place(r) THEN queue[i] ELSE queue[i + 1]]
  /\ pc' = [pc EXCEPT ![r] = "over"]
  /\ UNCHANGED <<active, permit>>

(***************************************************************************)
(* Node's sockets.                                                         *)
(***************************************************************************)

\* Mutant: bounds the idle sockets alone.
ExcessIdle(o, i) ==
  IF Cardinality(i) > maximum THEN Cardinality(i) - maximum ELSE 0

Excess(o, i) ==
  IF Cardinality(o) > maximum THEN Cardinality(o) - maximum ELSE 0

(* trimIdle, when the agents hold the sockets o, of which i are idle: it   *)
(* destroys as many of the idle ones as there are sockets in excess.       *)
TrimIdle(o, i) ==
  LET excess == Excess(o, i)
  IN  \E gone \in SUBSET i :
        /\ \/ Cardinality(gone) = excess
           \/ gone = i /\ Cardinality(i) < excess
        /\ open' = o \ gone
        /\ idle' = i \ gone

\* Mutant: destroys the socket it borrowed, whoever has it now.
DestroyBorrowed(r) ==
  /\ open' = open \ {socket[r]}
  /\ idle' = idle \ {socket[r]}
  /\ UNCHANGED socket

(* destroy: but once the framed body has ended the socket is no longer     *)
(* this request's.                                                         *)
DestroySocket(r) ==
  IF pc[r] = "tail"
  THEN UNCHANGED sockets
  ELSE /\ open' = open \ {socket[r]}
       /\ idle' = idle \ {socket[r]}
       /\ UNCHANGED socket

(* The agent takes a socket back and keeps it, and "free" is emitted. *)
ReturnSocket(r) ==
  /\ TrimIdle(open, idle \cup {socket[r]})
  /\ UNCHANGED socket

(* The agent lends an idle socket of the same origin, or makes one. *)
Reusable(r) == {s \in idle : Origin[s] = Origin[r]}

BorrowSocket(r) ==
  \/ \E s \in Reusable(r) :
       /\ socket' = [socket EXCEPT ![r] = s]
       /\ idle' = idle \ {s}
       /\ UNCHANGED open
  \/ /\ Reusable(r) = {}
     /\ socket' = [socket EXCEPT ![r] = r]
     /\ open' = open \cup {r}
     /\ UNCHANGED idle

(***************************************************************************)
(* send.                                                                   *)
(***************************************************************************)

(* send throws before it asks for a permit: the transport is closed, the   *)
(* caller's signal has aborted, or the request is not one it can carry.    *)
Refuse(r) ==
  /\ pc[r] = "idle"
  /\ pc' = [pc EXCEPT ![r] = "over"]
  /\ UNCHANGED <<kind, closed, slots, aborted, sockets, ticket>>

Send(r) ==
  /\ pc[r] = "idle" /\ ~closed
  /\ Acquire(r)
  /\ UNCHANGED <<kind, closed, aborted, sockets>>

(* The pool timer, or an abort, fails a waiter. *)
LeaveQueue(r) ==
  /\ pc[r] = "queued"
  /\ FailWaiter(r)
  /\ aborted' = aborted \cup {r}
  /\ UNCHANGED <<kind, closed, sockets, ticket>>

\* Mutant: NodeTransport leaves it to its cleanup, which has run.
ResumeAbortedLeaking(r) ==
  \/ native /\ pc' = [pc EXCEPT ![r] = "over"] /\ UNCHANGED slots
  \/ ~native /\ Over(r)

ResumeAborted(r) == Over(r)

(* The await of acquire resumes, with an abort that came before to notice. *)
Resume(r) ==
  /\ pc[r] = "granted"
  /\ \/ /\ r \in aborted
        /\ ResumeAborted(r)
        /\ UNCHANGED sockets
     \/ /\ r \notin aborted
        /\ \/ /\ native
              /\ BorrowSocket(r)
              /\ pc' = [pc EXCEPT ![r] = "dialing"]
           \/ /\ ~native
              /\ UNCHANGED sockets
              /\ pc' = [pc EXCEPT ![r] = "awaiting"]
        /\ UNCHANGED slots
  /\ UNCHANGED <<kind, closed, aborted, ticket>>

(* Node emits "socket". *)
SocketAssigned(r) ==
  /\ pc[r] = "dialing"
  /\ TrimIdle(open, idle)
  /\ pc' = [pc EXCEPT ![r] = "awaiting"]
  /\ UNCHANGED <<kind, closed, slots, aborted, socket, ticket>>

(* The head arrives and its codings are ones the body may have. *)
HeadArrives(r) ==
  /\ pc[r] = "awaiting" /\ r \notin aborted
  /\ pc' = [pc EXCEPT ![r] = "open"]
  /\ UNCHANGED <<kind, closed, slots, aborted, sockets, ticket>>

(* No connection, no head, or a head that is refused. *)
SendFails(r) ==
  /\ pc[r] \in {"dialing", "awaiting"} /\ r \notin aborted
  /\ DestroySocket(r)
  /\ Over(r)
  /\ aborted' = aborted \cup {r}
  /\ UNCHANGED <<kind, closed, ticket>>

(* Fetch notices, on the other side of its await, that it was aborted. *)
Unwind(r) ==
  /\ ~native /\ pc[r] = "awaiting" /\ r \in aborted
  /\ Over(r)
  /\ UNCHANGED <<kind, closed, aborted, sockets, ticket>>

(***************************************************************************)
(* An abort: by the caller's signal, a phase's timer, the total deadline,  *)
(* or an error the body raised.                                            *)
(***************************************************************************)
Abort(r) ==
  /\ pc[r] \notin {"idle", "queued", "over"} /\ r \notin aborted
  /\ aborted' = aborted \cup {r}
  /\ \/ /\ pc[r] \notin CleansAtOnce
        /\ UNCHANGED <<pc, slots, sockets>>
     \/ /\ pc[r] \in CleansAtOnce
        /\ DestroySocket(r) \/ (pc[r] = "dialing" /\ ReturnSocket(r))
        /\ Over(r)
  /\ UNCHANGED <<kind, closed, ticket>>

(***************************************************************************)
(* The body.                                                               *)
(***************************************************************************)
Read(r) ==
  /\ pc[r] \in {"open", "yielded"}
  /\ pc' = [pc EXCEPT ![r] = "reading"]
  /\ UNCHANGED <<kind, closed, slots, aborted, sockets, ticket>>

Chunk(r) ==
  /\ pc[r] = "reading"
  /\ pc' = [pc EXCEPT ![r] = "yielded"]
  /\ UNCHANGED <<kind, closed, slots, aborted, sockets, ticket>>

(* The framed body ends.  On Node the agent takes the socket back, kept    *)
(* alive or not, while decoded bytes may be still to come.                 *)
BodyEnds(r) ==
  /\ pc[r] = "reading"
  /\ \/ /\ native
        /\ ReturnSocket(r) \/ DestroySocket(r)
        /\ pc' = [pc EXCEPT ![r] = "tail"]
        /\ UNCHANGED slots
     \/ /\ ~native
        /\ Over(r)
        /\ UNCHANGED sockets
  /\ UNCHANGED <<kind, closed, aborted, ticket>>

(* chunks() completes: the last decoded byte was taken. *)
Finish(r) ==
  /\ pc[r] = "tail"
  /\ Over(r)
  /\ UNCHANGED <<kind, closed, aborted, sockets, ticket>>

(* The body is given up: its controller is aborted. *)
GiveUp(r) ==
  /\ aborted' = aborted \cup {r}
  /\ DestroySocket(r)
  /\ Over(r)
  /\ UNCHANGED <<kind, closed, ticket>>

(* The consumer leaves its loop over chunks().  Node's decoders read ahead  *)
(* of it.                                                                  *)
Abandon(r) ==
  /\ pc[r] \in {"yielded", "tail"} \/ (native /\ pc[r] = "reading")
  /\ GiveUp(r)

(* response.cancel(), which after the end does nothing. *)
Cancel(r) ==
  \/ pc[r] \in Body /\ GiveUp(r)
  \/ /\ pc[r] = "over" /\ permit[r] = "released"
     /\ Over(r)
     /\ UNCHANGED <<kind, closed, aborted, sockets, ticket>>

(***************************************************************************)
(* close.                                                                  *)
(***************************************************************************)
Close ==
  LET cleaned == {r \in Requests : pc[r] \in CleansAtOnce}
      waiting == {r \in Requests : pc[r] = "queued"}
  IN /\ ~closed /\ closed' = TRUE
     /\ queue' = <<>>
     /\ aborted' = aborted \cup {r \in Requests : pc[r] \notin {"idle", "over"}}
     /\ active' = active - Cardinality(cleaned)
     /\ permit' = [r \in Requests |->
                     IF r \in cleaned THEN "released" ELSE permit[r]]
     /\ pc' = [r \in Requests |->
                 IF r \in cleaned \cup waiting THEN "over" ELSE pc[r]]
     /\ open' = {} /\ idle' = {}
     /\ UNCHANGED <<kind, socket, ticket>>

(* The peer closes an idle socket. *)
IdleCloses ==
  /\ \E s \in idle : open' = open \ {s} /\ idle' = idle \ {s}
  /\ UNCHANGED <<kind, closed, slots, pc, aborted, socket, ticket>>

Runs(r) == Resume(r) \/ Unwind(r) \/ SocketAssigned(r)

Request(r) ==
  \/ Refuse(r) \/ Send(r) \/ LeaveQueue(r)
  \/ Runs(r)
  \/ HeadArrives(r) \/ SendFails(r) \/ Abort(r)
  \/ Read(r) \/ Chunk(r) \/ BodyEnds(r) \/ Finish(r)
  \/ Abandon(r) \/ Cancel(r)

Next == (\E r \in Requests : Request(r)) \/ Close \/ IdleCloses

(* What has been queued on the event loop runs; nothing else must happen. *)
Fairness == \A r \in Requests : WF_vars(Runs(r))

Spec == Init /\ [][Next]_vars /\ Fairness

-----------------------------------------------------------------------------
TypeOK ==
  /\ native \in BOOLEAN /\ maximum \in Maxima /\ closed \in BOOLEAN
  /\ active \in 0..maximum
  /\ queue \in Seq(Requests)
  /\ pc \in [Requests -> Labels]
  /\ permit \in [Requests -> {"none", "held", "released"}]
  /\ aborted \subseteq Requests
  /\ socket \in [Requests -> Requests \cup {Null}]
  /\ idle \subseteq open /\ open \subseteq Requests
  /\ ticket \in [Requests -> Nat]

Holders == {r \in Requests : permit[r] = "held"}

(* A request that is over holds no permit, one on the wire holds one, and  *)
(* the semaphore's count is the number of permits held: whatever the order *)
(* of grants, aborts, timers and closes (transport_node.ts:95-110).        *)
PermitsCounted ==
  /\ active = Cardinality(Holders)
  /\ \A r \in Requests :
       permit[r] = "held" <=> pc[r] \in Body \cup {"granted", "dialing", "awaiting"}

(* Nobody waits while a permit is free: a permit is passed on before it is *)
(* counted free, and a waiter that fails leaves the queue it stood in      *)
(* (transport.ts:86-109).                                                  *)
NoWaiterWhileFree == queue # <<>> => active = maximum

(* Admission is first come, first served: no request gets a permit while   *)
(* one that asked before it is waiting (transport.ts:62).                  *)
NoOvertaking ==
  \A r, q \in Requests :
    pc[q] = "queued" /\ permit[r] # "none" => ticket[r] < ticket[q]

(* A request on the wire has its socket to itself: no one destroys it or   *)
(* lends it to another while its exchange lasts (transport_node.ts:83-94). *)
OnTheWire(r) == native /\ pc[r] \in {"dialing", "awaiting", "open", "reading", "yielded"}

OwnSocketKept ==
  \A r \in Requests : OnTheWire(r) =>
    /\ socket[r] \in open \ idle
    /\ \A q \in Requests \ {r} : OnTheWire(q) => socket[q] # socket[r]

(* Once every socket lent is announced, the sockets in use and the idle    *)
(* ones of all origins are no more than the connections allowed            *)
(* (transport_node.ts:36-43).                                              *)
SocketsBounded ==
  (\A r \in Requests : pc[r] # "dialing") => Cardinality(open) <= maximum

(* Closing the transport releases every permit and fails every waiter,     *)
(* also of a request that was granted its permit, or awaited its head, as  *)
(* it closed (docs/transport.md:39-40).                                    *)
ClosedDrains == closed ~> active = 0 /\ queue = <<>> /\ open = {}
=============================================================================
