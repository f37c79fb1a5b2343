# A TLA+ model of lm15-ts

lm15-ts is a TypeScript client for language-model providers: one canonical
request and response type, a translator ("dialect") per provider, transports
for Node and browsers, streaming and live sessions, and a credential store that
several processes share. This directory models the parts of it that keep state
across an `await`, and the conversions whose fidelity the rest relies on; it
checks them with TLC on small instances and proves the most important
properties for every instance with TLAPS.

Source paths below are relative to `src/` of the package (`login/manager.ts`
is `src/src/login/manager.ts` of the tree).

## Inventory

| Component | State it keeps | Operations | What is hard |
|---|---|---|---|
| Managed login (`login/manager.ts`, `login/store.ts`) | per provider: a slot record (generation, connection, revision, state, renewal marker, reservation) and credential material, in one document; per process: running attempts, a closed flag | login, configure, cancelLogin, logout, requestAuth (renewing), verify, close | several processes on one file; crashes around a rotating exchange; lost answers; cancellation against a late commit; lapsing reservations |
| Credential lock and file, stored logins (`auth/stores.ts`, `login/file_store.ts`, `native/credential_lock.c`) | a kernel lock per file, the files | withFileLock, atomic write, the older doors to the logins of Claude Code, Codex and xAI, xAI's device sign-in | polling, timeout, death of the holder, two writers of one entry, tools that take no lock |
| Login engine (`login/engine.ts`, `login/run.ts`, `login/flows/*`, `login/listener_node.ts`) | one attempt: deadline, cancellation, prompts, a listener | exchanges, device polling, waiting for a pasted or received return | deadline against answer, two sources of one return, one-use codes |
| Transport (`transport.ts`, `transport_node.ts`) | permits, a FIFO of waiters, controllers of running requests | send, body reading, cancel, close | a permit granted while its waiter is aborted; a body nobody reads; phase timers |
| Response stream (`stream.ts`, `stop.ts`, `wire.ts`) | accumulated parts, the result, a failure, whether someone reads, the text a stop may still cut | iterate, response, close | failures after the end event, chunk boundaries, abandoned iterators |
| Dialects (`dialects/*`) | none of their own; a stream reader per Responses or Gemini stream | build a request, read a response, read a stream, read a body back, score a judgment | one meaning in four spellings; fragments against final copies; what a server cannot take |
| Adaptation and compatibility (`adaptation.ts`, `compat.ts`) | the record of one build | record, refuse, merge presets | a setting lost without a word |
| Adapters (`adapter.ts`) | a client, a policy | plan, complete, stream, send; files, batches, caches | a plan that differs from the call |
| Live session (`live.ts`, `types/live.ts`) | event queue, waiters, opening and closing, a view per turn | open, send, recv, turn views (iterate, result, close), close | close against failure, order of events and waiters, limits, the bill of a turn |
| Cloud chains (`cloud/chains.ts`) | a cached credential, a shared walk | resolve, probe | concurrent resolution, expiry, sources configured by halves |
| Router, policy, doctor (`router.ts`, `auth/policy.ts`, `auth/doctor.ts`) | configuration, built adapters | construction, name and credential resolution, explainAuth | precedence, told twice (offline and at request time) |
| Jobs (`jobs.ts`) | the last snapshot | refresh, wait, cancel | overlapping polls |
| Tunnel (`tunnel/*`) | a socket, a TLS engine, buffers | fetch over a WebSocket | end of stream against data |
| Types, JSON, wire helpers | none | conversions | fidelity of data |

A request goes: router → adapter → credential (policy, managed login or cloud
chain) → dialect's builder → transport → wire → dialect's stream reader →
response stream. Login operations and requests of every process meet in the
credential document.

## Modules

| Modules | Model |
|---|---|
| `ManagedSlot`, `ManagedAuth` | The data of one slot and what each operation writes; the operations of `Auth` as processes over it. |
| `ConnectionSlot` | What a slot promises: an identity, its generation, and whether its credential may be used. |
| `Transport` | `TransportSlots`, `FetchTransport` and `NodeTransport`: requests, permits and sockets. |
| `ResponseStream`, `StreamSession` | `ResponseStream` over any source of events; an adapter's streams over a transport, the two composed. |
| `Usage`, `StreamEvents`, `StopSequences` | Token counts; the events of a stream, the coalescer, the accumulator and the replay; the cut at a stop sequence, whole and streamed. |
| `ChatStream`, `AnthropicStream`, `ResponsesStream`, `GeminiStream` | Each wire twice: the reader of its stream and the reader of its whole body, over an external server that sends either. |
| `AnswerStream` | One streamed answer through reader, coalescer, cutter and accumulator, beside what `complete()` makes of the same answer. |
| `Settings`, `Compat` | A request's settings and the record of what a build changed; the presets of the servers, their merge, and what the two OpenAI builders share. |
| `AnthropicRequest`, `GeminiRequest`, `ResponsesRequest`, `ChatRequest` | The request builders. |
| `ChatIngest`, `Scoring` | The reading back of a Chat Completions body; judgments by the likelihood of their keys. |
| `Calls` | One request planned, sent, asked again as it was settled, and read back. |
| `LiveCodec`, `LiveSession` | The codecs of the live dialects; a session with its socket, timers and readers. |
| `StoredLogins`, `LoginAttempt`, `CloudChains`, `CloudProvider`, `Access`, `Credentials` | The older doors to a stored login; one attempt of a login flow; the rungs of the three cloud chains; the shared walk of one; how a router finds a credential and how the doctor explains it; one of these scenes at a time. |
| `*Proofs` | The theorems about the module they are named after. |
| `FoldLemmas` | What the proofs need of folds, slices and flattened sequences. |
| `MC*` | Values of the constants for TLC. |

### Managed login

One provider slot is enough: every operation names one provider and touches
only its slot and its material. A call of an `Auth` is a member of `Ops`; it
starts at most once, in some process, and ends `done` or, if its process
crashes, `dead`. Attempt ids, connection ids, access and refresh tokens are
random strings in the code; an operation draws at most one of each, so the
operation stands for all of them.

A step is the code between two points where other code can run: a wait for the
store's lock, or for the network. A `mutate` of the store reads, decides and
writes under the lock, and no other process sees it half done, so it is one
step, enabled while the lock is free. A renewal writes twice under the lock
with an exchange between, so it takes three (`RenewMarks`, `Exchange`,
`RenewWrites`), and anything that does not need the lock (reads of
`requestAuth`, crashes, aborts, the clock) may come between.

| Action | Code (`login/manager.ts`) |
|---|---|
| `Login`, `Configure`, `Reserve` | `login` 498, `configure` 749, `#reserve` 633 |
| `MethodSucceeds`, `MethodFails` | the flow or recipe runs, `#loginFailure` |
| `Commit`, `Release`, `Finish` | `#commit` 676, `#release` 663, the `finally` of `login` |
| `CancelLogin`, `CancelAttempt` | `cancelLogin` 716 |
| `Logout`, `ResolveTarget`, `Forget`, `ForgetUnsaved` | `logout` 797, `#resolveTarget` 826 |
| `RequestAuth`, `ReadSelection` | `requestAuth` 887, `#checkSelected` 902 |
| `RenewSettled`, `RenewMarks`, `Exchange`, `RenewWrites`, `RenewUnsaved` | `#renew` 983 |
| `Verify`, `RecordVerification`, `VerifyFails` | `verify` 846 |
| `Close`, `AbortSignal` | `close` 1058, the caller's signal |
| `StoreFails` | a lock timeout, an unreadable document or a failing write |
| `Crash`, `Age`, `Lapse` | a process dies; the clock passes a credential's renewal lead, a reservation's budget |

Kept as data: `previousIds` without the code's limit of the last eight (an
instance draws fewer ids), the recorded verification as the connection it
measured, the expiry of a credential as membership of `aged`. `spent`, `since`,
`cancelled`, `committed` and the `gen` of a material are history: no guard reads
them. Left out: labels, routes, settings, error texts, the read-only views
(`status`, `connections`, `selectionSync`) and the prompt for a method, which
precedes the first shared step.

The provider's side is external: it may rotate the refresh token, keep it,
reject, rate-limit, fail, be unreachable, or receive the exchange and lose the
answer. It uses a token up when it rotates it and may have when the answer is
lost. That an answered failure leaves the token usable is what the code assumes
("known safe"), and the model assumes it too.

Properties:

- `MaterialMatchesSlot`: the saved credential is that of the slot's connection
  and generation; nothing writes a replaced or signed-out credential back.
- `NoBlindReplay` (AUTH-20.4): a used-up refresh token is never sent again.
- `PinHonoured` (AUTH-20.1): a bound client gets its own connection's credential
  or an error.
- `CancelledNeverCommits` (AUTH-19): a cancelled attempt never saves.
- `ReservationCurrent` (AUTH-18): a reservation is of the current generation and
  of an attempt that is neither cancelled nor committed.
- `SafeRepliesKeep`: a failure that cannot have used the token up keeps it.
- `RevisionFollowsCredential`: the revision grows with every change of the
  credential of one generation.
- `ImplementsConnectionSlot`: the whole document implements `ConnectionSlot`,
  with the phase computed from marker, state and lock.
- `ReservationHasOwner`: with a working store a reservation is of a running
  attempt or of one whose process died.
- `EveryCallEnds`: every call ends or its process dies.

### Transport

A request is a call of `send` and what becomes of its body. `pc` says at which
`await` it is (the module's header lists the labels); an action is the code
between two of them. `native` chooses `NodeTransport` or `FetchTransport` and
`maximum` the capacity, both in the initial state, so one run has both
transports and both capacities.

| State | Code |
|---|---|
| `active`, `queue`, `closed` | the fields of `TransportSlots` and the transports |
| `permit[r]` | whether the `release` a request was given exists, and whether it was called |
| `aborted` | the requests whose `controller` has aborted |
| `socket[r]`, `open`, `idle` | Node: the socket a request borrowed, all sockets of both agents, the free ones |
| `ticket[r]` | history: the order in which permits were asked for |

| Action | Code |
|---|---|
| `Refuse`, `Send`, `Acquire` | `send` up to its first `await`, `TransportSlots.acquire` (`transport.ts:72`) |
| `LeaveQueue` | the pool timer or an abort fails a waiter (`transport.ts:86-98`) |
| `Over` | `releaseOnce` (`transport.ts:101`): the permit passes to the head of the queue, or is freed |
| `Resume` | the code after `await acquire`, an abort in between included (`transport_node.ts:107-118`, `transport.ts:241-254`) |
| `SocketAssigned`, `HeadArrives`, `SendFails`, `Unwind` | the `socket` and `response` listeners, the two `catch` blocks |
| `Abort` | `controller.abort` by a signal, a phase's timer or a deadline, with what its listeners do at once |
| `Read`, `Chunk`, `BodyEnds`, `Finish` | `chunks` and Node's `rawChunks` and decoders |
| `Abandon`, `Cancel` | a consumer leaves its loop; `response.cancel` |
| `Close`, `IdleCloses` | `close`; the peer closes an idle socket |

Where the two transports differ, the model does: Node's `destroy` listens for an
abort from the start and cleans up synchronously, Fetch's `abortBody` only once
the head has arrived, before that the `await` has to resume (`Unwind`). A body
with codings ends twice on Node: the framed bytes end and the agent takes the
socket back (`tail`), and the decoded bytes end later.

External: the agents' choice of a socket. A request borrows a free socket of its
origin or makes one, which the model names after the request that made it.
Timers have no durations: a timer may fire whenever it is armed. A timer of the
queue cannot fire for a request that has left it.

Properties:

- `PermitsCounted`: the count of the semaphore is the number of requests whose
  exchange holds a permit, and those are exactly the ones between their grant
  and their release.
- `NoWaiterWhileFree`, `NoOvertaking`: admission is work-conserving and FIFO.
- `OwnSocketKept`: cleaning up, trimming and lending never touch a socket that
  another request is on the wire with.
- `SocketsBounded`: idle and used sockets of all origins are at most `maximum`,
  except between the loan of a new socket and its announcement.
- `ClosedDrains`: after `close` every permit comes back, also of a request that
  had been granted one but not resumed.

### Response stream

`stream[s]` is the object: `done`, `failure`, `result`, whether someone reads,
and the state of its source. `events()` is a generator: it waits for
`source.next()` (`pulling`), at its `yield` (`paused`) or for `source.return()`
(`closing`). The content of a Response is the number of deltas it was assembled
of. `answers` is history: how calls of `response()` settled.

- `OneAnswer`: `response()` never resolves for one caller and rejects for
  another, and resolves only with a Response that its end event completed.
- `ResultFinal`: nothing changes a Response once it is complete.
- `SourceFinalized`: a stream that is done and at rest has closed its source.

`StreamSession` puts a stream's source on a transport: `streamRaw`, the line and
event parsers, the coalescer and the stop cutter are generators, which do
something only when they are pulled or returned. So a stream's request is sent
when the reader first pulls, it reads when the reader pulls (or a Node decoder
reads ahead), an event may pass once bytes have been read, the end event once
the body was read to its end or a stop sequence cut the text, and returning the
generators abandons the body (`ReturnSource`). Streams over a source that is
not an adapter's (`wired`) are in the same run.

- `FinishedHoldsNothing`: a stream that finished, failed or was closed holds no
  permit and has closed its source.

### Streamed answers

`AnswerStream` runs one answer. The server (external) turns it into frames as
its wire does: one track of frames for the opening, one for each item, one for
the closing; tracks come in order, except that the OpenAI wires interleave
parallel calls and Gemini may end one item and begin the next in one chunk.

| Action | Code |
|---|---|
| `Send` | one server event: `parseStreamEvents` of the dialect, with `ResponsesStreamReader` or `GeminiStreamReader`; `Coalescer.push` (`stream.ts:220`); `truncateStreamAtStop` (`stop.ts:168`); `StreamAccumulator.push` (`stream.ts:321`) |
| `SendError` | the server's error event |
| `EndBody` | the body ends: `Coalescer.finish`, `StopCutter.flush`, `StreamAccumulator.response` |
| `BreakEvent` | the body ends inside an event |

A text is a sequence of letters and a fragment one of them or two, so a stop
sequence can fall across fragments and inside a token. `whole` is what
`complete()` makes of the same answer; `carried` is that with the differences
the stream readers make, each an operator named `*Carried` (see Divergences).

- `SameAnswer`: a stream gives the Response of a complete call, cut as a
  complete call is cut; an answer that one refuses the other refuses.
- `NoPartialAnswer`: no Response is made of a part of an answer, nor of
  fragments that contradict the item's final copy.
- `OneStartOneEnd`: the consumer gets one start first and one end last, which
  waits for the usage whatever frame came after it.
- `StopHonoured`, `ScoresOfKeptText`: no letter of a stop sequence is given out
  and none before it is lost; a score is kept for every token kept whole and
  for no other.
- `ReplayLossless`: a Response replayed as events is assembled to itself.

### Requests

`Settings` writes a configuration as one function from paths (spelled as the
records spell them) to values. A builder is a record that the steps of a build
transform: the wire it has written, the records, the first failure. `Compat`
resolves the presets of some thirty servers to the knobs the builders read.

| Action | Code |
|---|---|
| `Plan` | `plan` (`adapter.ts`): a build under the policy "note" |
| `Send` | `complete` and `stream`: one build under the adapter's policy |
| `Score` | `complete` of a judgment on a server that scores tokens (`dialects/token_trie.ts`) |
| `Reask` | the caller asks again for what the record says was applied |
| `ReadBack` | `requestFromOpenAIChat` of some server's adapter, and the body it builds |

- `LostOnlyWhereKnown`: of every setting the caller gave, the wire says what
  was asked, or the record names it and the wire says what the record says,
  except where `KnownSilent` says.
- `NothingIsLostInvisibly`: the same without the exception, which is what
  `adaptation.ts:2` promises. It is violated.
- `CallKeepsThePlan`: a call fails, sends, cuts and reports as its plan said.
- `Settled`: what was applied can be asked for, gives the same body and needs
  no further deviation.
- `ReadsBack`: a body read back is built again the same by its own server, and
  read the same or refused by another.
- `TranscriptKept`: each part of the conversation is on the wire once, in order,
  each tool result after its call, a failure marked.
- `CoverageIsAShare`: the likelihoods of a judgment's keys never exceed one.

`KnownSilent`, `PlannedOtherwise`, `Unreadable` and `Placeless` name where the
code does otherwise (see Divergences). `ChatMediaChecked` is a step of the body
(`payload`) alone: a judgment that is scored takes its messages from
`ChatMessages`, as the code takes them from `buildMessages`, without that check.

### Live sessions

| State | Code (`live.ts`) |
|---|---|
| `opening`, `socket`, `aborted` | `LiveSession.open` up to its answer, the WebSocket, the caller's signal |
| `closed`, `failed`, `closing`, `queue`, `waiters` | the fields of `LiveSession` |
| `view[v]`, `raw` | a `TurnView`, and a reader of the session itself |
| `heard`, `accepted` | history: the frames decoded, the events accepted |

| Action | Code |
|---|---|
| `Connect`, `NoConnection`, `SocketOpens`, `OpenTimeout`, `OpenAnswers`, `Abort` | `open`, its deadline and its signal |
| `ServerSpeaks`, `ServerEnds`, `SocketCloses`, `SocketErrs` | the socket's callbacks: `#push`, `#finish`, `#fail` |
| `Send`, `Close`, `CloseTimeout` | `send`, `close` |
| `ReadRaw`, `Iterate`, `Result`, `ResultGoesOn`, `CloseView` | `recv`; `TurnView.next`, `result`, `close` |

A frame's events are decoded by the codec of its dialect and pushed in one
callback, and the readers they wake run after it: so a frame is one step.

- `EventsAreKept`: every accepted event is in the queue or with one reader, in
  order; an overflowing view shows the event that did not fit; nobody waits for
  a session that is over.
- `TurnBillIsItsFrames`: a turn's usage is the sum of what its frames spent, and
  unknown where a frame does not say.
- `EveryCallSettles`: `open`, `close` and `result` answer.

### Credentials

A behaviour of `Credentials` is one of four scenes.

**A stored login** (`StoredLogins`, `auth/stores.ts`). Calls in processes of
their own find the same login, wait for the kernel lock of its file, read the
file again, and send the refresh token. The issuer may rotate it, keep it,
refuse, or have its answer lost; the tool that owns the file writes it without
a lock; the managed store signs out; a device sign-in stores over it;
processes die and writes fail.

- `RefreshTokenSentOnce`: a refresh token is sent by one call, unless an answer
  was refused or lost, a process died, a write failed, or the login was replaced
  or removed under a waiting call.

**An attempt** (`LoginAttempt`, `login/engine.ts`, `run.ts`, the flows and
`listener_node.ts`). A login or a renewal by one of the methods the flows
describe, on a native host or in a page, with a relay and a listener or without.
A method is a record of what its flow does differently: whether the person
comes back or a device is polled, whether a listener is opened, whether a return
carries a state, which request follows, how it is renewed.

| Action | Code |
|---|---|
| `SignInBegins`, `RenewalBegins` | `runLogin`, `runRenewal`, the flow up to its first request or prompt, `openListener` |
| `Pastes`, `CallsBack`, `PromptFails` | `awaitReturn`, `parseManualReturn`; a request to the listener; `LoginContext.prompt` |
| `Starts`, `PollsAgain`, `WaitIsOver` | `runDeviceFlow`, `LoginContext.wait` |
| `Unheard`, `BreaksOff`, `HearsFailure` | `sendAuthRequest`: no reply, a reply broken off, a redirect, an error |
| `Approved`, `Exchanges`, `Renews` | the flow's last request and what `runLogin` and `runRenewal` do with it |
| `Cancels`, `TimePasses` | the caller's signal, the clock |
| `ProviderAnswers` | the authorization server (external) |

A return is what can be told of one: of this sign-in or another, with its state,
a code, an error, both, or neither, a code alone. The provider refuses a code
that is not of the verifier sent with it (PKCE), and uses a code up only when it
answers, with a failure too, and whether or not the answer arrives. Time goes in
units of the least poll interval, `MaxTime` of them to the deadline.

- `AttemptKeepsItsWord`: a return of another sign-in, a denial included, never
  moves an attempt whose returns carry a state, and its code is never what a
  login is kept of; a login is kept only before the deadline and uncancelled
  (AUTH-18); an end that invites another try (unreachable, unavailable,
  rate-limited) spent nothing (AUTH-20.6); every end stops the listener. Of a
  gateway's error (`ServerError`) nothing is promised: it may follow a spent code.

**A shared walk** (`CloudProvider`, `CloudChains`, `cloud/chains.ts`). Calls
that need the same cloud credential join one walk over the rungs of the chain
while the machine changes under it; the result is cached or not.

- `AnswersAreCurrent`: a call gets what a walk that ended after the call began
  found, errors included, or a cached credential that had not run out; never an
  earlier walk's token that has no expiry.

**A router** (`Access`, `router.ts`, `auth/doctor.ts`, `auth/policy.ts`). A
router of one provider is built (`Constructs`), explained (`Doctor`) and used
(`FirstCall`). A site is everything it reads: environment, files, commands,
endpoints, explicit entries, settings, saved connections.

- `DoctorTellsTheTruth`: what the report offers is what the first request uses:
  no step reported as selected is passed over, none reported absent is used, an
  error of the settings is reported exactly when it stops the request.

`StopsUnseen` and `ManagedUnseen` name what the report cannot see.

## Runs

| Run | Instance | Shows |
|---|---|---|
| `ManagedAuth_renewal` | 3 calls (login, configure, cancelLogin, logout, request), 2 processes, crashes, failing writes, lapses | the safety properties above, of renewals and of attempts |
| `ManagedAuth_calls` | 2 calls of any kind, 1 process, aborts, close, crashes, lapses | `EveryCallEnds`, `ReservationHasOwner` |
| `ManagedAuth_cancel` | 2 logins and 2 cancellations in 1 process | violates `CancelAbortsRunning` |
| `ManagedAuth_rate_limit` | 2 requests, a flow that does not know 429 | violates `SafeRepliesKeep` |
| `Transport` | 4 requests to 2 origins, capacities 1 and 2, both transports | the properties of the transport |
| `StreamSession` | 3 requests to 2 origins, one of them streamed, capacities 1 and 2, both transports, 1 delta, or another source | the properties of the stream and of the composition |
| `ResponseStream_withheld` | 1 stream | violates `NeverWithheld` |
| `AnswerStream` | 24 answers of the four wires, 8 sets of stops on the Responses wire, cut off anywhere | the properties of streamed answers |
| `Calls` | 480 requests, a family of settings at a time, for each of 33 models of the servers, every policy | the properties of requests |
| `Calls_invisible` | 3 requests of a single setting, for each of the 33 models | violates `NothingIsLostInvisibly` |
| `Live` | both live dialects, one view beside a raw reader, 2 unasked frames, 1 event sent, 2 events or 3 bytes a view | the properties of live sessions |
| `Credentials` | 2 calls with a stored login, 4 tokens, 1 outside write; one attempt of each method of the flows on 32 kinds of host, a deadline 3 units away; 2 calls with a cloud chain, 2 walks over 2 machines; some 24,000 sites of 10 providers | the properties of credentials |

Bounds. Three calls are what the hazards need: a victim (a renewal or an
attempt), the call that changes the slot under it, and one that observes or
reserves afterwards; two processes give the case that nothing but the document
is shared. Each run enables the kinds and disturbances its question is about
(`Kinds`, `Disturbances`): aborts and close only in the run of two calls, which has
every exit of a call; the proofs cover all of them at once. Nothing else is
bounded: generations and revisions grow with the calls. Operations and processes
are symmetric in the safety runs; the liveness run uses no symmetry.

For the transport, four requests are a holder and three waiters, the one in the
middle of which may leave the queue, with capacity 1; and two holders with
sockets to different origins and two waiters with capacity 2, the least at which
trimming has a choice. The composition has a streamed request, one that shares
its origin and one that does not. One delta tells an event before the end from
the end and from one after it. A request is sent once, so nothing else needs a bound. The transport's
theorems hold for any number of requests, origins and capacities. Both runs
set `CHECK_DEADLOCK FALSE`: when all requests are over the system stops, and a
body that nobody reads stays open until the caller does something.

An answer has parallel calls, a summary in two parts, withheld fragments, a
final copy that differs, signatures and a closing in several frames: each
difference its wire's reader has to bear, and at most five items, since the
readers relate an item to its neighbours and calls to one another. Letters are
few so that stop sequences overlap tokens and themselves; no stop is inside
another (`StopsAssumption`). The requests vary one family of settings over all
their combinations and add the settings the builders read together with it; the
values are one on each side of every comparison the builders make; plain
requests and judgments are asked of every transcript. `Calls_invisible` asks for
one setting at a time, so that nothing else in the request explains its loss. The
live run's limits let a view overflow by count and by size, and a turn take two
frames; frames that end an answer the client asked for are not counted, so that
a limit never keeps a server from answering. Two callers are enough for a login:
a token is sent twice only if one call sends it and another one finds it; a
third adds nothing to either's steps, and the proof covers any number. Three units
are a device's expiry before the attempt's, with one poll and one `slow_down`
between. A site is
one machine of each combination of one or two sources of its chain, or one of
the other ways to configure its row. `AnswerStream`, `Calls`, `Live` and
`Credentials` stop when what they model is over, so deadlock is not checked.

Fairness. `FairSpec` asks weak fairness of the steps a call takes by itself. The
event loop runs every continuation; a wait for the lock, for the network and for
an attempt has a timeout in the code (`lockTimeoutMs`, `EXCHANGE_TIMEOUT_MS`,
`ATTEMPT_LIFETIME_MS`). A call that waits for the lock is weakly fair only: with
finitely many calls the lock is eventually free for good.

`Transport` and `StreamSession` assume less: the continuation of a settled promise runs
(`Resume`, `Unwind`, a `socket` event), and the return of a generator settles.
No response has to arrive, no consumer has to read, and no timer has to fire;
`ClosedDrains` holds without them.

`LiveSession` asks that timers fire (`OpenTimeout`, `CloseTimeout`) and
continuations run (`OpenAnswers`, `ResultGoesOn`), and that a server that was
asked, and does not wait for a tool's result, ends its answer (`ServerEnds`,
external). `result` is promised an answer only for a view that reads alone:
another reader may take the event that ends the turn.

## Disagreements found

- **A rate limit signs the user out** (`ManagedAuth_rate_limit`).
  `docs/managed-login.md:113` promises that a rate limit keeps everything; every
  flow but Kimi's turns a 429 into `LoginDenied`, and the manager drops the
  credential. With `RateLimitAware = TRUE` the property holds, and is proved.
- **A second cancellation does not stop its attempt** (`ManagedAuth_cancel`).
  The `finally` of a login removes whatever controller is registered for the
  provider. The durable half of the cancellation works (`CancelledNeverCommits`
  is proved), the running attempt is not aborted.
- **A complete Response can be withheld** (`ResponseStream_withheld`).
  `stream.ts:539-540` promises that once the end event was yielded the Response
  "is never withheld", and `docs/runtime-correctness.md:56` that `close()` is a
  "no-op after completion". The stream is `done` only when its source is
  exhausted: a reader that stops at the end event and closes makes `response()`
  reject.

## Proofs

### Managed login

`ManagedAuthProofs` proves, for any sets of calls and processes and any choice
of kinds and disturbances, `TypeOK`, `MaterialMatchesSlot`, `NoBlindReplay`,
`PinHonoured`, `CancelledNeverCommits`, `ReservationCurrent`,
`RevisionFollowsCredential`, the refinement `ImplementsConnectionSlot`, and
`SafeRepliesKeep` under `RateLimitAware`.

Assumptions: `NullAssumption` and `InitialAssumption` (a null value is no id,
record or material, the saved connection is no call), `ConstantsAssumption`
(kinds and disturbances are those of the model). TLC evaluates them in every
run.

None of the properties is inductive. `IInv` adds, among others:

- who holds the lock is in the middle of a renewal, and what it read under the
  lock (`held`) is still the document: so its final write overwrites nothing;
- the marker is set exactly while the exchange of a live renewal or one of
  unknown outcome has possibly used the token: so a token is spent only if it
  is gone from the document or the document is marked, and a marked document
  is never selected (`NoBlindReplay`);
- every id in the document or in a history set is of an operation past the step
  that draws it: so a new connection, credential or reservation is new;
- the recorded attempt's expected generation is the slot's, and both cancelling
  and committing clear it;
- a material's generation and identity were fixed when its login was recorded,
  and a pinned renewal holds the identity of its pin.

`Invariance` proves `Spec => []IInv` with one lemma per action and part, and most
other theorems follow from it. `ReservationsAreOwned` proves `ReservationHasOwner`
of a store that works (no `"store failure"` among the disturbances; with failing
writes it is false, since a failed release is swallowed): `OwnerInv` says that
the recorded attempt has its release still before it, or died; a setup, which
ends without one when its commit is refused, has then lost its reservation,
because the recorded attempt's generation is always the slot's. Liveness
(`EveryCallEnds`) stays with TLC, as do the two violations.

### Transport and streams

`TransportProofs` proves `TypeOK`, `PermitsCounted`, `NoWaiterWhileFree`,
`NoOvertaking`, `OwnSocketKept` and `SocketsBounded` from `RequestsAssumption`
(finitely many requests) and `MaximaAssumption` (a capacity is positive, which
the constructor checks).

The invariant has two halves. `AdmissionInv` adds to the three properties of the
permits that the queue holds exactly the requests that wait, in the order of
their tickets (`QueueInv`), and that tickets are taken in turn (`TicketInv`).
For admission every action is one of six steps: a refusal, an acquisition, a
waiter that fails, a request that is over, a holder that goes on, and `close`.
One lemma proves the invariant for each. The cardinalities come from the
library's theorems on finite sets.

`SocketInv` says that every socket that is not idle belongs to exactly one
request on the wire, that a socket's name is not that of a request still to be
sent (so a new one is new), and that the open sockets exceed the capacity by at
most one for each request that dials. Trimming can establish the bound because
the sockets in use are never more than the permits (`InUseBounded`, an injection
from those sockets into the holders of permits): this is where the second half
needs the first. `FetchInv` says that Fetch has no sockets.

`StreamSessionProofs` proves that the composition implements both components:
`SessionStreams` (`Spec => R!Spec`) and `SessionTransports`
(`Spec => T!Init /\ [][T!Next]_transport`). So each of the two keeps its safety
properties when it is composed.

`StreamHasOneAnswer` and `StreamResultIsFinal` follow from the first and from
`AnswerInv`: a stream that is done has no reader that could still change its
outcome, an answer was given only of a stream that is done, and `failure` tells
which answer. `DeltasAssumption` gives the abstract content of a Response its type.

`FinishedStreamsHoldNothing` and `SessionTypeCorrect` need both components at
once. `TransportProofs` is instantiated over the session's variables (the `Same*`
lemmas say that its definitions are those of the session's transport), so its
invariant holds of the session under `TransportAssumption`. To it `PlaceInv` adds
where the two meet: a stream whose reader is not pulling is at rest or has a
body that can be abandoned, and one whose source is over is at rest. A stream that is
settled has its source over (`AnswerInv`), so it is at rest, and a request at
rest holds no permit (`PermitsCounted`). What others do cannot undo it: their
steps grant a permit only to a request that waits (`RequestMoves`).

`ClosedDrains` is liveness and stays with TLC.

### Token counts

`AnswerStreamProofs` proves first, of every report a provider may send, with any
numbers or none, that settling it (`types/response.ts`) leaves no part above its whole and
a total that is the sum (`SettledIsConsistent`), and that a count is kept or
withheld but never changed (`SettledKeepsOrWithholds`).

### Credentials

`CredentialsProofs` proves `RefreshTokenSentOnce`, `AnswersAreCurrent`,
`AttemptKeepsItsWord` and `DoctorTellsTheTruth`, for any numbers of calls, tokens,
polls, walks and outside writes, any machines, any lifetime and any sites, from
`LoginAssumption` (two logins exist before the first call), `AttemptAssumption` (a
deadline lies ahead) and `NamesAssumption` (the absent value is not the name of a
source, a scheme or an error).

`RefreshTokenSentOnce` alone says nothing of where a token is. `LoginInv` adds,
of tokens that need no excuse: a token is the business of one file (`OnePlace`:
it is in the file, or with a call or sign-in that holds or brings it for that
file); a token that an exchange or a sign-in brings has not been sent or read
(`NewInv`); and a token that was sent is still asked for, under the file's lock,
or it is gone from every file and whoever waits with it will find another in its
place (`SpentInv`). The last is what reading the file again under the lock is
for, and what fails if the token read before the lock is sent.

For the shared walk: what is cached may be kept or has an end, and nobody waits
for a walk that has ended (`ProviderInv`).

An attempt's promise is about how it ends, so `AttemptInv` says what it is before:
a request in flight is of its errand, and a foreign return can only be under
exchange, in vain (`AskingIs`); while it waits for a return nothing was spent, and
it was not cut off from the provider, so that refusing to send later cannot hide
a spent code (`AttemptPoints`); and only a request that may spend, when it is
answered, did (`SpentIs`). There is one lemma for an ending and one for a request
that goes out; every action is one of the two, or waits.

"It walks the exact chain the router walks; divergence is a bug", says
`auth/doctor.ts` of `explainAuth`. `DoctorTellsTheTruth` is that, as far as a doctor
can tell who asks no server. A visit takes three steps, so the invariant
(`SiteInv`) is short and the work is in `SiteTells`, one fact about every row and
every site:

- Rung by rung (`RungAgrees`): what is called usable yields, what yields was not
  called absent, and what is called absent yields nothing, the rungs of
  `StopsUnseen` excepted. So a walk that yields ends at a rung that was offered
  (`FoundIsOffered`), and one told to be selected is where it ends
  (`SelectedIsFound`).
- Step by step (`Truthful`): a list of steps offers a source with nothing selected
  before it, and whatever it selects first is that source. The lists of a report
  are put one behind another; they stay truthful behind steps that select none
  (`BackIsTruthful`) and before any others (`FrontIsTruthful`).
- The branches of the router (`BuildIs`) and of a request (`BareBuilt`,
  `StoredBuilt`, `ChainBuilt`, `IdentityBuilt`) against the report, one lemma for
  each kind of row (`OauthMeets`, `KeyedMeets`, `DoorMeets`, `ChainMeets`) and one
  for a managed store (`ManagedMeets`); no source holds what its door cannot carry
  (`SourcesCarried`).

### Live sessions

`LiveSessionProofs` proves `EventsAreKept` for any number of views, any frames
and any limits, from `ReadersAssumption` and `FailuresAssumption` (the raw
reader is no view, an absent failure is none), `FramesAssumption` (what a Gemini
frame lists is a list) and the positive limits of `LimitsAssumption`.

That every event is somewhere says nothing of the next one: a reader could be
given the head of a queue that begins before what it has already seen. `LiveInv`
adds the numbers (`Kept`): the queue holds what follows the events dealt out,
without a gap, and what was dealt out is divided among the readers, each seeing
its share in order (`Dealt`). It says of `waiters`
(`Waiting`) that a reader waits at most once, only in the middle of a read, and
only while the queue is empty: so an event pushed to the first of them is the next
one, and an event is never queued behind a reader that waits. `Ended` says that a
reader that was told the session is over was told so when it was, and when
nothing was left. `Shapes` is the type of it all: the events a frame decodes to
are a sequence for each frame of either codec (`FrameDecodes`), which the folds
of `FoldLemmas` give. A push of several events is a fold, and the invariant is
shown of one push and carried through.

`EveryTurnIsBilled` proves `TurnBillIsItsFrames`, with `UsageAssumption` (what a frame
reports is a usage). `BillsAreHeld` is the invariant: among the events accepted, held by
a reader or in the queue, two bills of one frame are the same event (`HeldOnce`); a
bill tells what its frame spent (`HeldBills`); and a frame that spent and was not cut
has a bill among them (`SpentIsHeld`). `LiveInv` is what carries it: an event that a
step moves is neither lost nor dealt twice. A turn's usage is then a sum over its
events (`MaterializeTurn`, a fold that is unknown once a bill is), and the sum over its
frames is the same one taken through the map from a bill to its frame, which is one to
one (`WholeTurnsAreBilled`). The property excepts a frame that was cut: a Gemini frame with
a malformed part is refused together with the usage it told, and the session ends. A
frame of the run is that one.

### Streamed answers

`AnswerStreamProofs` proves `OneStartOneEnd`, `NoPartialAnswer` and `StopHonoured`, for any set of
answers of any of the four wires, with items, texts, usage and stop sequences of any
length, from `AnswersAssumption` (an item is of a kind its dialect knows, texts
are texts, the Responses wire sends the parts of a summary in order) and
`AbsenceAssumption` (an absent usage or outcome is none).

`AnswerInv` is the invariant of the pipeline.

- `Scripted`, `Counted`: the answer stays, and its last track begins only when
  every item was sent.
- `Streaming`: while the body is open, what was given out is in order and
  unended (`Flow`): if the coalescer has emitted a start then the cutter or the
  consumer has it, and if not neither has anything; the coalescer has seen an end
  only if the last track began; and once the frame that tells the usage was read,
  it has absorbed that usage with the highest rank (`Informed`), so that no frame
  after it can take its place. Each dialect's reader has a lemma for the events
  of its items (`Mid`: deltas alone) and of its closing frames (`Kin`: deltas, then
  an end that tells what it should).
- `Concluded`: when the body is over, what was given out is in order, an answer
  is ended, and one that was not cut came of a body that was sent whole.

`OneStartOneEnd` and the first half of `NoPartialAnswer` follow from it.

The second half, that no Response contradicts a final copy, needs what the reader
of the Responses wire remembers. `Delivered` says, of every item, that the text the
reader has seen at its index is the text of the fragments sent, as far as they
were sent (`SeenAt`), with the blank lines between the parts of a summary that the
reader puts there; and that an item whose final copy was read agrees with it
(`Complete`), for `remainder` refuses it otherwise. It is stated of counts and not of
what was sent, so that the step of a fragment is one equation of texts
(`TextGrows`), and a step of another item leaves it alone (`Elsewhere`).

`StopHonouredHolds` proves `StopHonoured`, from `StopsAssumption` as well (a caller
asks for a finite set of texts, none a part of another). The letters of the
stream are followed from the server to the consumer:

- What the reader lets be said, `Spoke`, is a beginning of what the answer says in
  full. `Sequent`: the items come one after another, calls apart. `Uttered`: of an
  item that is being sent the reader has seen the text of its fragments, and of one
  that is done the final copy. So a fragment or a final copy adds its letters at
  the end and nowhere else (`SendUtters`). The full text is what the complete
  Response says, refusals as texts (`FullIsSpoken`).
- The cutter splits what was said into what it gave and what it holds (`Holding`): no
  stop sequence starts in the whole, and what was given ends before any text that may
  begin one (`Released`). An event keeps that, or is the one that completes a sequence;
  then what was given is exactly the text before the first one (`Halving`).
  `PushedHeeds` is the step of one event, `PushedAllHeeds` of what one frame makes.
- A stop sequence found in a beginning is the first of the full text as
  well, for none is a part of another: a shorter one cannot start later and end
  sooner. The last event of a body lets go of what is held (`HoldingIsFaithful`,
  `HalvingIsFaithful`), and the body is closed at the cut, so nothing is read
  after it.

`StopInv` joins these: `Told` (the complete Response is of this answer), `Stopping`
(only the Responses wire is cut here; the other servers are sent the sequences),
`Heeding` (while the body is open) and `StopHonoured` itself once it is not.

### Requests

`CallsProofs` proves `CallKeepsThePlan`, for any servers of the four dialects and
any requests `LegalRequest` admits (`RequestsAssumption`), any subset of the three
policies (`PoliciesAssumption`) and any null value that names no setting
(`AbsenceAssumption`). `ServersAssumption` says which dialects there are.

A plan and its call are two builds of one request, which differ in their policy.
The proof takes both through the same steps:

- `Alike`: the two builders agree on everything but the policy; and if the call
  refuses deviations, none is recorded yet.
- `Refused`: the call refuses deviations and has failed, and the plan has
  recorded one, or failed.
- `Follows`: one or the other. Every step of a builder keeps it (the `*Keeps`
  lemmas, one for each operator of `Settings`, `Compat` and the builders), and
  none takes back a failure or a deviation (`Steady`), so what is `Refused` stays so.

What makes this more than a restatement: a step may read of a builder only what
is `Alike` in both. Its arguments are shown to be functions of the request, the
server and the settings as they are by then (`Core`), and of the body so far
where a builder looks at it. A step that read the records or the policy, or that
changed a setting under one policy only, would fail its lemma; so would a fold
over settings with such a step (`FoldTrace` of `FoldLemmas`).

`CallInv` adds to the property what the plan is (`Preview` of the request), so
that a call can be compared with it; it is that of the whole state and needs
nothing of how the plan came to be. Of a measured judgment the call is the same
build of the judgment as the plan, under its own policy (`ScoreKeeps`); it may
besides fail at a key that is not closed, which the property excepts.
`PlannedOtherwise` is the exception the property names (see Divergences).

`CoverageIsAShareHolds` proves `CoverageIsAShare` for any tokenizer of
`TokenizersAssumption`: a judgment has finitely many keys and one at least, a key is
tokens, two keys differ after their common prefix, and the token that closes a key is in
no key. The last two make the paths of closed keys prefix-free, which
is what `token_trie.ts` relies on when it adds likelihoods up. The argument is Kraft's.
The paths that begin as some path does are a branch of the trie; `EachShares` shows,
from the leaves down to the root, that the likelihoods of the paths of a branch add up to no more
than the product of the shares on the way to it: a leaf has its own (`LeafShares`), and
at a node the branches after it divide what came to it (`BranchShares`).
`CoverageOfAnyShares` states the result apart from this model's numbers: it holds of every
table of shares which, after each node, add up to no more than the whole. `MeasuredInv`
says that a measured call measured the paths of one judgment's keys, and failed if a
key was not closed.

### Folds

The models fold sequences and flatten them. `FoldLemmas` proves what the proofs
above need of `FoldLeft` and `FlattenSeq`: that a fold is the last of a row of
values, each the step of the one before (`FoldTrace`); a fold of none, of one and
of one more; the length of a flattened sequence and where its elements are from
(`Flattened`, `FlattenOfMore`). The library's induction takes an operator and
cannot be used; a fact that is to be shown of every natural number is stated as
the set of numbers that have it (`SetInduction`), and one of every finite set as the
set of its subsets that have it (`SubsetInduction`). So a sum over a finite set has its
equation (`SumEquation`), grows by the term of one more (`SumOfMore`), and is the sum
of its two parts (`SumOfBoth`).

### Not proved

- `SameAnswer`, `ScoresOfKeptText` and `ReplayLossless` compare
  what two conversions make of the same parts, one by one; they are checked
  answer by answer.
- Of the properties of requests (`Calls`), `LostOnlyWhereKnown`, `Settled`,
  `ReadsBack` and `TranscriptKept` are about what a conversion makes of each setting
  or part, and are checked request by request.
- Liveness stays with TLC.

## Divergences

What the properties name as exceptions, because the code does otherwise than
its neighbour or than a reader would expect. Each is an operator of the module,
so a change of the code would make the property fail or the exception idle.

**Streamed against complete** (`*Carried`, `AnswerStream`)

- A Chat stream drops refusals and names the model that was asked for, not the
  one that answered. A length-limited answer with a tool call finishes
  "tool_call" when complete and "length" when streamed (Chat, Anthropic, Gemini).
- A Responses stream gives a refusal as text, citations without the cited text,
  and the text of a final copy without scores, though the scores are marked
  complete.
- An Anthropic thinking block with a signature only streams as an empty text
  part; empty text blocks are dropped. A Gemini stream drops citations and
  documents, and merges neighbouring texts of different chunks.
- A stream that is cut after a tool call finishes "tool_call", not "stop", and
  a cut at a part's first letter leaves no empty part. Of nested stop sequences
  the inner one may cut.
- A Chat stream whose finish arrived and whose usage did not is an answer
  without usage; a usage frame without a finish counts as an end.

**Requests** (`Calls`: `KnownSilent`, `PlannedOtherwise`, `Unreadable`, `Placeless`)

- Lost without a record, against `adaptation.ts:2` ("adapt freely, never
  invisibly") and `README.md:155` ("never silently"), which the run
  `Calls_invisible` shows: the level on a server that only switches reasoning on
  or off; effort and summary on a Responses server with another reasoning
  format; the summary on an Anthropic server with another thinking format;
  probabilities where an Anthropic server rejects schemas; a long retention
  where nothing was marked; the effort beside an explicit budget; the position
  of a cache on a wire without marks; the tool choice beside a stored Gemini cache.
- The plan of a judgment previews `complete`, not `stream`, on a server that
  scores tokens. A body of instructions only, or one in which reasoning is only
  switched on, cannot be read back. Data and citations of the model's own
  messages have no place on the OpenAI wires.
- An image, audio or document of the model's own message is refused on the OpenAI
  wires, by the preflight that put an end to parts dropped "silently"
  (`wire.ts:236-238`). A judgment that is scored, with no other property, does
  not pass through it (`openai_chat.ts:618`, `668`): the part is dropped, and not
  recorded. `TranscriptKept` excepts just that (`Placeless`).
- `openai_shared.ts:170` says a breakpoint is recorded once; for one model family
  it is recorded twice.

**Live sessions** (`LiveCodec`, `LiveSession`)

- A Gemini frame that is both interrupted and complete, or an OpenAI error
  followed by the response's end, leaves a terminal event in the queue: the next
  turn ends at once, with the bill of the one before.
- Gemini's usage without content is not read (`gemini.ts:878`), an audio part
  without data fails the session, and an OpenAI response that ends in a call
  bills the view after it.
- A turn end without usage makes the turn's bill unknown. Messages that arrive
  after `close()` are still queued until the socket closes.

**Credentials** (`StopsUnseen`, `ManagedUnseen`, `StoredLogins`)

- A broken xAI file counts as none, so a router falls to the metered key of the
  environment. A client already built goes on with Pi's login after a sign-out.
- A call that waits at a sign-out may store its renewed login over the marker,
  and xAI writes back the whole document read before the exchange
  (`stores.ts:707`).
- A router ignores an explicit entry for rows that only sign in, though
  `stores.ts:769` says that an explicit key always wins.
- Output of a credential process without an expiry is cached for ever; the
  comment at `chains.ts:1347` says it cannot be.
- The doctor shows as absent, and a request stops at: a credential process that
  is not on the path, a refused container address, malformed AWS and Google
  files, a named identity of another kind. Of a managed store it names no error
  of the settings, and shows as absent what it cannot read at once.
- Outside a router's own environment (`RouterConfig.env`), an adapter looks for
  its endpoint in the process's (`adapter.ts:205`).

## Not modelled

- **Jobs** (`jobs.ts`): a snapshot that overlapping calls overwrite; next in the
  plan.
- **Tunnel** (`tunnel/*`): its state is that of the TLS engine, a library.
- **Login engine**: the methods' fields, the checks of a token's fields, the
  tunnel a relay may use, and the terminal's prompts (`terminal.ts`).
- **Registry, caches of adapters, resolution of model names** (`router.ts`,
  `registry.ts`); **files, batches, stored caches, images, speech, video**
  (`adapter.ts`, dialects): one request each, without state of their own.
- **Bytes**: splitting into lines and server-sent events, decoders, JSON, base64,
  signing; **the steps of an atomic write and the addon's system calls**; error
  texts, logging, hints.
- Of the modelled dialects: the media of the Responses wire, tool ids a server
  does not send, message-level continuation, and the wrapping of raw audio.

## Plan

1. Done: managed login; transport, response stream and their composition;
   stream assembly, stops and the four stream readers; stored logins, cloud
   chains, router and doctor; attempts of the login flows; request builders and
   their record; live sessions.
2. Jobs: `refresh`, `wait` and `cancel` over one snapshot.
3. Registry and the caches of adapters.
