---------------------------- MODULE LoginAttempt ----------------------------
(***************************************************************************)
(* One attempt of a login flow (login/engine.ts, login/run.ts, the flows   *)
(* and the loopback listener): it opens, waits for the person's return or  *)
(* polls a device code, exchanges what it got, and is kept or ends in one  *)
(* of the errors of AUTH-24; or it renews a saved login with one request.  *)
(* The caller's cancellation, the deadline, returns that belong to another *)
(* sign-in, and a network that loses requests and answers meet it at every *)
(* point.                                                                  *)
(***************************************************************************)
EXTENDS Naturals

CONSTANT
  MaxTime   \* units of time a deadline may be away

ASSUME AttemptAssumption == MaxTime \in Nat \ {0}

(***************************************************************************)
(* A method of a flow.  way: a return of an authorization page, or a       *)
(* device code.  listen: whether it opens a loopback listener when one can *)
(* be had, must have one, or never does.  state: its returns carry a state *)
(* value.  direct: a page may read its replies.  after: the request that   *)
(* follows the return or the device's approval.  renews: by a refresh      *)
(* token, by minting again, or never; limited: a renewal may be rate       *)
(* limited.  evidence: the availability recorded for native hosts.         *)
(***************************************************************************)
ByCode ==
  [way |-> "code", listen |-> "maybe", state |-> TRUE, direct |-> FALSE, after |-> "exchange",
   renews |-> "refresh", limited |-> FALSE, evidence |-> "unverified"]
ByDevice == [ByCode EXCEPT !.way = "device", !.listen = "never", !.after = "none"]

ClaudeHosted == [ByCode EXCEPT !.listen = "never"]
ClaudeLoopback == ByCode
CodexBrowser == [ByCode EXCEPT !.direct = TRUE]
OpenRouter == [ByCode EXCEPT !.listen = "must", !.state = FALSE, !.direct = TRUE, !.renews = "never"]
CodexDevice == [ByDevice EXCEPT !.direct = TRUE, !.after = "exchange"]
Copilot == [ByDevice EXCEPT !.after = "mint", !.renews = "mint"]
Meta == Copilot
Kimi == [ByDevice EXCEPT !.direct = TRUE, !.limited = TRUE]
Xai == [ByDevice EXCEPT !.evidence = "supported"]

Methods == {ClaudeHosted, ClaudeLoopback, CodexBrowser, OpenRouter, CodexDevice, Copilot, Meta, Kimi, Xai}

(***************************************************************************)
(* Where an attempt runs: the platform, whether a relay carries sign-in    *)
(* traffic, whether unverified methods are allowed, whether the host can   *)
(* open a listener, and whether the caller named its page as the return.   *)
(***************************************************************************)
Venues == [host : {"native", "browser"}, relay : BOOLEAN, allow : BOOLEAN, loopback : BOOLEAN, page : BOOLEAN]
Headless == [host |-> "native", relay |-> FALSE, allow |-> FALSE, loopback |-> FALSE, page |-> FALSE]

(***************************************************************************)
(* order: the errand (a login or a renewal), its method and venue.         *)
(* attempt: at, its result, and whose return it acted on.                  *)
(* request: the last one asked, the provider's answer to it, and whether   *)
(* that spent something that can be used once.                             *)
(***************************************************************************)
VARIABLES order, attempt, listener, request, cancelled, remaining, interval

attemptVars == <<order, attempt, listener, request, cancelled, remaining, interval>>

NotAsked == [ask |-> "none", answer |-> "none", spent |-> FALSE]

AttemptInit ==
  /\ order \in [errand : {"login", "renewal"}, method : Methods, venue : Venues]
  /\ attempt = [at |-> "new", result |-> "none", heeded |-> "none"]
  /\ listener = "none" /\ request = NotAsked
  /\ cancelled = FALSE /\ remaining = MaxTime /\ interval = 1

method == order.method
venue == order.venue

\* OpenRouter's flow sends the person back to a page when one is named.
ByPage == ~method.state /\ venue.page
Listens == IF ByPage THEN "never" ELSE method.listen
AllowsBareCode == ~method.state /\ ~ByPage

\* Requests that may spend something one-use: a code, an approval, a
\* refresh token (AUTH-20.6).
Consumes(ask) == ask \in {"poll", "exchange"} \/ (ask = "renew" /\ method.renews = "refresh")

\* A page that cannot read the replies, and no relay for them.
CutOff == venue.host = "browser" /\ ~method.direct /\ ~venue.relay

Availability == IF venue.host = "native" THEN method.evidence ELSE IF CutOff THEN "unavailable" ELSE "unverified"

-----------------------------------------------------------------------------
(* The cancellation and the deadline, looked at before every step *)

Stopped == cancelled \/ remaining = 0
WhyStopped == IF cancelled THEN "cancelled" ELSE "expired"

\* Every exit stops the listener.
Closed == IF listener = "open" THEN "closed" ELSE listener

Ends(result, heeded) ==
  /\ attempt' = [at |-> "over", result |-> result, heeded |-> heeded] /\ listener' = Closed
  /\ UNCHANGED <<order, request, cancelled, remaining, interval>>

EndsWith(result) == Ends(result, attempt.heeded)

Sends(ask, heeded) ==
  IF Stopped \/ CutOff THEN Ends(IF Stopped THEN WhyStopped ELSE "unavailable", heeded)
  ELSE /\ attempt' = [at |-> "asking", result |-> "none", heeded |-> heeded] /\ listener' = Closed
       /\ request' = [ask |-> ask, answer |-> "none", spent |-> FALSE]
       /\ UNCHANGED <<order, cancelled, remaining, interval>>

(* The caller's signal, and time: a wait of the device flow takes its own. *)
Cancels ==
  /\ attempt.at # "over" /\ cancelled' = TRUE
  /\ UNCHANGED <<order, attempt, listener, request, remaining, interval>>

TimePasses ==
  /\ attempt.at \in {"returning", "asking"} /\ remaining > 0 /\ remaining' = remaining - 1
  /\ UNCHANGED <<order, attempt, listener, request, cancelled, interval>>

-----------------------------------------------------------------------------
(* The beginning *)

\* The page's address or a listener is ready; the first prompt looks at the deadline.
AwaitsReturn(opened) ==
  IF Stopped THEN EndsWith(WhyStopped)
  ELSE /\ attempt' = [attempt EXCEPT !.at = "returning"] /\ listener' = opened
       /\ UNCHANGED <<order, request, cancelled, remaining, interval>>

\* The port may be busy: a flow that can do without is pasted to instead.
OpensListener ==
  \/ Listens = "never" /\ AwaitsReturn("none")
  \/ Listens # "never" /\ venue.host = "native" /\ venue.loopback /\ AwaitsReturn("open")
  \/ Listens = "maybe" /\ AwaitsReturn("none")
  \/ Listens = "must" /\ EndsWith("unavailable")

SignInBegins ==
  /\ attempt.at = "new" /\ order.errand = "login"
  /\ IF Availability = "unavailable" \/ (Availability = "unverified" /\ ~venue.allow) THEN EndsWith("unavailable")
     ELSE IF method.way = "device" THEN Sends("start", "none")
     ELSE OpensListener

\* A saved login may have nothing to renew with; a minted key stays as it is.
RenewalBegins ==
  /\ attempt.at = "new" /\ order.errand = "renewal"
  /\ \/ method.renews = "never" /\ EndsWith("kept")
     \/ method.renews # "never" /\ (Sends("renew", "none") \/ EndsWith("denied"))

-----------------------------------------------------------------------------
(***************************************************************************)
(* A return: of this sign-in or another, what it carries, whether the      *)
(* state value of its sign-in is with it, and whether it is a code alone.  *)
(* Garbled is a text or address that cannot be this sign-in's return.      *)
(***************************************************************************)
Garbled == [owner |-> "foreign", carries |-> "garbage", state |-> FALSE, bare |-> FALSE]
Return ==
  [owner : {"own", "foreign"}, carries : {"code", "error", "both", "neither"}, state : BOOLEAN, bare : {FALSE}]
  \cup [owner : {"own", "foreign"}, carries : {"code"}, state : {FALSE}, bare : {TRUE}]
  \cup {Garbled}

OurState(r) == r.state /\ r.owner = "own"

\* A denial is believed before the state is looked at.
ReadDenialFirst(r) ==
  IF r.carries = "error" THEN "denied"
  ELSE IF r.carries = "code" /\ (IF method.state THEN OurState(r) ELSE r.bare => AllowsBareCode) THEN "code" ELSE "invalid"

\* parseManualReturn: the state is looked at before a denial is believed.
Read(r) ==
  IF \/ r.carries \in {"garbage", "both"}
     \/ r.bare /\ ~AllowsBareCode
     \/ method.state /\ ~OurState(r)
  THEN "invalid"
  ELSE CASE r.carries = "error" -> "denied" [] r.carries = "code" -> "code" [] OTHER -> "invalid"

\* An invalid paste is asked for again; the legitimate wait goes on.
Heeds(r) ==
  /\ Read(r) # "invalid"
  /\ IF Read(r) = "denied" THEN Ends("denied", r.owner) ELSE Sends(method.after, r.owner)

Pastes(r) ==
  /\ attempt.at = "returning"
  /\ IF Stopped THEN EndsWith(WhyStopped) ELSE Heeds(r)

\* The listener answers whoever knows its path, which is secret where there
\* is no state, and does not look at the deadline.
CallsBack(r) ==
  /\ attempt.at = "returning" /\ listener = "open" /\ ~r.bare /\ (method.state \/ r.owner = "own")
  /\ Heeds(r)

\* The prompt ends without an answer: dropped by the attempt (when its timer
\* rings a little early, as if cancelled), cancelled by the person, or failed.
PromptFails ==
  /\ attempt.at = "returning"
  /\ EndsWith("cancelled") \/ EndsWith(IF Stopped THEN WhyStopped ELSE "error")

-----------------------------------------------------------------------------
(* A request on its way *)

\* What the provider answers; it refuses a code that is not of the verifier
\* sent with it (PKCE).
AnswersTo(ask) ==
  {"refused", "server_error", "redirect"}
  \cup (IF ask = "exchange" /\ attempt.heeded = "foreign" THEN {} ELSE {"ok"})
  \cup (IF ask = "poll" THEN {"pending", "slow_down"} ELSE {})
  \cup (IF ask = "poll" /\ method.after # "exchange" THEN {"denied", "expired"} ELSE {})
  \cup (IF ask = "renew" /\ method.limited THEN {"limited"} ELSE {})

\* A failure may come after the code was used: a reply without its tokens,
\* a gateway's error.
Spends(ask, answer) ==
  IF ~Consumes(ask) THEN {FALSE}
  ELSE CASE answer = "ok" -> {TRUE} [] answer \in {"refused", "server_error"} -> BOOLEAN [] OTHER -> {FALSE}

ProviderAnswers ==
  /\ attempt.at = "asking" /\ request.answer = "none"
  /\ \E answer \in AnswersTo(request.ask) : \E used \in Spends(request.ask, answer) :
       request' = [request EXCEPT !.answer = answer, !.spent = used]
  /\ UNCHANGED <<order, attempt, listener, cancelled, remaining, interval>>

\* No answer arrives.  Only a native host can tell that nothing was sent;
\* a page cannot tell a refused exchange from a lost one.
Unheard ==
  /\ attempt.at = "asking"
  /\ IF Stopped THEN EndsWith(WhyStopped)
     ELSE IF venue.host = "browser" THEN EndsWith(IF Consumes(request.ask) THEN "indeterminate" ELSE "unavailable")
     ELSE EndsWith("indeterminate") \/ (request.answer = "none" /\ EndsWith("unreachable"))

\* The answer's body breaks off.
BreaksOff ==
  /\ attempt.at = "asking" /\ request.answer \notin {"none", "redirect"}
  /\ EndsWith(IF Stopped THEN WhyStopped ELSE IF Consumes(request.ask) THEN "indeterminate" ELSE "unavailable")

-----------------------------------------------------------------------------
(* What is heard *)

Heard(answer) == attempt.at = "asking" /\ request.answer = answer

Failure ==
  [refused |-> "denied", denied |-> "denied", expired |-> "expired", redirect |-> "unavailable",
   server_error |-> "server_error", limited |-> "rate_limited"]

HearsFailure == request.answer \in DOMAIN Failure /\ Heard(request.answer) /\ EndsWith(Failure[request.answer])

WaitsFor(time, pace) ==
  IF Stopped THEN EndsWith(WhyStopped)
  ELSE /\ attempt' = [attempt EXCEPT !.at = "waiting"] /\ remaining' = time /\ interval' = pace
       /\ UNCHANGED <<order, listener, request, cancelled>>

\* The device code's own expiry brings the deadline nearer.
Starts ==
  /\ request.ask = "start" /\ Heard("ok")
  /\ \E time \in 1..MaxTime, pace \in 1..MaxTime : (Stopped \/ time <= remaining) /\ WaitsFor(time, pace)

\* slow_down adds to the interval; beyond MaxTime it only waits out the deadline.
PollsAgain ==
  /\ request.ask = "poll"
  /\ \/ Heard("pending") /\ WaitsFor(remaining, interval)
     \/ Heard("slow_down") /\ WaitsFor(remaining, IF interval < MaxTime THEN interval + 1 ELSE interval)

WaitIsOver ==
  /\ attempt.at = "waiting"
  /\ IF cancelled THEN EndsWith("cancelled")
     ELSE IF remaining <= interval
     THEN /\ attempt' = [attempt EXCEPT !.at = "over", !.result = "expired"] /\ remaining' = 0
          /\ UNCHANGED <<order, listener, request, cancelled, interval>>
     ELSE /\ attempt' = [attempt EXCEPT !.at = "asking"] /\ remaining' = remaining - interval
          /\ request' = [ask |-> "poll", answer |-> "none", spent |-> FALSE]
          /\ UNCHANGED <<order, listener, cancelled, interval>>

\* A result received before the deadline cannot be kept after it (AUTH-18).
Finishes == IF Stopped THEN EndsWith(WhyStopped) ELSE EndsWith("kept")

Approved ==
  /\ request.ask = "poll" /\ Heard("ok")
  /\ IF method.after = "none" THEN Finishes ELSE Sends(method.after, attempt.heeded)

Exchanges == request.ask \in {"exchange", "mint"} /\ Heard("ok") /\ Finishes

\* What was renewed is kept, however late: the old token may be gone.
Renews == request.ask = "renew" /\ Heard("ok") /\ EndsWith("kept")

AttemptNext ==
  \/ SignInBegins \/ RenewalBegins \/ Cancels \/ TimePasses
  \/ \E r \in Return : Pastes(r) \/ CallsBack(r)
  \/ PromptFails \/ ProviderAnswers \/ Unheard \/ BreaksOff \/ HearsFailure
  \/ Starts \/ PollsAgain \/ WaitIsOver \/ Approved \/ Exchanges \/ Renews

-----------------------------------------------------------------------------
(* What an attempt promises.  A return of another sign-in never moves one  *)
(* whose returns carry a state: its code is not exchanged, and its error   *)
(* does not end the attempt as denied (parseManualReturn, the listener).   *)
(* A login is kept only of the person's own return, with the deadline      *)
(* ahead and no cancellation.  An end that invites another try of the same *)
(* request means nothing one-use was spent by it (AUTH-20.6).  However an  *)
(* attempt ends, its listener is stopped.                                  *)
AttemptKeepsItsWord ==
  /\ order.method.state => attempt.heeded # "foreign"
  /\ attempt.result = "kept" => attempt.heeded # "foreign"
  /\ attempt.result = "kept" /\ order.errand = "login" => ~cancelled /\ remaining > 0
  /\ attempt.result \in {"unreachable", "unavailable", "rate_limited"} => ~request.spent
  /\ attempt.at = "over" => listener # "open"
=============================================================================
