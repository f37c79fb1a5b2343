---------------------------- MODULE StoredLogins ----------------------------
(***************************************************************************)
(* The older doors to a stored login (auth/stores.ts): a call reads the    *)
(* token a command-line tool or lm15 saved and, when it is past expiry,    *)
(* renews it under the kernel lock of the file, reading the file again.    *)
(* Calls of several processes meet each other, the tool that owns the file *)
(* and takes no lock, the sign-out of the managed store, and crashes.      *)
(*                                                                         *)
(* A generation g is an access token and the refresh token minted with it; *)
(* 0 is none.                                                              *)
(***************************************************************************)
EXTENDS Naturals, FiniteSets

CONSTANTS
  Callers,    \* calls that get a token, each in a process of its own
  MaxToken,   \* generations the issuer mints
  MaxOutside, \* writes of the tool that owns the file
  MaxPolls    \* polls of a device sign-in

ASSUME LoginAssumption ==
  /\ MaxToken \in Nat /\ MaxToken >= 2 /\ MaxPolls \in Nat
  /\ "nobody" \notin Callers

Generations == 1..MaxToken

(***************************************************************************)
(* shop: whose login; places: its files, in the order they are tried.  A   *)
(* file is missing, broken (unreadable or not a JSON object) or an object: *)
(* access and refresh of the entry, loggedOut the marker of a sign-out,    *)
(* others the version of everything else in it.                            *)
(* holder: who holds each kernel lock.                                     *)
(* call: at, from the file read, kept the refresh token read before the    *)
(* lock, asked the token sent, answer of the issuer, seen the document     *)
(* read under the lock, result.                                            *)
(* device: a device sign-in, its polls left and its interval.              *)
(***************************************************************************)
VARIABLES shop, file, holder, call, aged, minted, spent, device, outside

(* History: how often each refresh token was sent by a call, and those for *)
(* which a second sending is explained.                                    *)
VARIABLES sent, excused

loginVars == <<shop, file, holder, call, aged, minted, spent, device, outside, sent, excused>>

Places == IF shop = "xai" THEN <<"own", "pi">> ELSE <<"own">>
Files == {"own", "pi"}

Missing == [form |-> "missing", access |-> 0, refresh |-> 0, loggedOut |-> FALSE, others |-> 0]
Document(access, refresh) ==
  [form |-> "object", access |-> access, refresh |-> refresh, loggedOut |-> FALSE, others |-> 0]

NoAnswer == [kind |-> "none", access |-> 0, refresh |-> 0]
NoCall ==
  [at |-> "idle", from |-> "own", kept |-> 0, asked |-> 0, answer |-> NoAnswer,
   seen |-> Missing, result |-> "none"]

LoginInit ==
  /\ shop \in {"claude-code", "openai-codex", "xai"}
  /\ file \in [Files -> {Missing, Document(1, 1), Document(2, 2), Document(2, 0)}]
  /\ file["own"].access # 2 /\ file["pi"].access \in (IF shop = "xai" THEN {0, 2} ELSE {0})
  /\ holder = [f \in Files |-> "nobody"]
  /\ call = [c \in Callers |-> NoCall]
  /\ aged = {} /\ minted = 2 /\ spent = {} /\ outside = 0
  /\ device = [at |-> "idle", left |-> 0, interval |-> 1]
  /\ sent = [g \in Generations |-> 0] /\ excused = {}

-----------------------------------------------------------------------------
(* Reading *)

Expired(document) == document.access \in aged

\* A file without the entry, or without a file, is passed over by xAI's
\* loader and refused by the others; either way nothing is found.
Found == {i \in DOMAIN Places : file[Places[i]].access # 0}
Source == Places[CHOOSE i \in Found : \A j \in Found : i <= j]

(* The offline answer of the router's chain for xAI. *)
XaiStoredState ==
  LET told == {i \in DOMAIN Places : file[Places[i]].access # 0 \/ file[Places[i]].loggedOut}
      first == file[Places[CHOOSE i \in told : \A j \in told : i <= j]]
  IN IF told = {} THEN "absent"
     ELSE IF first.access = 0 THEN "logged_out"
     ELSE IF Expired(first) /\ first.refresh = 0 THEN "unusable" ELSE "usable"

End(c, result) == call' = [call EXCEPT ![c] = [NoCall EXCEPT !.at = "over", !.result = result]]

\* A call ends at once, on what it read before any lock.
Refused(c) ==
  /\ call[c].at = "idle"
  /\ \/ Found = {} /\ End(c, "not_configured")
     \/ Found # {} /\ Expired(file[Source]) /\ End(c, "expired")   \* or refresh: false
     \/ shop = "xai" /\ XaiStoredState # "usable"    \* of a router that builds its client now
        /\ End(c, IF XaiStoredState = "absent" THEN "env_key" ELSE "blocked")
  /\ UNCHANGED <<shop, file, holder, aged, minted, spent, device, outside, sent, excused>>

Served(c) ==
  /\ call[c].at = "idle" /\ Found # {} /\ ~Expired(file[Source])
  /\ End(c, "token")
  /\ UNCHANGED <<shop, file, holder, aged, minted, spent, device, outside, sent, excused>>

Waits(c) ==
  /\ call[c].at = "idle" /\ Found # {}
  /\ Expired(file[Source]) /\ file[Source].refresh # 0
  /\ call' = [call EXCEPT ![c] =
       [NoCall EXCEPT !.at = "waiting", !.from = Source, !.kept = file[Source].refresh]]
  /\ UNCHANGED <<shop, file, holder, aged, minted, spent, device, outside, sent, excused>>

-----------------------------------------------------------------------------
(* Under the lock the file is read again.  A token another call stored in  *)
(* the meantime is used; else the refresh token is sent, xAI's falling     *)
(* back on the one read before the lock when the entry has none.           *)

\* Mutant: the refresh token read before the lock.
TokenReadBefore(c) == call[c].kept

TokenToSend(c) ==
  IF shop = "xai" /\ file[call[c].from].refresh = 0 THEN call[c].kept
  ELSE file[call[c].from].refresh

\* Mutant: the caller renews without looking whether another call did.
RenewsAnyway(c) == call[c].at = "waiting"

StillExpired(c) ==
  LET now == file[call[c].from] IN now.access = 0 \/ Expired(now)

Granted(c) == call[c].at = "waiting" /\ holder[call[c].from] = "nobody"

SharesRenewal(c) ==
  /\ Granted(c) /\ ~StillExpired(c)
  /\ End(c, "token")
  /\ UNCHANGED <<shop, file, holder, aged, minted, spent, device, outside, sent, excused>>

GivesUp(c) ==
  /\ Granted(c) /\ StillExpired(c)
  /\ \/ shop # "xai" /\ file[call[c].from].access = 0 /\ End(c, "not_configured")
     \/ /\ shop # "xai" /\ file[call[c].from].access # 0 /\ file[call[c].from].refresh = 0
        /\ End(c, "expired")
  /\ UNCHANGED <<shop, file, holder, aged, minted, spent, device, outside, sent, excused>>

Asks(c) ==
  /\ Granted(c) /\ StillExpired(c)
  /\ shop = "xai" \/ file[call[c].from].access # 0
  /\ LET token == TokenToSend(c) IN
       /\ token # 0
       /\ sent' = [sent EXCEPT ![token] = @ + 1]
       /\ call' = [call EXCEPT ![c].at = "asking", ![c].asked = token,
                               ![c].seen = file[call[c].from]]
  /\ holder' = [holder EXCEPT ![call[c].from] = c]
  /\ UNCHANGED <<shop, file, aged, minted, spent, device, outside, excused>>

\* The deadline is looked at when the lock was found held.
LockTimesOut(c) ==
  /\ call[c].at = "waiting" /\ holder[call[c].from] # "nobody"
  /\ End(c, "lock_timeout")
  /\ UNCHANGED <<shop, file, holder, aged, minted, spent, device, outside, sent, excused>>

-----------------------------------------------------------------------------
(* The issuer takes a refresh token once; it may answer without a new one  *)
(* (kept by Codex and xAI, an incomplete answer for Claude Code), fail, or *)
(* its answer may be lost.  A call cannot tell these failures apart.       *)

Answering(c, answer) == call' = [call EXCEPT ![c].answer = answer]
Asked(c) == call[c].at = "asking" /\ call[c].answer = NoAnswer

IssuerRotates(c) ==
  /\ Asked(c) /\ call[c].asked \notin spent /\ minted < MaxToken
  /\ minted' = minted + 1 /\ spent' = spent \cup {call[c].asked}
  /\ \/ Answering(c, [kind |-> "ok", access |-> minted', refresh |-> minted'])
        /\ UNCHANGED excused
     \/ Answering(c, [NoAnswer EXCEPT !.kind = "failed"])
        /\ excused' = excused \cup {call[c].asked}
  /\ UNCHANGED <<shop, file, holder, aged, device, outside, sent>>

IssuerKeeps(c) ==
  /\ Asked(c) /\ call[c].asked \notin spent /\ minted < MaxToken
  /\ minted' = minted + 1 /\ excused' = excused \cup {call[c].asked}
  /\ Answering(c, IF shop = "claude-code" THEN [NoAnswer EXCEPT !.kind = "failed"]
                  ELSE [kind |-> "ok", access |-> minted', refresh |-> call[c].asked])
  /\ UNCHANGED <<shop, file, holder, aged, spent, device, outside, sent>>

IssuerRefuses(c) ==
  /\ Asked(c) /\ Answering(c, [NoAnswer EXCEPT !.kind = "failed"])
  /\ excused' = excused \cup {call[c].asked}
  /\ UNCHANGED <<shop, file, holder, aged, minted, spent, device, outside, sent>>

Release(c) == holder' = [holder EXCEPT ![call[c].from] = "nobody"]

(* Claude Code and Codex merge into the file as it is when written, xAI    *)
(* into the document read before the exchange.                             *)
Stored(c) ==
  [(IF shop = "xai" THEN call[c].seen ELSE file[call[c].from])
     EXCEPT !.form = "object", !.access = call[c].answer.access, !.refresh = call[c].answer.refresh]

Stores(c) ==
  /\ call[c].at = "asking" /\ call[c].answer.kind = "ok"
  /\ file' = [file EXCEPT ![call[c].from] = Stored(c)]
  /\ End(c, "token") /\ Release(c)
  /\ UNCHANGED <<shop, aged, minted, spent, device, outside, sent, excused>>

\* A write that fails leaves the file as it was; the new tokens are lost.
Fails(c) ==
  /\ call[c].at = "asking" /\ call[c].answer.kind # "none"
  /\ End(c, IF call[c].answer.kind = "ok" THEN "write_failed" ELSE "renewal_failed")
  /\ Release(c) /\ excused' = excused \cup {call[c].asked}
  /\ UNCHANGED <<shop, file, aged, minted, spent, device, outside, sent>>

(* The kernel releases the lock of a process that dies. *)
Crashes(c) ==
  /\ call[c].at \in {"waiting", "asking"}
  /\ End(c, "crashed")
  /\ holder' = [f \in Files |-> IF holder[f] = c THEN "nobody" ELSE holder[f]]
  /\ excused' = excused \cup ({call[c].asked} \ {0})
  /\ UNCHANGED <<shop, file, aged, minted, spent, device, outside, sent>>

-----------------------------------------------------------------------------
(* Around the calls *)

Ages ==
  /\ \E g \in 1..minted \ aged : aged' = aged \cup {g}
  /\ UNCHANGED <<shop, file, holder, call, minted, spent, device, outside, sent, excused>>

\* What a waiting call still holds once its file was changed under it.
HeldFrom(f) == {call[c].kept : c \in {d \in Callers : call[d].at = "waiting" /\ call[d].from = f}}

(* The tool that owns the file renews, restores an earlier login, writes   *)
(* something else, removes or breaks it, and takes no lock.                *)
Tools == IF shop = "xai" THEN {"pi"} ELSE {"own"}
OutsideWrites ==
  /\ outside < MaxOutside /\ outside' = outside + 1
  /\ \E f \in Tools :
       /\ \/ \E g \in 1..minted, kept \in BOOLEAN :
               file' = [file EXCEPT ![f] =
                 [Document(g, IF kept THEN g ELSE 0) EXCEPT !.others = outside']]
          \/ file' = [file EXCEPT ![f] = Missing]
          \/ file' = [file EXCEPT ![f] = [Missing EXCEPT !.form = "broken"]]
       /\ excused' = excused \cup HeldFrom(f) \cup ({file'[f].refresh} \ {0})
  /\ UNCHANGED <<shop, holder, call, aged, minted, spent, device, sent>>

(* The managed store signs xAI out in one transaction (login/manager.ts). *)
ManagerSignsOut ==
  /\ shop = "xai" /\ holder["own"] = "nobody" /\ file["own"].access # 0
  /\ file' = [file EXCEPT !["own"] = [@ EXCEPT !.access = 0, !.refresh = 0, !.loggedOut = TRUE]]
  /\ excused' = excused \cup HeldFrom("own")
  /\ UNCHANGED <<shop, holder, call, aged, minted, spent, device, outside, sent>>

-----------------------------------------------------------------------------
(* The device sign-in of xAI: polls, then stores under the lock. *)

DeviceOver == [at |-> "over", left |-> 0, interval |-> 0]

DeviceStarts ==
  /\ shop = "xai" /\ device.at = "idle"
  /\ \/ device' = [device EXCEPT !.at = "polling", !.left = MaxPolls]
     \/ device' = DeviceOver
  /\ UNCHANGED <<shop, file, holder, call, aged, minted, spent, outside, sent, excused>>

DevicePolls ==
  /\ device.at = "polling"
  /\ LET left == IF device.interval < device.left THEN device.left - device.interval ELSE 0 IN
     IF left = 0 THEN device' = DeviceOver /\ UNCHANGED minted
     ELSE \/ device' = [device EXCEPT !.left = left] /\ UNCHANGED minted               \* pending
          \/ device' = [device EXCEPT !.left = left, !.interval = @ + 1] /\ UNCHANGED minted
          \/ device' = DeviceOver /\ UNCHANGED minted  \* denied, expired, other
          \/ /\ minted < MaxToken /\ minted' = minted + 1
             /\ device' = [device EXCEPT !.at = "storing", !.left = minted']
  /\ UNCHANGED <<shop, file, holder, call, aged, spent, outside, sent, excused>>

DeviceStores ==
  /\ device.at = "storing" /\ holder["own"] = "nobody"
  /\ \E refresh \in {device.left, file["own"].refresh} :     \* an answer without one keeps the entry's
       file' = [file EXCEPT !["own"] =
         [@ EXCEPT !.form = "object", !.access = device.left, !.refresh = refresh]]
  /\ device' = DeviceOver
  /\ UNCHANGED <<shop, holder, call, aged, minted, spent, outside, sent, excused>>

-----------------------------------------------------------------------------
LoginNext ==
  \/ \E c \in Callers :
       \/ Refused(c) \/ Served(c) \/ Waits(c)
       \/ SharesRenewal(c) \/ GivesUp(c) \/ Asks(c) \/ LockTimesOut(c)
       \/ IssuerRotates(c) \/ IssuerKeeps(c) \/ IssuerRefuses(c)
       \/ Stores(c) \/ Fails(c) \/ Crashes(c)
  \/ Ages \/ OutsideWrites \/ ManagerSignsOut
  \/ DeviceStarts \/ DevicePolls \/ DeviceStores

(* A refresh token is spent by one exchange (getClaudeCodeAccessToken,     *)
(* getCodexCliCredential, getXaiAccessToken): calls that found the same    *)
(* expired login send its token once, unless an answer was refused or      *)
(* lost, a process died or a write failed before the new one was stored,   *)
(* or the login was replaced or removed under a waiting call.              *)
RefreshTokenSentOnce == \A g \in Generations : sent[g] > 1 => g \in excused
=============================================================================
