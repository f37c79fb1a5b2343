----------------------------- MODULE ManagedAuth -----------------------------
(***************************************************************************)
(* The managed login of one provider slot: any number of operations        *)
(* (login, configure, cancelLogin, logout, requestAuth, verify) running in *)
(* several processes over one store, with process crashes, failing writes, *)
(* cancellation, lapsing reservations and renewals whose outcome is lost   *)
(* (login/manager.ts over login/store.ts).                                 *)
(*                                                                         *)
(* An operation is a call; it starts at most once.  A step is the code     *)
(* between two points where another operation can run: a wait for the      *)
(* store's lock or for the network.  A `mutate` of the store and the code  *)
(* that continues it in the same turn of the event loop are one step taken *)
(* while nobody holds the lock: nothing but the last write of a            *)
(* transaction is visible outside it, and a crash inside one leaves the    *)
(* store as before or as after it.                                         *)
(* A renewal writes twice under the lock, so it takes three steps.         *)
(***************************************************************************)
EXTENDS ManagedSlot

CONSTANTS
  Procs,           \* the processes, one Auth each
  Kinds,           \* the operations the application uses
  Disturbances,    \* what else may happen to them
  RateLimitAware   \* the flow raises RateLimitError for a 429 (kimi.ts only)

AllKinds == {"login", "configure", "cancelLogin", "logout", "request", "verify"}

AllDisturbances == {"abort", "close", "crash", "store failure", "lapse"}

ASSUME ConstantsAssumption ==
  /\ Null \notin Procs
  /\ Null \notin Ops
  /\ Kinds \subseteq AllKinds
  /\ Disturbances \subseteq AllDisturbances
  /\ RateLimitAware \in BOOLEAN

VARIABLES
  record, material,   \* the document: the slot's record, the saved material
  lock,               \* the operation holding the store's lock across steps
  spent,              \* refresh tokens the provider has used up
  aged,               \* credentials within the renewal lead of their expiry
  lapsed,             \* reservations older than their budget
  active, closed,     \* per process: #active (its controller), core.closed
  pc, kind, proc,     \* per operation: where it is, what it is, whose it is
  arg,                \* replace, the logout target, or the pin
  expected,           \* the generation observed by the reservation
  aborted,            \* the attempt's AbortController was aborted
  held,               \* the document a renewal read under the lock
  reply,              \* what became of a renewal's exchange
  got,                \* the identity whose credential the call was given
  since,              \* history: the generation when the call began
  cancelled,          \* history: attempts durably cancelled
  committed           \* history: attempts whose commit was written

document == <<record, material>>
external == <<spent, aged, lapsed>>
process == <<active, closed>>
call == <<kind, proc, arg, since>>
attempts == <<expected, aborted>>
renewal == <<held, reply>>
history == <<cancelled, committed>>

vars == <<document, lock, external, process, pc, call, attempts, renewal, got,
          history>>

Labels ==
  {"idle", "reserving", "running", "committing", "releasing", "cancelling",
   "resolving", "forgetting", "reading", "renewing", "exchanging",
   "answered", "recording", "done", "dead"}

Replies ==
  {"rotated", "kept", "rejected", "rate_limited", "server_error", "not_sent",
   "lost"}

TheSlot == SlotView(record, material)

Due(m) == m.timed /\ m.cred \in aged

Live(o) == pc[o] \notin {"idle", "done", "dead"}

TypeOK ==
  /\ record \in Slot \cup {Null}
  /\ material \in Material \cup {Null}
  /\ lock \in Ops \cup {Null}
  /\ spent \subseteq Ids /\ aged \subseteq Ids /\ lapsed \subseteq Ids
  /\ active \in [Procs -> Ops \cup {Null}]
  /\ closed \in [Procs -> BOOLEAN]
  /\ pc \in [Ops -> Labels]
  /\ kind \in [Ops -> AllKinds \cup {Null}]
  /\ proc \in [Ops -> Procs \cup {Null}]
  /\ arg \in [Ops -> Ids \cup Identity \cup {Null}]
  /\ expected \in [Ops -> Nat]
  /\ aborted \in [Ops -> BOOLEAN]
  /\ held \in [Ops -> [slot : Slot, material : Material] \cup {Null}]
  /\ reply \in [Ops -> Replies \cup {Null}]
  /\ got \in [Ops -> Identity \cup {Null}]
  /\ since \in [Ops -> Nat]
  /\ cancelled \subseteq Ids /\ committed \subseteq Ids

-----------------------------------------------------------------------------
(* What may be in the store when the processes start. *)

SavedMaterial ==
  [oauth |-> TRUE, cred |-> Initial, token |-> Initial, timed |-> TRUE,
   gen |-> 1]

SavedSlot == [CommittedSlot(EmptySlot, Initial, TRUE) EXCEPT !.previous = {}]

InitDocument ==
  \/ record = Null /\ material = Null                         \* empty
  \/ record = Null /\ material = SavedMaterial                \* legacy entry
  \/ record = SavedSlot /\ material = SavedMaterial           \* connected
  \/ record = ForgottenSlot(SavedSlot) /\ material = Null     \* signed out

Init ==
  /\ InitDocument
  /\ lock = Null
  /\ spent = {} /\ aged = {} /\ lapsed = {}
  /\ active = [p \in Procs |-> Null]
  /\ closed = [p \in Procs |-> FALSE]
  /\ pc = [o \in Ops |-> "idle"]
  /\ kind = [o \in Ops |-> Null]
  /\ proc = [o \in Ops |-> Null]
  /\ arg = [o \in Ops |-> Null]
  /\ expected = [o \in Ops |-> 0]
  /\ aborted = [o \in Ops |-> FALSE]
  /\ held = [o \in Ops |-> Null]
  /\ reply = [o \in Ops |-> Null]
  /\ got = [o \in Ops |-> Null]
  /\ since = [o \in Ops |-> 0]
  /\ cancelled = {} /\ committed = {}

-----------------------------------------------------------------------------
(* Steps *)

Goto(o, label) == pc' = [pc EXCEPT ![o] = label]

(* Operation o of kind k is called in process p and goes on at label. *)
Call(o, p, k, a, label) ==
  /\ pc[o] = "idle" /\ k \in Kinds
  /\ Goto(o, label)
  /\ kind' = [kind EXCEPT ![o] = k]
  /\ proc' = [proc EXCEPT ![o] = p]
  /\ arg' = [arg EXCEPT ![o] = a]
  /\ since' = [since EXCEPT ![o] = TheSlot.gen]
  /\ UNCHANGED <<document, lock, external, process, attempts, renewal, got,
                 history>>

(* The ids a caller may have seen: the current connection's. *)
SeenIds == {TheSlot.cid} \ {Null}

Login(o, p) ==
  /\ ~closed[p]
  /\ \E replace \in SeenIds \cup {Null} : Call(o, p, "login", replace, "reserving")

Configure(o, p) ==
  /\ ~closed[p]
  /\ \E replace \in SeenIds \cup {Null} :
       Call(o, p, "configure", replace, "reserving")

CancelLogin(o, p) == Call(o, p, "cancelLogin", Null, "cancelling")

Logout(o, p) ==
  /\ ~closed[p]
  /\ \/ Call(o, p, "logout", Null, "forgetting")
     \/ \E target \in SeenIds : Call(o, p, "logout", target, "resolving")

(***************************************************************************)
(* A request is unpinned, or pinned to the connection its client was bound *)
(* to: the current one, or the first one, replaced or signed out since.    *)
(***************************************************************************)
Pins ==
  {[gen |-> TheSlot.gen, cid |-> id] : id \in SeenIds} \cup
  {[gen |-> 1, cid |-> id] : id \in TheSlot.previous \cap {Initial}}

RequestAuth(o, p) ==
  \E pin \in Pins \cup {Null} : Call(o, p, "request", pin, "reading")

Verify(o, p) == ~closed[p] /\ Call(o, p, "verify", Null, "reading")

(* Operation o was passed an AbortSignal, and the caller aborts it. *)
AbortSignal(o) ==
  /\ "abort" \in Disturbances
  /\ kind[o] = "login" /\ Live(o) /\ ~aborted[o]
  /\ aborted' = [aborted EXCEPT ![o] = TRUE]
  /\ UNCHANGED <<document, lock, external, process, pc, call, expected,
                 renewal, got, history>>

(* Aborting the attempt a process is running, if it has one registered. *)
AbortActive(p) ==
  aborted' = IF active[p] = Null THEN aborted
             ELSE [aborted EXCEPT ![active[p]] = TRUE]

Close(p) ==
  /\ "close" \in Disturbances
  /\ ~closed[p]
  /\ closed' = [closed EXCEPT ![p] = TRUE]
  /\ AbortActive(p)
  /\ UNCHANGED <<document, lock, external, active, pc, call, expected,
                 renewal, got, history>>

-----------------------------------------------------------------------------
(* login and configure: reserve, run the method, commit or release *)

ReservationRefused(o) ==
  LET slot == TheSlot IN
  \/ slot.attempt # Null /\ slot.attempt \notin lapsed   \* login_in_progress
  \/ slot.cid # Null /\ arg[o] = Null                    \* connection_exists
  \/ arg[o] # Null /\ slot.cid # arg[o]                  \* connection_changed

Reserve(o) ==
  /\ pc[o] = "reserving" /\ lock = Null
  /\ \/ /\ ReservationRefused(o)
        /\ Goto(o, "done")
        /\ UNCHANGED <<document, expected, active>>
     \/ /\ ~ReservationRefused(o)
        /\ record' = ReservedSlot(TheSlot, o)
        /\ expected' = [expected EXCEPT ![o] = TheSlot.gen]
        /\ active' = IF kind[o] = "login" THEN [active EXCEPT ![proc[o]] = o]
                     ELSE active
        /\ Goto(o, "running")
        /\ UNCHANGED material
  /\ UNCHANGED <<lock, external, closed, call, aborted, renewal, got, history>>

(***************************************************************************)
(* The call ends; the `finally` of a login is `#active.delete(provider)`,  *)
(* whatever attempt is registered there by now.                            *)
(***************************************************************************)
Finish(o) ==
  /\ Goto(o, "done")
  /\ active' = IF kind[o] = "login" THEN [active EXCEPT ![proc[o]] = Null]
               ELSE active

(* The method returned material and the attempt was neither cancelled nor late. *)
MethodSucceeds(o) ==
  /\ pc[o] = "running"
  /\ ~aborted[o]
  /\ Goto(o, "committing")
  /\ UNCHANGED <<document, lock, external, process, call, attempts, renewal,
                 got, history>>

\* Mutant: a failed method leaves its reservation behind.
MethodFailsSilently(o) ==
  /\ pc[o] = "running"
  /\ Finish(o)
  /\ UNCHANGED <<document, lock, external, closed, call, attempts, renewal,
                 got, history>>

(* Cancelled, expired, denied, indeterminate, or any other failure. *)
MethodFails(o) ==
  /\ pc[o] = "running"
  /\ Goto(o, "releasing")
  /\ UNCHANGED <<document, lock, external, process, call, attempts, renewal,
                 got, history>>

\* Mutant: trusts the generation alone.
CommitRefusedLate(o) == TheSlot.gen # expected[o]

(* After a failed commit a login releases its reservation; configure ends. *)
CommitFails(o) ==
  IF kind[o] = "login" THEN Goto(o, "releasing") /\ UNCHANGED active
  ELSE Finish(o)

(* invalid_login_state or connection_changed *)
CommitRefused(o) == TheSlot.attempt # o \/ TheSlot.gen # expected[o]

Commit(o) ==
  /\ pc[o] = "committing" /\ lock = Null
  /\ LET slot == TheSlot IN
     \/ /\ CommitRefused(o)
        /\ CommitFails(o)
        /\ UNCHANGED <<document, committed>>
     \/ /\ ~CommitRefused(o)
        /\ \E m \in {RecipeMaterial(o, slot.gen + 1)} \cup
                    (IF kind[o] = "login" THEN LoginMaterial(o, slot.gen + 1)
                     ELSE {}) :
             /\ record' = CommittedSlot(slot, o, m.oauth)
             /\ material' = m
        /\ committed' = committed \cup {o}
        /\ Finish(o)
  /\ UNCHANGED <<lock, external, closed, call, attempts, renewal, got,
                 cancelled>>

Release(o) ==
  /\ pc[o] = "releasing" /\ lock = Null
  /\ record' = IF TheSlot.attempt = o THEN ReservedSlot(TheSlot, Null)
               ELSE record
  /\ Finish(o)
  /\ UNCHANGED <<material, lock, external, closed, call, attempts, renewal,
                 got, history>>

-----------------------------------------------------------------------------
(* cancelLogin: the durable record first, then the running attempt here *)

CancelAttempt(o) ==
  /\ pc[o] = "cancelling" /\ lock = Null
  /\ IF TheSlot.attempt = Null THEN UNCHANGED <<record, cancelled>>
     ELSE /\ record' = ReservedSlot(TheSlot, Null)
          /\ cancelled' = cancelled \cup {TheSlot.attempt}
  /\ AbortActive(proc[o])
  /\ Goto(o, "done")
  /\ UNCHANGED <<material, lock, external, process, call, expected, renewal,
                 got, committed>>

-----------------------------------------------------------------------------
(* logout *)

(* An id is looked up among current and previous ids, without the lock. *)
ResolveTarget(o) ==
  /\ pc[o] = "resolving"
  /\ Goto(o, IF arg[o] \in PreviousIds(TheSlot) THEN "forgetting" ELSE "done")
  /\ UNCHANGED <<document, lock, external, process, call, attempts, renewal,
                 got, history>>

NothingToForget(o) ==
  \/ arg[o] # Null /\ TheSlot.cid # arg[o]
  \/ TheSlot.cid = Null /\ TheSlot.attempt = Null

\* Mutant: forgets the slot and not the credential.
ForgetSlotOnly(o) ==
  /\ pc[o] = "forgetting" /\ lock = Null
  /\ IF NothingToForget(o)
     THEN UNCHANGED <<record, aborted, cancelled>>
     ELSE /\ record' = ForgottenSlot(TheSlot)
          /\ cancelled' = cancelled \cup ({TheSlot.attempt} \ {Null})
          /\ AbortActive(proc[o])
  /\ Goto(o, "done")
  /\ UNCHANGED <<material, lock, external, process, call, expected, renewal,
                 got, committed>>

Forget(o) ==
  /\ pc[o] = "forgetting" /\ lock = Null
  /\ IF NothingToForget(o)
     THEN UNCHANGED <<document, aborted, cancelled>>
     ELSE /\ record' = ForgottenSlot(TheSlot)
          /\ material' = Null
          /\ cancelled' = cancelled \cup ({TheSlot.attempt} \ {Null})
          /\ AbortActive(proc[o])
  /\ Goto(o, "done")
  /\ UNCHANGED <<lock, external, process, call, expected, renewal, got,
                 committed>>

(* The running attempt is aborted inside the mutation, before a write that fails. *)
ForgetUnsaved(o) ==
  /\ "store failure" \in Disturbances
  /\ pc[o] = "forgetting" /\ lock = Null
  /\ ~NothingToForget(o)
  /\ AbortActive(proc[o])
  /\ Goto(o, "done")
  /\ UNCHANGED <<document, lock, external, process, call, expected, renewal,
                 got, history>>

-----------------------------------------------------------------------------
(* requestAuth and verify *)

(* The caller has a credential of the given identity. *)
Serve(o, identity) ==
  /\ got' = [got EXCEPT ![o] = identity]
  /\ Goto(o, IF kind[o] = "verify" THEN "recording" ELSE "done")

Pin(o) == IF kind[o] = "request" THEN arg[o] ELSE Null

\* Mutant: forgets the pin of a bound client.
SelectedUnpinned(o) == CheckSelected(TheSlot, material, Null) = "selected"

Selected(o) == CheckSelected(TheSlot, material, Pin(o)) = "selected"

(* The unlocked read: serve, refuse, or go and renew. *)
ReadSelection(o) ==
  /\ pc[o] = "reading"
  /\ LET slot == TheSlot IN
     \/ /\ slot.marker /\ slot.state # "indeterminate"
        /\ Goto(o, "renewing") /\ UNCHANGED got
     \/ /\ ~slot.marker \/ slot.state = "indeterminate"
        /\ ~Selected(o)
        /\ Goto(o, "done") /\ UNCHANGED got
     \/ /\ Selected(o)
        /\ IF Due(material)
           THEN Goto(o, "renewing") /\ UNCHANGED got
           ELSE Serve(o, IdentityOf(slot))
  /\ UNCHANGED <<document, lock, external, process, call, attempts, renewal,
                 history>>

(* Under the lock: re-read, re-check, reuse a sibling's result, or refuse.  *)
RenewSettled(o) ==
  /\ pc[o] = "renewing" /\ lock = Null
  /\ LET slot == TheSlot IN
     \/ /\ ~Selected(o)
        /\ Goto(o, "done") /\ UNCHANGED <<document, got>>
     \/ /\ Selected(o)
        /\ ~Due(material)
        /\ Serve(o, IdentityOf(slot)) /\ UNCHANGED document
     \/ /\ Selected(o)
        /\ Due(material) /\ ~Renewable(slot, material)
        /\ record' = MarkedSlot(slot, "needs_login", FALSE)
        /\ material' = Null
        /\ Goto(o, "done") /\ UNCHANGED got
  /\ UNCHANGED <<lock, external, process, call, attempts, renewal, history>>

(* Under the lock: the durable in-flight marker before the exchange. *)
RenewMarks(o) ==
  /\ pc[o] = "renewing" /\ lock = Null
  /\ LET marked == [TheSlot EXCEPT !.marker = TRUE] IN
     /\ Selected(o)
     /\ Due(material) /\ Renewable(TheSlot, material)
     /\ record' = marked
     /\ held' = [held EXCEPT ![o] = [slot |-> marked, material |-> material]]
  /\ lock' = o
  /\ Goto(o, "exchanging")
  /\ UNCHANGED <<material, external, process, call, attempts, reply, got,
                 history>>

(***************************************************************************)
(* The exchange.  The provider uses the refresh token up when it rotates   *)
(* it, and may have when its answer is lost.  An answer that is not a      *)
(* success, a 5xx included, is taken to leave the token usable, as the     *)
(* code takes it ("known safe").                                           *)
(***************************************************************************)
Exchange(o) ==
  /\ pc[o] = "exchanging"
  /\ \E r \in Replies :
       /\ reply' = [reply EXCEPT ![o] = r]
       /\ \/ r \in {"rotated", "lost"}
             /\ spent' = spent \cup {held[o].material.token}
          \/ r # "rotated" /\ UNCHANGED spent
  /\ Goto(o, "answered")
  /\ UNCHANGED <<document, lock, aged, lapsed, process, call, attempts, held,
                 got, history>>

\* Mutant: a lost answer is taken for a refused connection.
VerdictHopeful(r) ==
  CASE r \in {"rotated", "kept"} -> "renewed"
    [] r \in {"rejected", "rate_limited"} -> "denied"
    [] r \in {"server_error", "not_sent", "lost"} -> "safe"

\* Mutant: every answer that is not a success is a denial.
VerdictHarsh(r) ==
  CASE r \in {"rotated", "kept"} -> "renewed"
    [] r \in {"rejected", "rate_limited", "server_error"} -> "denied"
    [] r = "not_sent" -> "safe"
    [] r = "lost" -> "uncertain"

(* How the flow and `#renew` take a reply. *)
Verdict(r) ==
  CASE r \in {"rotated", "kept"} -> "renewed"
    [] r = "rejected" -> "denied"
    [] r = "rate_limited" -> IF RateLimitAware THEN "safe" ELSE "denied"
    [] r \in {"server_error", "not_sent"} -> "safe"
    [] r = "lost" -> "uncertain"

RenewedMaterial(m, o, r) ==
  [m EXCEPT !.cred = o, !.token = IF r = "rotated" THEN o ELSE @]

RenewWrites(o) ==
  /\ pc[o] = "answered"
  /\ LET slot == held[o].slot
         saved == held[o].material
         verdict == Verdict(reply[o])
     IN
     \/ /\ verdict = "renewed"
        /\ record' = RenewedSlot(slot)
        /\ material' = RenewedMaterial(saved, o, reply[o])
        /\ Serve(o, IdentityOf(slot))
     \/ /\ verdict = "denied"
        /\ record' = MarkedSlot(slot, "needs_login", FALSE)
        /\ material' = Null
        /\ Goto(o, "done") /\ UNCHANGED got
     \/ /\ verdict = "safe"
        /\ record' = MarkedSlot(slot, "ready", FALSE)
        /\ material' = saved
        /\ Goto(o, "done") /\ UNCHANGED got
     \/ /\ verdict = "uncertain"
        /\ record' = MarkedSlot(slot, "indeterminate", TRUE)
        /\ material' = saved
        /\ Goto(o, "done") /\ UNCHANGED got
  /\ lock' = Null
  /\ held' = [held EXCEPT ![o] = Null]
  /\ UNCHANGED <<external, process, call, attempts, reply, history>>

(* The transaction rejects: its lock is released, its last write is not made. *)
RenewUnsaved(o) ==
  /\ "store failure" \in Disturbances
  /\ pc[o] = "answered"
  /\ lock' = Null
  /\ held' = [held EXCEPT ![o] = Null]
  /\ Goto(o, "done")
  /\ UNCHANGED <<document, external, process, call, attempts, reply, got,
                 history>>

(* The model list answered (valid) or was refused (rejected): record it. *)
RecordVerification(o) ==
  /\ pc[o] = "recording" /\ lock = Null
  /\ record' = IF TheSlot.cid = Null THEN record
               ELSE [TheSlot EXCEPT !.verified = got[o].cid]
  /\ Goto(o, "done")
  /\ UNCHANGED <<material, lock, external, process, call, attempts, renewal,
                 got, history>>

(* The model list failed in another way, and verify rethrows. *)
VerifyFails(o) ==
  /\ pc[o] = "recording"
  /\ Goto(o, "done")
  /\ UNCHANGED <<document, lock, external, process, call, attempts, renewal,
                 got, history>>

-----------------------------------------------------------------------------
(***************************************************************************)
(* The store fails a single-write operation before the write: the lock     *)
(* times out, the document is unreadable, or the write throws.  A login    *)
(* that reserved goes on to release; a failing release is swallowed.       *)
(***************************************************************************)
StoreFails(o) ==
  /\ "store failure" \in Disturbances
  /\ \/ /\ pc[o] \in {"reserving", "cancelling", "resolving", "forgetting",
                      "reading", "renewing", "recording"}
        /\ Goto(o, "done") /\ UNCHANGED active
     \/ pc[o] = "committing" /\ CommitFails(o)
     \/ pc[o] = "releasing" /\ Finish(o)
  /\ UNCHANGED <<document, lock, external, closed, call, attempts, renewal,
                 got, history>>

\* Mutant: a lock that outlives its process.
LockAfterCrashKept(p) == lock

LockAfterCrash(p) == IF lock # Null /\ proc[lock] = p THEN Null ELSE lock

(***************************************************************************)
(* Process p dies: its calls end where they are and the kernel releases    *)
(* its lock.  The same p stands for the process started in its place.      *)
(***************************************************************************)
Crash(p) ==
  /\ "crash" \in Disturbances
  /\ \E o \in Ops : proc[o] = p /\ Live(o)
  /\ pc' = [o \in Ops |-> IF proc[o] = p /\ Live(o) THEN "dead" ELSE pc[o]]
  /\ lock' = LockAfterCrash(p)
  /\ held' = [o \in Ops |-> IF proc[o] = p THEN Null ELSE held[o]]
  /\ active' = [active EXCEPT ![p] = Null]
  /\ closed' = [closed EXCEPT ![p] = FALSE]
  /\ UNCHANGED <<document, external, call, attempts, reply, got, history>>

(* The clock passes the renewal lead of the saved credential. *)
Age ==
  /\ material # Null /\ material.timed /\ material.cred \notin aged
  /\ aged' = aged \cup {material.cred}
  /\ UNCHANGED <<document, lock, spent, lapsed, process, pc, call, attempts,
                 renewal, got, history>>

(* The clock passes the budget of the recorded reservation. *)
Lapse ==
  /\ "lapse" \in Disturbances
  /\ TheSlot.attempt # Null /\ TheSlot.attempt \notin lapsed
  /\ lapsed' = lapsed \cup {TheSlot.attempt}
  /\ UNCHANGED <<document, lock, spent, aged, process, pc, call, attempts,
                 renewal, got, history>>

Start(o, p) ==
  \/ Login(o, p) \/ Configure(o, p) \/ CancelLogin(o, p) \/ Logout(o, p)
  \/ RequestAuth(o, p) \/ Verify(o, p)

(* The steps an operation takes by itself once called. *)
Progress(o) ==
  \/ Reserve(o) \/ MethodSucceeds(o) \/ MethodFails(o)
  \/ Commit(o) \/ Release(o) \/ CancelAttempt(o)
  \/ ResolveTarget(o) \/ Forget(o) \/ ForgetUnsaved(o)
  \/ ReadSelection(o) \/ RenewSettled(o) \/ RenewMarks(o) \/ Exchange(o)
  \/ RenewWrites(o) \/ RenewUnsaved(o)
  \/ RecordVerification(o) \/ VerifyFails(o)
  \/ StoreFails(o)

(* Every operation has been called and has ended. *)
Ended == (\A o \in Ops : pc[o] \in {"done", "dead"}) /\ UNCHANGED vars

Next ==
  \/ \E o \in Ops, p \in Procs : Start(o, p)
  \/ \E o \in Ops : Progress(o) \/ AbortSignal(o)
  \/ \E p \in Procs : Close(p) \/ Crash(p)
  \/ Age \/ Lapse
  \/ Ended

Spec == Init /\ [][Next]_vars

(***************************************************************************)
(* Every call ends by itself: a lock acquisition times out, an exchange    *)
(* and an attempt have budgets, and nothing waits for another call without *)
(* one of these.  Crashes, clocks and the application owe nothing.         *)
(***************************************************************************)
FairSpec == Spec /\ \A o \in Ops : WF_vars(Progress(o))

-----------------------------------------------------------------------------
(* Safety *)

(***************************************************************************)
(* What is saved beside a slot is the credential of that slot's connection *)
(* and generation: no renewal, verification, release or late commit writes *)
(* a replaced or signed out credential back, or saves one beside a slot    *)
(* that has no connection (manager.ts `#renew`, `#commit`, `logout`).      *)
(***************************************************************************)
MaterialMatchesSlot ==
  material # Null => /\ TheSlot.cid # Null
                     /\ material.gen = TheSlot.gen

(***************************************************************************)
(* AUTH-20.4: a refresh token the provider has used up is never sent       *)
(* again, whichever process renews, whoever died or lost an answer in the  *)
(* middle of the exchange that used it up, and whatever write failed.      *)
(***************************************************************************)
NoBlindReplay ==
  \A o \in Ops : pc[o] = "exchanging" => held[o].material.token \notin spent

(***************************************************************************)
(* AUTH-20.1: a call pinned to a connection and a generation is given that *)
(* connection's credential or an error, and no call is given a credential  *)
(* of a generation that had been replaced before it was made.              *)
(***************************************************************************)
PinHonoured ==
  \A o \in Ops : got[o] # Null =>
    /\ Pin(o) # Null => got[o] = Pin(o)
    /\ got[o].gen >= since[o]

(***************************************************************************)
(* AUTH-19: once cancelLogin or logout has recorded the end of an attempt, *)
(* that attempt never saves a connection, even if its provider answers.    *)
(***************************************************************************)
CancelledNeverCommits == cancelled \cap committed = {}

(***************************************************************************)
(* AUTH-18: a reservation is of the generation its attempt observed, and   *)
(* its attempt has neither committed nor been cancelled.  So the commit's  *)
(* second check, `connection_changed`, never fires once its first passes.  *)
(***************************************************************************)
ReservationCurrent ==
  LET o == TheSlot.attempt IN
  o # Null => /\ o \in Ops => expected[o] = TheSlot.gen
              /\ o \notin cancelled \cup committed

-----------------------------------------------------------------------------
(* Action properties *)

(***************************************************************************)
(* A definite non-success that cannot have used the token up (a server     *)
(* error, a rate limit, a refused connection) keeps the saved credential.  *)
(***************************************************************************)
SafeReplies == {"rate_limited", "server_error", "not_sent"}

KeepsCredential(o) ==
  pc[o] = "answered" /\ pc'[o] = "done" /\ reply[o] \in SafeReplies /\ lock' = Null
    => material' = material

SafeRepliesKeep == [][\A o \in Ops : KeepsCredential(o)]_vars

(***************************************************************************)
(* The revision counts the renewals of one connection: within a generation *)
(* it never goes back, and the saved credential changes only with it.      *)
(***************************************************************************)
RevisionFollowsCredential ==
  [][TheSlot'.gen = TheSlot.gen =>
       /\ TheSlot'.rev >= TheSlot.rev
       /\ material' \notin {material, Null} => TheSlot'.rev > TheSlot.rev]_vars

-----------------------------------------------------------------------------
(* What the slot promises, whoever runs: module ConnectionSlot *)

SlotPhase ==
  IF TheSlot.cid = Null THEN "absent"
  ELSE IF lock # Null THEN "renewing"
  ELSE IF TheSlot.marker THEN "unknown"
  ELSE IF TheSlot.state = "needs_login" THEN "rejected"
  ELSE "ready"

Slots == INSTANCE ConnectionSlot
           WITH gen <- TheSlot.gen, id <- TheSlot.cid, phase <- SlotPhase,
                None <- Null

(***************************************************************************)
(* The slot's document, shared by the processes, behaves as one connection *)
(* slot: identities change only by a sign-in or a sign-out, which draw a   *)
(* new generation and wait for a renewal in progress, and a renewal of     *)
(* unknown outcome stays unknown until then.                               *)
(***************************************************************************)
ImplementsConnectionSlot == Slots!Spec

-----------------------------------------------------------------------------
(* Liveness *)

(* Every call ends, or its process dies, whatever the other calls do. *)
EveryCallEnds == \A o \in Ops : Live(o) ~> ~Live(o)

-----------------------------------------------------------------------------
(* What comments of manager.ts say, and a fault-free store makes true or not *)

(***************************************************************************)
(* "Any exit without a saved connection ends the attempt, so its           *)
(* reservation must not outlive it" (login): a recorded reservation is of  *)
(* a running attempt or of one whose process died.                         *)
(***************************************************************************)
ReservationHasOwner ==
  \A o \in Ops : TheSlot.attempt = o => Live(o) \/ pc[o] = "dead"

(***************************************************************************)
(* "the durable record first (AUTH-19), then the running attempt here"     *)
(* (cancelLogin): once it has returned, the attempt it cancelled is        *)
(* aborted if it runs in the same process.                                 *)
(***************************************************************************)
CancelAbortsRunning ==
  \A c, o \in Ops :
    /\ kind[c] = "cancelLogin" /\ pc[c] = "done"
    /\ kind[o] = "login" /\ pc[o] = "running" /\ proc[o] = proc[c]
    /\ o \in cancelled
    => aborted[o]
=============================================================================
