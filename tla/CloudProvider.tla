--------------------------- MODULE CloudProvider ---------------------------
(***************************************************************************)
(* credentialProvider (cloud/chains.ts): the callers of one door share one *)
(* walk of its chain and one cached credential, while the machine the walk *)
(* reads changes under it and credentials run out.                         *)
(***************************************************************************)
EXTENDS CloudChains

CONSTANTS
  Users,       \* calls that need the credential
  Moving,      \* sequence of the machines the scene goes through, by chain
  MaxWalks     \* walks started

(***************************************************************************)
(* chain: policy and machine by its number; user: at, since the number of  *)
(* walks ended when the call began, and its answer; walk: the rung being   *)
(* tried (0: none runs), whether a developer command failed, walks ended.  *)
(* cached: Null or [life, dated].                                          *)
(***************************************************************************)
VARIABLES chain, user, walk, cached

providerVars == <<chain, user, walk, cached>>

NotCalled == [at |-> "idle", since |-> 0, answer |-> Null]

ProviderInit ==
  /\ \E policy \in DOMAIN Moving : chain = [policy |-> policy, machine |-> 1]
  /\ user = [u \in Users |-> NotCalled]
  /\ walk = [rung |-> 0, failed |-> FALSE, ended |-> 0]
  /\ cached = Null

Machine == Moving[chain.policy][chain.machine]
Rungs == Walk(chain.policy, Null, Null)

\* What a rung's value says of its end: a static key has none and is kept,
\* a token of a command may have none; "past" is a value already expired.
Static == {"env:AWS_ACCESS_KEY_ID", "shared-credentials-file", "config-file"}
Lives(r) ==
  IF r \in Static THEN {[life |-> "fresh", kept |-> TRUE, dated |-> FALSE]}
  ELSE [life : {"fresh", "past"}, kept : {TRUE}, dated : {TRUE}] \cup
       (IF r \in {"az", "pwsh", "azd", "gcloud", "credential_process"}
        THEN {[life |-> "fresh", kept |-> r = "credential_process", dated |-> FALSE]} ELSE {})

\* Mutant: every value is kept until its expiry says otherwise.
KeepsAll(value) == value

\* A token without an expiry is not kept.
Keeps(value) == IF value.kept THEN value ELSE Null

Usable(value) == value # Null /\ value.life = "fresh"

ServedFromCache(u) ==
  /\ user[u].at = "idle" /\ Usable(cached)
  /\ user' = [user EXCEPT ![u] = [at |-> "over", since |-> walk.ended,
                answer |-> [value |-> cached, by |-> "cache", walk |-> 0]]]
  /\ UNCHANGED <<chain, walk, cached>>

\* The first caller starts the walk, the others wait for it.
Awaits(u) ==
  /\ user[u].at = "idle" /\ ~Usable(cached)
  /\ walk.rung # 0 \/ walk.ended < MaxWalks
  /\ user' = [user EXCEPT ![u] = [NotCalled EXCEPT !.at = "waits", !.since = walk.ended]]
  /\ walk' = IF walk.rung = 0 THEN [walk EXCEPT !.rung = 1, !.failed = FALSE] ELSE walk
  /\ UNCHANGED <<chain, cached>>

Outcome == Acquire(Machine, chain.policy, Null, Null, Rungs[walk.rung])

RungYieldsNothing ==
  /\ walk.rung \in DOMAIN Rungs /\ GoesOn(chain.policy, Rungs[walk.rung], Outcome)
  /\ walk' = [walk EXCEPT !.rung = @ + 1, !.failed = @ \/ Outcome = "auth"]
  /\ UNCHANGED <<chain, user, cached>>

Settle(answer) ==
  /\ walk' = [rung |-> 0, failed |-> FALSE, ended |-> walk.ended + 1]
  /\ user' = [u \in Users |->
       IF user[u].at # "waits" THEN user[u]
       ELSE [user[u] EXCEPT !.at = "over",
               !.answer = [value |-> answer, by |-> "walk", walk |-> walk.ended + 1]]]
  /\ UNCHANGED chain

WalkFails ==
  /\ walk.rung # 0
  /\ \/ walk.rung > Len(Rungs)
     \/ walk.rung <= Len(Rungs) /\ Outcome # "value" /\ ~GoesOn(chain.policy, Rungs[walk.rung], Outcome)
  /\ Settle(Null) /\ UNCHANGED cached

\* A value that is already expired is an error, and is not kept.
WalkYields ==
  /\ walk.rung \in DOMAIN Rungs /\ Outcome = "value"
  /\ \E value \in Lives(Rungs[walk.rung]) :
       IF value.life = "past" THEN Settle(Null) /\ UNCHANGED cached
       ELSE Settle(value) /\ cached' = Keeps(value)

RunsOut ==
  /\ Usable(cached) /\ cached.dated /\ cached' = [cached EXCEPT !.life = "past"]
  /\ UNCHANGED <<chain, user, walk>>

CallsAgain(u) ==
  /\ user[u].at = "over" /\ walk.ended < MaxWalks
  /\ user' = [user EXCEPT ![u] = NotCalled] /\ UNCHANGED <<chain, walk, cached>>

MachineChanges ==
  /\ chain.machine < Len(Moving[chain.policy])
  /\ chain' = [chain EXCEPT !.machine = @ + 1]
  /\ UNCHANGED <<user, walk, cached>>

ProviderNext ==
  \/ \E u \in Users : ServedFromCache(u) \/ Awaits(u) \/ CallsAgain(u)
  \/ RungYieldsNothing \/ WalkFails \/ WalkYields \/ RunsOut \/ MachineChanges

(* Every answer is of its time (AUTH-2, AUTH-3): a call gets what a walk   *)
(* that ended after the call began found, its error included, or a cached  *)
(* credential that had not run out; never a token without an expiry that   *)
(* an earlier walk got, and never one already expired.                     *)
AnswersAreCurrent ==
  \A u \in Users : user[u].at = "over" =>
    LET answer == user[u].answer IN
    /\ answer.by = "walk" => answer.walk > user[u].since
    /\ answer.by = "cache" => answer.value.dated \/ answer.value.kept
    /\ answer.value # Null => answer.value.life = "fresh"
=============================================================================
