----------------------------- MODULE Credentials -----------------------------
(***************************************************************************)
(* The ways to a credential put together.  A behaviour is one scene: calls *)
(* that share a stored login (StoredLogins), one attempt to sign in or to  *)
(* renew (LoginAttempt), calls that share the walk of a cloud chain        *)
(* (CloudProvider), or a router of one provider that is built, asked by    *)
(* the doctor what it will use, and then used (Access).                    *)
(***************************************************************************)
EXTENDS StoredLogins, LoginAttempt, CloudProvider, Access

CONSTANTS
  Sites   \* the sites visited, by the id of the row of the table

(***************************************************************************)
(* visit: at, the doctor's report and what the first request found, at     *)
(* which address.                                                          *)
(***************************************************************************)
VARIABLES scene, site, row, visit

credentialVars == <<scene, site, row, visit, loginVars, attemptVars, providerVars>>

Unvisited == [at |-> "new", report |-> Null, got |-> Null, address |-> Null]

LoginIdle ==
  /\ shop = "none" /\ file = [f \in Files |-> Missing] /\ holder = [f \in Files |-> "nobody"]
  /\ call = [c \in Callers |-> NoCall] /\ aged = {} /\ minted = 2 /\ spent = {} /\ outside = 0
  /\ device = [at |-> "idle", left |-> 0, interval |-> 1]
  /\ sent = [g \in Generations |-> 0] /\ excused = {}

AttemptIdle ==
  /\ order = [errand |-> "none", method |-> Xai, venue |-> Headless]
  /\ attempt = [at |-> "idle", result |-> "none", heeded |-> "none"]
  /\ listener = "none" /\ request = NotAsked /\ cancelled = FALSE /\ remaining = 0 /\ interval = 1

ProviderIdle ==
  /\ chain = Null /\ user = [u \in Users |-> NotCalled] /\ walk = [rung |-> 0, failed |-> FALSE, ended |-> 0]
  /\ cached = Null

SiteIdle == site = Null /\ row = Null /\ visit = Unvisited

Init ==
  \/ scene = "login" /\ LoginInit /\ AttemptIdle /\ ProviderIdle /\ SiteIdle
  \/ scene = "attempt" /\ LoginIdle /\ AttemptInit /\ ProviderIdle /\ SiteIdle
  \/ scene = "provider" /\ LoginIdle /\ AttemptIdle /\ ProviderInit /\ SiteIdle
  \/ /\ scene = "site" /\ LoginIdle /\ AttemptIdle /\ ProviderIdle
     /\ row \in Rows /\ site \in Sites[row.id] /\ visit = Unvisited

\* LMRouter.constructor
Constructs ==
  /\ visit.at = "new"
  /\ visit' = [visit EXCEPT !.at = IF ConstructorRefuses(site, row) THEN "refused" ELSE "built"]

\* LMRouter.doctor, then LMRouter.lm and the first request of the adapter.
Doctor ==
  /\ visit.at = "built"
  /\ visit' = [visit EXCEPT !.at = "diagnosed", !.report = Report(site, row)]

FirstCall ==
  /\ visit.at = "diagnosed"
  /\ visit' = [visit EXCEPT !.at = "used", !.got = FirstRequest(site, row), !.address = Address(site, row)]

SiteNext == (Constructs \/ Doctor \/ FirstCall) /\ UNCHANGED <<site, row>>

Next ==
  /\ UNCHANGED scene
  /\ \/ scene = "login" /\ LoginNext /\ UNCHANGED <<attemptVars, providerVars, site, row, visit>>
     \/ scene = "attempt" /\ AttemptNext /\ UNCHANGED <<loginVars, providerVars, site, row, visit>>
     \/ scene = "provider" /\ ProviderNext /\ UNCHANGED <<loginVars, attemptVars, site, row, visit>>
     \/ scene = "site" /\ SiteNext /\ UNCHANGED <<loginVars, attemptVars, providerVars>>

Spec == Init /\ [][Next]_credentialVars

-----------------------------------------------------------------------------
(* The doctor tells the truth.                                             *)

Offered(steps, i) == steps[i].state \in {"selected", "unprobed"}

\* Rungs the doctor calls absent and a request stops at: a source that is
\* configured but cannot work, which a request must not pass over silently.
StopsUnseen(m, policy, named, r) ==
  \/ r = "credential_process" /\ Active(m).process /\ "process" \notin m.path
  \/ r = "container" /\ ContainerConfig(m) = "refused"
  \/ policy = "aws-chain" /\ ReadsProfile(m, r) /\ ~AwsReadable(m)
  \/ r = "adc-env" /\ FileMalformed(m, "gac")
  \/ r = "adc-file" /\ FileMalformed(m, "adc")
  \/ Mismatch(m, policy, named)

\* A saved connection is not tried by the doctor, a store that cannot be
\* read at once is not read, and a managed report names no setting.
ManagedUnseen(s) == s.managed \in {"later", "cloud"} \/ (s.managed # Null /\ s.named # Null)

(* What explainAuth reports is what the first request of the same router   *)
(* meets.  What a request uses was offered, and no earlier step was told   *)
(* to be the selected one: a login that is signed out or dead never falls  *)
(* to a metered key, nor a named identity to another one.  A selected step *)
(* is used unless a step before it, to be probed at request time or        *)
(* stopping there, answers first.  An error of the settings is reported    *)
(* exactly when it stops the request, and the address is the one used,     *)
(* except that of an endpoint in the process's own environment.            *)
DoctorTellsTheTruth ==
  visit.at = "used" =>
    LET report == visit.report
        steps == report.steps
        got == visit.got
    IN
    /\ report.refused => got.from = Null \/ row.policy = "oauth"
    /\ site.managed = Null => (report.error <=> got.why = "settings" /\ ~report.refused)
    /\ got.from # Null /\ ~report.refused /\ site.managed # "later" =>
         \E i \in DOMAIN steps :
           /\ steps[i].kind = got.from /\ Offered(steps, i)
           /\ \A j \in 1..(i - 1) : steps[j].state # "selected"
    /\ \A i \in DOMAIN steps :
         /\ steps[i].state = "selected" /\ ~ManagedUnseen(site)
         /\ \A j \in 1..(i - 1) :
              steps[j].state = "absent" /\ ~StopsUnseen(site.machine, row.policy, site.named, steps[j].kind)
         => got.from = steps[i].kind \/ got.why \in {"settings", "settings later"}
    /\ report.address \in {Null, visit.address} \/ site.process
=============================================================================
