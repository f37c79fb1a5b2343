---------------------------- MODULE CloudChains ----------------------------
(***************************************************************************)
(* The credential chains of the three clouds (cloud/chains.ts): what each  *)
(* rung says offline (its probe, for the doctor), what it does at request  *)
(* time (its acquire), and the two walks over them.                        *)
(*                                                                         *)
(* A machine m is what a chain reads: env the variables that are set, path *)
(* the commands on PATH, files the readable files a variable names,        *)
(* malformed the files that do not parse, profiles the AWS profiles, gac   *)
(* and adc the two Google credential files, answers what an endpoint or a  *)
(* command does when it is not "ok".                                       *)
(***************************************************************************)
EXTENDS Naturals, Sequences, SequencesExt

CONSTANT Null   \* no value

Has(m, name) == name \in m.env
Answer(m, peer) == IF peer \in DOMAIN m.answers THEN m.answers[peer] ELSE "ok"

(***************************************************************************)
(* What an acquire comes to: "value", "nothing" (the walk goes on), "auth" *)
(* (AuthError) or "unset" (NotConfiguredError).  An HTTP exchange or a     *)
(* command that is refused, fails or answers without a token is an         *)
(* AuthError; a metadata service that does not answer is nothing.          *)
(***************************************************************************)
Exchanged(m, peer) == IF Answer(m, peer) = "ok" THEN "value" ELSE "auth"

FromMetadata(m, peer) ==
  CASE Answer(m, peer) = "ok" -> "value"
    [] Answer(m, peer) = "incomplete" -> "auth"
    [] OTHER -> "nothing"

Then(outcome, next) == IF outcome = "value" THEN next ELSE outcome

-----------------------------------------------------------------------------
(* AWS.  A profile: role (role_arn), web (its token file), source (source_ *)
(* profile), from (credential_source), keys and saved (static keys of the  *)
(* config and of the credentials file), sso, login, process, region.       *)

NoProfile ==
  [role |-> FALSE, web |-> FALSE, source |-> Null, from |-> "none", keys |-> FALSE, saved |-> FALSE,
   sso |-> "none", account |-> TRUE, login |-> FALSE, process |-> FALSE, region |-> FALSE]

AwsReadable(m) == "aws" \notin m.malformed
Active(m) == m.profiles["active"]
HasSource(p) == p.source # Null \/ p.from # "none"

EnvAws(m) == Has(m, "AWS_ACCESS_KEY_ID") /\ Has(m, "AWS_SECRET_ACCESS_KEY")

\* "none", "configured", or "refused" for a URI that names no allowed host.
ContainerConfig(m) ==
  IF ~Has(m, "AWS_CONTAINER_CREDENTIALS_RELATIVE_URI") /\ ~Has(m, "AWS_CONTAINER_CREDENTIALS_FULL_URI")
  THEN "none"
  ELSE IF "container" \in m.malformed THEN "refused" ELSE "configured"

ContainerAcquire(m) ==
  CASE ContainerConfig(m) = "none" -> "nothing"
    [] ContainerConfig(m) = "refused" -> "unset"
    [] OTHER -> Exchanged(m, "container")

ImdsAcquire(m) == IF Has(m, "AWS_EC2_METADATA_DISABLED") THEN "nothing" ELSE FromMetadata(m, "imds")

MustYield(outcome) == IF outcome = "nothing" THEN "unset" ELSE outcome

\* The credentials a profile's role is assumed with; profiles nest at most
\* five deep, one that names itself included.
AwsSourceCredentials(m) ==
  LET found[name \in DOMAIN m.profiles, depth \in 0..6] ==
        LET p == m.profiles[name] IN
        CASE depth > 5 -> "auth"
          [] depth <= 5 /\ p.source # Null ->
               LET sub == m.profiles[p.source] IN
               IF sub.role THEN Then(found[p.source, depth + 1], Exchanged(m, "sts"))
               ELSE IF sub.keys \/ sub.saved THEN "value" ELSE "unset"
          [] OTHER ->
               (CASE p.from = "Environment" -> IF EnvAws(m) THEN "value" ELSE "unset"
                  [] p.from = "EcsContainer" -> MustYield(ContainerAcquire(m))
                  [] p.from = "Ec2InstanceMetadata" -> MustYield(ImdsAcquire(m))
                  [] OTHER -> "unset")
  IN found["active", 0]

AssumeRole(m) == Then(AwsSourceCredentials(m), Exchanged(m, "sts"))

WebIdentityFromEnv(m) == Has(m, "AWS_WEB_IDENTITY_TOKEN_FILE") /\ Has(m, "AWS_ROLE_ARN")
WebIdentityConfig(m) ==
  WebIdentityFromEnv(m) \/ (Active(m).web /\ Active(m).role /\ ~HasSource(Active(m)))

WebIdentityAcquire(m) ==
  CASE ~WebIdentityConfig(m) -> "nothing"
    [] WebIdentityConfig(m) /\ "web token" \notin m.files -> "unset"
    [] OTHER -> Exchanged(m, "sts")

(* sso: "none", "session" or "url"; "nameless" is a session without a URL. *)
SsoConfig(m) == Active(m).sso \in {"session", "url"}

\* The cached token: fresh, stale, renewable (stale with a refresh token) or none.
SsoAcquire(m) ==
  CASE ~SsoConfig(m) -> "nothing"
    [] SsoConfig(m) /\ m.ssoCache \in {"none", "stale"} -> "unset"
    [] OTHER -> Then(IF m.ssoCache = "fresh" THEN "value" ELSE Exchanged(m, "sso-oidc"),
                     IF Active(m).account THEN Exchanged(m, "sso") ELSE "unset")

LoginAcquire(m) ==
  IF ~Active(m).login THEN "nothing" ELSE IF m.loginCache = "fresh" THEN "value" ELSE "unset"

\* A command that is not on PATH fails to start.
Run(m, command) == IF command \notin m.path THEN "auth" ELSE Exchanged(m, command)

ProcessAcquire(m) == IF Active(m).process THEN Run(m, "process") ELSE "nothing"

AwsRungs ==
  <<"env:AWS_ACCESS_KEY_ID", "assume-role", "web-identity", "sso", "shared-credentials-file",
    "login", "credential_process", "config-file", "container", "imds">>

\* The rungs that read the profile files, and fail when those do not parse.
ReadsProfile(m, r) ==
  \/ r \in {"assume-role", "sso", "shared-credentials-file", "login", "credential_process", "config-file"}
  \/ r = "web-identity" /\ ~WebIdentityFromEnv(m)

If(condition, verdict) == IF condition THEN verdict ELSE "absent"

AwsProbe(m, r) ==
  IF ReadsProfile(m, r) /\ ~AwsReadable(m) THEN "absent" ELSE
  CASE r = "env:AWS_ACCESS_KEY_ID" -> If(EnvAws(m), "usable")
    [] r = "assume-role" -> If(Active(m).role /\ HasSource(Active(m)), "configured")
    [] r = "web-identity" -> If(WebIdentityConfig(m), "configured")
    [] r = "sso" -> If(SsoConfig(m), "configured")
    [] r = "shared-credentials-file" -> If(Active(m).saved, "usable")
    [] r = "login" -> If(Active(m).login, IF m.loginCache = "fresh" THEN "usable" ELSE "configured")
    [] r = "credential_process" -> If(Active(m).process /\ "process" \in m.path, "configured")
    [] r = "config-file" -> If(Active(m).keys, "usable")
    [] r = "container" -> If(ContainerConfig(m) = "configured", "configured")
    [] r = "imds" -> If(~Has(m, "AWS_EC2_METADATA_DISABLED"), "configured")

AwsAcquire(m, r) ==
  IF ReadsProfile(m, r) /\ ~AwsReadable(m) THEN "unset" ELSE
  CASE r = "env:AWS_ACCESS_KEY_ID" -> IF EnvAws(m) THEN "value" ELSE "nothing"
    [] r = "assume-role" ->
         IF Active(m).role /\ HasSource(Active(m)) THEN AssumeRole(m) ELSE "nothing"
    [] r = "web-identity" -> WebIdentityAcquire(m)
    [] r = "sso" -> SsoAcquire(m)
    [] r = "shared-credentials-file" -> IF Active(m).saved THEN "value" ELSE "nothing"
    [] r = "login" -> LoginAcquire(m)
    [] r = "credential_process" -> ProcessAcquire(m)
    [] r = "config-file" -> IF Active(m).keys THEN "value" ELSE "nothing"
    [] r = "container" -> ContainerAcquire(m)
    [] r = "imds" -> ImdsAcquire(m)

-----------------------------------------------------------------------------
(* Azure *)

EnvironmentKind(m) ==
  IF ~(Has(m, "AZURE_TENANT_ID") /\ Has(m, "AZURE_CLIENT_ID")) THEN Null
  ELSE IF Has(m, "AZURE_CLIENT_SECRET") THEN "secret"
  ELSE IF Has(m, "AZURE_CLIENT_CERTIFICATE_PATH") THEN "certificate" ELSE Null

EnvironmentAcquire(m) ==
  CASE EnvironmentKind(m) = Null -> "nothing"
    [] EnvironmentKind(m) = "secret" -> Exchanged(m, "entra")
    [] OTHER -> IF "certificate" \notin m.files \/ Has(m, "AZURE_CLIENT_CERTIFICATE_PASSWORD")
                THEN "unset" ELSE Exchanged(m, "entra")

WorkloadConfig(m) ==
  {"AZURE_FEDERATED_TOKEN_FILE", "AZURE_CLIENT_ID", "AZURE_TENANT_ID"} \subseteq m.env

WorkloadAcquire(m) ==
  CASE ~WorkloadConfig(m) -> "nothing"
    [] WorkloadConfig(m) /\ "federated token" \notin m.files -> "unset"
    [] OTHER -> Exchanged(m, "entra")

MsiFlavor(m) ==
  CASE Has(m, "IDENTITY_ENDPOINT") /\ Has(m, "IDENTITY_HEADER") ->
         IF Has(m, "IDENTITY_SERVER_THUMBPRINT") THEN "service-fabric" ELSE "app-service"
    [] Has(m, "IDENTITY_ENDPOINT") /\ ~Has(m, "IDENTITY_HEADER") /\ Has(m, "IMDS_ENDPOINT") -> "azure-arc"
    [] OTHER -> IF ~Has(m, "MSI_ENDPOINT") THEN "imds"
                ELSE IF Has(m, "MSI_SECRET") THEN "azure-ml" ELSE "cloud-shell"

\* Arc first refuses with a challenge that names a key file.
MsiAcquire(m) ==
  CASE MsiFlavor(m) = "imds" -> FromMetadata(m, "msi")
    [] MsiFlavor(m) = "service-fabric" -> "unset"
    [] MsiFlavor(m) = "azure-arc" ->
         IF "arc key" \in m.files THEN Exchanged(m, "msi") ELSE "auth"
    [] OTHER -> Exchanged(m, "msi")

DeveloperRungs == {"az", "pwsh", "azd"}

\* A developer command that is not on PATH, or prints no token, is nothing.
CliAcquire(m, command) ==
  IF command \notin m.path \/ Answer(m, command) = "incomplete" THEN "nothing" ELSE Exchanged(m, command)

\* AZURE_TOKEN_CREDENTIALS: prod, dev, or the name of one rung.
Narrowed(m, r) ==
  CASE m.narrow = Null -> FALSE
    [] m.narrow = "prod" -> r \in DeveloperRungs
    [] m.narrow = "dev" -> r \notin DeveloperRungs
    [] OTHER -> m.narrow # r

AzureRungs == <<"environment", "workload-identity", "managed-identity", "az", "pwsh", "azd">>

AzureProbe(m, r) ==
  IF Narrowed(m, r) THEN "absent" ELSE
  CASE r = "environment" -> If(EnvironmentKind(m) # Null, "configured")
    [] r = "workload-identity" -> If(WorkloadConfig(m), "configured")
    [] r = "managed-identity" -> "configured"
    [] OTHER -> If(r \in m.path, "configured")

\* Mutant: the choice of one source is read by the doctor only.
AzureAcquireAll(m, r) ==
  CASE r = "environment" -> EnvironmentAcquire(m)
    [] r = "workload-identity" -> WorkloadAcquire(m)
    [] r = "managed-identity" -> MsiAcquire(m)
    [] OTHER -> CliAcquire(m, r)

AzureAcquire(m, r) ==
  IF Narrowed(m, r) THEN "nothing" ELSE
  CASE r = "environment" -> EnvironmentAcquire(m)
    [] r = "workload-identity" -> WorkloadAcquire(m)
    [] r = "managed-identity" -> MsiAcquire(m)
    [] OTHER -> CliAcquire(m, r)

-----------------------------------------------------------------------------
(* Google.  A credential file is Null (missing, or no object) or           *)
(* [type, complete, subject, source, impersonates]: complete, it has the   *)
(* keys its type needs; subject, where an external account reads its token *)
(* from; source, the type inside an impersonated account.                  *)

GoogleFile(m, where) == IF where = "gac" THEN m.gac ELSE m.adc
FileMalformed(m, where) == where \in m.malformed

ExternalSubject(m, info) ==
  CASE info.subject = "file" -> IF "subject token" \in m.files THEN "value" ELSE "unset"
    [] info.subject = "url" -> Exchanged(m, "subject url")
    [] info.subject = "executable" ->
         IF Has(m, "GOOGLE_EXTERNAL_ACCOUNT_ALLOW_EXECUTABLES") THEN Run(m, "executable") ELSE "unset"
    [] OTHER -> "unset"     \* environment_id, or none of them

Impersonated(m, info, outcome) ==
  Then(outcome, IF info.impersonates THEN Exchanged(m, "iam") ELSE "value")

FromSource(m, info, type) ==
  CASE type = "authorized_user" -> IF info.complete THEN Exchanged(m, "google") ELSE "unset"
    [] type = "service_account" -> Exchanged(m, "google")
    [] type = "external_account" ->
         Impersonated(m, info, Then(ExternalSubject(m, info), Exchanged(m, "google sts")))
    [] OTHER -> "unset"

GcpFromInfo(m, info) ==
  IF info.type # "impersonated_service_account" THEN FromSource(m, info, info.type)
  ELSE IF info.source = Null THEN "unset"
  ELSE Then(FromSource(m, info, info.source), Exchanged(m, "iam"))

FileProbe(m, where) == If(~FileMalformed(m, where) /\ GoogleFile(m, where) # Null, "configured")

FileAcquire(m, where) ==
  CASE FileMalformed(m, where) -> "unset"
    [] ~FileMalformed(m, where) /\ GoogleFile(m, where) = Null -> "nothing"
    [] OTHER -> GcpFromInfo(m, GoogleFile(m, where))

GcloudAcquire(m) ==
  IF "gcloud" \notin m.path \/ Answer(m, "gcloud") = "incomplete" THEN "nothing" ELSE Exchanged(m, "gcloud")

GcpRungs == <<"adc-env", "adc-file", "metadata", "gcloud">>

GcpProbe(m, r) ==
  CASE r = "adc-env" -> FileProbe(m, "gac")
    [] r = "adc-file" -> FileProbe(m, "adc")
    [] r = "metadata" -> If(~Has(m, "NO_GCE_CHECK"), "configured")
    [] r = "gcloud" -> If("gcloud" \in m.path, "configured")

GcpAcquire(m, r) ==
  CASE r = "adc-env" -> FileAcquire(m, "gac")
    [] r = "adc-file" -> FileAcquire(m, "adc")
    [] r = "metadata" -> IF Has(m, "NO_GCE_CHECK") THEN "nothing" ELSE FromMetadata(m, "gce")
    [] r = "gcloud" -> GcloudAcquire(m)

-----------------------------------------------------------------------------
(* Settings the cloud's own configuration carries: where the value comes   *)
(* from, "metadata" when only the metadata server can tell, or Null.       *)

GcloudConfigProject(m) ==
  CASE Has(m, "CLOUDSDK_CORE_PROJECT") -> "env:CLOUDSDK_CORE_PROJECT"
    [] OTHER -> IF "gcloud config" \in m.files /\ "gcloud config" \notin m.malformed
                THEN "gcloud-config" ELSE Null

ProjectOf(m, where, origin) ==
  IF GoogleFile(m, where) # Null /\ GoogleFile(m, where).project THEN origin ELSE Null

\* A malformed Google file that is reached refuses instead.
ProfileSetting(m, policy, name) ==
  CASE policy = "aws-chain" /\ name = "region" ->
         IF ~AwsReadable(m) THEN "refused" ELSE IF Active(m).region THEN "aws-profile" ELSE Null
    [] policy = "gcp-chain" /\ name = "project" ->
         IF FileMalformed(m, "gac") THEN "refused"
         ELSE IF ProjectOf(m, "gac", "adc-env") # Null THEN "adc-env"
         ELSE IF GcloudConfigProject(m) # Null THEN GcloudConfigProject(m)
         ELSE IF FileMalformed(m, "adc") THEN "refused"
         ELSE IF ProjectOf(m, "adc", "adc-file") # Null THEN "adc-file"
         ELSE IF Has(m, "NO_GCE_CHECK") THEN Null ELSE "metadata"
    [] OTHER -> Null

MetadataProject(m) == ~Has(m, "NO_GCE_CHECK") /\ Answer(m, "gce project") = "ok"

-----------------------------------------------------------------------------
(* The walks.  door is the first variable the policy declares, or Null:    *)
(* the environment rung of an API key, first in every chain.               *)

NamedRungs(policy, name) ==
  CASE policy = "aws-chain" ->
         (CASE name = "platform" -> {"container", "imds"}
            [] name = "workload" -> {"web-identity"}
            [] name = "environment" -> {"env:AWS_ACCESS_KEY_ID"}
            [] name = "cli" -> {"assume-role", "sso", "shared-credentials-file", "login",
                                "credential_process", "config-file"})
    [] policy = "azure-chain" ->
         (CASE name = "platform" -> {"managed-identity"}
            [] name = "workload" -> {"workload-identity"}
            [] name = "environment" -> {"environment"}
            [] name = "cli" -> DeveloperRungs)
    [] policy = "gcp-chain" ->
         (CASE name = "platform" -> {"metadata"}
            [] name \in {"workload", "environment"} -> {"adc-env"}
            [] name = "cli" -> {"adc-file", "gcloud"})

ChainFor(policy, door) ==
  (IF door = Null THEN <<>> ELSE <<"door">>) \o
  (CASE policy = "aws-chain" -> AwsRungs
     [] policy = "azure-chain" -> AzureRungs
     [] policy = "gcp-chain" -> GcpRungs)

Walk(policy, door, named) ==
  LET chain == ChainFor(policy, door)
      wanted == NamedRungs(policy, named)
  IN IF named = Null THEN chain
     ELSE FlattenSeq([i \in DOMAIN chain |-> IF chain[i] \in wanted THEN <<chain[i]>> ELSE <<>>])

\* A named Google identity takes only the types of file it stands for.
Mismatch(m, policy, named) ==
  /\ policy = "gcp-chain" /\ named \in {"workload", "environment"}
  /\ GoogleFile(m, "gac") # Null
  /\ GoogleFile(m, "gac").type \notin
       (IF named = "workload" THEN {"external_account"}
        ELSE {"service_account", "impersonated_service_account"})

Probe(m, policy, door, named, r) ==
  CASE r = "door" -> If(Has(m, door), "usable")
    [] Mismatch(m, policy, named) /\ r # "door" -> "absent"
    [] OTHER -> CASE policy = "aws-chain" -> AwsProbe(m, r)
                  [] policy = "azure-chain" -> AzureProbe(m, r)
                  [] policy = "gcp-chain" -> GcpProbe(m, r)

Acquire(m, policy, door, named, r) ==
  CASE r = "door" -> IF Has(m, door) THEN "value" ELSE "nothing"
    [] Mismatch(m, policy, named) /\ r # "door" -> "unset"
    [] OTHER -> CASE policy = "aws-chain" -> AwsAcquire(m, r)
                  [] policy = "azure-chain" -> AzureAcquire(m, r)
                  [] policy = "gcp-chain" -> GcpAcquire(m, r)

(* The doctor's walk: a state for each rung. *)
Explain(m, policy, door, named, explicit) ==
  LET rungs == Walk(policy, door, named)
      verdict == [i \in DOMAIN rungs |-> Probe(m, policy, door, named, rungs[i])]
      taken(i) == explicit \/ \E j \in 1..(i - 1) : verdict[j] = "usable"
  IN [i \in DOMAIN rungs |->
       [kind |-> rungs[i],
        state |-> IF verdict[i] = "absent" THEN "absent"
                  ELSE IF taken(i) THEN "shadowed"
                  ELSE IF verdict[i] = "usable" THEN "selected" ELSE "unprobed"]]

\* The errors of Azure's developer commands do not end the walk.
GoesOn(policy, r, outcome) ==
  outcome = "nothing" \/ (outcome = "auth" /\ policy = "azure-chain" /\ r \in DeveloperRungs)

(* The walk of a request: what ends it, and the rung where it ended. *)
Resolve(m, policy, door, named) ==
  LET rungs == Walk(policy, door, named)
      outcome == [i \in DOMAIN rungs |-> Acquire(m, policy, door, named, rungs[i])]
      ends == {i \in DOMAIN rungs : ~GoesOn(policy, rungs[i], outcome[i])}
      first == CHOOSE i \in ends : \A j \in ends : i <= j
  IN IF ends # {} THEN [at |-> rungs[first], outcome |-> outcome[first]]
     ELSE [at |-> Null,
           outcome |-> IF \E i \in DOMAIN rungs : outcome[i] = "auth" THEN "auth" ELSE "unset"]
=============================================================================
