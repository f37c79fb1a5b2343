------------------------------- MODULE Access -------------------------------
(***************************************************************************)
(* How a router finds the credential and the address of a provider, and    *)
(* what the doctor says of it: router.ts (apiKeysSource, buildLm,          *)
(* buildManagedLm), auth/doctor.ts (explainAuth), cloud/hosts.ts and       *)
(* auth/policy.ts (settings, schemes).                                     *)
(*                                                                         *)
(* A site is everything they read: machine, what a cloud chain reads (the  *)
(* environment of the router is its env); process, whether the environment *)
(* of the process names an endpoint; keys the apiKeys entries by provider  *)
(* ("text" or "empty"), named the named cloud identity, given the settings *)
(* handed over, url the base URL ("good" or "bad"), stored the state of    *)
(* the stored login, managed what an Auth has saved (Null: there is none). *)
(***************************************************************************)
EXTENDS CloudChains, FiniteSets

(***************************************************************************)
(* A row of the provider table.  settings: those of the host, each with    *)
(* its variables, whether it has a default, and whether only the root of   *)
(* the URL needs it; version: it takes a client_version.                   *)
(***************************************************************************)
Row == [id |-> "openai", policy |-> "key", envKeys |-> <<>>, hosted |-> FALSE, placeholder |-> FALSE,
        settings |-> <<>>, endpointEnv |-> <<>>, schemes |-> <<"bearer">>, version |-> FALSE]

Setting(name, env, default, urlOnly) ==
  [name |-> name, env |-> env, default |-> default, urlOnly |-> urlOnly]

Region == Setting("region", <<"AWS_REGION", "AWS_DEFAULT_REGION">>, FALSE, FALSE)
Project == Setting("project", <<"GOOGLE_CLOUD_PROJECT", "GCLOUD_PROJECT">>, FALSE, FALSE)
Location == Setting("location", <<"GOOGLE_CLOUD_LOCATION">>, TRUE, FALSE)
Resource == Setting("resource", <<"ANTHROPIC_FOUNDRY_RESOURCE">>, FALSE, TRUE)
Authority == Setting("authority_host", <<"AZURE_AUTHORITY_HOST">>, TRUE, FALSE)
Scope == Setting("scope", <<>>, TRUE, FALSE)

Rows ==
  { [Row EXCEPT !.id = "openai", !.envKeys = <<"OPENAI_API_KEY">>],
    [Row EXCEPT !.id = "openai-chat", !.envKeys = <<"OPENAI_API_KEY">>],
    [Row EXCEPT !.id = "gemini", !.envKeys = <<"GEMINI_API_KEY", "GOOGLE_API_KEY">>, !.schemes = <<"x-api-key">>],
    [Row EXCEPT !.id = "ollama", !.placeholder = TRUE],
    [Row EXCEPT !.id = "claude-code", !.policy = "oauth", !.version = TRUE],
    [Row EXCEPT !.id = "xai", !.policy = "oauth-unless-explicit", !.envKeys = <<"XAI_API_KEY">>],
    [Row EXCEPT !.id = "vertex-express", !.envKeys = <<"GOOGLE_API_KEY">>, !.hosted = TRUE, !.schemes = <<"query-key">>],
    [Row EXCEPT !.id = "bedrock-anthropic", !.policy = "aws-chain", !.hosted = TRUE,
                !.envKeys = <<"AWS_BEARER_TOKEN_BEDROCK">>, !.settings = <<Region>>,
                !.endpointEnv = <<"AWS_ENDPOINT_URL_BEDROCK_MANTLE", "AWS_ENDPOINT_URL">>, !.schemes = <<"sigv4", "x-api-key">>],
    [Row EXCEPT !.id = "azure-anthropic", !.policy = "azure-chain", !.hosted = TRUE,
                !.envKeys = <<"ANTHROPIC_FOUNDRY_API_KEY">>, !.settings = <<Resource, Authority, Scope>>,
                !.endpointEnv = <<"ANTHROPIC_FOUNDRY_BASE_URL">>, !.schemes = <<"x-api-key", "bearer">>],
    [Row EXCEPT !.id = "vertex", !.policy = "gcp-chain", !.hosted = TRUE,
                !.settings = <<Project, Location>>, !.schemes = <<"x-api-key", "bearer">>] }

Chained(row) == row.policy \in {"aws-chain", "azure-chain", "gcp-chain"}
Door(row) == IF row.envKeys = <<>> THEN Null ELSE row.envKeys[1]

FirstIn(list, set) ==
  LET found == {i \in DOMAIN list : list[i] \in set} IN
  IF found = {} THEN Null ELSE list[Min(found)]

IsSet(site, name) == Has(site.machine, name)
FirstSet(site, names) == FirstIn(names, site.machine.env)

(* What a source, a scheme or an error is called: the absent value is none *)
(* of it.                                                                  *)
Schemes == {"bearer", "x-api-key", "api-key", "query-key", "sigv4"}
Sources ==
  {"api_keys", "stored", "placeholder", "connection", "named", "door"} \cup
  ToSet(AwsRungs) \cup ToSet(AzureRungs) \cup ToSet(GcpRungs) \cup
  UNION {ToSet(row.envKeys) : row \in Rows}
ASSUME NamesAssumption ==
  Null \notin Schemes \cup Sources \cup
            {"secret", "chain", "refused", "unknown", "settings", "settings later"}

Without(why) == [from |-> Null, why |-> why]
From(source) == [from |-> source, why |-> Null]

-----------------------------------------------------------------------------
(* apiKeysSource: the entry of the provider itself, else the only entry of *)
(* a provider with the same, non-empty list of variables.                  *)

EnvKeysOf(id) == (CHOOSE row \in Rows : row.id = id).envKeys

Candidates(site, row) ==
  IF row.id \in DOMAIN site.keys THEN {row.id}
  ELSE {id \in DOMAIN site.keys : row.envKeys # <<>> /\ EnvKeysOf(id) = row.envKeys}

\* Null (no entry), "refused" (ambiguous or empty) or the provider it is of.
ApiKeysSource(site, row) ==
  LET found == Candidates(site, row) IN
  CASE found = {} -> Null
    [] Cardinality(found) > 1 -> "refused"
    [] OTHER -> LET id == CHOOSE id \in found : TRUE IN
                IF site.keys[id] = "empty" THEN "refused" ELSE id

\* checkProviderKeyed: a named identity beside an entry, or off a cloud chain.
NamedRefused(site, row) == site.named # Null /\ (~Chained(row) \/ ApiKeysSource(site, row) # Null)

-----------------------------------------------------------------------------
(* Settings of the host: given, environment, the cloud's configuration,    *)
(* default.  Each is told its origin; "missing" and "refused" are errors,  *)
(* "unprobed" is asked of the metadata server before the first request.    *)

EndpointOf(site, row) ==
  IF site.url # Null THEN "given"
  ELSE IF FirstSet(site, row.endpointEnv) # Null THEN "env" ELSE Null

OriginOf(site, row, setting) ==
  LET found == ProfileSetting(site.machine, row.policy, setting.name) IN
  CASE setting.name \in site.given -> "explicit"
    [] setting.name \notin site.given /\ FirstSet(site, setting.env) # Null -> FirstSet(site, setting.env)
    [] OTHER ->
         IF found \notin {Null, "metadata"} THEN found
         ELSE IF setting.default THEN "default"
         ELSE IF EndpointOf(site, row) # Null /\ setting.urlOnly THEN "unneeded"
         ELSE IF found = "metadata" THEN "unprobed" ELSE "missing"

SettingNames(row) == {row.settings[i].name : i \in DOMAIN row.settings}
Origins(site, row) ==
  [name \in SettingNames(row) |->
    OriginOf(site, row, CHOOSE s \in {row.settings[i] : i \in DOMAIN row.settings} : s.name = name)]

\* Null, or why the settings stop the construction.
SettingError(site, row) ==
  CASE site.url = "bad" -> "endpoint"
    [] site.url # "bad" /\ \E n \in SettingNames(row) : Origins(site, row)[n] = "refused" -> "refused"
    [] OTHER -> IF site.given \ SettingNames(row) # {} THEN "unknown"
                ELSE IF \E n \in SettingNames(row) : Origins(site, row)[n] = "missing" THEN "missing" ELSE Null

\* The address the adapter is built with, or which the doctor prints.
BaseUrl(site, row) ==
  IF \E n \in SettingNames(row) : Origins(site, row)[n] = "unprobed" THEN "later"
  ELSE IF EndpointOf(site, row) = Null THEN "template" ELSE "endpoint"

\* resolveBackendSettings: a door without a host takes the names it declares.
BackendError(site, row) ==
  ~row.hosted /\ site.given # {} /\ (~row.version \/ site.given # {"client_version"})

-----------------------------------------------------------------------------
(* buildLm: which source the adapter is built with, or why none is. *)

\* Mutant: a signed-out subscription falls back on the metered key.
BlocksWhenUnusable(site) == site.stored = "unusable"
Blocks(site) == site.stored \in {"unusable", "logged_out"}

FromEnvOrPlaceholder(site, row) ==
  IF FirstSet(site, row.envKeys) # Null THEN From(FirstSet(site, row.envKeys))
  ELSE IF row.placeholder THEN From("placeholder")
  ELSE IF row.policy = "oauth-unless-explicit" THEN From("stored") ELSE Without("missing")

BuildLm(site, row) ==
  LET entry == ApiKeysSource(site, row) IN
  CASE row.policy = "oauth" -> From("stored")
    [] row.policy # "oauth" /\ entry = "refused" -> Without("entry")
    [] row.policy # "oauth" /\ entry # "refused" /\ row.hosted /\ SettingError(site, row) # Null ->
         Without("settings")
    [] OTHER ->
         IF entry # Null THEN From("api_keys")
         ELSE IF Chained(row) THEN From("chain")
         ELSE IF row.policy = "oauth-unless-explicit" /\ site.stored = "usable" THEN From("stored")
         ELSE IF row.policy = "oauth-unless-explicit" /\ Blocks(site) THEN Without("blocked")
         ELSE FromEnvOrPlaceholder(site, row)

(* managed: "none", "signed_out", "needs_login", "ready", "cloud" (the      *)
(* saved connection is a named identity), or "later" when the store cannot *)
(* be read at once.                                                        *)
BuildManagedLm(site, row) ==
  LET entry == ApiKeysSource(site, row)
      selected ==
        CASE site.managed \in {"ready", "cloud", "later"} -> From("connection")
          [] OTHER -> IF row.placeholder /\ site.managed # "signed_out" THEN From("placeholder")
                      ELSE Without("login_required")
      source == IF entry # Null THEN From("api_keys")
                ELSE IF site.named # Null THEN From("named") ELSE selected
  IN IF entry = "refused" THEN Without("entry")
     ELSE IF source.why = Null /\ row.hosted /\ SettingError(site, row) # Null THEN Without("settings")
     ELSE source

Build(site, row) ==
  CASE NamedRefused(site, row) -> Without("entry")
    [] ~NamedRefused(site, row) /\ BackendError(site, row) -> Without("settings")
    [] OTHER -> IF site.managed # Null THEN BuildManagedLm(site, row) ELSE BuildLm(site, row)

-----------------------------------------------------------------------------
(* The scheme a credential travels under, or Null (selectScheme). *)

Accepted(kind) ==
  CASE kind = "api_key" -> <<"bearer", "x-api-key", "api-key", "query-key">>
    [] kind = "bearer_token" -> <<"bearer", "x-api-key">>
    [] kind = "aws" -> <<"sigv4">>

SelectScheme(row, kind) ==
  IF kind = "bearer_token" THEN FirstIn(Accepted(kind), ToSet(row.schemes))
  ELSE FirstIn(row.schemes, ToSet(Accepted(kind)))

\* What a source holds; of an entry handed over, a string is an API key.
KindOf(row, from) ==
  CASE from = "door" -> IF Door(row) = "AWS_BEARER_TOKEN_BEDROCK" THEN "bearer_token" ELSE "api_key"
    [] from = "stored" \/ (from = "connection" /\ row.policy = "oauth") -> "bearer_token"
    [] from \in ToSet(AzureRungs) \cup ToSet(GcpRungs) -> "bearer_token"
    [] from \in ToSet(AwsRungs) -> "aws"
    [] OTHER -> "api_key"

-----------------------------------------------------------------------------
(* What a first request finds: settings only the metadata server has are   *)
(* asked, the adapter's stored login may be missing or dead, a chain is    *)
(* walked, and the value must travel under a scheme the door accepts.      *)

\* The identity a chain is walked for: the one handed over, or the one saved.
NamedOf(site, built) == IF built.from = "connection" THEN "environment" ELSE site.named

WalksChain(site, built) ==
  built.from \in {"chain", "named"} \/ (built.from = "connection" /\ site.managed = "cloud")

Travels(row, kind, source) == IF SelectScheme(row, kind) = Null THEN Without("scheme") ELSE source

Acquired(site, row, built) ==
  LET walk == Resolve(site.machine, row.policy, Door(row), NamedOf(site, built)) IN
  CASE built.from = "stored" ->
         IF site.stored = "usable" THEN Travels(row, "bearer_token", built) ELSE Without("stored login")
    [] WalksChain(site, built) ->
         IF walk.outcome # "value" THEN Without("chain")
         ELSE Travels(row, KindOf(row, walk.at), IF built.from = "chain" THEN From(walk.at) ELSE built)
    [] OTHER -> Travels(row, KindOf(row, built.from), built)

FirstRequest(site, row) ==
  LET built == Build(site, row) IN
  CASE built.from = Null -> built
    [] built.from # Null /\ row.hosted /\ BaseUrl(site, row) = "later" /\ ~MetadataProject(site.machine) ->
         Without("settings later")
    [] OTHER -> Acquired(site, row, built)

\* Where the request goes.  The adapter is built without the environment of
\* the router, and looks for an endpoint in the process's (site.process).
Address(site, row) ==
  IF ~row.hosted THEN Null
  ELSE IF EndpointOf(site, row) # Null THEN "endpoint"
  ELSE IF site.process /\ row.endpointEnv # <<>> THEN "endpoint of the process" ELSE "template"

-----------------------------------------------------------------------------
(* explainAuth: the steps, each [kind, state], and whether it is configured. *)

Step(kind, state) == [kind |-> kind, state |-> state]
EntryStep(entry) == Step("api_keys", IF entry = Null THEN "absent" ELSE "selected")

EnvSteps(site, row, state) ==
  [i \in DOMAIN row.envKeys |->
    Step(row.envKeys[i],
         IF ~IsSet(site, row.envKeys[i]) THEN "absent"
         ELSE IF row.envKeys[i] = FirstSet(site, row.envKeys) THEN state ELSE "shadowed")]

StoreStep(site, shadowed) ==
  Step("stored", IF site.stored # "usable" THEN "absent" ELSE IF shadowed THEN "shadowed" ELSE "selected")

Taken(steps) == \E i \in DOMAIN steps : steps[i].state = "selected"

ExplainKeys(site, row) ==
  LET entry == ApiKeysSource(site, row)
      unless == row.policy = "oauth-unless-explicit"
      head == <<EntryStep(entry)>> \o (IF unless THEN <<StoreStep(site, entry # Null)>> ELSE <<>>)
      blocked == unless /\ entry = Null /\ site.stored \in {"unusable", "logged_out"}
      keyed == head \o EnvSteps(site, row, IF Taken(head) \/ blocked THEN "shadowed" ELSE "selected")
  IN keyed \o (IF row.placeholder THEN <<Step("placeholder", IF Taken(keyed) THEN "shadowed" ELSE "selected")>>
               ELSE <<>>)

ExplainCloud(site, row) ==
  LET entry == ApiKeysSource(site, row) IN
  IF Chained(row)
  THEN <<EntryStep(entry)>> \o Explain(site.machine, row.policy, Door(row), site.named, entry # Null)
  ELSE <<EntryStep(entry)>> \o EnvSteps(site, row, IF entry = Null THEN "selected" ELSE "shadowed")

ExplainManaged(site, row) ==
  LET entry == ApiKeysSource(site, row)
      first == <<EntryStep(entry)>> \o
        (IF site.named = Null THEN <<>>
         ELSE <<Step("named", IF entry = Null THEN "selected" ELSE "shadowed")>>)
      saved == site.managed \in {"needs_login", "ready", "cloud"}
      second == first \o <<Step("connection",
                  IF ~saved \/ (site.managed = "needs_login" /\ ~Taken(first)) THEN "absent"
                  ELSE IF Taken(first) THEN "shadowed" ELSE "selected")>>
  IN second \o EnvSteps(site, row, "shadowed") \o
     (IF row.placeholder /\ site.managed # "signed_out"
      THEN <<Step("placeholder", IF Taken(second) THEN "shadowed" ELSE "selected")>> ELSE <<>>)

ExplainAuth(site, row) ==
  CASE site.managed # Null -> ExplainManaged(site, row)
    [] site.managed = Null /\ row.hosted -> ExplainCloud(site, row)
    [] OTHER -> IF row.policy = "oauth" THEN <<StoreStep(site, FALSE)>> ELSE ExplainKeys(site, row)

\* The constructor of a router looks at every entry it is given.
ConstructorRefuses(site, row) ==
  NamedRefused(site, row) \/ \E id \in DOMAIN site.keys : site.keys[id] = "empty"

\* explainAuth refuses what the router refuses; a bad setting is reported.
ExplainRefuses(site, row) ==
  \/ ApiKeysSource(site, row) = "refused" \/ BackendError(site, row)
  \/ row.hosted /\ site.managed = Null /\ SettingError(site, row) = "unknown"

ReportsSettingError(site, row) == row.hosted /\ site.managed = Null /\ SettingError(site, row) # Null

Report(site, row) ==
  IF ExplainRefuses(site, row) THEN [refused |-> TRUE, error |-> FALSE, steps |-> <<>>, address |-> Null]
  ELSE [refused |-> FALSE, error |-> ReportsSettingError(site, row), steps |-> ExplainAuth(site, row),
        address |-> IF site.managed # Null \/ ~row.hosted \/ SettingError(site, row) # Null
                       \/ BaseUrl(site, row) = "later"
                    THEN Null ELSE BaseUrl(site, row)]
=============================================================================
