-------------------------------- MODULE Boot --------------------------------
(***************************************************************************)
(* From patchbay.toml to a listening gateway (config.rs, main.rs, and the  *)
(* constructors of the router, the key store and the server's state): the  *)
(* file is read, its entries are resolved against the environment one by   *)
(* one, and the first defect stops the program.                            *)
(*                                                                         *)
(* Strings are TLA+ strings; which of them are environment-variable names, *)
(* http URLs or socket addresses is given by sets.  The model lists and    *)
(* tag lists of an entry are sets: only membership is ever asked.          *)
(***************************************************************************)
EXTENDS Naturals, SequencesExt

CONSTANTS Files,      \* what may be found: [read, raw]
          Envs,       \* environments: variable -> value
          EnvNames,   \* strings that pass is_valid_env_name
          HttpUrls,   \* strings that start with http:// or https://
          Trimmed,    \* trim_end_matches('/') on them
          Addresses,  \* strings that parse as a SocketAddr
          Unset,      \* std::env::var fails
          NoVar,      \* api_key_env: None
          NoIndex, NoBackend  \* see Router

VARIABLES
  file, environment, \* the inputs, fixed
  stage,             \* where main is
  n,                 \* the entry the loop of this stage is at
  error,             \* [stage, entry, kind] of the error main returned
  backend_names, vk_names, vk_secrets,  \* what the loops have seen
  backends, virtual_keys, policy,       \* GatewayConfig, as far as resolved
  keys               \* KeyStore: secret -> identity

inputVars  == <<file, environment>>
seenVars   == <<backend_names, vk_names, vk_secrets>>
configVars == <<backends, virtual_keys, policy>>
vars == <<inputVars, stage, n, error, seenVars, configVars, keys>>

raw == file.raw

Entries(s) == CASE s = "backends" -> raw.backends
                [] s = "keys"     -> raw.virtual_keys
                [] OTHER          -> <<>>

ConfigErrors ==
  {"NotFound", "Io", "Parse", "InvalidListen", "NoBackends", "EmptyBackendName",
   "DuplicateBackend", "InvalidEnvName", "MissingEnv", "InvalidBaseUrl", "NoModels",
   "EmptyEntry", "EmptyVirtualKeyName", "DuplicateVirtualKey", "InvalidKeyEnvName",
   "MissingKeyEnv", "EmptyVirtualKey", "DuplicateVirtualKeySecret", "InvalidAlpha"}

NoError == [stage |-> "none", entry |-> 0, kind |-> "none"]

(* The lookup closure that load() passes on.                                *)
env(var) == IF var \in DOMAIN environment THEN environment[var] ELSE Unset

(* What serde makes of an entry.                                            *)
BackendEntry ==
  [name: STRING, base_url_env: STRING, api_key_env: STRING \cup {NoVar},
   models: SUBSET STRING, capability_tags: SUBSET STRING,
   privacy: {"Local", "External"}]

KeyEntry == [name: STRING, key_env: STRING, enforce_private: BOOLEAN]

ASSUME BootAssumption ==
  /\ DOMAIN Trimmed = HttpUrls
  /\ \A f \in Files: /\ f.read \in {"NotFound", "Io", "Parse", "Ok"}
                     /\ f.raw.backends \in Seq(BackendEntry)
                     /\ f.raw.virtual_keys \in Seq(KeyEntry)
  /\ Unset \notin HttpUrls
  /\ \A e \in Envs: /\ NoVar \notin DOMAIN e
                    /\ \A var \in DOMAIN e: e[var] # Unset

TypeOK ==
  /\ stage \in {"load", "backends", "keys", "policy", "state", "bind",
                "serving", "failed", "panicked"}
  /\ error.kind \in ConfigErrors \cup {"HttpClient", "Bind", "none"}
  /\ stage \in {"backends", "keys"} => n \in 1..(Len(Entries(stage)) + 1)
  /\ \A i \in DOMAIN backends:
       /\ backends[i].base_url \in {Trimmed[u]: u \in HttpUrls}
       /\ backends[i].privacy \in {"Local", "External"}
  /\ \A i \in DOMAIN virtual_keys: virtual_keys[i].enforce_private \in BOOLEAN
  /\ DOMAIN keys \subseteq vk_secrets

Init ==
  /\ file \in Files /\ environment \in Envs
  /\ stage = "load" /\ n = 1 /\ error = NoError
  /\ backend_names = {} /\ vk_names = {} /\ vk_secrets = {}
  /\ backends = <<>> /\ virtual_keys = <<>> /\ policy = "none"
  /\ keys = <<>>

(* The checks of a stage are in their order, each with the error it         *)
(* returns: the places of those that fail.                                  *)
Failing(checks) == {i \in DOMAIN checks: checks[i][1]}

Fail(kind) ==
  /\ stage' = "failed"
  /\ error' = [stage |-> stage, entry |-> n, kind |-> kind]
  /\ UNCHANGED <<inputVars, n, seenVars, configVars, keys>>

(* The first to fail returns its error; Otherwise is what follows if none   *)
(* does.                                                                    *)
Checked(checks, Otherwise) ==
  IF Failing(checks) # {} THEN Fail(checks[Min(Failing(checks))][2])
                          ELSE Otherwise /\ UNCHANGED <<inputVars, error, keys>>

-----------------------------------------------------------------------------
(* load and the head of from_toml_str.                                      *)
Load ==
  /\ stage = "load"
  /\ IF file.read # "Ok"
     THEN Fail(file.read)
     ELSE Checked(<< <<raw.listen \notin Addresses, "InvalidListen">>,
                     <<raw.backends = <<>>, "NoBackends">> >>,
                  stage' = "backends" /\ UNCHANGED <<n, seenVars, configVars>>)

(* The body of the backend loop, in the order of its early returns.         *)
BackendChecks(b) ==
  << <<b.name = "", "EmptyBackendName">>,
     <<b.name \in backend_names, "DuplicateBackend">>,
     <<b.base_url_env \notin EnvNames, "InvalidEnvName">>,
     <<env(b.base_url_env) = Unset, "MissingEnv">>,
     <<env(b.base_url_env) \notin HttpUrls, "InvalidBaseUrl">>,
     <<b.api_key_env # NoVar /\ b.api_key_env \notin EnvNames, "InvalidEnvName">>,
     <<b.api_key_env # NoVar /\ env(b.api_key_env) = Unset, "MissingEnv">>,
     <<b.models = {}, "NoModels">>,
     <<"" \in b.models, "EmptyEntry">>,
     <<"" \in b.capability_tags, "EmptyEntry">> >>

(* Mutant of Resolved: the URL keeps its trailing slashes.                  *)
ResolvedUntrimmed(b) ==
  [name |-> b.name, base_url |-> env(b.base_url_env), api_key |-> env(b.api_key_env),
   models |-> b.models, capability_tags |-> b.capability_tags,
   privacy |-> b.privacy]

Resolved(b) ==
  [name |-> b.name, base_url |-> Trimmed[env(b.base_url_env)],
   api_key |-> env(b.api_key_env), models |-> b.models,
   capability_tags |-> b.capability_tags, privacy |-> b.privacy]

(* Mutant of PushBackend: the table is built in reverse.                    *)
PushBackendInFront(b) == backends' = <<Resolved(b)>> \o backends

PushBackend(b) == backends' = Append(backends, Resolved(b))

ResolveBackend ==
  LET b == raw.backends[n]
  IN  /\ stage = "backends" /\ n <= Len(raw.backends)
      /\ Checked(BackendChecks(b),
                 /\ backend_names' = backend_names \cup {b.name}
                 /\ PushBackend(b)
                 /\ n' = n + 1
                 /\ UNCHANGED <<stage, vk_names, vk_secrets, virtual_keys, policy>>)

(* Mutant of KeyChecks: the same secret may come twice.                     *)
KeyChecksByName(vk) ==
  << <<vk.name = "", "EmptyVirtualKeyName">>,
     <<vk.name \in vk_names, "DuplicateVirtualKey">>,
     <<vk.key_env \notin EnvNames, "InvalidKeyEnvName">>,
     <<env(vk.key_env) = Unset, "MissingKeyEnv">>,
     <<env(vk.key_env) = "", "EmptyVirtualKey">> >>

(* The body of the virtual-key loop.                                        *)
KeyChecks(vk) ==
  << <<vk.name = "", "EmptyVirtualKeyName">>,
     <<vk.name \in vk_names, "DuplicateVirtualKey">>,
     <<vk.key_env \notin EnvNames, "InvalidKeyEnvName">>,
     <<env(vk.key_env) = Unset, "MissingKeyEnv">>,
     <<env(vk.key_env) = "", "EmptyVirtualKey">>,
     <<env(vk.key_env) \in vk_secrets, "DuplicateVirtualKeySecret">> >>

ResolveKey ==
  LET vk == raw.virtual_keys[n]
  IN  /\ stage = "keys" /\ n <= Len(raw.virtual_keys)
      /\ Checked(KeyChecks(vk),
                 /\ vk_names' = vk_names \cup {vk.name}
                 /\ vk_secrets' = vk_secrets \cup {env(vk.key_env)}
                 /\ virtual_keys' =
                      Append(virtual_keys, [name |-> vk.name, key |-> env(vk.key_env),
                                            enforce_private |-> vk.enforce_private])
                 /\ n' = n + 1
                 /\ UNCHANGED <<stage, backend_names, backends, policy>>)

(* A loop is over: on to the next stage.                                    *)
LoopDone ==
  /\ stage \in {"backends", "keys"} /\ n > Len(Entries(stage))
  /\ stage' = IF stage = "backends" THEN "keys" ELSE "policy"
  /\ n' = 1
  /\ UNCHANGED <<inputVars, error, seenVars, configVars, keys>>

(* Mutant of ValidAlpha: alpha >= 0 for alpha > 0.                          *)
ValidAlphaOrZero(p) == p.kind = "EwmaLatency" => p.alpha \in 0..100

(* The check of the configuration. alpha is in hundredths: in (0, 1], which *)
(* NaN is not.                                                              *)
ValidAlpha(p) == p.kind = "EwmaLatency" => p.alpha \in 1..100

ResolvePolicy ==
  /\ stage = "policy"
  /\ Checked(<< <<~ValidAlpha(raw.policy), "InvalidAlpha">> >>,
             /\ policy' = raw.policy /\ stage' = "state"
             /\ UNCHANGED <<n, seenVars, backends, virtual_keys>>)

-----------------------------------------------------------------------------
(* Mutant of from_virtual_keys: enforce_private is left at its default.     *)
from_virtual_keys_default(vks) ==
  [secret \in {vks[i].key: i \in DOMAIN vks} |->
     LET last == Max({i \in DOMAIN vks: vks[i].key = secret})
     IN  [name |-> vks[last].name, enforce_private |-> FALSE]]

(* KeyStore::from_virtual_keys collects into a map: the last entry wins.    *)
from_virtual_keys(vks) ==
  [secret \in {vks[i].key: i \in DOMAIN vks} |->
     LET last == Max({i \in DOMAIN vks: vks[i].key = secret})
     IN  [name |-> vks[last].name, enforce_private |-> vks[last].enforce_private]]

(* The assertion of EwmaLatency::new, the same check written a second time. *)
AlphaAsserted(p) == p.kind = "EwmaLatency" => p.alpha \in 1..100

(* AppState::from_config: EwmaLatency::new asserts its alpha; building the  *)
(* HTTP client may fail; then the key store is built.                       *)
BuildState ==
  /\ stage = "state"
  /\ \/ /\ ~AlphaAsserted(policy)
        /\ stage' = "panicked"
        /\ UNCHANGED <<inputVars, n, error, seenVars, configVars, keys>>
     \/ AlphaAsserted(policy) /\ Fail("HttpClient")
     \/ /\ AlphaAsserted(policy)
        /\ stage' = "bind"
        /\ keys' = from_virtual_keys(virtual_keys)
        /\ UNCHANGED <<inputVars, n, error, seenVars, configVars>>

(* TcpListener::bind, and axum::serve.                                      *)
Bind ==
  /\ stage = "bind"
  /\ \/ /\ stage' = "serving"
        /\ UNCHANGED <<inputVars, n, error, seenVars, configVars, keys>>
     \/ Fail("Bind")

Next ==
  \/ Load \/ ResolveBackend \/ ResolveKey \/ LoopDone \/ ResolvePolicy
  \/ BuildState \/ Bind

Spec == Init /\ [][Next]_vars /\ WF_vars(Next)

-----------------------------------------------------------------------------
(* What the file has to be like, entry by entry and by position, for the    *)
(* table to be coherent.                                                    *)
GoodVar(var) == var \in EnvNames /\ var \in DOMAIN environment

GoodBackend(i) ==
  LET b == raw.backends[i]
  IN  /\ b.name # "" /\ \A j \in 1..(i - 1): raw.backends[j].name # b.name
      /\ GoodVar(b.base_url_env) /\ environment[b.base_url_env] \in HttpUrls
      /\ b.api_key_env = NoVar \/ GoodVar(b.api_key_env)
      /\ b.models # {} /\ "" \notin b.models \cup b.capability_tags

GoodKey(i) ==
  LET vk == raw.virtual_keys[i]
  IN  /\ vk.name # "" /\ GoodVar(vk.key_env) /\ environment[vk.key_env] # ""
      /\ \A j \in 1..(i - 1):
           /\ raw.virtual_keys[j].name # vk.name
           /\ environment[raw.virtual_keys[j].key_env] # environment[vk.key_env]

(* The gateway comes up only with a file that has no defect, and otherwise  *)
(* stops at the first entry that has one: all that comes before is sound.   *)
(* A defect of the policy is an alpha that EwmaLatency would not take.      *)
FirstDefectReported ==
  LET headSound == raw.listen \in Addresses /\ raw.backends # <<>>
      backendsSound == \A i \in DOMAIN raw.backends: GoodBackend(i)
      keysSound == \A i \in DOMAIN raw.virtual_keys: GoodKey(i)
      first(Good(_)) == /\ ~Good(error.entry)
                        /\ \A i \in 1..(error.entry - 1): Good(i)
  IN  /\ error.stage = "load"     => (file.read = "Ok" => ~headSound)
      /\ error.stage = "backends" => headSound /\ first(GoodBackend)
      /\ error.stage = "keys"     => backendsSound /\ first(GoodKey)
      /\ error.stage = "policy"   => keysSound /\ ~AlphaAsserted(raw.policy)
      /\ stage = "serving"        => /\ headSound /\ backendsSound /\ keysSound
                                     /\ AlphaAsserted(raw.policy)

(* Every virtual key of the file authenticates, as itself and with its own  *)
(* privacy, and nothing else does.                                          *)
EachKeyIsItself ==
  stage = "serving" =>
    /\ DOMAIN keys = {env(raw.virtual_keys[i].key_env): i \in DOMAIN raw.virtual_keys}
    /\ \A i \in DOMAIN raw.virtual_keys:
         LET vk == raw.virtual_keys[i]
         IN  keys[env(vk.key_env)] =
               [name |-> vk.name, enforce_private |-> vk.enforce_private]

(* The policy Router::from_config builds: StaticPriority, or an EwmaLatency *)
(* that nobody feeds, which takes the first of candidates that all score 0. *)
from_config(candidates) == {IF candidates = {} THEN NoIndex ELSE 0}

R == INSTANCE Router WITH BackendTable <- backends, choose <- from_config

(* GET /v1/models.                                                          *)
list_models == UNION {backends[i].models: i \in DOMAIN backends}

(* The router that was built sends each query to the first backend of the   *)
(* file that serves the model and may see the request, at the URL of its    *)
(* environment variable; /v1/models lists what an unmarked query can get.   *)
RoutesAsConfigured ==
  LET models == UNION {raw.backends[i].models: i \in DOMAIN raw.backends}
      may(i, model, private) ==
        /\ model \in raw.backends[i].models
        /\ private => raw.backends[i].privacy = "Local"
      first(model, private) ==
        LET fit == {i \in DOMAIN raw.backends: may(i, model, private)}
        IN  IF fit = {} THEN NoBackend ELSE Min(fit)
  IN  stage = "serving" =>
        /\ list_models = models
        /\ \A model \in models: \A private \in BOOLEAN:
             R!route([model |-> model, required_tags |-> {}], private)
               = {first(model, private)}
        /\ \A i \in DOMAIN raw.backends:
             backends[i].base_url = Trimmed[env(raw.backends[i].base_url_env)]

(* Start-up ends: with a listening gateway or with an error, and never in   *)
(* the panic that EwmaLatency::new leaves to "config validation".           *)
BootDecides == <>(stage \in {"serving", "failed"})
=============================================================================
